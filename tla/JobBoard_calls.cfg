\* Two concurrent calls; requests fail and replies are lost.
CONSTANTS
  c1 = c1
  c2 = c2
  dishes = dishes
  homework = homework
  swim = swim
  Calls = {c1, c2}
  Keys = {dishes, homework, swim}
  MaxMonth = 2
  MonthOf <- MCMonthOf
  InitialJobs <- MCInitialJobs
  MaxAttempts = 2
  Unreliable = TRUE
SPECIFICATION Spec
INVARIANT RightMonth
PROPERTIES FinishedForGood ImplementsBoard
CHECK_DEADLOCK FALSE
