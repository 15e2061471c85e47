\* Two concurrent calls; gets fail, commits fail, replies are lost.
CONSTANTS
  c1 = c1
  c2 = c2
  c3 = c3
  Calls = {c1, c2}
  Amounts = {2}
  InitialPoints <- MCInitialPoints
  MaxMonth = 1
  MaxAttempts = 2
  Unreliable = TRUE
SPECIFICATION FairSpec
INVARIANTS CommitsRecorded
PROPERTIES PassbookAppendOnly CallsEnd ImplementsAccount
CHECK_DEADLOCK FALSE
