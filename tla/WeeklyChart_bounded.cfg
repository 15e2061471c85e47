\* Every list of up to three chores, at the ends of the weeks and of the month.
CONSTANTS
  work = work
  house = house
  redeemed = redeemed
  WorkTypes = {work, house}
  OtherTypes = {redeemed}
  Days = {1, 7, 8, 28, 29, 31}
  MaxJobs = 3
SPECIFICATION ChartSpec
INVARIANTS ChartIsExact BarsOnAxis
CHECK_DEADLOCK FALSE
