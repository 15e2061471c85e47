\* Two devices, a double tap on one of them, one open chore or two alike, calls
\* that fail, lost replies and an app that may be killed.
CONSTANTS
  d1 = d1
  d2 = d2
  dishes = dishes
  Devices = {d1, d2}
  Taps <- MCTaps
  Keys = {dishes}
  Points <- MCPoints
  InitialOpen = {1, 2}
  MaxTaps = 2
  MaxAttempts = 2
  Unreliable = TRUE
  MayFail = TRUE
  MayCrash = TRUE
SPECIFICATION FairSpec
INVARIANTS UnpaidHasReason OverpaidHasReason SpinnerHasReason
PROPERTIES ConfirmedGetsPaid
CHECK_DEADLOCK FALSE
