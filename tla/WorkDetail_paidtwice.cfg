\* Two devices, one open chore; no call fails.
CONSTANTS
  d1 = d1
  d2 = d2
  dishes = dishes
  Devices = {d1, d2}
  Taps <- MCTaps
  Keys = {dishes}
  Points <- MCPoints
  InitialOpen = {1}
  MaxTaps = 2
  MaxAttempts = 1
  Unreliable = FALSE
  MayFail = FALSE
  MayCrash = FALSE
SPECIFICATION Spec
INVARIANT PaidOnlyWhenFinished
CHECK_DEADLOCK FALSE
