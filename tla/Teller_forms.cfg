\* Both forms, two taps, two confirmations, calls that fail and lost replies.
CONSTANTS
  Taps = {1, 2}
  Typed <- MCTyped
  InitialPoints = {0, 2}
  MaxAttempts = 2
  Unreliable = TRUE
  MaxShows = 2
  MayFail = TRUE
SPECIFICATION FairSpec
INVARIANTS OncePerConfirmation DeepPopHasReason ToldIsTrue
PROPERTIES ConfirmationEnds
CHECK_DEADLOCK FALSE
