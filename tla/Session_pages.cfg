\* Overlapping sign-ins and forms, pages left meanwhile, failing preferences.
CONSTANTS
  amy = amy
  ben = ben
  tap1 = tap1
  tap2 = tap2
  Taps = {tap1, tap2}
  Emails = {amy, ben}
  MaxRoutes = 5
  MayFail = TRUE
SPECIFICATION FairSpec
INVARIANTS SuggestionsKept FailureHasReason WrongPageHasReason StaleUserHasReason
PROPERTY OverlayGoes
CHECK_DEADLOCK FALSE
