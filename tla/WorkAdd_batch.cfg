\* Two taps on a form with two dates, calls that fail and lost replies.
CONSTANTS
  monday = monday
  tuesday = tuesday
  Taps = {1, 2}
  Keys = {monday, tuesday}
  MaxDates = 2
  Amounts = {5}
  MaxAttempts = 2
  Unreliable = TRUE
  MayFail = TRUE
SPECIFICATION FairSpec
INVARIANTS DoneMeansAll DuplicatesHaveReason
PROPERTIES BatchEnds
CHECK_DEADLOCK FALSE
