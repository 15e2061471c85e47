\* Answers in any order, failures, children that arrive late.
CONSTANTS
  amy = amy
  ben = ben
  Roster <- MCRoster
  KnownAtOpen = {0, 1, 2}
  MaxRequests = 6
SPECIFICATION FairSpec
INVARIANT StaleHasReason
PROPERTY Settles
CHECK_DEADLOCK FALSE
