\* Three concurrent calls over a month's end; no request is lost.
CONSTANTS
  c1 = c1
  c2 = c2
  c3 = c3
  Calls = {c1, c2, c3}
  Amounts <- MCAmounts
  InitialPoints <- MCInitialPoints
  MaxMonth = 2
  MaxAttempts = 2
  Unreliable = FALSE
SYMMETRY CallSymmetry
SPECIFICATION Spec
INVARIANTS TypeOK BalanceChain PassbookInCommitOrder AnswerIsTrue FailureHasCause PhantomPerRetry
CHECK_DEADLOCK FALSE
