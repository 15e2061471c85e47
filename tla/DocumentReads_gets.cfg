\* Two gets of one document, a connection that breaks, a server that refuses.
CONSTANTS
  passbook = passbook
  first = first
  second = second
  Docs = {passbook}
  Gets = {first, second}
  MaxVersion = 1
  MaxBreaks = 1
  MaxRejects = 1
SPECIFICATION FairSpec
INVARIANTS AssertsHold AnsweredOnce ServerAnswerIsFresh WaitIsBounded
PROPERTY GetsEnd
CHECK_DEADLOCK FALSE
