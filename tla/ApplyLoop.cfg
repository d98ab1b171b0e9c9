SPECIFICATION FairSpec
CONSTANTS
  Buffer = {b1, b2, b3}
  MaxIndex = 2
  MaxCalls = 3
CHECK_DEADLOCK FALSE
INVARIANTS
  ApplyTypeOK
  AppliedWasExecuted
  ExecutedInOrder
  NoCallGoesBack
  AnsweredOnce
PROPERTIES
  CatchesUp
  ClientsAreAnswered
