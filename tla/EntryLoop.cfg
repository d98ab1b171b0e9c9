SPECIFICATION LoopSpec
CONSTANTS
  Command = {}
  NoCommand = NoCommand
  NaN = NaN
  MaxLen = 4
  MaxTerm = 3
  MaxBack = 3
CHECK_DEADLOCK FALSE
INVARIANT LoopStoresEntries
