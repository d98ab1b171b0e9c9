SPECIFICATION MCSpec
CONSTANTS
  Server = {s1, s2}
  Command = {}
  NoCommand = NoCommand
  NaN = NaN
  Null = Null
  Instances <- PersistenceInstances
CHECK_DEADLOCK FALSE
SYMMETRY Symmetry
INVARIANT
  PersistBeforeResponding
