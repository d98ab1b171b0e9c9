SPECIFICATION MCSpec
CONSTANTS
  Server = {s1, s2}
  Command = {c}
  NoCommand = NoCommand
  NaN = NaN
  Null = Null
  Instances <- SentinelInstances
CHECK_DEADLOCK FALSE
SYMMETRY Symmetry
INVARIANT
  SentinelKept
