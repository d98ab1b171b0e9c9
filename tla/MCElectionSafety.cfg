SPECIFICATION MCSpec
CONSTANTS
  Server = {s1, s2, s3}
  Command = {}
  NoCommand = NoCommand
  NaN = NaN
  Null = Null
  Instances <- ElectionSafetyInstances
CHECK_DEADLOCK FALSE
SYMMETRY Symmetry
INVARIANT
  ElectionSafety
