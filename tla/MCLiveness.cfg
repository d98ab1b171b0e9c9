SPECIFICATION MCFairSpec
CONSTANTS
  Server = {s1, s2}
  Command = {}
  NoCommand = NoCommand
  NaN = NaN
  Null = Null
  Instances <- LivenessInstances
CHECK_DEADLOCK FALSE
PROPERTY
  LeaderTermSpreads
