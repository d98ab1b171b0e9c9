SPECIFICATION MCSpec
CONSTANTS
  Server = {s1, s2, s3}
  Command = {c}
  NoCommand = NoCommand
  NaN = NaN
  Null = Null
  Instances <- ClusterInstances
CHECK_DEADLOCK FALSE
SYMMETRY Symmetry
INVARIANTS
  TypeOK
  NoGrantAfterStanding
  ElectionTimerArmed
  TermFileNotAhead
  NoMessageAheadOfItsSender
  LogWellFormed
  NothingCommitted
PROPERTIES
  ImplementsLifecycle
  LogGrowsOnlyAtLeader
  EmptiedServersOnlyFollow
