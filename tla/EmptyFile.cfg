SPECIFICATION Spec
CONSTANTS
  Null = Null
  NaN = NaN
  Absent = Absent
  Self = Self
  Radix = 3
  Slots = {1, 2}
  MaxTerm = 5
  MaxListeners = 4
  MaxBoot = 2
PROPERTY EmptyFileReadsAsNull
CHECK_DEADLOCK FALSE
