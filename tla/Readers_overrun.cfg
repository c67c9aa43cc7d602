SPECIFICATION Spec
CONSTANTS
  Trees <- MCPositioned
  Files <- MCFiles
  MaxArrived = 3
  MaxLen = 3
  Sizes = {1, 3}
  U64Max = 15
INVARIANT NeverPanics
CHECK_DEADLOCK FALSE
