SPECIFICATION Spec
CONSTANTS
  Methods = {"read_to_end_at"}
  Files <- MCFiles
  Bufs <- MCBufs
  Offsets = {0}
  ChangeSets <- MCNothing
  MaxLen = 2
  AllocMax = 9
CHECK_DEADLOCK FALSE
INVARIANT ReadsAllBytes
