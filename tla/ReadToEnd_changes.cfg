SPECIFICATION FairSpec
CONSTANTS
  Methods = {"read_to_end_at", "read_to_string_at"}
  Files <- MCFiles
  Bufs <- MCBufs
  Offsets = {0, 1, 3}
  ChangeSets <- MCAnything
  MaxLen = 2
  AllocMax = 3
INVARIANTS TypeOK Snapshot EofOnlyIfShrunk BytesWereThere StringStaysUtf8 StringUntouchedOnError
PROPERTY Terminates
CHECK_DEADLOCK FALSE
