SPECIFICATION FairSpec
CONSTANTS
  N = 1
  MCTotal = 2
  Layouts <- MCLayouts
  Ops = {"write_all_at"}
  Gathers = {"iovec"}
  IovMax = 2
  Starts = {0, 2}
  Limits = {4}
  OffsetMax = 5
  Lengths = {0, 1, 2, 4}
  ZeroWrites = TRUE
PROPERTY ZeroWriteEnds
CHECK_DEADLOCK FALSE
