SPECIFICATION FairSpec
CONSTANTS
  N = 4
  MCTotal = 4
  Layouts <- MCLayouts
  Ops = {"read_exact_vectored", "read_exact_vectored_at", "write_all_vectored", "write_all_vectored_at", "append_all_vectored", "write_all_at", "append_all"}
  Gathers = {"iovec", "first"}
  IovMax = 2
  Starts = {0, 2}
  Limits = {4, 9}
  OffsetMax = 5
  Lengths = {0, 1, 2, 4}
  ZeroWrites = FALSE
INVARIANTS TypeOK TrimInBounds PendingIsRest InOrder OkIsComplete EofIsReal OffsetFits OverflowIsReal
PROPERTY Terminates
CHECK_DEADLOCK FALSE
