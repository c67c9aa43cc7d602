SPECIFICATION Spec
CONSTANTS
  Trees <- MCTrees
  Files <- MCFiles
  MaxArrived = 2
  MaxLen = 3
  Sizes = {1, 3}
  U64Max = 15
INVARIANTS TypeOK ReadyDoesNotBlock PanicIsOverrun
PROPERTIES PeekIsReread PeekedIsReady
CHECK_DEADLOCK FALSE
