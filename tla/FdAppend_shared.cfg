SPECIFICATION Spec
CONSTANTS
  Users = {u1, u2, u3}
  Old = Old
  Hole = Hole
  MaxLen = 1
  BufLens = {1}
  SeekTargets = {0}
  InitialFiles <- MCOneByte
  InitialFlags <- MCPlainFlags
  SettableTo <- MCNone
  Modes <- MCEither
  OthersWrite = TRUE
  AttrMayChange = TRUE
INVARIANT OnlyAppendDrifts
PROPERTY AfterPanicOnlyAppends
CHECK_DEADLOCK FALSE
SYMMETRY MCSymmetry
