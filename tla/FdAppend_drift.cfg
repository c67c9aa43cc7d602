SPECIFICATION Spec
CONSTANTS
  Users = {u1, u2}
  Old = Old
  Hole = Hole
  MaxLen = 3
  BufLens = {1}
  SeekTargets = {0}
  InitialFiles <- MCOneByte
  InitialFlags <- MCPlainFlags
  SettableTo <- MCNone
  Modes <- MCUndisciplined
  OthersWrite = FALSE
  AttrMayChange = FALSE
INVARIANT RestoredAtRest
SYMMETRY MCSymmetry
