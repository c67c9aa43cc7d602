SPECIFICATION Spec
CONSTANTS
  Users = {u1, u2}
  Old = Old
  Hole = Hole
  MaxLen = 3
  BufLens = {2}
  SeekTargets = {0}
  InitialFiles <- MCOneByte
  InitialFlags <- MCAppendFlags
  SettableTo <- MCSetAppend
  Modes <- MCUndisciplined
  OthersWrite = TRUE
  AttrMayChange = TRUE
INVARIANTS AppendModeKept NeverPanics
PROPERTY AppendsAtEnd
SYMMETRY MCSymmetry
