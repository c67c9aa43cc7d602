SPECIFICATION Spec
CONSTANTS
  Users = {u1, u2}
  Old = Old
  Hole = Hole
  MaxLen = 3
  BufLens = {0, 2}
  SeekTargets = {0, 3}
  InitialFiles <- MCFiles
  InitialFlags <- MCOpenFlags
  SettableTo <- MCSetAny
  Modes <- MCDisciplined
  OthersWrite = TRUE
  AttrMayChange = FALSE
INVARIANT TypeOK
PROPERTIES AppendsAtEnd KeepsPromise
SYMMETRY MCSymmetry
