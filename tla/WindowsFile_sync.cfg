SPECIFICATION Spec
CONSTANTS
  Users = {u1}
  Old = Old
  Hole = Hole
  MaxLen = 2
  Objects = {o1, o2}
  Setups <- MCSyncSetups
  Requests <- MCRequests
  Callers = {u1}
  Offsets = {0}
  Layouts <- MCOneSlice
  InitialFiles <- MCOneByte
INVARIANT SyncedWrites
SYMMETRY MCSymmetry
