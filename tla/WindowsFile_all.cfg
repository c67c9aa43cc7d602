SPECIFICATION Spec
CONSTANTS
  Users = {u1, u2}
  Old = Old
  Hole = Hole
  MaxLen = 3
  Objects = {o1, o2, o3, o4}
  Setups <- MCSetups
  Requests <- MCRequests
  Callers = {u1}
  Offsets = {0, 1}
  Layouts <- MCLayouts
  InitialFiles <- MCFiles
INVARIANTS TypeOK FlagsInForce KeepsCapability ProbeBetween MovedInOrder
PROPERTIES PositionKept KeepsPromise
SYMMETRY MCSymmetry
