\* Two handlers register, log in, rotate and log out over three tokens.
SPECIFICATION Spec
CONSTANTS
  Users = {u1}
  Jti = {j1, j2, j3}
  Requests = {r1, r2}
  Ops <- AllOps
  MaxConns = 2
  None = None
SYMMETRY Symmetry
INVARIANTS
  IndInv
  WaitsEnd
  AckedIsDurable
  RotationAtomic
  SpentNeverRefreshes
  RefusedOnlyIfSpent
PROPERTIES
  AtomicSpec
