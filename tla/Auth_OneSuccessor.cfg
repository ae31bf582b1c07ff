SPECIFICATION Spec
CONSTANTS
  Users = {u1}
  Jti = {j1, j2, j3}
  Requests = {r1, r2}
  Ops <- RotationOps
  MaxConns = 2
  None = None
INVARIANTS
  OneSuccessor
