\* A browser with two exchanges in flight over three pairs of tokens.
SPECIFICATION Spec
CONSTANTS
  Users = {u1}
  Jti = {j1, j2, j3}
  Requests = {r1, r2}
  None = None
SYMMETRY Symmetry
CONSTRAINT FewRunOut
INVARIANTS
  IndInv
  AckedLogoutDead
  UsableDroppedOnlyIfExcused
