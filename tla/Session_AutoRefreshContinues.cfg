\* One request whose access token lapses behind the gateway, and the login
\* before it.
SPECIFICATION Spec
CONSTANTS
  Users = {u1}
  Jti = {j1, j2}
  Requests = {r1, r2}
  None = None
SYMMETRY Symmetry
INVARIANTS
  AutoRefreshContinues
