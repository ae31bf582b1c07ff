\* A login and a request whose access token has expired by the time it comes.
SPECIFICATION Spec
CONSTANTS
  Users = {u1}
  Jti = {j1, j2}
  Requests = {r1, r2}
  None = None
SYMMETRY Symmetry
PROPERTIES
  ExpiredTokenIsRenewed
