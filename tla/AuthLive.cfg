\* Handlers that contend for a row lock and the last pool connection.
\* No symmetry: the property is a liveness property.
SPECIFICATION FairSpec
CONSTANTS
  Users = {u1}
  Jti = {j1, j2}
  Requests = {r1, r2}
  Ops <- TokenOps
  MaxConns = 2
  None = None
PROPERTIES
  EveryRequestAnswered
