\* One page with three requests in flight.  In the fullest states no token is
\* left to mint, and the request waits for the next answer.
SPECIFICATION Spec
CONSTANTS
  Pages = {p1}
  Requests = {r1, r2, r3}
  Tokens = {t1, t2, t3, t4, t5}
  None = None
SYMMETRY Symmetry
INVARIANTS
  IndInv
  RefusedOnlyAfterSplit
PROPERTIES
  AgreementLasts
