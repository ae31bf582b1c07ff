\* Two handlers, two products: a DELETE that locks its rows one by one.
\* No symmetry: one of the properties is a liveness property.
SPECIFICATION FairSpec
CONSTANTS
  Products = {p1, p2}
  Requests = {r1, r2}
  Amounts = {0, 1, 3}
  MaxQty = 2
  MaxConns = 2
  None = None
INVARIANTS
  UnitsConserved
  WaitsEnd
  ClearIsThorough
  IndInv
PROPERTIES
  AtomicSpec
  EveryRequestAnswered
