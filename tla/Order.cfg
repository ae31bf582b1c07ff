\* Two handlers racing for one order of one of two customers, with bodies on
\* both sides of every bound.
SPECIFICATION BilledSpec
CONSTANTS
  Orders = {o1}
  Users = {u1, u2}
  Requests = {r1, r2}
  None = None
  Int64Max = 15
  Int32Max = 7
  Bodies <- MCBodies
SYMMETRY Symmetry
INVARIANTS
  IndInv
  BillInv
  CancelAckTruthful
  UpdateAckTruthful
  CreateAckTruthful
  StoredTotalExact
  RightAnswer
PROPERTIES
  AtomicSpec
  OnlyAllowedMoves
  CustomerCancelsUnpaidOnly
