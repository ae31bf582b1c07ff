\* Three rows in pages of one and two, ints of four bits.
SPECIFICATION Spec
CONSTANTS
  Items = {i1, i2, i3}
  MaxRank = 3
  Pages <- MCPages
  Sizes <- MCSizes
  DefaultPageSize = 1
  MaxPageSize = 2
  IntModulus = 16
SYMMETRY Symmetry
INVARIANTS
  IndInv
  RepeatedOnlyAfterInsertion
  MissedOnlyAfterDeletion
  PageTruthful
