\* Two administrators on one product with two fields.
SPECIFICATION Spec
CONSTANTS
  Products = {p1}
  Fields = {f1, f2}
  Values = {v0, v1}
  Zero = v0
  Requests = {r1, r2}
  None = None
SYMMETRY Symmetry
INVARIANTS
  IndInv
PROPERTIES
  ExactWhenAlone
  RevertsAtMost
  OnlyRacesResurrect
