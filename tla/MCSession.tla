------------------------------- MODULE MCSession -------------------------------
EXTENDS Session, FiniteSets, TLC

Symmetry == Permutations(Jti) \cup Permutations(Requests)

(* At most two access tokens and one refresh token run out: a third would
   leave no pair of this instance to compare with. *)
FewRunOut == Cardinality(lapsed) <= 2 /\ Cardinality(expired) <= 1
===============================================================================
