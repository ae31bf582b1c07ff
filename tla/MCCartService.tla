---------------------------- MODULE MCCartService ----------------------------
(* Small instances of CartService for TLC. *)
EXTENDS CartService, TLC

(* Products and handlers are interchangeable. *)
Symmetry == Permutations(Requests) \cup Permutations(Products)
==============================================================================
