--------------------------- MODULE MCCatalogService ---------------------------
(* Small instances of CatalogService for TLC. *)
EXTENDS CatalogService, TLC

(* Products, fields and handlers are interchangeable; values are not, one of
   them is the zero value. *)
Symmetry == Permutations(Products) \cup Permutations(Fields)
              \cup Permutations(Requests)
===============================================================================
