---------------------------- MODULE MCOrderService ----------------------------
(* Small instances of OrderTotal, and with it of OrderService, for TLC:      *)
(* 5-bit int64, 4-bit integer columns.                                       *)
EXTENDS OrderTotal, TLC

(* Orders, customers and handlers are interchangeable. *)
Symmetry == Permutations(Orders) \cup Permutations(Users)
              \cup Permutations(Requests)

Of(quantity, price) ==
  [product |-> TRUE, quantity |-> quantity, price |-> price]

MCBodies ==
  { <<Of(7, 2), Of(1, 1)>>,     \* costs the largest int64
    <<Of(1, 0)>>,               \* is free
    <<Of(7, 5)>>,               \* wraps around to a number that is stored
    <<Of(3, 7)>>,               \* has a line that wraps to a negative one
    <<Of(1, 10), Of(1, 10)>>,   \* has lines that fit and a sum that wraps
    <<Of(8, 1)>>,               \* wants more than the column can hold
    <<>>,
    <<Of(1, 1), Of(0, 1)>>,
    <<Of(1, -1)>>,
    <<[Of(1, 1) EXCEPT !.product = FALSE]>> }
==============================================================================
