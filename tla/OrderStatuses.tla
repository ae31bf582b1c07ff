---------------------------- MODULE OrderStatuses ----------------------------
(* The life of an order: its statuses (services/order/internal/models) and  *)
(* the transitions the service allows (canTransition).                      *)
EXTENDS Naturals

Statuses == {"NEW", "PAID", "SHIPPED", "DONE", "CANCELLED"}

(* A status as a client may send it: any text. *)
SentStatuses == Statuses \cup {"other"}

Allowed == { <<"NEW", "PAID">>, <<"NEW", "CANCELLED">>,
             <<"PAID", "SHIPPED">>, <<"PAID", "CANCELLED">>,
             <<"SHIPPED", "DONE">> }

CanTransition(from, to) == <<from, to>> \in Allowed

(* Every allowed transition climbs, so no status ever comes back. *)
Rank == [s \in Statuses |->
           CASE s = "NEW" -> 0 [] s = "PAID" -> 1 [] s = "SHIPPED" -> 2
             [] s = "DONE" -> 3 [] s = "CANCELLED" -> 4]
=============================================================================
