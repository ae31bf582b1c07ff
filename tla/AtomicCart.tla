------------------------------ MODULE AtomicCart ------------------------------
(***************************************************************************)
(* What the cart service promises of one user's cart: every call takes     *)
(* effect at one moment between its arrival and its answer, all of it or   *)
(* nothing.  One that is answered "internal" may have had its effect.      *)
(***************************************************************************)
EXTENDS Naturals

CONSTANTS Products, Requests, Amounts, MaxQty, None

VARIABLES
  qty,        \* units of each product in the cart, 0: no row
  call        \* the call each requester has made, and its answer

(* "old" are the rows a clear has found on arrival and that have lived on,
   "left" the units of the product the answer shows. *)
CallRecord(op, p, n, old, ans) ==
  [op |-> op, prod |-> p, n |-> n, old |-> old, left |-> 0, ans |-> ans]

NoCall == CallRecord("none", None, 0, {}, "idle")

Init ==
  /\ qty = [p \in Products |-> 0]
  /\ call = [r \in Requests |-> NoCall]

InCart == {p \in Products : qty[p] > 0}

-----------------------------------------------------------------------------
(* Arrivals; an invalid body is refused at once. *)

Call(r, c) == call' = [call EXCEPT ![r] = c] /\ UNCHANGED qty

CallAdd(r, p, n) ==
  Call(r, CallRecord("add", p, n, {},
                     IF p = None \/ n = 0 THEN "validation" ELSE "pending"))

CallRemove(r, p) ==
  Call(r, CallRecord("remove", p, 0, {},
                     IF p = None THEN "validation" ELSE "pending"))

CallClear(r) == Call(r, CallRecord("clear", None, 0, InCart, "pending"))

-----------------------------------------------------------------------------
(* Effects and refusals. *)

Pending(r, op) == call[r].ans = "pending" /\ call[r].op = op

Refused(r, code) ==
  /\ call' = [call EXCEPT ![r] = [@ EXCEPT !.ans = code]]
  /\ UNCHANGED qty

(* An effect that has deleted the rows of "gone".  An answer that acknowledges
   it shows the units left at that moment, whatever others do before it is
   sent. *)
Effected(r, gone, left) ==
  \E code \in {"ok", "internal"} :
    call' = [s \in Requests |->
               [call[s] EXCEPT !.old = @ \ gone,
                               !.left = IF s = r /\ code = "ok" THEN left ELSE @,
                               !.ans = IF s = r THEN code ELSE @]]

Add(r) ==
  LET p == call[r].prod
      sum == qty[p] + call[r].n
  IN
  /\ Pending(r, "add")
  /\ sum <= MaxQty
  /\ qty' = [qty EXCEPT ![p] = sum]
  /\ Effected(r, {}, sum)

RemoveOne(r) ==
  LET p == call[r].prod IN
  /\ Pending(r, "remove")
  /\ qty[p] > 0
  /\ qty' = [qty EXCEPT ![p] = @ - 1]
  /\ Effected(r, IF qty[p] = 1 THEN {p} ELSE {}, qty[p] - 1)

NotInCart(r) ==
  /\ Pending(r, "remove")
  /\ qty[call[r].prod] = 0
  /\ Refused(r, "notfound")

(* Rows that came after the call may go or stay. *)
Clear(r, gone) ==
  /\ Pending(r, "clear")
  /\ call[r].old \subseteq gone
  /\ gone \subseteq InCart
  /\ qty' = [p \in Products |-> IF p \in gone THEN 0 ELSE qty[p]]
  /\ Effected(r, gone, 0)

Break(r) == call[r].ans = "pending" /\ Refused(r, "internal")

Return(r) ==
  /\ call[r].ans \notin {"idle", "pending"}
  /\ call' = [call EXCEPT ![r] = NoCall]
  /\ UNCHANGED qty

Crash ==
  /\ call' = [r \in Requests |-> NoCall]
  /\ UNCHANGED qty

Arrive(r) ==
  /\ call[r].ans = "idle"
  /\ \/ \E p \in Products \cup {None}, n \in Amounts : CallAdd(r, p, n)
     \/ \E p \in Products \cup {None} : CallRemove(r, p)
     \/ CallClear(r)

Effect(r) ==
  \/ Add(r) \/ RemoveOne(r) \/ NotInCart(r) \/ Break(r)
  \/ \E gone \in SUBSET InCart : Clear(r, gone)

Next ==
  \/ \E r \in Requests : Arrive(r) \/ Effect(r) \/ Return(r)
  \/ Crash

Spec == Init /\ [][Next]_<<qty, call>>
==============================================================================
