----------------------------- MODULE AtomicOrders -----------------------------
(***************************************************************************)
(* What the order service promises: every request takes effect at one      *)
(* moment between its arrival and its answer.  A request is refused for    *)
(* what the order is at that moment, or because somebody else moved the    *)
(* order while the request was in flight.                                  *)
(***************************************************************************)
EXTENDS OrderStatuses

CONSTANTS Orders, Users, Requests, None

VARIABLES
  status,     \* status of each order, None before it is placed
  owner,      \* the customer who placed it
  call        \* the call each requester has made, and its answer

CallRecord(op, o, u, to, at, ans) ==
  [op |-> op, order |-> o, user |-> u, to |-> to, at |-> at, ans |-> ans]

NoCall == CallRecord("none", None, None, None, None, "idle")

Init ==
  /\ status = [o \in Orders |-> None]
  /\ owner = [o \in Orders |-> None]
  /\ call = [r \in Requests |-> NoCall]

Answer(r, code) == call' = [call EXCEPT ![r] = [@ EXCEPT !.ans = code]]

Call(r, c) ==
  /\ call[r].ans = "idle"
  /\ call' = [call EXCEPT ![r] = c]
  /\ UNCHANGED <<status, owner>>

(* An invalid body is refused at once, and so is a status sent by somebody
   who is no administrator.  "at" is the status of the order on arrival. *)
CallCreate(r, u, refused) ==
  Call(r, CallRecord("create", None, u, None, None,
                     IF refused THEN "validation" ELSE "pending"))

CallUpdate(r, o, to, refused) ==
  Call(r, CallRecord("update", o, None, to, status[o],
                     IF refused THEN "forbidden" ELSE "pending"))

CallCancel(r, o, u) ==
  Call(r, CallRecord("cancel", o, u, None, status[o], "pending"))

Pending(r, op) == call[r].ans = "pending" /\ call[r].op = op

Place(r, o) ==
  /\ Pending(r, "create")
  /\ status[o] = None
  /\ status' = [status EXCEPT ![o] = "NEW"]
  /\ owner' = [owner EXCEPT ![o] = call[r].user]
  /\ Answer(r, "ok") \/ Answer(r, "internal")

Move(r) ==
  /\ Pending(r, "update")
  /\ CanTransition(status[call[r].order], call[r].to)
  /\ status' = [status EXCEPT ![call[r].order] = call[r].to]
  /\ Answer(r, "ok") \/ Answer(r, "internal")
  /\ UNCHANGED owner

(* The customer's own order, and only before it is paid. *)
CancelOwn(r) ==
  /\ Pending(r, "cancel")
  /\ status[call[r].order] = "NEW"
  /\ owner[call[r].order] = call[r].user
  /\ status' = [status EXCEPT ![call[r].order] = "CANCELLED"]
  /\ Answer(r, "ok") \/ Answer(r, "internal")
  /\ UNCHANGED owner

Moved(r) == status[call[r].order] # call[r].at

(* Somebody else has meanwhile done what was asked for. *)
AlreadyDone(r) ==
  /\ \/ Pending(r, "update") /\ status[call[r].order] = call[r].to
     \/ Pending(r, "cancel") /\ status[call[r].order] = "CANCELLED"
  /\ Moved(r)
  /\ Answer(r, "ok")
  /\ UNCHANGED <<status, owner>>

RefuseUpdate(r) ==
  LET s == status[call[r].order] IN
  /\ Pending(r, "update")
  /\ \/ s = None /\ Answer(r, "notfound")
     \/ s # None /\ (~CanTransition(s, call[r].to) \/ Moved(r))
          /\ Answer(r, "conflict")
  /\ UNCHANGED <<status, owner>>

(* "notfound" for an order that exists is answered only to a customer whose
   cancellation lost a race. *)
RefuseCancel(r) ==
  LET o == call[r].order IN
  /\ Pending(r, "cancel")
  /\ \/ status[o] = None /\ Answer(r, "notfound")
     \/ status[o] # None /\ owner[o] # call[r].user /\ Answer(r, "forbidden")
     \/ status[o] \notin {None, "NEW"} /\ owner[o] = call[r].user
          /\ (Answer(r, "conflict") \/ (Moved(r) /\ Answer(r, "notfound")))
  /\ UNCHANGED <<status, owner>>

(* The service fails before or after the effect. *)
Break(r) ==
  /\ call[r].ans \in {"pending", "ok"}
  /\ Answer(r, "internal")
  /\ UNCHANGED <<status, owner>>

Return(r) ==
  /\ call[r].ans \notin {"idle", "pending"}
  /\ call' = [call EXCEPT ![r] = NoCall]
  /\ UNCHANGED <<status, owner>>

Crash ==
  /\ call' = [r \in Requests |-> NoCall]
  /\ UNCHANGED <<status, owner>>

Next ==
  \/ \E r \in Requests :
       \/ \E u \in Users, refused \in BOOLEAN : CallCreate(r, u, refused)
       \/ \E o \in Orders, to \in SentStatuses, refused \in BOOLEAN :
            CallUpdate(r, o, to, refused)
       \/ \E o \in Orders, u \in Users : CallCancel(r, o, u)
       \/ \E o \in Orders : Place(r, o)
       \/ Move(r) \/ CancelOwn(r) \/ AlreadyDone(r)
       \/ RefuseUpdate(r) \/ RefuseCancel(r) \/ Break(r) \/ Return(r)
  \/ Crash

Spec == Init /\ [][Next]_<<status, owner, call>>
=============================================================================
