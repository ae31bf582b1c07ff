----------------------------- MODULE OrderService -----------------------------
(***************************************************************************)
(* The order service (services/order): customers place and cancel orders,  *)
(* administrators move them through their statuses.  The handlers run      *)
(* concurrently; each SQL statement of a handler is one step.  A status    *)
(* changes by compare-and-set, UPDATE ... WHERE id = ? AND status = ?, and *)
(* a handler whose UPDATE matched no row reads the order again to find out *)
(* why.                                                                    *)
(*                                                                         *)
(* What an order contains and costs is added by module OrderTotal; here a  *)
(* request body is valid or not.                                           *)
(***************************************************************************)
EXTENDS OrderStatuses

CONSTANTS
  Orders,     \* order ids (uuid.New never repeats one)
  Users,      \* authenticated customers
  Requests,   \* handler goroutines that may be in flight together
  None        \* the missing order / user / status

ASSUME NoneAssumption == None \notin Orders \cup Users \cup SentStatuses

VARIABLES
  status,     \* column status of each order, None when it has no row
  owner,      \* column user_id
  req,        \* what each handler goroutine is doing
  passed      \* history: the statuses an order has had

vars == <<status, owner, req, passed>>

(***************************************************************************)
(* A request: its operation and arguments, its next statement (pc), the    *)
(* status it read (prev), its answer (res) and the status shown in the     *)
(* answer (body).  "at" is history: the order's status on arrival.         *)
(***************************************************************************)
Pcs == {"idle", "create_insert",
        "update_read", "update_cas", "update_recheck", "update_reload",
        "cancel_read", "cancel_cas", "cancel_recheck", "cancel_reload",
        "done"}

Answers == {"none", "ok", "validation", "forbidden", "notfound", "conflict",
            "internal"}

Request == [pc: Pcs, op: {"none", "create", "update", "cancel"},
            order: Orders \cup {None}, user: Users \cup {None},
            to: SentStatuses \cup {None}, at: Statuses \cup {None},
            prev: Statuses \cup {None}, res: Answers,
            body: Statuses \cup {None}]

IdleRequest == [pc |-> "idle", op |-> "none", order |-> None, user |-> None,
                to |-> None, at |-> None, prev |-> None, res |-> "none",
                body |-> None]

TypeOK ==
  /\ status \in [Orders -> Statuses \cup {None}]
  /\ owner \in [Orders -> Users \cup {None}]
  /\ req \in [Requests -> Request]
  /\ passed \in [Orders -> SUBSET Statuses]

Init ==
  /\ status = [o \in Orders |-> None]
  /\ owner = [o \in Orders |-> None]
  /\ req = [r \in Requests |-> IdleRequest]
  /\ passed = [o \in Orders |-> {}]

-----------------------------------------------------------------------------
(* Control flow of a handler. *)

Goto(r, label) == req' = [req EXCEPT ![r] = [@ EXCEPT !.pc = label]]

(* Goes on, knowing the order had status s. *)
Choose(r, label, s) ==
  req' = [req EXCEPT ![r] = [@ EXCEPT !.pc = label, !.prev = s]]

Reply(r, code) ==
  req' = [req EXCEPT ![r] = [@ EXCEPT !.pc = "done", !.res = code]]

(* 200 with the order as just read. *)
ReplyOrder(r, current) ==
  req' = [req EXCEPT ![r] =
            [@ EXCEPT !.pc = "done", !.res = "ok", !.body = current]]

(* The row of o gets status s. *)
SetStatus(o, s) ==
  /\ status' = [status EXCEPT ![o] = s]
  /\ passed' = [passed EXCEPT ![o] = @ \cup {s}]

-----------------------------------------------------------------------------
(* POST /orders: validation, then the order and its items are inserted in   *)
(* one transaction.                                                         *)

Create(r, u, validBody) ==
  /\ req[r].pc = "idle"
  /\ req' = [req EXCEPT ![r] =
       [IdleRequest EXCEPT !.op = "create", !.user = u,
          !.pc  = IF validBody THEN "create_insert" ELSE "done",
          !.res = IF validBody THEN "none" ELSE "validation"]]
  /\ UNCHANGED <<status, owner, passed>>

CreateInsert(r, o, acknowledged) ==
  /\ req[r].pc = "create_insert"
  /\ status[o] = None
  /\ SetStatus(o, "NEW")
  /\ owner' = [owner EXCEPT ![o] = req[r].user]
  /\ IF acknowledged THEN ReplyOrder(r, "NEW") ELSE Reply(r, "internal")

-----------------------------------------------------------------------------
(* PATCH /orders/:id by an administrator.                                   *)

Update(r, o, to, isAdmin) ==
  /\ req[r].pc = "idle"
  /\ req' = [req EXCEPT ![r] =
       [IdleRequest EXCEPT !.op = "update", !.order = o, !.to = to,
          !.at  = status[o],
          !.pc  = IF isAdmin THEN "update_read" ELSE "done",
          !.res = IF isAdmin THEN "none" ELSE "forbidden"]]
  /\ UNCHANGED <<status, owner, passed>>

(* Mutant of UpdateRead: canTransition is asked and its answer ignored. *)
UpdateRead_Unchecked(r) ==
  LET current == status[req[r].order] IN
  /\ req[r].pc = "update_read"
  /\ IF current = None THEN Reply(r, "notfound")
                       ELSE Choose(r, "update_cas", current)
  /\ UNCHANGED <<status, owner, passed>>

UpdateRead(r) ==
  LET current == status[req[r].order] IN
  /\ req[r].pc = "update_read"
  /\ \/ current = None /\ Reply(r, "notfound")
     \/ current # None /\ ~CanTransition(current, req[r].to)
          /\ Reply(r, "conflict")
     \/ CanTransition(current, req[r].to)
          /\ Choose(r, "update_cas", current)
  /\ UNCHANGED <<status, owner, passed>>

(* Mutant of UpdateCas: WHERE id = ? alone. *)
UpdateCas_Blind(r, acknowledged) ==
  /\ req[r].pc = "update_cas"
  /\ SetStatus(req[r].order, req[r].to)
  /\ IF acknowledged THEN Goto(r, "update_reload") ELSE Reply(r, "internal")
  /\ UNCHANGED owner

(* UPDATE orders SET status = to WHERE id = ? AND status = prev.  When the
   connection breaks after the commit the handler reports an error. *)
UpdateCas(r, acknowledged) ==
  LET o == req[r].order IN
  /\ req[r].pc = "update_cas"
  /\ IF status[o] = req[r].prev
       THEN /\ SetStatus(o, req[r].to)
            /\ IF acknowledged THEN Goto(r, "update_reload")
                               ELSE Reply(r, "internal")
       ELSE /\ Goto(r, "update_recheck")
            /\ UNCHANGED <<status, passed>>
  /\ UNCHANGED owner

(* Mutant of UpdateRecheck: a lost race is answered with the order as it is. *)
UpdateRecheck_AnyStatus(r) ==
  /\ req[r].pc = "update_recheck"
  /\ ReplyOrder(r, status[req[r].order])
  /\ UNCHANGED <<status, owner, passed>>

UpdateRecheck(r) ==
  LET current == status[req[r].order] IN
  /\ req[r].pc = "update_recheck"
  /\ IF current = req[r].to
       THEN ReplyOrder(r, current)
       ELSE Reply(r, "conflict")
  /\ UNCHANGED <<status, owner, passed>>

UpdateReload(r) ==
  /\ req[r].pc = "update_reload"
  /\ ReplyOrder(r, status[req[r].order])
  /\ UNCHANGED <<status, owner, passed>>

-----------------------------------------------------------------------------
(* POST /orders/:id/cancel by a customer.                                   *)

Cancel(r, o, u) ==
  /\ req[r].pc = "idle"
  /\ req' = [req EXCEPT ![r] =
       [IdleRequest EXCEPT !.op = "cancel", !.order = o, !.user = u,
          !.at = status[o], !.pc = "cancel_read"]]
  /\ UNCHANGED <<status, owner, passed>>

CancelRead(r) ==
  LET o == req[r].order IN
  /\ req[r].pc = "cancel_read"
  /\ \/ status[o] = None /\ Reply(r, "notfound")
     \/ status[o] # None /\ owner[o] # req[r].user /\ Reply(r, "forbidden")
     \/ status[o] \notin {None, "NEW"} /\ owner[o] = req[r].user
          /\ Reply(r, "conflict")
     \/ status[o] = "NEW" /\ owner[o] = req[r].user
          /\ Choose(r, "cancel_cas", "NEW")
  /\ UNCHANGED <<status, owner, passed>>

(* Mutant of CancelCas: WHERE id = ? alone. *)
CancelCas_Blind(r, acknowledged) ==
  /\ req[r].pc = "cancel_cas"
  /\ SetStatus(req[r].order, "CANCELLED")
  /\ IF acknowledged THEN Goto(r, "cancel_reload") ELSE Reply(r, "internal")
  /\ UNCHANGED owner

(* UPDATE orders SET status = 'CANCELLED' WHERE id = ? AND status = 'NEW'. *)
CancelCas(r, acknowledged) ==
  LET o == req[r].order IN
  /\ req[r].pc = "cancel_cas"
  /\ IF status[o] = "NEW"
       THEN /\ SetStatus(o, "CANCELLED")
            /\ IF acknowledged THEN Goto(r, "cancel_reload")
                               ELSE Reply(r, "internal")
       ELSE /\ Goto(r, "cancel_recheck")
            /\ UNCHANGED <<status, passed>>
  /\ UNCHANGED owner

(* Mutant of CancelRecheck: RowsAffected = 0 taken for "already cancelled". *)
CancelRecheck_AnyStatus(r) ==
  /\ req[r].pc = "cancel_recheck"
  /\ ReplyOrder(r, status[req[r].order])
  /\ UNCHANGED <<status, owner, passed>>

(* An order that is not cancelled makes the repository return
   gorm.ErrRecordNotFound, which the service turns into ErrNotFound. *)
CancelRecheck(r) ==
  LET current == status[req[r].order] IN
  /\ req[r].pc = "cancel_recheck"
  /\ IF current = "CANCELLED"
       THEN ReplyOrder(r, current)
       ELSE Reply(r, "notfound")
  /\ UNCHANGED <<status, owner, passed>>

CancelReload(r) ==
  /\ req[r].pc = "cancel_reload"
  /\ ReplyOrder(r, status[req[r].order])
  /\ UNCHANGED <<status, owner, passed>>

-----------------------------------------------------------------------------
(* Answers and failures. *)

(* The answer leaves the handler, whether or not it reaches the client. *)
Answered(r) ==
  /\ req[r].pc = "done"
  /\ req' = [req EXCEPT ![r] = IdleRequest]
  /\ UNCHANGED <<status, owner, passed>>

(* A statement that did not take effect returns an error. *)
Fail(r) ==
  /\ req[r].pc \notin {"idle", "done"}
  /\ Reply(r, "internal")
  /\ UNCHANGED <<status, owner, passed>>

(* The process is killed and restarted: only the rows remain. *)
Crash ==
  /\ \E r \in Requests : req[r].pc # "idle"
  /\ req' = [r \in Requests |-> IdleRequest]
  /\ UNCHANGED <<status, owner, passed>>

(* A request about the status of an order arrives. *)
ArriveForStatus(r) ==
  \/ \E o \in Orders, to \in SentStatuses, admin \in BOOLEAN :
       Update(r, o, to, admin)
  \/ \E o \in Orders, u \in Users : Cancel(r, o, u)

(* ... and one of its statements runs. *)
ServeStatus(r) ==
  \/ UpdateRead(r)
  \/ \E ack \in BOOLEAN : UpdateCas(r, ack)
  \/ UpdateRecheck(r)
  \/ UpdateReload(r)
  \/ CancelRead(r)
  \/ \E ack \in BOOLEAN : CancelCas(r, ack)
  \/ CancelRecheck(r)
  \/ CancelReload(r)

Arrive(r) ==
  \/ \E u \in Users, valid \in BOOLEAN : Create(r, u, valid)
  \/ ArriveForStatus(r)

Serve(r) ==
  \/ \E o \in Orders, ack \in BOOLEAN : CreateInsert(r, o, ack)
  \/ ServeStatus(r)
  \/ Answered(r)

Next ==
  \/ \E r \in Requests : Arrive(r) \/ Serve(r) \/ Fail(r)
  \/ Crash

Spec == Init /\ [][Next]_vars

-----------------------------------------------------------------------------
(* Properties. *)

(***************************************************************************)
(* The service implements AtomicOrders: its read / compare-and-set /       *)
(* re-read sequences look like one atomic step.  A request whose UPDATE    *)
(* has matched is answered "ok" as far as AtomicOrders can tell.           *)
(***************************************************************************)
AnswerOf(r) ==
  CASE req[r].pc = "idle" -> "idle"
    [] req[r].pc = "done" -> req[r].res
    [] req[r].pc \in {"update_reload", "cancel_reload"} -> "ok"
    [] OTHER -> "pending"

CallOf(r) ==
  [op |-> req[r].op, order |-> req[r].order, user |-> req[r].user,
   to |-> req[r].to, at |-> req[r].at, ans |-> AnswerOf(r)]

calls == [r \in Requests |-> CallOf(r)]

Atomic == INSTANCE AtomicOrders WITH call <- calls

AtomicSpec == Atomic!Spec

(* An order's status changes along canTransition only, whoever races. *)
OnlyAllowedMoves ==
  [][\A o \in Orders :
       status'[o] # status[o] =>
         \/ status[o] = None /\ status'[o] = "NEW"
         \/ CanTransition(status[o], status'[o])]_vars

(* A customer's cancellation changes an order only if it is the customer's
   own and still unpaid: a payment that slips in between the read and the
   UPDATE of CancelOrder wins. *)
CustomerCancelsUnpaidOnly ==
  [][\A o \in Orders, r \in Requests :
       status'[o] # status[o] /\ req[r].op = "cancel" /\ req'[r] # req[r]
         => status[o] = "NEW" /\ owner[o] = req[r].user]_vars

(* A customer who is told the order is cancelled never sees it paid for or
   shipped: the answer shows CANCELLED and that is the row. *)
CancelAckTruthful ==
  \A r \in Requests :
    req[r].op = "cancel" /\ req[r].res = "ok" =>
      status[req[r].order] = "CANCELLED" /\ req[r].body = "CANCELLED"

(* An administrator who is told the update took place asked for a status the
   order has had, and is shown that status or one the order has had after. *)
UpdateAckTruthful ==
  \A r \in Requests :
    req[r].op = "update" /\ req[r].res = "ok" =>
      /\ {req[r].to, req[r].body} \subseteq passed[req[r].order]
      /\ Rank[req[r].to] <= Rank[req[r].body]

(***************************************************************************)
(* The inductive invariant behind these: what a handler between two        *)
(* statements still knows of the order it works on.  Statuses only climb,  *)
(* so an order that is no longer at the status read has left it for good.  *)
(***************************************************************************)
Raced == {"update_recheck", "cancel_recheck"}
Chosen == {"update_cas", "cancel_cas"} \cup Raced
UpdatePcs == {"update_read", "update_cas", "update_recheck", "update_reload"}
CancelPcs == {"cancel_read", "cancel_cas", "cancel_recheck", "cancel_reload"}

Climbed(from, to) ==
  from # None => to # None /\ Rank[from] <= Rank[to]

OpAtPc(r) ==
  /\ req[r].pc = "create_insert" => req[r].op = "create" /\ req[r].user # None
  /\ req[r].pc \in UpdatePcs => req[r].op = "update"
  /\ req[r].pc \in CancelPcs => req[r].op = "cancel"
  /\ req[r].op \in {"update", "cancel"} => req[r].order # None
  /\ req[r].op = "update" => req[r].to # None
  /\ req[r].op = "cancel" => req[r].user # None
  /\ req[r].pc \in Chosen => req[r].prev # None
  /\ req[r].pc \in {"update_cas", "update_recheck"} =>
       CanTransition(req[r].prev, req[r].to)
  /\ req[r].pc \in {"cancel_cas", "cancel_recheck"} => req[r].prev = "NEW"
  /\ (req[r].res = "none") = (req[r].pc # "done")

StatusAtPc(r) ==
  LET current == status[req[r].order] IN
  /\ req[r].op \in {"update", "cancel"} => Climbed(req[r].at, current)
  /\ req[r].pc \in Chosen =>
       Climbed(req[r].at, req[r].prev) /\ Climbed(req[r].prev, current)
  /\ req[r].pc \in Raced => current # req[r].prev
  /\ req[r].pc \in {"cancel_cas", "cancel_recheck", "cancel_reload"} =>
       owner[req[r].order] = req[r].user
  /\ req[r].pc = "cancel_reload" => current = "CANCELLED"
  /\ req[r].pc = "update_reload" =>
       /\ req[r].to \in passed[req[r].order]
       /\ Climbed(req[r].to, current)

PassedOK == \A o \in Orders : status[o] # None => status[o] \in passed[o]

IndInv ==
  /\ TypeOK
  /\ PassedOK
  /\ \A r \in Requests : OpAtPc(r) /\ StatusAtPc(r)
  /\ CancelAckTruthful
  /\ UpdateAckTruthful
=============================================================================
