----------------------------- MODULE CartService -----------------------------
(***************************************************************************)
(* The cart service (services/cart): one user's cart, worked on by         *)
(* concurrent handlers (several tabs, retries).  Rows of different users   *)
(* share nothing but the connection pool.                                  *)
(*                                                                         *)
(* AddToCart and DeleteOneFromCart are explicit transactions, DeleteAll is *)
(* one DELETE.  Each SQL statement is a step; an UPDATE, a DELETE and a    *)
(* SELECT ... FOR UPDATE take the row lock, an INSERT reserves its key in  *)
(* the unique index, and all of it is visible to others at COMMIT only.    *)
(***************************************************************************)
EXTENDS Naturals, FiniteSets

CONSTANTS
  Products,   \* product ids
  Requests,   \* handler goroutines that may be in flight together
  Amounts,    \* quantities clients send
  MaxQty,     \* largest integer column: 2^31 - 1 in the code
  MaxConns,   \* SetMaxOpenConns of the database pool
  None        \* the missing product (uuid.Nil) / handler

ASSUME NoneAssumption     == None \notin Products \cup Requests
ASSUME AmountsAssumption  == Amounts \subseteq Nat /\ MaxQty \in Nat \ {0}
ASSUME ConnsAssumption    == MaxConns \in Nat \ {0}

VARIABLES
  qty,        \* column quantity of the committed row of a product, 0: no row
  lock,       \* handler whose open transaction has the row or the key, or None
  req,        \* what each handler goroutine is doing
  ledger      \* history: units added less units removed since the row began

vars == <<qty, lock, req, ledger>>

(***************************************************************************)
(* A request: its operation and arguments, its next statement (pc), the    *)
(* quantity its transaction has read or written and its answer shows       *)
(* (val), the rows a DELETE has still to lock (want), the one it is at     *)
(* (next), and its answer (res).  "old" is history: the rows of the cart   *)
(* on arrival that have lived on since.                                    *)
(***************************************************************************)
Pcs == {"idle", "add_begin", "add_update", "add_insert", "add_commit",
        "rem_begin", "rem_lock", "rem_commit", "clear_scan", "clear_lock",
        "done"}

Answers == {"none", "ok", "validation", "notfound", "internal"}

Request == [pc: Pcs, op: {"none", "add", "remove", "clear"},
            prod: Products \cup {None}, n: Amounts \cup {0},
            val: 0..MaxQty, want: SUBSET Products,
            next: Products \cup {None}, old: SUBSET Products,
            res: Answers]

IdleRequest == [pc |-> "idle", op |-> "none", prod |-> None, n |-> 0,
                val |-> 0, want |-> {}, next |-> None, old |-> {}, res |-> "none"]

TypeOK ==
  /\ qty \in [Products -> 0..MaxQty]
  /\ lock \in [Products -> Requests \cup {None}]
  /\ req \in [Requests -> Request]
  /\ ledger \in [Products -> Nat]

Init ==
  /\ qty = [p \in Products |-> 0]
  /\ lock = [p \in Products |-> None]
  /\ req = [r \in Requests |-> IdleRequest]
  /\ ledger = [p \in Products |-> 0]

-----------------------------------------------------------------------------
(* Control flow of a handler. *)

Goto(r, label) == req' = [req EXCEPT ![r] = [@ EXCEPT !.pc = label]]

(* Goes on, the transaction having read or written quantity q. *)
Choose(r, label, q) ==
  req' = [req EXCEPT ![r] = [@ EXCEPT !.pc = label, !.val = q]]

Reply(r, code) ==
  req' = [req EXCEPT ![r] = [@ EXCEPT !.pc = "done", !.res = code]]

(* The answer after COMMIT, which shows the units left in the row; the rows of
   "gone" were deleted, and a DELETE that still waits for one of them will find
   it dead. *)
ReplyCommit(r, gone, left, acknowledged) ==
  req' = [s \in Requests |->
            IF s = r
              THEN [req[r] EXCEPT !.pc = "done", !.val = left, !.old = @ \ gone,
                      !.res = IF acknowledged THEN "ok" ELSE "internal"]
              ELSE [req[s] EXCEPT !.want = @ \ gone, !.old = @ \ gone]]

HoldsConn(r) ==
  req[r].pc \in {"add_update", "add_insert", "add_commit", "rem_lock",
                 "rem_commit", "clear_lock"}

FreeConn == Cardinality({r \in Requests : HoldsConn(r)}) < MaxConns

TakeLock(r, p) == lock' = [lock EXCEPT ![p] = r]

(* Mutant of ReleaseLocks: a path that leaves its transaction open. *)
ReleaseLocks_Leaked(r) == UNCHANGED lock

ReleaseLocks(r) ==
  lock' = [p \in Products |-> IF lock[p] = r THEN None ELSE lock[p]]

-----------------------------------------------------------------------------
(* POST /cart: in a transaction, UPDATE quantity = quantity + n; when there *)
(* is no row, INSERT one.                                                   *)

AddToCart(r, p, n) ==
  /\ req[r].pc = "idle"
  /\ req' = [req EXCEPT ![r] =
       [IdleRequest EXCEPT !.op = "add", !.prod = p, !.n = n,
          !.pc  = IF p = None \/ n = 0 THEN "done" ELSE "add_begin",
          !.res = IF p = None \/ n = 0 THEN "validation" ELSE "none"]]
  /\ UNCHANGED <<qty, lock, ledger>>

AddBegin(r) ==
  /\ req[r].pc = "add_begin"
  /\ FreeConn
  /\ Goto(r, "add_update")
  /\ UNCHANGED <<qty, lock, ledger>>

(* Mutant of AddUpdate: the sum is computed in the service from a plain
   SELECT, without the row lock. *)
AddUpdate_Unlocked(r) ==
  LET p == req[r].prod IN
  /\ req[r].pc = "add_update"
  /\ \/ qty[p] = 0 /\ Goto(r, "add_insert")
     \/ /\ qty[p] > 0
        /\ qty[p] + req[r].n <= MaxQty
        /\ Choose(r, "add_commit", qty[p] + req[r].n)
  /\ UNCHANGED <<qty, lock, ledger>>

(* A row another transaction has updated is waited for; a row another
   transaction has only inserted is not seen.  A sum that does not fit the
   column is an error and rolls back. *)
AddUpdate(r) ==
  LET p == req[r].prod
      sum == qty[p] + req[r].n
  IN
  /\ req[r].pc = "add_update"
  /\ \/ qty[p] = 0 /\ Goto(r, "add_insert") /\ UNCHANGED lock
     \/ qty[p] > 0 /\ lock[p] = None /\ sum <= MaxQty
          /\ Choose(r, "add_commit", sum) /\ TakeLock(r, p)
     \/ qty[p] > 0 /\ lock[p] = None /\ sum > MaxQty
          /\ Reply(r, "internal") /\ UNCHANGED lock
  /\ UNCHANGED <<qty, ledger>>

(* Mutant of AddInsert: ON CONFLICT DO NOTHING. *)
AddInsert_DoNothing(r) ==
  LET p == req[r].prod IN
  /\ req[r].pc = "add_insert"
  /\ \/ qty[p] = 0 /\ req[r].n > MaxQty /\ Reply(r, "internal") /\ UNCHANGED lock
     \/ qty[p] > 0 /\ Reply(r, "ok") /\ UNCHANGED lock
     \/ qty[p] = 0 /\ lock[p] = None /\ req[r].n <= MaxQty
          /\ Choose(r, "add_commit", req[r].n) /\ TakeLock(r, p)
  /\ UNCHANGED <<qty, ledger>>

(* Mutant of AddInsert: the INSERT is sent through r.DB, the pool. *)
AddInsert_OnPool(r) ==
  LET p == req[r].prod IN
  /\ req[r].pc = "add_insert"
  /\ FreeConn
  /\ \/ (qty[p] > 0 \/ req[r].n > MaxQty)
          /\ Reply(r, "internal") /\ UNCHANGED lock
     \/ qty[p] = 0 /\ lock[p] = None /\ req[r].n <= MaxQty
          /\ Choose(r, "add_commit", req[r].n) /\ TakeLock(r, p)
  /\ UNCHANGED <<qty, ledger>>

(* A row committed since the UPDATE violates the unique index; a key another
   transaction has reserved is waited for. *)
AddInsert(r) ==
  LET p == req[r].prod IN
  /\ req[r].pc = "add_insert"
  /\ \/ (qty[p] > 0 \/ req[r].n > MaxQty)
          /\ Reply(r, "internal") /\ UNCHANGED lock
     \/ qty[p] = 0 /\ lock[p] = None /\ req[r].n <= MaxQty
          /\ Choose(r, "add_commit", req[r].n) /\ TakeLock(r, p)
  /\ UNCHANGED <<qty, ledger>>

AddCommit(r, acknowledged) ==
  /\ req[r].pc = "add_commit"
  /\ qty' = [qty EXCEPT ![req[r].prod] = req[r].val]
  /\ ledger' = [ledger EXCEPT ![req[r].prod] = @ + req[r].n]
  /\ ReleaseLocks(r)
  /\ ReplyCommit(r, {}, req[r].val, acknowledged)

-----------------------------------------------------------------------------
(* DELETE /cart/items: in a transaction, SELECT ... FOR UPDATE, then UPDATE *)
(* quantity = quantity - 1, or DELETE when it was the last unit.            *)

DeleteOneFromCart(r, p) ==
  /\ req[r].pc = "idle"
  /\ req' = [req EXCEPT ![r] =
       [IdleRequest EXCEPT !.op = "remove", !.prod = p,
          !.pc  = IF p = None THEN "done" ELSE "rem_begin",
          !.res = IF p = None THEN "validation" ELSE "none"]]
  /\ UNCHANGED <<qty, lock, ledger>>

RemoveBegin(r) ==
  /\ req[r].pc = "rem_begin"
  /\ FreeConn
  /\ Goto(r, "rem_lock")
  /\ UNCHANGED <<qty, lock, ledger>>

(* Mutant of RemoveLock: a plain SELECT, without clause.Locking. *)
RemoveLock_Plain(r) ==
  LET p == req[r].prod IN
  /\ req[r].pc = "rem_lock"
  /\ IF qty[p] = 0 THEN Reply(r, "notfound")
                   ELSE Choose(r, "rem_commit", qty[p])
  /\ UNCHANGED <<qty, lock, ledger>>

RemoveLock(r) ==
  LET p == req[r].prod IN
  /\ req[r].pc = "rem_lock"
  /\ \/ qty[p] = 0 /\ Reply(r, "notfound") /\ UNCHANGED lock
     \/ qty[p] > 0 /\ lock[p] = None
          /\ Choose(r, "rem_commit", qty[p]) /\ TakeLock(r, p)
  /\ UNCHANGED <<qty, ledger>>

(* The branch is taken on the quantity read, the subtraction is made on the
   row: quantity - 1 on a row that held one unit would violate CHECK
   (quantity > 0). *)
RemoveCommit(r, acknowledged) ==
  LET p == req[r].prod
      last == req[r].val = 1
  IN
  /\ req[r].pc = "rem_commit"
  /\ lock[p] \in {r, None}
  /\ IF ~last /\ qty[p] <= 1
       THEN Reply(r, "internal") /\ UNCHANGED <<qty, ledger>>
       ELSE /\ qty' = [qty EXCEPT ![p] = IF last THEN 0 ELSE @ - 1]
            /\ ledger' = [ledger EXCEPT ![p] = @ - 1]
            /\ ReplyCommit(r, IF last THEN {p} ELSE {},
                           IF last THEN 0 ELSE qty[p] - 1, acknowledged)
  /\ ReleaseLocks(r)

-----------------------------------------------------------------------------
(* DELETE /cart: one DELETE ... WHERE user_id = ?.  It deletes the rows its *)
(* snapshot has, locking one after the other as they lie on disk: each      *)
(* update moves a row, so two snapshots may have them in different orders   *)
(* and two DELETEs wait for each other, until PostgreSQL aborts one.        *)

DeleteAllFromCart(r) ==
  /\ req[r].pc = "idle"
  /\ req' = [req EXCEPT ![r] =
       [IdleRequest EXCEPT !.op = "clear", !.pc = "clear_scan",
          !.old = {p \in Products : qty[p] > 0}]]
  /\ UNCHANGED <<qty, lock, ledger>>

ClearScan(r) ==
  /\ req[r].pc = "clear_scan"
  /\ FreeConn
  /\ req' = [req EXCEPT ![r] = [@ EXCEPT !.pc = "clear_lock",
                                  !.want = {p \in Products : qty[p] > 0}]]
  /\ UNCHANGED <<qty, lock, ledger>>

(* Goes on to any row of the snapshot, the last one being locked or gone. *)
ClearNext(r) ==
  \E p \in req[r].want :
    /\ req[r].pc = "clear_lock"
    /\ req[r].next \notin req[r].want
    /\ req' = [req EXCEPT ![r] = [@ EXCEPT !.next = p]]
    /\ UNCHANGED <<qty, lock, ledger>>

(* Mutant of ClearLock: a row locked by others is skipped. *)
ClearLock_SkipLocked(r) ==
  LET p == req[r].next
      rest == req[r].want \ {p}
  IN
  /\ req[r].pc = "clear_lock"
  /\ p \in req[r].want
  /\ req' = [req EXCEPT ![r] = [@ EXCEPT !.want = rest]]
  /\ IF lock[p] = None THEN TakeLock(r, p) ELSE UNCHANGED lock
  /\ UNCHANGED <<qty, ledger>>

ClearLock(r) ==
  LET p == req[r].next
      rest == req[r].want \ {p}
  IN
  /\ req[r].pc = "clear_lock"
  /\ p \in req[r].want
  /\ lock[p] = None
  /\ req' = [req EXCEPT ![r] = [@ EXCEPT !.want = rest]]
  /\ TakeLock(r, p)
  /\ UNCHANGED <<qty, ledger>>

(* The handlers of S, all of them clearing, wait for each other's rows. *)
Deadlock(S) ==
  \A r \in S : /\ req[r].pc = "clear_lock"
               /\ req[r].next \in req[r].want
               /\ lock[req[r].next] \in S

DeadlockVictim(r) ==
  /\ \E S \in SUBSET Requests : r \in S /\ Deadlock(S)
  /\ ReleaseLocks(r)
  /\ Reply(r, "internal")
  /\ UNCHANGED <<qty, ledger>>

ClearCommit(r, acknowledged) ==
  LET gone == {p \in Products : lock[p] = r} IN
  /\ req[r].pc = "clear_lock"
  /\ req[r].want = {}
  /\ qty' = [p \in Products |-> IF p \in gone THEN 0 ELSE qty[p]]
  /\ ledger' = [p \in Products |-> IF p \in gone THEN 0 ELSE ledger[p]]
  /\ ReleaseLocks(r)
  /\ ReplyCommit(r, gone, 0, acknowledged)

-----------------------------------------------------------------------------
(* Answers and failures. *)

Answered(r) ==
  /\ req[r].pc = "done"
  /\ req' = [req EXCEPT ![r] = IdleRequest]
  /\ UNCHANGED <<qty, lock, ledger>>

(* A statement returns an error: the transaction is rolled back. *)
Fail(r) ==
  /\ req[r].pc \notin {"idle", "done"}
  /\ ReleaseLocks(r)
  /\ Reply(r, "internal")
  /\ UNCHANGED <<qty, ledger>>

(* The process is killed and restarted: only committed rows remain. *)
Crash ==
  /\ \E r \in Requests : req[r].pc # "idle"
  /\ req' = [r \in Requests |-> IdleRequest]
  /\ lock' = [p \in Products |-> None]
  /\ UNCHANGED <<qty, ledger>>

Arrive(r) ==
  \/ \E p \in Products \cup {None}, n \in Amounts : AddToCart(r, p, n)
  \/ \E p \in Products \cup {None} : DeleteOneFromCart(r, p)
  \/ DeleteAllFromCart(r)

Serve(r) ==
  \/ AddBegin(r)
  \/ AddUpdate(r)
  \/ AddInsert(r)
  \/ \E ack \in BOOLEAN : AddCommit(r, ack)
  \/ RemoveBegin(r)
  \/ RemoveLock(r)
  \/ \E ack \in BOOLEAN : RemoveCommit(r, ack)
  \/ ClearScan(r)
  \/ ClearNext(r)
  \/ ClearLock(r)
  \/ DeadlockVictim(r)
  \/ \E ack \in BOOLEAN : ClearCommit(r, ack)
  \/ Answered(r)

Next ==
  \/ \E r \in Requests : Arrive(r) \/ Serve(r) \/ Fail(r)
  \/ Crash

Spec == Init /\ [][Next]_vars

(* The Go scheduler is fair, PostgreSQL queues the waiters of a row and
   breaks deadlocks, and a freed pool connection goes to a waiting request. *)
FairSpec == Spec /\ \A r \in Requests : SF_vars(Serve(r))

-----------------------------------------------------------------------------
(* Properties. *)

(* No unit is lost and none is counted twice: a row holds what the committed
   additions put there less what the committed removals took, however many
   handlers add to it, remove from it and clear it at the same time. *)
UnitsConserved == \A p \in Products : qty[p] = ledger[p]

(* What a transaction has read or written of a row is still what the row is
   based on when it commits, so the branch of DeleteOneFromCart fits the row
   and its subtraction never meets CHECK (quantity > 0). *)
LockedRowIsStable ==
  \A r \in Requests :
    LET p == req[r].prod IN
    /\ req[r].pc = "add_commit" => qty[p] + req[r].n = req[r].val
    /\ req[r].pc = "rem_commit" => qty[p] = req[r].val /\ qty[p] > 0

(* A cleared cart holds nothing of what was in it when the request came: a
   row is gone even if others were adding to it or had it locked. *)
ClearIsThorough ==
  \A r \in Requests :
    req[r].op = "clear" /\ req[r].res = "ok" => req[r].old = {}

(***************************************************************************)
(* The inductive invariant behind these: which handler is where, what it   *)
(* has locked, and which of the rows it came for a clear still has.        *)
(***************************************************************************)
AddPcs    == {"add_begin", "add_update", "add_insert", "add_commit"}
RemovePcs == {"rem_begin", "rem_lock", "rem_commit"}
ClearPcs  == {"clear_scan", "clear_lock"}

OpAtPc(r) ==
  /\ req[r].pc \in AddPcs => req[r].op = "add" /\ req[r].n > 0
  /\ req[r].pc \in RemovePcs => req[r].op = "remove"
  /\ req[r].pc \in AddPcs \cup RemovePcs => req[r].prod # None
  /\ req[r].pc \in ClearPcs => req[r].op = "clear"
  /\ req[r].pc # "done" => req[r].res = "none"

(* A row is locked by the one addition or removal that is about to commit on
   it, or by a clear that has still to. *)
LockDiscipline ==
  \A r \in Requests :
    /\ req[r].pc \in {"add_commit", "rem_commit"} => lock[req[r].prod] = r
    /\ \A p \in Products :
         lock[p] = r =>
           \/ req[r].pc \in {"add_commit", "rem_commit"} /\ req[r].prod = p
           \/ req[r].pc = "clear_lock"

(* What is left of the rows a clear came for is in its snapshot, locked or
   to be locked, and all these rows are in the cart. *)
OldAtPc(r) ==
  /\ req[r].pc = "clear_scan" => \A p \in req[r].old : qty[p] > 0
  /\ req[r].pc = "clear_lock" =>
       /\ \A p \in req[r].old : p \in req[r].want \/ lock[p] = r
       /\ \A p \in Products :
            p \in req[r].want \/ lock[p] = r => qty[p] > 0

IndInv ==
  /\ TypeOK
  /\ UnitsConserved
  /\ LockedRowIsStable
  /\ ClearIsThorough
  /\ LockDiscipline
  /\ \A r \in Requests : OpAtPc(r) /\ OldAtPc(r)

(* What clients are promised: one effect per call (AtomicCart).  A handler's
   call is pending until its answer is fixed, and until then it has changed
   nothing that others can see. *)
callOf(r) ==
  [op |-> req[r].op, prod |-> req[r].prod, n |-> req[r].n, old |-> req[r].old,
   left |-> IF req[r].pc = "done" /\ req[r].res = "ok" THEN req[r].val ELSE 0,
   ans |-> IF req[r].pc = "idle" THEN "idle"
           ELSE IF req[r].pc = "done" THEN req[r].res ELSE "pending"]

calls == [r \in Requests |-> callOf(r)]

Atomic == INSTANCE AtomicCart WITH call <- calls

(* The handlers of the cart, transaction by transaction, with row locks,
   refused keys, overflows, deadlocks, lost acknowledgements and crashes,
   implement AtomicCart. *)
AtomicSpec == Atomic!Spec

(***************************************************************************)
(* What a handler waits for: a row or a key another transaction has, or a  *)
(* connection of an exhausted pool.                                        *)
(***************************************************************************)
Taken(p) == lock[p] # None

AwaitsRow(r) ==
  LET p == req[r].prod IN
  \/ req[r].pc \in {"add_update", "rem_lock"} /\ qty[p] > 0 /\ Taken(p)
  \/ req[r].pc = "add_insert" /\ qty[p] = 0 /\ req[r].n <= MaxQty /\ Taken(p)
  \/ req[r].pc = "clear_lock" /\ req[r].next \in req[r].want /\ Taken(req[r].next)

AwaitsConn(r) ==
  req[r].pc \in {"add_begin", "rem_begin", "clear_scan"} /\ ~FreeConn

CanGo(r) == req[r].pc # "idle" /\ ~AwaitsRow(r) /\ ~AwaitsConn(r)

(* Handlers that wait for rows, keys and connections leave one of them free to
   go on, unless clears wait for each other in a circle, which the database
   breaks: additions and removals are never part of one. *)
WaitsEnd ==
  (\E r \in Requests : req[r].pc # "idle") =>
    \/ \E r \in Requests : CanGo(r)
    \/ \E S \in SUBSET Requests : S # {} /\ Deadlock(S)

(* Every request is answered or dies with the process: handlers that wait for
   rows, keys and connections do not wait for each other for ever. *)
EveryRequestAnswered ==
  \A r \in Requests :
    req[r].pc \notin {"idle", "done"} ~> req[r].pc \in {"idle", "done"}
=============================================================================
