-------------------------- MODULE CartServiceProofs ---------------------------
(***************************************************************************)
(* Proofs about CartService, for every set of products and of concurrent   *)
(* handlers, every width of the column and every pool: no unit is lost,    *)
(* what a transaction read still holds when it commits, clears are         *)
(* thorough.                                                               *)
(***************************************************************************)
EXTENDS CartService, FiniteSetTheorems, TLAPS

(* What the invariant says of one handler. *)
Stable(r) ==
  /\ req[r].pc = "add_commit" => qty[req[r].prod] + req[r].n = req[r].val
  /\ req[r].pc = "rem_commit" =>
       qty[req[r].prod] = req[r].val /\ qty[req[r].prod] > 0

Thorough(r) == req[r].op = "clear" /\ req[r].res = "ok" => req[r].old = {}

Locks(r) ==
  /\ req[r].pc \in {"add_commit", "rem_commit"} => lock[req[r].prod] = r
  /\ \A p \in Products :
       lock[p] = r =>
         \/ req[r].pc \in {"add_commit", "rem_commit"} /\ req[r].prod = p
         \/ req[r].pc = "clear_lock"

HandlerInv(r) == Stable(r) /\ Thorough(r) /\ Locks(r) /\ OpAtPc(r) /\ OldAtPc(r)

LEMMA IndInvByHandler ==
  IndInv <=> TypeOK /\ UnitsConserved /\ \A r \in Requests : HandlerInv(r)
BY DEF IndInv, LockedRowIsStable, ClearIsThorough, LockDiscipline, HandlerInv,
       Stable, Thorough, Locks

LEMMA NextIndInv ==
  ASSUME TypeOK', UnitsConserved', \A r \in Requests : HandlerInv(r)'
  PROVE  IndInv'
BY DEF IndInv, LockedRowIsStable, ClearIsThorough, LockDiscipline, HandlerInv,
       Stable, Thorough, Locks

LEMMA RequestFields ==
  ASSUME TypeOK, NEW r \in Requests
  PROVE  /\ req[r] \in Request
         /\ req[r].pc \in Pcs
         /\ req[r].op \in {"none", "add", "remove", "clear"}
         /\ req[r].prod \in Products \cup {None}
         /\ req[r].n \in Nat
         /\ req[r].val \in 0..MaxQty
         /\ req[r].want \subseteq Products
         /\ req[r].next \in Products \cup {None}
         /\ req[r].old \subseteq Products
         /\ req[r].res \in Answers
<1>1. req[r] \in Request
  BY DEF TypeOK
<1>2. req[r].n \in Amounts \cup {0} /\ Amounts \cup {0} \subseteq Nat
  BY <1>1, AmountsAssumption DEF Request
<1> QED BY <1>1, <1>2 DEF Request

LEMMA IdleIsRequest == IdleRequest \in Request
<1>1. 0 \in 0..MaxQty
  BY AmountsAssumption
<1> DEFINE q == IdleRequest
<1>2. /\ q.pc \in Pcs /\ q.op \in {"none", "add", "remove", "clear"}
      /\ q.prod \in Products \cup {None} /\ q.n \in Amounts \cup {0}
      /\ q.want \in SUBSET Products /\ q.old \in SUBSET Products
      /\ q.next \in Products \cup {None} /\ q.res \in Answers
  BY DEF IdleRequest, Pcs, Answers
<1> QED BY <1>1, <1>2 DEF IdleRequest, Request

-----------------------------------------------------------------------------
(* What the control-flow operators change, field by field. *)

Others(r) == \A s \in Requests : s # r => req'[s] = req[s]

Args(r) ==
  /\ req'[r].op = req[r].op /\ req'[r].prod = req[r].prod
  /\ req'[r].n = req[r].n

LEMMA GotoFields ==
  ASSUME TypeOK, NEW r \in Requests, NEW label \in Pcs, Goto(r, label)
  PROVE  /\ req' \in [Requests -> Request] /\ Others(r) /\ Args(r)
         /\ req'[r].pc = label /\ req'[r].val = req[r].val
         /\ req'[r].old = req[r].old /\ req'[r].res = req[r].res
<1> DEFINE q == [req[r] EXCEPT !.pc = label]
<1>1. /\ q \in Request /\ q.pc = label /\ q.op = req[r].op
      /\ q.prod = req[r].prod /\ q.n = req[r].n /\ q.val = req[r].val
      /\ q.old = req[r].old /\ q.res = req[r].res
  BY RequestFields DEF Request
<1>2. req'[r] = q /\ Others(r) /\ req' \in [Requests -> Request]
  BY <1>1 DEF TypeOK, Goto, Others
<1> QED BY <1>1, <1>2 DEF Args

LEMMA ChooseFields ==
  ASSUME TypeOK, NEW r \in Requests, NEW label \in Pcs,
         NEW v \in 0..MaxQty, Choose(r, label, v)
  PROVE  /\ req' \in [Requests -> Request] /\ Others(r) /\ Args(r)
         /\ req'[r].pc = label /\ req'[r].val = v
         /\ req'[r].old = req[r].old /\ req'[r].res = req[r].res
<1> DEFINE q == [req[r] EXCEPT !.pc = label, !.val = v]
<1>1. /\ q \in Request /\ q.pc = label /\ q.op = req[r].op
      /\ q.prod = req[r].prod /\ q.n = req[r].n /\ q.val = v
      /\ q.old = req[r].old /\ q.res = req[r].res
  BY RequestFields DEF Request
<1>2. req'[r] = q /\ Others(r) /\ req' \in [Requests -> Request]
  BY <1>1 DEF TypeOK, Choose, Others
<1> QED BY <1>1, <1>2 DEF Args

LEMMA ReplyFields ==
  ASSUME TypeOK, NEW r \in Requests, NEW code \in Answers, Reply(r, code)
  PROVE  /\ req' \in [Requests -> Request] /\ Others(r) /\ Args(r)
         /\ req'[r].pc = "done" /\ req'[r].res = code
         /\ req'[r].old = req[r].old
<1> DEFINE q == [req[r] EXCEPT !.pc = "done", !.res = code]
<1>1. "done" \in Pcs
  BY DEF Pcs
<1>2. /\ q \in Request /\ q.pc = "done" /\ q.op = req[r].op
      /\ q.prod = req[r].prod /\ q.n = req[r].n /\ q.res = code
      /\ q.old = req[r].old
  BY <1>1, RequestFields DEF Request
<1>3. req'[r] = q /\ Others(r) /\ req' \in [Requests -> Request]
  BY <1>2 DEF TypeOK, Reply, Others
<1> QED BY <1>2, <1>3 DEF Args

Units == 0..MaxQty

(* The deleted rows leave what the other handlers wait for and look back on. *)
Loses(s, gone) ==
  /\ req'[s].pc = req[s].pc /\ req'[s].op = req[s].op
  /\ req'[s].prod = req[s].prod /\ req'[s].n = req[s].n
  /\ req'[s].val = req[s].val /\ req'[s].res = req[s].res
  /\ req'[s].want = req[s].want \ gone /\ req'[s].old = req[s].old \ gone

LEMMA ReplyCommitFields ==
  ASSUME TypeOK, NEW r \in Requests, NEW gone, NEW left \in Units,
         NEW ack \in BOOLEAN, ReplyCommit(r, gone, left, ack)
  PROVE  /\ req' \in [Requests -> Request]
         /\ \A s \in Requests : s # r => Loses(s, gone)
         /\ Args(r) /\ req'[r].pc = "done" /\ req'[r].val = left
         /\ req'[r].old = req[r].old \ gone
<1>1. "done" \in Pcs /\ "ok" \in Answers /\ "internal" \in Answers
  BY DEF Pcs, Answers
<1>2. /\ req'[r] \in Request
      /\ Args(r) /\ req'[r].pc = "done" /\ req'[r].val = left
      /\ req'[r].old = req[r].old \ gone
  <2> DEFINE code == IF ack THEN "ok" ELSE "internal"
             q == [req[r] EXCEPT !.pc = "done", !.val = left,
                                 !.old = @ \ gone, !.res = code]
  <2>1. code \in Answers
    BY <1>1
  <2>2. /\ q \in Request /\ q.pc = "done" /\ q.op = req[r].op
        /\ q.prod = req[r].prod /\ q.n = req[r].n /\ q.val = left
        /\ q.old = req[r].old \ gone
    <3> HIDE DEF code
    <3> QED BY <1>1, <2>1, RequestFields DEF Request, Units
  <2>3. req'[r] = q
    BY DEF ReplyCommit
  <2> QED BY <2>2, <2>3 DEF Args
<1>3. ASSUME NEW s \in Requests, s # r
      PROVE  req'[s] \in Request /\ Loses(s, gone)
  <2> DEFINE q == [req[s] EXCEPT !.want = @ \ gone, !.old = @ \ gone]
  <2>1. /\ q \in Request /\ q.pc = req[s].pc /\ q.op = req[s].op
        /\ q.prod = req[s].prod /\ q.n = req[s].n /\ q.val = req[s].val
        /\ q.res = req[s].res /\ q.want = req[s].want \ gone
        /\ q.old = req[s].old \ gone
    BY RequestFields DEF Request
  <2>2. req'[s] = q
    BY <1>3 DEF ReplyCommit
  <2> QED BY <2>1, <2>2 DEF Loses
<1>4. req' = [s \in Requests |-> req'[s]]
  BY DEF ReplyCommit
<1>5. req' \in [Requests -> Request]
  BY <1>2, <1>3, <1>4
<1> QED BY <1>2, <1>3, <1>5

-----------------------------------------------------------------------------
(* One handler's step and the invariant of the others. *)

LocksOfOthersKept(r) ==
  /\ lock' \in [Products -> Requests \cup {None}]
  /\ \A s \in Requests : s # r =>
       \A p \in Products : lock'[p] = s <=> lock[p] = s

LEMMA OtherStep ==
  ASSUME TypeOK, TypeOK', NEW s \in Requests, HandlerInv(s), NEW gone,
         Loses(s, gone),
         \A p \in Products : lock'[p] = s <=> lock[p] = s,
         \A p \in Products : lock[p] = s => qty'[p] = qty[p],
         \A p \in Products \ gone : qty[p] > 0 => qty'[p] > 0
  PROVE  HandlerInv(s)'
<1>1. Stable(s)'
  <2>1. req[s].pc \in {"add_commit", "rem_commit"} =>
          req[s].prod \in Products /\ lock[req[s].prod] = s
    BY RequestFields DEF HandlerInv, Locks, OpAtPc, AddPcs, RemovePcs
  <2> QED BY <2>1 DEF HandlerInv, Stable, Loses
<1>2. Thorough(s)'
  BY DEF HandlerInv, Thorough, Loses
<1>3. Locks(s)'
  <2>1. req[s].pc \in {"add_commit", "rem_commit"} => req[s].prod \in Products
    BY RequestFields DEF HandlerInv, OpAtPc, AddPcs, RemovePcs
  <2> QED BY <2>1 DEF HandlerInv, Locks, Loses
<1>4. OpAtPc(s)'
  BY DEF HandlerInv, OpAtPc, Loses
<1>5. OldAtPc(s)'
  BY RequestFields DEF HandlerInv, OldAtPc, Loses
<1> QED BY <1>1, <1>2, <1>3, <1>4, <1>5 DEF HandlerInv

(* A step that commits nothing. *)
LEMMA LocalStep ==
  ASSUME IndInv, NEW r \in Requests, req' \in [Requests -> Request],
         Others(r), LocksOfOthersKept(r), UNCHANGED <<qty, ledger>>,
         HandlerInv(r)'
  PROVE  IndInv'
<1>1. TypeOK /\ UnitsConserved /\ \A s \in Requests : HandlerInv(s)
  BY IndInvByHandler
<1>2. TypeOK'
  BY <1>1 DEF TypeOK, LocksOfOthersKept
<1>3. ASSUME NEW s \in Requests, s # r PROVE HandlerInv(s)'
  <2>1. Loses(s, {})
    BY <1>3 DEF Others, Loses
  <2> QED BY <1>1, <1>2, <1>3, <2>1, OtherStep DEF LocksOfOthersKept
<1>4. UnitsConserved'
  BY <1>1 DEF UnitsConserved
<1>5. \A s \in Requests : HandlerInv(s)'
  BY <1>3
<1> QED BY <1>2, <1>4, <1>5, NextIndInv

LEMMA ReleasedLocks ==
  ASSUME TypeOK, NEW r \in Requests, ReleaseLocks(r)
  PROVE  LocksOfOthersKept(r) /\ \A p \in Products : lock'[p] # r
BY NoneAssumption DEF TypeOK, ReleaseLocks, LocksOfOthersKept

LEMMA TakenLock ==
  ASSUME TypeOK, NEW r \in Requests, NEW p \in Products, lock[p] = None,
         TakeLock(r, p)
  PROVE  /\ LocksOfOthersKept(r) /\ lock'[p] = r
         /\ \A o \in Products : o # p => lock'[o] = lock[o]
BY NoneAssumption DEF TypeOK, TakeLock, LocksOfOthersKept

LEMMA KeptLocks ==
  ASSUME TypeOK, NEW r \in Requests, UNCHANGED lock
  PROVE  LocksOfOthersKept(r)
BY DEF TypeOK, LocksOfOthersKept

(* A handler that answers without a lock, and with nothing to show for it. *)
LEMMA DoneInv ==
  ASSUME NEW r \in Requests, req'[r].pc = "done",
         \A p \in Products : lock'[p] # r,
         req'[r].op = "clear" /\ req'[r].res = "ok" => req'[r].old = {}
  PROVE  HandlerInv(r)'
BY DEF HandlerInv, Stable, Thorough, Locks, OpAtPc, OldAtPc, AddPcs,
       RemovePcs, ClearPcs

(* A handler that goes on to a step at which it holds no lock. *)
LEMMA NoLockBefore ==
  ASSUME IndInv, NEW r \in Requests,
         req[r].pc \notin {"add_commit", "rem_commit", "clear_lock"}
  PROVE  \A p \in Products : lock[p] # r
BY IndInvByHandler DEF HandlerInv, Locks

-----------------------------------------------------------------------------
(* The invariant, action by action. *)

LEMMA AddToCartInv ==
  ASSUME IndInv, NEW r \in Requests, NEW p \in Products \cup {None},
         NEW n \in Amounts, AddToCart(r, p, n)
  PROVE  IndInv'
<1> DEFINE bad == p = None \/ n = 0
           q == [IdleRequest EXCEPT !.op = "add", !.prod = p, !.n = n,
                   !.pc  = IF bad THEN "done" ELSE "add_begin",
                   !.res = IF bad THEN "validation" ELSE "none"]
<1>1. TypeOK /\ n \in Nat
  BY AmountsAssumption, IndInvByHandler
<1>2. /\ q \in Request /\ q.op = "add" /\ q.prod = p /\ q.n = n
      /\ bad => q.pc = "done"
      /\ ~bad => q.pc = "add_begin" /\ q.res = "none"
  <2> DEFINE c == IF bad THEN "done" ELSE "add_begin"
             a == IF bad THEN "validation" ELSE "none"
             s == [IdleRequest EXCEPT !.op = "add", !.prod = p, !.n = n,
                     !.pc = c, !.res = a]
  <2>1. /\ c \in Pcs /\ a \in Answers
        /\ bad => c = "done"
        /\ ~bad => c = "add_begin" /\ a = "none"
    BY DEF Pcs, Answers
  <2>2. /\ s \in Request /\ s.op = "add" /\ s.prod = p
        /\ s.n = n
        /\ s.pc = c /\ s.res = a
    <3> HIDE DEF c, a
    <3> QED BY <2>1, IdleIsRequest DEF Request
  <2> QED BY <2>1, <2>2
<1>3. req'[r] = q /\ Others(r) /\ req' \in [Requests -> Request]
  <2>1. req' = [req EXCEPT ![r] = q]
    BY DEF AddToCart
  <2> HIDE DEF q
  <2> QED BY <1>1, <1>2, <2>1 DEF TypeOK, Others
<1>4. UNCHANGED <<qty, lock, ledger>> /\ \A o \in Products : lock[o] # r
  BY NoLockBefore DEF AddToCart
<1>5. HandlerInv(r)'
  BY <1>1, <1>2, <1>3, <1>4
     DEF HandlerInv, Stable, Thorough, Locks, OpAtPc, OldAtPc, AddPcs,
         RemovePcs, ClearPcs
<1> QED BY <1>1, <1>3, <1>4, <1>5, KeptLocks, LocalStep

LEMMA DeleteOneFromCartInv ==
  ASSUME IndInv, NEW r \in Requests, NEW p \in Products \cup {None},
         DeleteOneFromCart(r, p)
  PROVE  IndInv'
<1> DEFINE q == [IdleRequest EXCEPT !.op = "remove", !.prod = p,
                   !.pc  = IF p = None THEN "done" ELSE "rem_begin",
                   !.res = IF p = None THEN "validation" ELSE "none"]
<1>1. TypeOK
  BY IndInvByHandler
<1>2. /\ q \in Request /\ q.op = "remove" /\ q.prod = p
      /\ p = None => q.pc = "done"
      /\ p # None => q.pc = "rem_begin" /\ q.res = "none"
  <2> DEFINE c == IF p = None THEN "done" ELSE "rem_begin"
             a == IF p = None THEN "validation" ELSE "none"
             s == [IdleRequest EXCEPT !.op = "remove", !.prod = p,
                     !.pc = c, !.res = a]
  <2>1. /\ c \in Pcs /\ a \in Answers
        /\ p = None => c = "done"
        /\ p # None => c = "rem_begin" /\ a = "none"
    BY DEF Pcs, Answers
  <2>2. /\ s \in Request /\ s.op = "remove" /\ s.prod = p
        /\ s.pc = c /\ s.res = a
    <3> HIDE DEF c, a
    <3> QED BY <2>1, IdleIsRequest DEF Request
  <2> QED BY <2>1, <2>2
<1>3. req'[r] = q /\ Others(r) /\ req' \in [Requests -> Request]
  <2>1. req' = [req EXCEPT ![r] = q]
    BY DEF DeleteOneFromCart
  <2> HIDE DEF q
  <2> QED BY <1>1, <1>2, <2>1 DEF TypeOK, Others
<1>4. UNCHANGED <<qty, lock, ledger>> /\ \A o \in Products : lock[o] # r
  BY NoLockBefore DEF DeleteOneFromCart
<1>5. HandlerInv(r)'
  BY <1>1, <1>2, <1>3, <1>4
     DEF HandlerInv, Stable, Thorough, Locks, OpAtPc, OldAtPc, AddPcs,
         RemovePcs, ClearPcs
<1> QED BY <1>1, <1>3, <1>4, <1>5, KeptLocks, LocalStep

LEMMA DeleteAllFromCartInv ==
  ASSUME IndInv, NEW r \in Requests, DeleteAllFromCart(r)
  PROVE  IndInv'
<1> DEFINE held == {p \in Products : qty[p] > 0}
           q == [IdleRequest EXCEPT !.op = "clear", !.pc = "clear_scan",
                   !.old = held]
<1>1. TypeOK
  BY IndInvByHandler
<1>2. /\ q \in Request /\ q.op = "clear" /\ q.pc = "clear_scan"
      /\ q.old = held /\ q.res = "none"
  BY IdleIsRequest DEF Request, IdleRequest, Pcs
<1>3. req'[r] = q /\ Others(r) /\ req' \in [Requests -> Request]
  <2>1. req' = [req EXCEPT ![r] = q]
    BY DEF DeleteAllFromCart
  <2> HIDE DEF q
  <2> QED BY <1>1, <1>2, <2>1 DEF TypeOK, Others
<1>4. UNCHANGED <<qty, lock, ledger>> /\ \A o \in Products : lock[o] # r
  BY NoLockBefore DEF DeleteAllFromCart
<1>5. HandlerInv(r)'
  BY <1>1, <1>2, <1>3, <1>4
     DEF HandlerInv, Stable, Thorough, Locks, OpAtPc, OldAtPc, AddPcs,
         RemovePcs, ClearPcs
<1> QED BY <1>1, <1>3, <1>4, <1>5, KeptLocks, LocalStep

(* The request is answered, and its transaction, if it had one, is over. *)
LEMMA RefusalInv ==
  ASSUME IndInv, NEW r \in Requests, NEW code \in Answers \ {"ok"},
         Reply(r, code), UNCHANGED <<qty, ledger>>, LocksOfOthersKept(r),
         \A p \in Products : lock'[p] # r
  PROVE  IndInv'
<1>1. TypeOK
  BY IndInvByHandler
<1> QED BY <1>1, ReplyFields, DoneInv, LocalStep

LEMMA BeginInv ==
  ASSUME IndInv, NEW r \in Requests, AddBegin(r) \/ RemoveBegin(r)
  PROVE  IndInv'
<1>1. TypeOK /\ HandlerInv(r)
  BY IndInvByHandler
<1>2. /\ UNCHANGED <<qty, lock, ledger>>
      /\ \A p \in Products : lock[p] # r
  BY NoLockBefore DEF AddBegin, RemoveBegin
<1>3. CASE AddBegin(r)
  <2>1. "add_update" \in Pcs /\ req[r].pc = "add_begin" /\ Goto(r, "add_update")
    BY <1>3 DEF AddBegin, Pcs
  <2>2. HandlerInv(r)'
    BY <1>1, <1>2, <2>1, GotoFields
       DEF HandlerInv, Stable, Thorough, Locks, OpAtPc, OldAtPc, AddPcs,
           RemovePcs, ClearPcs, Args
  <2> QED BY <1>1, <1>2, <2>1, <2>2, GotoFields, KeptLocks, LocalStep
<1>4. CASE RemoveBegin(r)
  <2>1. "rem_lock" \in Pcs /\ req[r].pc = "rem_begin" /\ Goto(r, "rem_lock")
    BY <1>4 DEF RemoveBegin, Pcs
  <2>2. HandlerInv(r)'
    BY <1>1, <1>2, <2>1, GotoFields
       DEF HandlerInv, Stable, Thorough, Locks, OpAtPc, OldAtPc, AddPcs,
           RemovePcs, ClearPcs, Args
  <2> QED BY <1>1, <1>2, <2>1, <2>2, GotoFields, KeptLocks, LocalStep
<1> QED BY <1>3, <1>4

(* A transaction takes the row it will commit, having read or written v. *)
LEMMA TakeRowInv ==
  ASSUME IndInv, NEW r \in Requests, NEW v \in 0..MaxQty,
         NEW label \in {"add_commit", "rem_commit"}, Choose(r, label, v),
         req[r].pc \in AddPcs \cup RemovePcs,
         lock[req[r].prod] = None, TakeLock(r, req[r].prod),
         req[r].pc \notin {"add_commit", "rem_commit"},
         label = "add_commit" =>
           req[r].pc \in AddPcs /\ qty[req[r].prod] + req[r].n = v,
         label = "rem_commit" =>
           req[r].pc \in RemovePcs /\ qty[req[r].prod] = v /\ v > 0,
         UNCHANGED <<qty, ledger>>
  PROVE  IndInv'
<1> DEFINE p == req[r].prod
<1>1. TypeOK /\ HandlerInv(r) /\ label \in Pcs
  BY IndInvByHandler DEF Pcs
<1>2. p \in Products
  BY <1>1, RequestFields DEF HandlerInv, OpAtPc
<1>3. /\ req' \in [Requests -> Request] /\ Others(r) /\ Args(r)
      /\ req'[r].pc = label /\ req'[r].val = v
      /\ req'[r].old = req[r].old /\ req'[r].res = req[r].res
  BY <1>1, ChooseFields
<1>4. /\ LocksOfOthersKept(r) /\ lock'[p] = r
      /\ \A o \in Products : o # p => lock'[o] = lock[o]
  BY <1>1, <1>2, TakenLock
<1>5. \A o \in Products : lock[o] # r
  BY <1>1, NoLockBefore DEF AddPcs, RemovePcs
<1>6. HandlerInv(r)'
  BY <1>1, <1>2, <1>3, <1>4, <1>5
     DEF HandlerInv, Stable, Thorough, Locks, OpAtPc, OldAtPc, AddPcs,
         RemovePcs, ClearPcs, Args
<1> QED BY <1>3, <1>4, <1>6, LocalStep

LEMMA AddUpdateInv ==
  ASSUME IndInv, NEW r \in Requests, AddUpdate(r)
  PROVE  IndInv'
<1> DEFINE p == req[r].prod
           sum == qty[p] + req[r].n
<1>1. TypeOK /\ HandlerInv(r) /\ req[r].pc = "add_update" /\ UNCHANGED <<qty, ledger>>
  BY IndInvByHandler DEF AddUpdate
<1>2. /\ p \in Products /\ qty[p] \in 0..MaxQty /\ req[r].n \in Nat
      /\ \A o \in Products : lock[o] # r
  BY <1>1, RequestFields, NoLockBefore DEF HandlerInv, OpAtPc, AddPcs, TypeOK
<1>3. CASE qty[p] = 0 /\ Goto(r, "add_insert") /\ UNCHANGED lock
  <2>1. "add_insert" \in Pcs
    BY DEF Pcs
  <2>2. HandlerInv(r)'
    BY <1>1, <1>2, <1>3, <2>1, GotoFields
       DEF HandlerInv, Stable, Thorough, Locks, OpAtPc, OldAtPc, AddPcs,
           RemovePcs, ClearPcs, Args
  <2> QED BY <1>1, <1>3, <2>1, <2>2, GotoFields, KeptLocks, LocalStep
<1>4. CASE /\ qty[p] > 0 /\ lock[p] = None /\ sum <= MaxQty
           /\ Choose(r, "add_commit", sum) /\ TakeLock(r, p)
  <2>1. sum \in 0..MaxQty
    BY <1>2, <1>4, AmountsAssumption
  <2>2. req[r].pc \in AddPcs
    BY <1>1 DEF AddPcs
  <2> QED BY <1>1, <1>4, <2>1, <2>2, TakeRowInv
<1>5. CASE Reply(r, "internal") /\ UNCHANGED lock
  BY <1>1, <1>2, <1>5, KeptLocks, RefusalInv DEF Answers
<1> QED BY <1>3, <1>4, <1>5 DEF AddUpdate

LEMMA AddInsertInv ==
  ASSUME IndInv, NEW r \in Requests, AddInsert(r)
  PROVE  IndInv'
<1> DEFINE p == req[r].prod
<1>1. /\ TypeOK /\ HandlerInv(r) /\ req[r].pc = "add_insert"
      /\ UNCHANGED <<qty, ledger>>
      /\ \A o \in Products : lock[o] # r
  BY IndInvByHandler, NoLockBefore DEF AddInsert
<1>2. CASE Reply(r, "internal") /\ UNCHANGED lock
  BY <1>1, <1>2, KeptLocks, RefusalInv DEF Answers
<1>3. CASE /\ qty[p] = 0 /\ lock[p] = None /\ req[r].n <= MaxQty
           /\ Choose(r, "add_commit", req[r].n) /\ TakeLock(r, p)
  <2>1. req[r].n \in 0..MaxQty /\ qty[p] + req[r].n = req[r].n
    BY <1>1, <1>3, RequestFields, AmountsAssumption
  <2>2. req[r].pc \in AddPcs
    BY <1>1 DEF AddPcs
  <2> QED BY <1>1, <1>3, <2>1, <2>2, TakeRowInv
<1> QED BY <1>2, <1>3 DEF AddInsert

LEMMA RemoveLockInv ==
  ASSUME IndInv, NEW r \in Requests, RemoveLock(r)
  PROVE  IndInv'
<1> DEFINE p == req[r].prod
<1>1. /\ TypeOK /\ HandlerInv(r) /\ req[r].pc = "rem_lock"
      /\ UNCHANGED <<qty, ledger>>
      /\ \A o \in Products : lock[o] # r
  BY IndInvByHandler, NoLockBefore DEF RemoveLock
<1>2. CASE Reply(r, "notfound") /\ UNCHANGED lock
  BY <1>1, <1>2, KeptLocks, RefusalInv DEF Answers
<1>3. CASE /\ qty[p] > 0 /\ lock[p] = None
           /\ Choose(r, "rem_commit", qty[p]) /\ TakeLock(r, p)
  <2>1. req[r].pc \in RemovePcs
    BY <1>1 DEF RemovePcs
  <2>2. qty[p] \in 0..MaxQty
    BY <1>1, <2>1, RequestFields DEF HandlerInv, OpAtPc, TypeOK
  <2> QED BY <1>1, <1>3, <2>1, <2>2, TakeRowInv
<1> QED BY <1>2, <1>3 DEF RemoveLock

(* A transaction that commits: it changes rows it has locked, and of the
   others' rows takes none away. *)
LEMMA CommitStep ==
  ASSUME IndInv, NEW r \in Requests, NEW gone, NEW left \in Units,
         NEW ack \in BOOLEAN, ReplyCommit(r, gone, left, ack), ReleaseLocks(r),
         qty' \in [Products -> 0..MaxQty], ledger' \in [Products -> Nat],
         UnitsConserved',
         \A p \in Products : lock[p] # r => qty'[p] = qty[p],
         \A p \in Products \ gone : qty[p] > 0 => qty'[p] > 0,
         req[r].op = "clear" => req[r].old \subseteq gone
  PROVE  IndInv'
<1>1. TypeOK /\ \A s \in Requests : HandlerInv(s)
  BY IndInvByHandler
<1>2. LocksOfOthersKept(r) /\ \A p \in Products : lock'[p] # r
  BY <1>1, ReleasedLocks
<1>3. /\ req' \in [Requests -> Request]
      /\ \A s \in Requests : s # r => Loses(s, gone)
      /\ req'[r].pc = "done" /\ req'[r].op = req[r].op
      /\ req'[r].old = req[r].old \ gone
  BY <1>1, ReplyCommitFields DEF Args
<1>4. TypeOK'
  BY <1>2, <1>3 DEF TypeOK, LocksOfOthersKept
<1>5. HandlerInv(r)'
  BY <1>2, <1>3, DoneInv
<1>6. ASSUME NEW s \in Requests, s # r PROVE HandlerInv(s)'
  BY <1>1, <1>2, <1>3, <1>4, <1>6, OtherStep DEF LocksOfOthersKept
<1> QED BY <1>4, <1>5, <1>6, NextIndInv

LEMMA AddCommitInv ==
  ASSUME IndInv, NEW r \in Requests, NEW ack \in BOOLEAN, AddCommit(r, ack)
  PROVE  IndInv'
<1> DEFINE p == req[r].prod
<1>1. /\ TypeOK /\ UnitsConserved /\ HandlerInv(r) /\ req[r].pc = "add_commit"
  BY IndInvByHandler DEF AddCommit
<1>2. /\ p \in Products /\ lock[p] = r /\ qty[p] + req[r].n = req[r].val
      /\ req[r].op = "add" /\ req[r].val \in 0..MaxQty /\ req[r].n \in Nat
      /\ req[r].n > 0
  BY <1>1, RequestFields DEF HandlerInv, Stable, Locks, OpAtPc, AddPcs
<1>3. /\ qty' = [qty EXCEPT ![p] = req[r].val]
      /\ ledger' = [ledger EXCEPT ![p] = @ + req[r].n]
  BY DEF AddCommit
<1>4. qty' \in [Products -> 0..MaxQty] /\ ledger' \in [Products -> Nat]
  BY <1>1, <1>2, <1>3 DEF TypeOK
<1>5. UnitsConserved'
  BY <1>1, <1>2, <1>3 DEF TypeOK, UnitsConserved
<1>6. \A o \in Products : lock[o] # r => qty'[o] = qty[o]
  BY <1>1, <1>2, <1>3 DEF TypeOK
<1>7. \A o \in Products \ {} : qty[o] > 0 => qty'[o] > 0
  BY <1>1, <1>2, <1>3 DEF TypeOK
<1>8. req[r].val \in Units
  BY <1>2 DEF Units
<1> QED BY <1>2, <1>4, <1>5, <1>6, <1>7, <1>8, CommitStep DEF AddCommit

LEMMA RemoveCommitInv ==
  ASSUME IndInv, NEW r \in Requests, NEW ack \in BOOLEAN, RemoveCommit(r, ack)
  PROVE  IndInv'
<1> DEFINE p == req[r].prod
           last == req[r].val = 1
           gone == IF last THEN {p} ELSE {}
           left == IF last THEN 0 ELSE qty[p] - 1
<1>1. TypeOK /\ UnitsConserved /\ HandlerInv(r) /\ req[r].pc = "rem_commit"
      /\ ReleaseLocks(r)
  BY IndInvByHandler DEF RemoveCommit
<1>2. /\ p \in Products /\ lock[p] = r /\ qty[p] = req[r].val /\ qty[p] > 0
      /\ req[r].op = "remove" /\ qty[p] \in 0..MaxQty /\ qty[p] \in Nat
      /\ ledger[p] = qty[p]
  BY <1>1, RequestFields
     DEF HandlerInv, Stable, Locks, OpAtPc, RemovePcs, TypeOK, UnitsConserved
<1>3. /\ qty' = [qty EXCEPT ![p] = IF last THEN 0 ELSE @ - 1]
      /\ ledger' = [ledger EXCEPT ![p] = @ - 1]
      /\ ReplyCommit(r, gone, left, ack)
  <2>1. ~(~last /\ qty[p] <= 1)
    BY <1>2
  <2> QED BY <2>1 DEF RemoveCommit
<1>4. /\ qty'[p] = qty[p] - 1 /\ ledger'[p] = qty[p] - 1
      /\ \A o \in Products : o # p => qty'[o] = qty[o] /\ ledger'[o] = ledger[o]
  BY <1>1, <1>2, <1>3 DEF TypeOK
<1>5. qty' \in [Products -> 0..MaxQty] /\ ledger' \in [Products -> Nat]
  <2>1. \A o \in Products : qty'[o] \in 0..MaxQty /\ ledger'[o] \in Nat
    BY <1>1, <1>2, <1>4, AmountsAssumption DEF TypeOK
  <2>2. DOMAIN qty' = Products /\ DOMAIN ledger' = Products
    BY <1>1, <1>3 DEF TypeOK
  <2> QED BY <1>1, <1>3, <2>1, <2>2 DEF TypeOK
<1>6. UnitsConserved'
  BY <1>1, <1>4 DEF UnitsConserved
<1>7. \A o \in Products \ gone : qty[o] > 0 => qty'[o] > 0
  BY <1>2, <1>4
<1>8. \A o \in Products : lock[o] # r => qty'[o] = qty[o]
  BY <1>2, <1>4
<1>9. left \in Units
  BY <1>2, AmountsAssumption DEF Units
<1> HIDE DEF gone, left
<1> QED BY <1>1, <1>2, <1>3, <1>5, <1>6, <1>7, <1>8, <1>9, CommitStep

LEMMA ClearScanInv ==
  ASSUME IndInv, NEW r \in Requests, ClearScan(r)
  PROVE  IndInv'
<1> DEFINE held == {p \in Products : qty[p] > 0}
           q == [req[r] EXCEPT !.pc = "clear_lock", !.want = held]
<1>1. /\ TypeOK /\ HandlerInv(r) /\ req[r].pc = "clear_scan"
      /\ UNCHANGED <<qty, lock, ledger>>
  BY IndInvByHandler DEF ClearScan
<1>2. /\ q \in Request /\ q.pc = "clear_lock" /\ q.op = req[r].op
      /\ q.want = held /\ q.old = req[r].old /\ q.res = req[r].res
  BY <1>1, RequestFields DEF Request, Pcs
<1>3. req'[r] = q /\ Others(r) /\ req' \in [Requests -> Request]
  <2>1. req' = [req EXCEPT ![r] = q]
    BY DEF ClearScan
  <2> HIDE DEF q
  <2> QED BY <1>1, <1>2, <2>1 DEF TypeOK, Others
<1>4. HandlerInv(r)'
  BY <1>1, <1>2, <1>3, RequestFields
     DEF HandlerInv, Stable, Thorough, Locks, OpAtPc, OldAtPc, AddPcs,
         RemovePcs, ClearPcs
<1> QED BY <1>1, <1>3, <1>4, KeptLocks, LocalStep

LEMMA ClearNextInv ==
  ASSUME IndInv, NEW r \in Requests, ClearNext(r)
  PROVE  IndInv'
<1>1. PICK p \in req[r].want :
        /\ req[r].pc = "clear_lock"
        /\ req' = [req EXCEPT ![r] = [@ EXCEPT !.next = p]]
        /\ UNCHANGED <<qty, lock, ledger>>
  BY DEF ClearNext
<1> DEFINE q == [req[r] EXCEPT !.next = p]
<1>2. TypeOK /\ HandlerInv(r) /\ p \in Products
  BY <1>1, IndInvByHandler, RequestFields
<1>3. /\ q \in Request /\ q.pc = "clear_lock" /\ q.op = req[r].op
      /\ q.want = req[r].want /\ q.old = req[r].old /\ q.res = req[r].res
  BY <1>1, <1>2, RequestFields DEF Request
<1>4. req'[r] = q /\ Others(r) /\ req' \in [Requests -> Request]
  <2>1. req' = [req EXCEPT ![r] = q]
    BY <1>1
  <2> HIDE DEF q
  <2> QED BY <1>2, <1>3, <2>1 DEF TypeOK, Others
<1>5. HandlerInv(r)'
  BY <1>1, <1>2, <1>3, <1>4
     DEF HandlerInv, Stable, Thorough, Locks, OpAtPc, OldAtPc, AddPcs,
         RemovePcs, ClearPcs
<1> QED BY <1>1, <1>2, <1>4, <1>5, KeptLocks, LocalStep

LEMMA ClearLockInv ==
  ASSUME IndInv, NEW r \in Requests, ClearLock(r)
  PROVE  IndInv'
<1> DEFINE p == req[r].next
           q == [req[r] EXCEPT !.want = @ \ {p}]
<1>1. /\ TypeOK /\ HandlerInv(r) /\ req[r].pc = "clear_lock"
      /\ p \in req[r].want /\ lock[p] = None /\ TakeLock(r, p)
      /\ UNCHANGED <<qty, ledger>>
  BY IndInvByHandler DEF ClearLock
<1>2. p \in Products
  BY <1>1, RequestFields
<1>3. /\ q \in Request /\ q.pc = "clear_lock" /\ q.op = req[r].op
      /\ q.want = req[r].want \ {p} /\ q.old = req[r].old
      /\ q.res = req[r].res
  BY <1>1, RequestFields DEF Request
<1>4. req'[r] = q /\ Others(r) /\ req' \in [Requests -> Request]
  <2>1. req' = [req EXCEPT ![r] = q]
    BY DEF ClearLock
  <2> HIDE DEF q
  <2> QED BY <1>1, <1>3, <2>1 DEF TypeOK, Others
<1>5. /\ LocksOfOthersKept(r) /\ lock'[p] = r
      /\ \A o \in Products : o # p => lock'[o] = lock[o]
  BY <1>1, <1>2, TakenLock
<1>6. HandlerInv(r)'
  BY <1>1, <1>3, <1>4, <1>5, RequestFields
     DEF HandlerInv, Stable, Thorough, Locks, OpAtPc, OldAtPc, AddPcs,
         RemovePcs, ClearPcs
<1> QED BY <1>1, <1>4, <1>5, <1>6, LocalStep

LEMMA ClearCommitInv ==
  ASSUME IndInv, NEW r \in Requests, NEW ack \in BOOLEAN, ClearCommit(r, ack)
  PROVE  IndInv'
<1> DEFINE gone == {p \in Products : lock[p] = r}
<1>1. /\ TypeOK /\ UnitsConserved /\ HandlerInv(r)
      /\ req[r].pc = "clear_lock" /\ req[r].want = {}
      /\ qty' = [p \in Products |-> IF p \in gone THEN 0 ELSE qty[p]]
      /\ ledger' = [p \in Products |-> IF p \in gone THEN 0 ELSE ledger[p]]
      /\ ReleaseLocks(r) /\ ReplyCommit(r, gone, 0, ack)
  BY IndInvByHandler DEF ClearCommit
<1>2. qty' \in [Products -> 0..MaxQty] /\ ledger' \in [Products -> Nat]
  BY <1>1, AmountsAssumption DEF TypeOK
<1>3. UnitsConserved'
  BY <1>1 DEF UnitsConserved
<1>4. /\ \A p \in Products : lock[p] # r => qty'[p] = qty[p]
      /\ \A p \in Products \ gone : qty[p] > 0 => qty'[p] > 0
  BY <1>1
<1>5. req[r].old \subseteq gone /\ 0 \in Units
  BY <1>1, RequestFields, AmountsAssumption DEF HandlerInv, OldAtPc, Units
<1> HIDE DEF gone
<1> QED BY <1>1, <1>2, <1>3, <1>4, <1>5, CommitStep

(* A rolled back transaction leaves nothing. *)
LEMMA RollbackInv ==
  ASSUME IndInv, NEW r \in Requests, DeadlockVictim(r) \/ Fail(r)
  PROVE  IndInv'
<1>1. TypeOK /\ "internal" \in Answers \ {"ok"}
  BY IndInvByHandler DEF Answers
<1>2. Reply(r, "internal") /\ ReleaseLocks(r) /\ UNCHANGED <<qty, ledger>>
  BY DEF DeadlockVictim, Fail
<1> QED BY <1>1, <1>2, ReleasedLocks, RefusalInv

LEMMA IdleInv ==
  ASSUME NEW r \in Requests, req'[r] = IdleRequest,
         \A p \in Products : lock'[p] # r
  PROVE  HandlerInv(r)'
BY DEF IdleRequest, HandlerInv, Stable, Thorough, Locks, OpAtPc, OldAtPc,
       AddPcs, RemovePcs, ClearPcs

LEMMA AnsweredInv ==
  ASSUME IndInv, NEW r \in Requests, Answered(r)
  PROVE  IndInv'
<1>1. /\ TypeOK /\ UNCHANGED <<qty, lock, ledger>>
      /\ req' = [req EXCEPT ![r] = IdleRequest]
      /\ \A p \in Products : lock[p] # r
  BY IndInvByHandler, NoLockBefore DEF Answered
<1>2. req'[r] = IdleRequest /\ Others(r) /\ req' \in [Requests -> Request]
  BY <1>1, IdleIsRequest DEF TypeOK, Others
<1> QED BY <1>1, <1>2, IdleInv, KeptLocks, LocalStep

LEMMA CrashInv ==
  ASSUME IndInv, Crash
  PROVE  IndInv'
<1>1. /\ TypeOK /\ UnitsConserved /\ UNCHANGED <<qty, ledger>>
      /\ req' = [r \in Requests |-> IdleRequest]
      /\ lock' = [p \in Products |-> None]
  BY IndInvByHandler DEF Crash
<1>2. TypeOK' /\ UnitsConserved'
  BY <1>1, IdleIsRequest DEF TypeOK, UnitsConserved
<1>3. ASSUME NEW r \in Requests PROVE HandlerInv(r)'
  BY <1>1, IdleInv, NoneAssumption
<1> QED BY <1>2, <1>3, NextIndInv

-----------------------------------------------------------------------------
(* The theorems. *)

LEMMA InitInv == Init => IndInv
<1> SUFFICES ASSUME Init PROVE IndInv
  OBVIOUS
<1>1. TypeOK /\ UnitsConserved
  BY IdleIsRequest, AmountsAssumption DEF Init, TypeOK, UnitsConserved
<1>2. ASSUME NEW r \in Requests PROVE HandlerInv(r)
  BY NoneAssumption
     DEF Init, IdleRequest, HandlerInv, Stable, Thorough, Locks, OpAtPc,
         OldAtPc, AddPcs, RemovePcs, ClearPcs
<1> QED BY <1>1, <1>2, IndInvByHandler

LEMMA NextInv == IndInv /\ [Next]_vars => IndInv'
<1> SUFFICES ASSUME IndInv, [Next]_vars PROVE IndInv'
  OBVIOUS
<1>1. CASE UNCHANGED vars
  BY <1>1 DEF vars, IndInv, TypeOK, UnitsConserved, LockedRowIsStable,
              ClearIsThorough, LockDiscipline, OpAtPc, OldAtPc
<1>2. ASSUME NEW r \in Requests, Arrive(r) PROVE IndInv'
  BY <1>2, AddToCartInv, DeleteOneFromCartInv, DeleteAllFromCartInv DEF Arrive
<1>3. ASSUME NEW r \in Requests, Serve(r) PROVE IndInv'
  BY <1>3, BeginInv, AddUpdateInv, AddInsertInv, AddCommitInv, RemoveLockInv,
     RemoveCommitInv, ClearScanInv, ClearNextInv, ClearLockInv, RollbackInv,
     ClearCommitInv, AnsweredInv DEF Serve
<1>4. ASSUME NEW r \in Requests, Fail(r) PROVE IndInv'
  BY <1>4, RollbackInv
<1>5. CASE Crash
  BY <1>5, CrashInv
<1> QED BY <1>1, <1>2, <1>3, <1>4, <1>5 DEF Next

(* The invariant behind the properties of the cart: who has locked which row,
   what each transaction knows of its row, and which of the rows a clear came
   for it has still to lock. *)
THEOREM Invariance == Spec => []IndInv
BY InitInv, NextInv, PTL DEF Spec

(* Every row, lock and handler of the cart service stays in its type; in
   particular no quantity ever outgrows its column. *)
THEOREM TypeCorrect == Spec => []TypeOK
<1>1. IndInv => TypeOK
  BY DEF IndInv
<1> QED BY <1>1, Invariance, PTL

(* AddToCart, DeleteOneFromCart and DeleteAllFromCart, run by any number of
   handlers that fail and crash at any point, lose no unit and count none
   twice: a row holds what was added to it less what was taken. *)
THEOREM UnitsAreConserved == Spec => []UnitsConserved
<1>1. IndInv => UnitsConserved
  BY DEF IndInv
<1> QED BY <1>1, Invariance, PTL

(* What AddToCart has written and DeleteOneFromCart has read of a row still
   describes the row when the transaction commits. *)
THEOREM LockedRowsAreStable == Spec => []LockedRowIsStable
<1>1. IndInv => LockedRowIsStable
  BY DEF IndInv
<1> QED BY <1>1, Invariance, PTL

(* A DeleteAllFromCart that is answered 200 has deleted every row that was in
   the cart when it came and that nobody else deleted. *)
THEOREM ClearsAreThorough == Spec => []ClearIsThorough
<1>1. IndInv => ClearIsThorough
  BY DEF IndInv
<1> QED BY <1>1, Invariance, PTL

-----------------------------------------------------------------------------
(* Waiting. *)

(* An exhausted pool is in use. *)
LEMMA PoolInUse ==
  ASSUME ~FreeConn
  PROVE  \E r \in Requests : HoldsConn(r)
<1> DEFINE H == {r \in Requests : HoldsConn(r)}
<1>1. Cardinality({}) = 0
  BY FS_EmptySet
<1>2. ~(Cardinality(H) < MaxConns)
  BY DEF FreeConn
<1>3. H # {}
  BY <1>1, <1>2, ConnsAssumption
<1> QED BY <1>3

(* Whoever has a row is about to commit on it or is a clear. *)
LEMMA WaitedFor ==
  ASSUME IndInv, NEW p \in Products, Taken(p)
  PROVE  \E s \in Requests :
           lock[p] = s /\ req[s].pc \in {"add_commit", "rem_commit", "clear_lock"}
<1>1. lock[p] \in Requests
  BY IndInvByHandler DEF TypeOK, Taken
<1> QED BY <1>1, IndInvByHandler DEF HandlerInv, Locks

(* AddToCart, DeleteOneFromCart and DeleteAllFromCart never block each other
   for good, however many they are and however small the pool: somebody can go
   on, or the database finds a circle of clears and aborts one. *)
THEOREM WaitsAreFinite == Spec => []WaitsEnd
<1>1. IndInv => WaitsEnd
  <2> SUFFICES ASSUME IndInv, NEW r \in Requests, req[r].pc # "idle",
                      \A s \in Requests : ~CanGo(s)
               PROVE  \E S \in SUBSET Requests : S # {} /\ Deadlock(S)
    BY DEF WaitsEnd
  <2> DEFINE S == {s \in Requests : req[s].pc = "clear_lock"}
  <2>1. ASSUME NEW s \in Requests
        PROVE  req[s].pc \notin {"add_commit", "rem_commit", "done"}
    BY DEF CanGo, AwaitsRow, AwaitsConn
  <2>2. ASSUME NEW s \in Requests, AwaitsRow(s)
        PROVE  \E t \in S : TRUE
    <3>1. /\ req[s].prod \in Products \cup {None} /\ req[s].want \subseteq Products
          /\ req[s].pc \in AddPcs \cup RemovePcs => req[s].prod # None
      BY IndInvByHandler, RequestFields DEF HandlerInv, OpAtPc
    <3>2. \E p \in Products : Taken(p)
      BY <2>2, <3>1 DEF AwaitsRow, AddPcs, RemovePcs
    <3> QED BY <2>1, <3>2, WaitedFor
  <2>3. ASSUME NEW s \in S
        PROVE  /\ req[s].next \in req[s].want /\ Taken(req[s].next)
               /\ req[s].next \in Products
    <3>1. req[s].want \subseteq Products
      BY IndInvByHandler, RequestFields
    <3>2. ~CanGo(s) /\ req[s].pc = "clear_lock"
      OBVIOUS
    <3> QED BY <3>1, <3>2 DEF CanGo, AwaitsRow, AwaitsConn
  <2>4. ASSUME NEW s \in S
        PROVE  lock[req[s].next] \in S
    BY <2>1, <2>3, WaitedFor
  <2>5. Deadlock(S)
    BY <2>3, <2>4 DEF Deadlock
  <2>6. S # {}
    <3>1. CASE AwaitsRow(r)
      BY <2>2, <3>1
    <3>2. CASE ~AwaitsRow(r)
      <4>1. AwaitsConn(r)
        BY <3>2 DEF CanGo
      <4>2. PICK s \in Requests : HoldsConn(s)
        BY <4>1, PoolInUse DEF AwaitsConn
      <4>3. AwaitsRow(s)
        BY <4>2 DEF HoldsConn, CanGo, AwaitsConn
      <4> QED BY <2>2, <4>3
    <3> QED BY <3>1, <3>2
  <2> QED BY <2>5, <2>6
<1> QED BY <1>1, Invariance, PTL

-----------------------------------------------------------------------------
(* The refinement: each step of a handler is one step of its call or none. *)

AtomicStep == Atomic!Next \/ (UNCHANGED qty /\ UNCHANGED calls)

Running(r) == req[r].pc \notin {"idle", "done"}

LEMMA CallFields ==
  ASSUME NEW r \in Requests
  PROVE  /\ calls[r] = callOf(r)
         /\ calls[r].op = req[r].op /\ calls[r].prod = req[r].prod
         /\ calls[r].n = req[r].n /\ calls[r].old = req[r].old
         /\ Running(r) => calls[r].ans = "pending"
         /\ req[r].pc = "idle" => calls[r].ans = "idle"
         /\ req[r].pc = "done" => calls[r].ans = req[r].res
BY DEF calls, callOf, Running

LEMMA OneCall ==
  ASSUME NEW r \in Requests, Others(r)
  PROVE  calls' = [calls EXCEPT ![r] = callOf(r)']
<1>1. \A s \in Requests : s # r => callOf(s)' = callOf(s)
  BY DEF Others, callOf
<1> QED BY <1>1 DEF calls

(* A handler that goes on leaves its call pending. *)
LEMMA SilentStep ==
  ASSUME NEW r \in Requests, Others(r), Args(r), Running(r), Running(r)',
         req'[r].old = req[r].old, UNCHANGED qty
  PROVE  AtomicStep
<1>1. callOf(r)' = callOf(r)
  BY DEF Args, callOf, Running
<1>2. \A s \in Requests : callOf(s)' = callOf(s)
  BY <1>1 DEF Others, callOf
<1> QED BY <1>2 DEF calls, AtomicStep

(* What a handler between two statements knows. *)
LEMMA HandlerFacts ==
  ASSUME IndInv, NEW r \in Requests, Running(r)
  PROVE  /\ TypeOK /\ HandlerInv(r) /\ calls[r].ans = "pending"
         /\ req[r].pc \in AddPcs => Atomic!Pending(r, "add")
         /\ req[r].pc \in RemovePcs => Atomic!Pending(r, "remove")
         /\ req[r].pc \in ClearPcs => Atomic!Pending(r, "clear")
         /\ req[r].pc \in AddPcs \cup RemovePcs =>
              calls[r].prod = req[r].prod /\ req[r].prod \in Products
<1>1. TypeOK /\ HandlerInv(r)
  BY IndInvByHandler
<1> QED BY <1>1, CallFields, RequestFields
        DEF HandlerInv, OpAtPc, Atomic!Pending, AddPcs, RemovePcs, ClearPcs

(* A handler that answers without a commit refuses its call. *)
LEMMA RefusedStep ==
  ASSUME IndInv, NEW r \in Requests, Running(r), NEW code \in Answers \ {"ok"},
         Reply(r, code), UNCHANGED qty
  PROVE  Atomic!Refused(r, code)
<1>1. TypeOK /\ calls[r].ans = "pending" /\ calls[r] = callOf(r)
  BY HandlerFacts, CallFields
<1>2. /\ Others(r) /\ Args(r) /\ req'[r].pc = "done" /\ req'[r].res = code
      /\ req'[r].old = req[r].old
  BY <1>1, ReplyFields
<1>3. callOf(r)' = [callOf(r) EXCEPT !.ans = code]
  BY <1>2 DEF callOf, Args, Running
<1> QED BY <1>1, <1>2, <1>3, OneCall DEF Atomic!Refused

(* A handler that commits has the effect of its call. *)
LEMMA EffectedStep ==
  ASSUME TypeOK, NEW r \in Requests, Running(r), NEW gone,
         NEW left \in Units, NEW ack \in BOOLEAN,
         ReplyCommit(r, gone, left, ack)
  PROVE  Atomic!Effected(r, gone, left)
<1>1. /\ \A s \in Requests : s # r => Loses(s, gone)
      /\ Args(r) /\ req'[r].pc = "done" /\ req'[r].val = left
      /\ req'[r].old = req[r].old \ gone
  <2>1. /\ \A s \in Requests : s # r => Loses(s, gone)
        /\ Args(r) /\ req'[r].pc = "done"
    BY ReplyCommitFields
  <2>2. req'[r].val = left /\ req'[r].old = req[r].old \ gone
    BY RequestFields DEF ReplyCommit, Request
  <2> QED BY <2>1, <2>2
<1> DEFINE code == IF ack THEN "ok" ELSE "internal"
           after(s) == [calls[s] EXCEPT !.old = @ \ gone,
                          !.left = IF s = r /\ code = "ok" THEN left ELSE @,
                          !.ans = IF s = r THEN code ELSE @]
<1>2. req'[r].res = code
  BY RequestFields DEF ReplyCommit, Request
<1>3. ASSUME NEW s \in Requests PROVE callOf(s)' = after(s)
  <2> DEFINE c == callOf(s)
             ans == IF s = r THEN code ELSE c.ans
             shown == IF s = r /\ code = "ok" THEN left ELSE c.left
  <2>1. /\ req'[s].op = req[s].op /\ req'[s].prod = req[s].prod
        /\ req'[s].n = req[s].n /\ req'[s].old = req[s].old \ gone
        /\ callOf(s)'.ans = ans /\ callOf(s)'.left = shown
    <3>1. CASE s = r
      BY <1>1, <1>2, <3>1 DEF Args, callOf, Running
    <3>2. CASE s # r
      BY <1>1, <3>2 DEF Loses, callOf
    <3> QED BY <3>1, <3>2
  <2>2. callOf(s)' = [op |-> c.op, prod |-> c.prod, n |-> c.n,
                      old |-> c.old \ gone, left |-> shown, ans |-> ans]
    <3>1. /\ c.op = req[s].op /\ c.prod = req[s].prod
          /\ c.n = req[s].n /\ c.old = req[s].old
      BY DEF callOf
    <3> HIDE DEF ans, shown, c
    <3> QED BY <2>1, <3>1 DEF callOf
  <2>3. /\ c = [op |-> c.op, prod |-> c.prod, n |-> c.n, old |-> c.old,
                left |-> c.left, ans |-> c.ans]
        /\ after(s) = [c EXCEPT !.old = c.old \ gone, !.left = shown, !.ans = ans]
    BY CallFields DEF callOf
  <2> HIDE DEF c, ans, shown, after
  <2> QED BY <2>2, <2>3
<1>4. calls' = [s \in Requests |-> after(s)]
  BY <1>3 DEF calls
<1> QED BY <1>4 DEF Atomic!Effected

LEMMA BreakStep ==
  ASSUME IndInv, NEW r \in Requests, Running(r), Reply(r, "internal"),
         UNCHANGED qty
  PROVE  AtomicStep
<1>1. Atomic!Break(r)
  BY HandlerFacts, RefusedStep DEF Atomic!Break, Answers
<1> QED BY <1>1 DEF AtomicStep, Atomic!Next, Atomic!Effect

LEMMA GotoStep ==
  ASSUME IndInv, NEW r \in Requests, Running(r), UNCHANGED qty,
         NEW label \in Pcs \ {"idle", "done"},
         Goto(r, label) \/ \E v \in 0..MaxQty : Choose(r, label, v)
  PROVE  AtomicStep
<1>1. TypeOK
  BY IndInvByHandler
<1>2. /\ Others(r) /\ Args(r) /\ req'[r].pc = label
      /\ req'[r].old = req[r].old
  BY <1>1, GotoFields, ChooseFields
<1> QED BY <1>2, SilentStep DEF Running

-----------------------------------------------------------------------------
(* The steps, operation by operation. *)

LEMMA ArrivalRefines ==
  ASSUME IndInv, NEW r \in Requests, Arrive(r)
  PROVE  AtomicStep
<1>1. TypeOK
  BY IndInvByHandler
<1>2. ASSUME NEW q, req' = [req EXCEPT ![r] = q]
      PROVE  Others(r) /\ req'[r] = q
  BY <1>1, <1>2 DEF TypeOK, Others
<1>3. SUFFICES Atomic!Arrive(r)
  BY DEF AtomicStep, Atomic!Next
<1>4. ASSUME NEW p \in Products \cup {None}, NEW n \in Amounts, AddToCart(r, p, n)
      PROVE  Atomic!Arrive(r)
  <2> DEFINE bad == p = None \/ n = 0
             q == [IdleRequest EXCEPT !.op = "add", !.prod = p, !.n = n,
                     !.pc  = IF bad THEN "done" ELSE "add_begin",
                     !.res = IF bad THEN "validation" ELSE "none"]
  <2>1. req[r].pc = "idle" /\ req' = [req EXCEPT ![r] = q] /\ UNCHANGED qty
    BY <1>4 DEF AddToCart
  <2>2. Others(r) /\ req'[r] = q
    BY <1>2, <2>1
  <2>3. callOf(r)' = Atomic!CallRecord("add", p, n, {},
                       IF bad THEN "validation" ELSE "pending")
    BY <2>2 DEF callOf, IdleRequest, Atomic!CallRecord
  <2>4. Atomic!CallAdd(r, p, n)
    BY <2>1, <2>2, <2>3, OneCall DEF Atomic!CallAdd, Atomic!Call
  <2> QED BY <2>1, <2>4, CallFields DEF Atomic!Arrive
<1>5. ASSUME NEW p \in Products \cup {None}, DeleteOneFromCart(r, p)
      PROVE  Atomic!Arrive(r)
  <2> DEFINE q == [IdleRequest EXCEPT !.op = "remove", !.prod = p,
                     !.pc  = IF p = None THEN "done" ELSE "rem_begin",
                     !.res = IF p = None THEN "validation" ELSE "none"]
  <2>1. req[r].pc = "idle" /\ req' = [req EXCEPT ![r] = q] /\ UNCHANGED qty
    BY <1>5 DEF DeleteOneFromCart
  <2>2. Others(r) /\ req'[r] = q
    BY <1>2, <2>1
  <2>3. callOf(r)' = Atomic!CallRecord("remove", p, 0, {},
                       IF p = None THEN "validation" ELSE "pending")
    BY <2>2 DEF callOf, IdleRequest, Atomic!CallRecord
  <2>4. Atomic!CallRemove(r, p)
    BY <2>1, <2>2, <2>3, OneCall DEF Atomic!CallRemove, Atomic!Call
  <2> QED BY <2>1, <2>4, CallFields DEF Atomic!Arrive
<1>6. ASSUME DeleteAllFromCart(r)
      PROVE  Atomic!Arrive(r)
  <2> DEFINE q == [IdleRequest EXCEPT !.op = "clear", !.pc = "clear_scan",
                     !.old = Atomic!InCart]
  <2>1. req[r].pc = "idle" /\ req' = [req EXCEPT ![r] = q] /\ UNCHANGED qty
    BY <1>6 DEF DeleteAllFromCart, Atomic!InCart
  <2>2. Others(r) /\ req'[r] = q
    BY <1>2, <2>1
  <2>3. callOf(r)' = Atomic!CallRecord("clear", None, 0, Atomic!InCart, "pending")
    BY <2>2 DEF callOf, IdleRequest, Atomic!CallRecord
  <2>4. Atomic!CallClear(r)
    BY <2>1, <2>2, <2>3, OneCall DEF Atomic!CallClear, Atomic!Call
  <2> QED BY <2>1, <2>4, CallFields DEF Atomic!Arrive
<1> QED BY <1>4, <1>5, <1>6 DEF Arrive

(* The UPDATE or INSERT is silent or breaks; the COMMIT adds the units. *)
LEMMA AddRefines ==
  ASSUME IndInv, NEW r \in Requests,
         \/ AddBegin(r) \/ AddUpdate(r) \/ AddInsert(r)
         \/ \E ack \in BOOLEAN : AddCommit(r, ack)
  PROVE  AtomicStep
<1>1. Running(r) /\ req[r].pc \in AddPcs
  BY DEF AddBegin, AddUpdate, AddInsert, AddCommit, Running, AddPcs
<1> DEFINE p == req[r].prod
<1>2. /\ TypeOK /\ HandlerInv(r) /\ Atomic!Pending(r, "add") /\ p \in Products
      /\ calls[r].prod = p /\ calls[r].n = req[r].n
  BY <1>1, HandlerFacts, CallFields
<1>3. /\ qty[p] \in 0..MaxQty /\ req[r].n \in Nat /\ req[r].val \in 0..MaxQty
      /\ MaxQty \in Nat
  BY <1>2, RequestFields, AmountsAssumption DEF TypeOK
<1>4. CASE AddBegin(r)
  BY <1>1, <1>4, GotoStep DEF AddBegin, Pcs
<1>5. CASE AddUpdate(r)
  <2>1. qty[p] + req[r].n <= MaxQty => qty[p] + req[r].n \in 0..MaxQty
    BY <1>3
  <2> QED BY <1>1, <1>5, <2>1, GotoStep, BreakStep DEF AddUpdate, Pcs
<1>6. CASE AddInsert(r)
  <2>1. req[r].n <= MaxQty => req[r].n \in 0..MaxQty
    BY <1>3
  <2> QED BY <1>1, <1>6, <2>1, GotoStep, BreakStep DEF AddInsert, Pcs
<1>7. ASSUME NEW ack \in BOOLEAN, AddCommit(r, ack) PROVE AtomicStep
  <2>1. qty[p] + req[r].n = req[r].val
    BY <1>2, <1>7 DEF HandlerInv, Stable, AddCommit
  <2>2. /\ qty' = [qty EXCEPT ![p] = req[r].val]
        /\ Atomic!Effected(r, {}, req[r].val)
    BY <1>1, <1>2, <1>7, RequestFields, EffectedStep DEF AddCommit, Units
  <2>3. /\ qty[calls[r].prod] + calls[r].n = req[r].val
        /\ qty[calls[r].prod] + calls[r].n <= MaxQty
    BY <1>2, <1>3, <2>1
  <2>4. qty' = [qty EXCEPT ![calls[r].prod] = qty[calls[r].prod] + calls[r].n]
    BY <1>2, <2>2, <2>3
  <2>5. Atomic!Add(r)
    BY <1>2, <2>2, <2>3, <2>4 DEF Atomic!Add
  <2> QED BY <2>5 DEF AtomicStep, Atomic!Next, Atomic!Effect
<1> QED BY <1>4, <1>5, <1>6, <1>7

(* The SELECT finds nothing or is silent; the COMMIT takes the unit, which the
   row has because it has been locked since it was read. *)
LEMMA RemoveRefines ==
  ASSUME IndInv, NEW r \in Requests,
         \/ RemoveBegin(r) \/ RemoveLock(r)
         \/ \E ack \in BOOLEAN : RemoveCommit(r, ack)
  PROVE  AtomicStep
<1>1. Running(r) /\ req[r].pc \in RemovePcs
  BY DEF RemoveBegin, RemoveLock, RemoveCommit, Running, RemovePcs
<1> DEFINE p == req[r].prod
<1>2. /\ TypeOK /\ HandlerInv(r) /\ Atomic!Pending(r, "remove")
      /\ p \in Products /\ calls[r].prod = p
  BY <1>1, HandlerFacts
<1>3. qty[p] \in 0..MaxQty
  BY <1>2 DEF TypeOK
<1>4. CASE RemoveBegin(r)
  BY <1>1, <1>4, GotoStep DEF RemoveBegin, Pcs
<1>5. CASE RemoveLock(r)
  <2>1. CASE qty[p] = 0 /\ Reply(r, "notfound")
    <3>1. Atomic!NotInCart(r)
      BY <1>1, <1>2, <1>5, <2>1, RefusedStep
         DEF RemoveLock, Answers, Atomic!NotInCart
    <3> QED BY <3>1 DEF AtomicStep, Atomic!Next, Atomic!Effect
  <2>2. CASE Choose(r, "rem_commit", qty[p])
    BY <1>1, <1>3, <1>5, <2>2, GotoStep DEF RemoveLock, Pcs
  <2> QED BY <1>5, <2>1, <2>2 DEF RemoveLock
<1>6. ASSUME NEW ack \in BOOLEAN, RemoveCommit(r, ack) PROVE AtomicStep
  <2> DEFINE gone == IF qty[p] = 1 THEN {p} ELSE {}
  <2>1. qty[p] = req[r].val /\ qty[p] > 0
    BY <1>2, <1>6 DEF HandlerInv, Stable, RemoveCommit
  <2>2. ReplyCommit(r, gone, qty[p] - 1, ack) /\ qty[p] - 1 \in Units
    <3>1. qty[p] = 1 => qty[p] - 1 = 0
      OBVIOUS
    <3>2. qty[p] - 1 \in Units
      BY <1>3, <2>1, AmountsAssumption DEF Units
    <3> QED BY <1>3, <1>6, <2>1, <3>1, <3>2 DEF RemoveCommit
  <2>3. qty' = [qty EXCEPT ![p] = @ - 1]
    <3> DEFINE left == IF qty[p] = 1 THEN 0 ELSE qty[p] - 1
    <3>1. qty' = [qty EXCEPT ![p] = left]
      BY <1>3, <1>6, <2>1 DEF RemoveCommit
    <3>2. left = qty[p] - 1
      BY <1>3, <2>1
    <3> HIDE DEF left
    <3> QED BY <3>1, <3>2
  <2>4. Atomic!Effected(r, gone, qty[p] - 1)
    BY <1>1, <1>2, <2>2, EffectedStep
  <2>5. Atomic!RemoveOne(r)
    BY <1>2, <2>1, <2>3, <2>4 DEF Atomic!RemoveOne
  <2> QED BY <2>5 DEF AtomicStep, Atomic!Next, Atomic!Effect
<1> QED BY <1>4, <1>5, <1>6

(* The rows are locked one after the other and deleted at once. *)
LEMMA ClearRefines ==
  ASSUME IndInv, NEW r \in Requests,
         \/ ClearScan(r) \/ ClearNext(r) \/ ClearLock(r)
         \/ \E ack \in BOOLEAN : ClearCommit(r, ack)
  PROVE  AtomicStep
<1>1. Running(r) /\ req[r].pc \in ClearPcs
  BY DEF ClearScan, ClearNext, ClearLock, ClearCommit, Running, ClearPcs
<1>2. /\ TypeOK /\ HandlerInv(r) /\ Atomic!Pending(r, "clear")
      /\ calls[r].old = req[r].old
  BY <1>1, HandlerFacts, CallFields
<1>3. CASE ClearScan(r) \/ ClearNext(r) \/ ClearLock(r)
  <2>1. /\ Others(r) /\ Args(r) /\ req'[r].old = req[r].old
        /\ req'[r].pc = "clear_lock" /\ UNCHANGED qty
    <3>1. ASSUME NEW q, req' = [req EXCEPT ![r] = q], q.pc = "clear_lock",
                 q.op = req[r].op, q.prod = req[r].prod, q.n = req[r].n,
                 q.old = req[r].old
          PROVE  /\ Others(r) /\ Args(r) /\ req'[r].old = req[r].old
                 /\ req'[r].pc = "clear_lock"
      BY <1>2, <3>1 DEF TypeOK, Others, Args
    <3>2. CASE ClearScan(r)
      <4> DEFINE q == [req[r] EXCEPT !.pc = "clear_lock",
                                     !.want = {p \in Products : qty[p] > 0}]
      <4>1. req' = [req EXCEPT ![r] = q] /\ UNCHANGED qty
        BY <3>2 DEF ClearScan
      <4>2. /\ q.pc = "clear_lock" /\ q.op = req[r].op
            /\ q.prod = req[r].prod /\ q.n = req[r].n /\ q.old = req[r].old
        BY <1>2, RequestFields DEF Request
      <4> HIDE DEF q
      <4> QED BY <3>1, <4>1, <4>2
    <3>3. CASE ClearNext(r)
      <4>1. PICK p \in req[r].want :
              req' = [req EXCEPT ![r] = [@ EXCEPT !.next = p]]
        BY <3>3 DEF ClearNext
      <4> DEFINE q == [req[r] EXCEPT !.next = p]
      <4>2. /\ q.pc = "clear_lock" /\ q.op = req[r].op
            /\ q.prod = req[r].prod /\ q.n = req[r].n /\ q.old = req[r].old
            /\ UNCHANGED qty
        BY <1>2, <3>3, RequestFields DEF Request, ClearNext
      <4>3. req' = [req EXCEPT ![r] = q]
        BY <4>1
      <4> HIDE DEF q
      <4> QED BY <3>1, <4>2, <4>3
    <3>4. CASE ClearLock(r)
      <4> DEFINE q == [req[r] EXCEPT !.want = @ \ {req[r].next}]
      <4>1. req' = [req EXCEPT ![r] = q] /\ UNCHANGED qty
        BY <3>4 DEF ClearLock
      <4>2. /\ q.pc = "clear_lock" /\ q.op = req[r].op
            /\ q.prod = req[r].prod /\ q.n = req[r].n /\ q.old = req[r].old
        BY <1>2, <3>4, RequestFields DEF Request, ClearLock
      <4> HIDE DEF q
      <4> QED BY <3>1, <4>1, <4>2
    <3> QED BY <1>3, <3>2, <3>3, <3>4
  <2> QED BY <1>1, <2>1, SilentStep DEF Running
<1>4. ASSUME NEW ack \in BOOLEAN, ClearCommit(r, ack) PROVE AtomicStep
  <2> DEFINE gone == {p \in Products : lock[p] = r}
  <2>1. /\ req[r].pc = "clear_lock" /\ req[r].want = {}
        /\ qty' = [p \in Products |-> IF p \in gone THEN 0 ELSE qty[p]]
        /\ ReplyCommit(r, gone, 0, ack) /\ 0 \in Units
    BY <1>4, AmountsAssumption DEF ClearCommit, Units
  <2>2. gone \in SUBSET Atomic!InCart /\ req[r].old \subseteq gone
    BY <1>2, <2>1, RequestFields DEF HandlerInv, OldAtPc, Atomic!InCart
  <2>3. Atomic!Effected(r, gone, 0)
    BY <1>1, <1>2, <2>1, EffectedStep
  <2> HIDE DEF gone
  <2>4. Atomic!Clear(r, gone)
    BY <1>2, <2>1, <2>2, <2>3 DEF Atomic!Clear
  <2> QED BY <2>2, <2>4 DEF AtomicStep, Atomic!Next, Atomic!Effect
<1> QED BY <1>3, <1>4

LEMMA EndRefines ==
  ASSUME IndInv, NEW r \in Requests,
         Answered(r) \/ Fail(r) \/ DeadlockVictim(r)
  PROVE  AtomicStep
<1>1. TypeOK
  BY IndInvByHandler
<1>2. CASE Answered(r)
  <2>1. /\ req[r].pc = "done" /\ UNCHANGED qty
        /\ Others(r) /\ req'[r] = IdleRequest
    BY <1>1, <1>2 DEF Answered, TypeOK, Others
  <2>2. callOf(r)' = Atomic!NoCall
    BY <2>1 DEF callOf, IdleRequest, Atomic!NoCall, Atomic!CallRecord
  <2>3. calls[r].ans \notin {"idle", "pending"}
    BY <1>1, <2>1, CallFields, RequestFields DEF Answers
  <2>4. Atomic!Return(r)
    BY <2>1, <2>2, <2>3, OneCall DEF Atomic!Return
  <2> QED BY <2>4 DEF AtomicStep, Atomic!Next
<1>3. CASE Fail(r)
  BY <1>3, BreakStep DEF Fail, Running
<1>4. CASE DeadlockVictim(r)
  <2>1. Running(r)
    BY <1>4 DEF DeadlockVictim, Deadlock, Running
  <2> QED BY <1>4, <2>1, BreakStep DEF DeadlockVictim
<1> QED BY <1>2, <1>3, <1>4

(* AddToCart, DeleteOneFromCart and DeleteAllFromCart, cut into the statements
   of their transactions and run concurrently, implement AtomicCart: every
   call takes effect at one moment, whole and once, or not at all. *)
THEOREM ImplementsAtomicCart == Spec => AtomicSpec
<1>1. Init => Atomic!Init
  <2> SUFFICES ASSUME Init PROVE Atomic!Init
    OBVIOUS
  <2>1. \A r \in Requests : callOf(r) = Atomic!NoCall
    BY DEF Init, callOf, IdleRequest, Atomic!NoCall, Atomic!CallRecord
  <2> QED BY <2>1 DEF Init, calls, Atomic!Init
<1>2. IndInv /\ [Next]_vars => [Atomic!Next]_<<qty, calls>>
  <2> SUFFICES ASSUME IndInv, [Next]_vars PROVE AtomicStep
    BY DEF AtomicStep
  <2>1. CASE UNCHANGED vars
    BY <2>1 DEF vars, calls, callOf, AtomicStep
  <2>2. ASSUME NEW r \in Requests, Arrive(r) PROVE AtomicStep
    BY <2>2, ArrivalRefines
  <2>3. ASSUME NEW r \in Requests, Serve(r) PROVE AtomicStep
    BY <2>3, AddRefines, RemoveRefines, ClearRefines, EndRefines DEF Serve
  <2>4. ASSUME NEW r \in Requests, Fail(r) PROVE AtomicStep
    BY <2>4, EndRefines
  <2>5. CASE Crash
    <3>1. \A r \in Requests : callOf(r)' = Atomic!NoCall
      BY <2>5 DEF Crash, callOf, IdleRequest, Atomic!NoCall, Atomic!CallRecord
    <3>2. Atomic!Crash
      BY <2>5, <3>1 DEF Crash, calls, Atomic!Crash
    <3> QED BY <3>2 DEF AtomicStep, Atomic!Next
  <2> QED BY <2>1, <2>2, <2>3, <2>4, <2>5 DEF Next
<1> QED BY <1>1, <1>2, Invariance, PTL DEF Spec, AtomicSpec, Atomic!Spec
=============================================================================
