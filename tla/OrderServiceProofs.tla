-------------------------- MODULE OrderServiceProofs --------------------------
(***************************************************************************)
(* Proofs about OrderService, for every set of orders, customers and       *)
(* concurrent handlers: the answers are truthful, statuses only climb, and *)
(* the service implements AtomicOrders.                                    *)
(***************************************************************************)
EXTENDS OrderService, TLAPS

LEMMA StatusFacts ==
  /\ None \notin SentStatuses /\ None \notin Statuses
  /\ \A s \in Statuses : Rank[s] \in Nat
  /\ \A s, t : CanTransition(s, t) =>
       s \in Statuses /\ t \in Statuses /\ Rank[s] < Rank[t]
  /\ \A t : ~CanTransition("CANCELLED", t)
BY NoneAssumption DEF Statuses, SentStatuses, CanTransition, Allowed, Rank

LEMMA RequestFields ==
  ASSUME TypeOK, NEW r \in Requests
  PROVE  /\ req[r].pc \in Pcs
         /\ req[r].op \in {"none", "create", "update", "cancel"}
         /\ req[r].order \in Orders \cup {None}
         /\ req[r].user \in Users \cup {None}
         /\ req[r].to \in SentStatuses \cup {None}
         /\ req[r].at \in Statuses \cup {None}
         /\ req[r].prev \in Statuses \cup {None}
         /\ req[r].res \in Answers
         /\ req[r].body \in Statuses \cup {None}
BY DEF TypeOK, Request

LEMMA IdleIsRequest == IdleRequest \in Request
BY DEF IdleRequest, Request, Pcs, Answers

-----------------------------------------------------------------------------
(* What the control-flow operators change, field by field. *)

Others(r) == \A s \in Requests : s # r => req'[s] = req[s]

Args(r) ==
  /\ req'[r].op = req[r].op /\ req'[r].order = req[r].order
  /\ req'[r].user = req[r].user /\ req'[r].to = req[r].to
  /\ req'[r].at = req[r].at

LEMMA GotoFields ==
  ASSUME TypeOK, NEW r \in Requests, NEW label \in Pcs, Goto(r, label)
  PROVE  /\ req' \in [Requests -> Request] /\ Others(r) /\ Args(r)
         /\ req'[r].pc = label /\ req'[r].prev = req[r].prev
         /\ req'[r].res = req[r].res /\ req'[r].body = req[r].body
<1> DEFINE q == [req[r] EXCEPT !.pc = label]
<1>1. req[r] \in Request
  BY DEF TypeOK
<1>2. /\ q \in Request /\ q.pc = label /\ q.op = req[r].op
      /\ q.order = req[r].order /\ q.user = req[r].user /\ q.to = req[r].to
      /\ q.at = req[r].at /\ q.prev = req[r].prev /\ q.res = req[r].res
      /\ q.body = req[r].body
  BY <1>1 DEF Request
<1>3. req'[r] = q /\ Others(r) /\ req' \in [Requests -> Request]
  BY <1>2 DEF TypeOK, Goto, Others
<1> QED BY <1>2, <1>3 DEF Args

LEMMA ReplyFields ==
  ASSUME TypeOK, NEW r \in Requests, NEW code \in Answers, Reply(r, code)
  PROVE  /\ req' \in [Requests -> Request] /\ Others(r) /\ Args(r)
         /\ req'[r].pc = "done" /\ req'[r].prev = req[r].prev
         /\ req'[r].res = code /\ req'[r].body = req[r].body
<1> DEFINE q == [req[r] EXCEPT !.pc = "done", !.res = code]
<1>1. req[r] \in Request
  BY DEF TypeOK
<1>2. /\ q \in Request /\ q.pc = "done" /\ q.op = req[r].op
      /\ q.order = req[r].order /\ q.user = req[r].user /\ q.to = req[r].to
      /\ q.at = req[r].at /\ q.prev = req[r].prev /\ q.res = code
      /\ q.body = req[r].body
  BY <1>1 DEF Request, Pcs
<1>3. req'[r] = q /\ Others(r) /\ req' \in [Requests -> Request]
  BY <1>2 DEF TypeOK, Reply, Others
<1> QED BY <1>2, <1>3 DEF Args

LEMMA ReplyOrderFields ==
  ASSUME TypeOK, NEW r \in Requests, NEW s \in Statuses, ReplyOrder(r, s)
  PROVE  /\ req' \in [Requests -> Request] /\ Others(r) /\ Args(r)
         /\ req'[r].pc = "done" /\ req'[r].prev = req[r].prev
         /\ req'[r].res = "ok" /\ req'[r].body = s
<1> DEFINE q == [req[r] EXCEPT !.pc = "done", !.res = "ok", !.body = s]
<1>1. req[r] \in Request
  BY DEF TypeOK
<1>0. "done" \in Pcs /\ "ok" \in Answers
  BY DEF Pcs, Answers
<1>4. q \in Request
  BY <1>0, <1>1 DEF Request
<1>2. /\ q.pc = "done" /\ q.op = req[r].op
      /\ q.order = req[r].order /\ q.user = req[r].user /\ q.to = req[r].to
      /\ q.at = req[r].at /\ q.prev = req[r].prev /\ q.res = "ok"
      /\ q.body = s
  BY <1>1 DEF Request
<1>3. req'[r] = q /\ Others(r) /\ req' \in [Requests -> Request]
  BY <1>4 DEF TypeOK, ReplyOrder, Others
<1> QED BY <1>2, <1>3 DEF Args

(* UpdateRead and CancelRead go on with the status they read. *)
LEMMA ChooseFields ==
  ASSUME TypeOK, NEW r \in Requests, NEW label \in Pcs, NEW s \in Statuses,
         Choose(r, label, s)
  PROVE  /\ req' \in [Requests -> Request] /\ Others(r) /\ Args(r)
         /\ req'[r].pc = label /\ req'[r].prev = s
         /\ req'[r].res = req[r].res /\ req'[r].body = req[r].body
<1> DEFINE q == [req[r] EXCEPT !.pc = label, !.prev = s]
<1>1. req[r] \in Request
  BY DEF TypeOK
<1>2. /\ q \in Request /\ q.pc = label /\ q.op = req[r].op
      /\ q.order = req[r].order /\ q.user = req[r].user /\ q.to = req[r].to
      /\ q.at = req[r].at /\ q.prev = s /\ q.res = req[r].res
      /\ q.body = req[r].body
  BY <1>1 DEF Request
<1>3. req'[r] = q /\ Others(r) /\ req' \in [Requests -> Request]
  BY <1>2 DEF TypeOK, Choose, Others
<1> QED BY <1>2, <1>3 DEF Args

LEMMA SetStatusRows ==
  ASSUME TypeOK, NEW o \in Orders, NEW s \in Statuses, SetStatus(o, s)
  PROVE  /\ status' \in [Orders -> Statuses \cup {None}]
         /\ passed' \in [Orders -> SUBSET Statuses]
         /\ status'[o] = s /\ passed'[o] = passed[o] \cup {s}
         /\ \A p \in Orders : p # o =>
              status'[p] = status[p] /\ passed'[p] = passed[p]
BY DEF TypeOK, SetStatus

-----------------------------------------------------------------------------
(* Rows only climb. *)

RowsKept == UNCHANGED <<status, owner, passed>>

RowsClimb ==
  \A o \in Orders :
    /\ Climbed(status[o], status'[o])
    /\ passed[o] \subseteq passed'[o]
    /\ status[o] # None => owner'[o] = owner[o]
    /\ status'[o] # status[o] =>
         \/ status[o] = None /\ status'[o] = "NEW"
         \/ CanTransition(status[o], status'[o])

RowsOK == RowsClimb /\ PassedOK' /\
  /\ status' \in [Orders -> Statuses \cup {None}]
  /\ owner' \in [Orders -> Users \cup {None}]
  /\ passed' \in [Orders -> SUBSET Statuses]

LEMMA KeptRowsOK == ASSUME IndInv, RowsKept PROVE RowsOK
BY StatusFacts DEF IndInv, TypeOK, RowsKept, RowsOK, RowsClimb, PassedOK,
                   Climbed

LEMMA CreateRowsOK ==
  ASSUME IndInv, NEW r \in Requests, NEW o \in Orders, NEW ack \in BOOLEAN,
         CreateInsert(r, o, ack)
  PROVE  RowsOK
<1>1. TypeOK /\ "NEW" \in Statuses
  BY DEF IndInv, Statuses
<1>2. SetStatus(o, "NEW") /\ status[o] = None
  BY DEF CreateInsert
<1>3. /\ owner' \in [Orders -> Users \cup {None}]
      /\ \A p \in Orders : p # o => owner'[p] = owner[p]
  BY <1>1, RequestFields DEF CreateInsert, TypeOK
<1> QED BY <1>1, <1>2, <1>3, SetStatusRows, StatusFacts
        DEF RowsOK, RowsClimb, Climbed, PassedOK, IndInv, TypeOK

LEMMA MoveRowsOK ==
  ASSUME IndInv, NEW o \in Orders, NEW s, CanTransition(status[o], s),
         SetStatus(o, s), UNCHANGED owner
  PROVE  RowsOK
<1>1. TypeOK /\ s \in Statuses /\ status[o] \in Statuses
      /\ Rank[status[o]] < Rank[s]
  BY StatusFacts DEF IndInv
<1> QED BY <1>1, SetStatusRows, StatusFacts
        DEF RowsOK, RowsClimb, Climbed, PassedOK, IndInv, TypeOK

(* A compare-and-set that matches makes an allowed move. *)
LEMMA CasMoves ==
  ASSUME IndInv, NEW r \in Requests
  PROVE  /\ req[r].pc \in UpdatePcs \cup CancelPcs => req[r].order \in Orders
         /\ req[r].pc = "update_cas" /\ status[req[r].order] = req[r].prev =>
              CanTransition(status[req[r].order], req[r].to)
         /\ status[req[r].order] = "NEW" =>
              CanTransition(status[req[r].order], "CANCELLED")
BY RequestFields
   DEF IndInv, OpAtPc, UpdatePcs, CancelPcs, CanTransition, Allowed

LEMMA RowsStep == ASSUME IndInv, [Next]_vars PROVE RowsOK
<1>1. CASE UNCHANGED vars
  BY <1>1, KeptRowsOK DEF vars, RowsKept
<1>2. ASSUME NEW r \in Requests, Arrive(r) PROVE RowsOK
  BY <1>2, KeptRowsOK DEF Arrive, ArriveForStatus, Create, Update,
                           Cancel, RowsKept
<1>3. ASSUME NEW r \in Requests, Serve(r) PROVE RowsOK
  <2>1. ASSUME NEW o \in Orders, NEW ack \in BOOLEAN, CreateInsert(r, o, ack)
        PROVE  RowsOK
    BY <2>1, CreateRowsOK
  <2>2. ASSUME NEW ack \in BOOLEAN, UpdateCas(r, ack) PROVE RowsOK
    <3>1. req[r].pc = "update_cas" /\ req[r].order \in Orders
      BY <2>2, CasMoves DEF UpdateCas, UpdatePcs
    <3>2. CASE status[req[r].order] = req[r].prev
      BY <2>2, <3>1, <3>2, CasMoves, MoveRowsOK DEF UpdateCas
    <3>3. CASE status[req[r].order] # req[r].prev
      BY <2>2, <3>3, KeptRowsOK DEF UpdateCas, RowsKept
    <3> QED BY <3>2, <3>3
  <2>3. ASSUME NEW ack \in BOOLEAN, CancelCas(r, ack) PROVE RowsOK
    <3>1. req[r].order \in Orders
      BY <2>3, CasMoves DEF CancelCas, CancelPcs
    <3>2. CASE status[req[r].order] = "NEW"
      BY <2>3, <3>1, <3>2, CasMoves, MoveRowsOK DEF CancelCas
    <3>3. CASE status[req[r].order] # "NEW"
      BY <2>3, <3>3, KeptRowsOK DEF CancelCas, RowsKept
    <3> QED BY <3>2, <3>3
  <2>4. CASE \/ UpdateRead(r) \/ UpdateRecheck(r) \/ UpdateReload(r)
             \/ CancelRead(r) \/ CancelRecheck(r) \/ CancelReload(r)
             \/ Answered(r)
    BY <2>4, KeptRowsOK
       DEF UpdateRead, UpdateRecheck, UpdateReload, CancelRead, CancelRecheck,
           CancelReload, Answered, RowsKept
  <2> QED BY <1>3, <2>1, <2>2, <2>3, <2>4 DEF Serve, ServeStatus
<1>4. ASSUME NEW r \in Requests, Fail(r) PROVE RowsOK
  BY <1>4, KeptRowsOK DEF Fail, RowsKept
<1>5. CASE Crash
  BY <1>5, KeptRowsOK DEF Crash, RowsKept
<1> QED BY <1>1, <1>2, <1>3, <1>4, <1>5 DEF Next

-----------------------------------------------------------------------------
(* What each handler knows. *)

Truthful(r) ==
  /\ req[r].op = "cancel" /\ req[r].res = "ok" =>
       status[req[r].order] = "CANCELLED" /\ req[r].body = "CANCELLED"
  /\ req[r].op = "update" /\ req[r].res = "ok" =>
       /\ {req[r].to, req[r].body} \subseteq passed[req[r].order]
       /\ Rank[req[r].to] <= Rank[req[r].body]

Knows(r) == OpAtPc(r) /\ StatusAtPc(r) /\ Truthful(r)

LEMMA AllKnow == ASSUME IndInv, NEW r \in Requests PROVE Knows(r)
BY DEF IndInv, CancelAckTruthful, UpdateAckTruthful, Knows, Truthful

(* Ranks tell statuses apart, so climbing past a status is for good. *)
LEMMA RankInjective ==
  ASSUME NEW s \in Statuses, NEW t \in Statuses, Rank[s] = Rank[t]
  PROVE  s = t
BY DEF Rank, Statuses

LEMMA ClimbedTrans ==
  ASSUME NEW s \in Statuses \cup {None}, NEW t \in Statuses \cup {None},
         NEW u \in Statuses \cup {None}, Climbed(s, t), Climbed(t, u)
  PROVE  Climbed(s, u) /\ (s # None /\ t # s => u # s)
BY StatusFacts, RankInjective DEF Climbed

LEMMA OthersKnow ==
  ASSUME IndInv, RowsOK, NEW s \in Requests, req'[s] = req[s]
  PROVE  Knows(s)'
<1> DEFINE o == req[s].order
<1>1. Knows(s) /\ TypeOK
  BY AllKnow DEF IndInv
<1>2. OpAtPc(s)'
  BY <1>1 DEF Knows, OpAtPc
<1>3. StatusAtPc(s)' /\ Truthful(s)'
  <2>1. CASE o \notin Orders
    <3>1. /\ req[s].op \notin {"update", "cancel"}
          /\ req[s].pc \notin UpdatePcs \cup CancelPcs
      BY <1>1, <2>1, RequestFields DEF Knows, OpAtPc
    <3> QED BY <3>1 DEF StatusAtPc, Truthful, UpdatePcs, CancelPcs, Chosen,
                        Raced
  <2>2. CASE o \in Orders
    <3>1. /\ status[o] \in Statuses \cup {None}
          /\ status'[o] \in Statuses \cup {None}
          /\ Climbed(status[o], status'[o])
          /\ passed[o] \subseteq passed'[o]
          /\ status[o] # None => owner'[o] = owner[o]
          /\ status[o] = "CANCELLED" => status'[o] = "CANCELLED"
      BY <1>1, <2>2, StatusFacts DEF RowsOK, RowsClimb, TypeOK, Statuses
    <3>2. /\ req[s].at \in Statuses \cup {None}
          /\ req[s].prev \in Statuses \cup {None}
          /\ req[s].to \in SentStatuses \cup {None}
      BY <1>1, RequestFields
    <3>3. Truthful(s)'
      BY <1>1, <3>1 DEF Knows, Truthful
    <3>4. StatusAtPc(s)'
      <4>1. req[s].op \in {"update", "cancel"} =>
              Climbed(req[s].at, status'[o])
        BY <1>1, <3>1, <3>2, ClimbedTrans DEF Knows, StatusAtPc
      <4>2. req[s].pc \in Chosen => /\ Climbed(req[s].at, req[s].prev)
                                    /\ Climbed(req[s].prev, status'[o])
                                    /\ req[s].prev # None
        BY <1>1, <3>1, <3>2, ClimbedTrans DEF Knows, StatusAtPc, OpAtPc
      <4>3. req[s].pc \in Raced => status'[o] # req[s].prev
        BY <1>1, <3>1, <3>2, <4>2, ClimbedTrans
           DEF Knows, StatusAtPc, OpAtPc, Chosen
      <4>4. req[s].pc \in {"cancel_cas", "cancel_recheck", "cancel_reload"} =>
              owner'[o] = req[s].user
        BY <1>1, <3>1, <4>2, StatusFacts
           DEF Knows, StatusAtPc, OpAtPc, Chosen, Raced, Climbed, Statuses
      <4>5. req[s].pc = "cancel_reload" => status'[o] = "CANCELLED"
        BY <1>1, <3>1 DEF Knows, StatusAtPc
      <4>6. req[s].pc = "update_reload" =>
              req[s].to \in passed'[o] /\ Climbed(req[s].to, status'[o])
        <5>1. SUFFICES ASSUME req[s].pc = "update_reload"
                       PROVE  req[s].to \in passed'[o]
                                /\ Climbed(req[s].to, status'[o])
          OBVIOUS
        <5>2. req[s].to \in passed[o] /\ Climbed(req[s].to, status[o])
          BY <1>1, <5>1 DEF Knows, StatusAtPc
        <5>3. req[s].to \in Statuses
          BY <1>1, <2>2, <5>2 DEF TypeOK
        <5> QED BY <3>1, <5>2, <5>3, ClimbedTrans
      <4> QED BY <4>1, <4>2, <4>3, <4>4, <4>5, <4>6 DEF StatusAtPc
    <3> QED BY <3>3, <3>4
  <2> QED BY <2>1, <2>2
<1> QED BY <1>2, <1>3 DEF Knows

LEMMA IdleKnows ==
  ASSUME NEW s \in Requests, req'[s] = IdleRequest PROVE Knows(s)'
BY DEF Knows, OpAtPc, StatusAtPc, Truthful, IdleRequest, UpdatePcs,
       CancelPcs, Chosen, Raced

-----------------------------------------------------------------------------
(* What a handler learns from its next statement. *)

Moves(r) == req' \in [Requests -> Request] /\ Others(r) /\ Knows(r)'

LEMMA IdleMoves ==
  ASSUME IndInv, NEW r \in Requests, req' = [req EXCEPT ![r] = IdleRequest]
  PROVE  Moves(r)
<1>1. req' \in [Requests -> Request] /\ Others(r) /\ req'[r] = IdleRequest
  BY IdleIsRequest DEF IndInv, TypeOK, Others
<1> QED BY <1>1, IdleKnows DEF Moves

(* An error answer promises nothing about the order. *)
LEMMA ErrorMoves ==
  ASSUME IndInv, RowsOK, NEW r \in Requests, NEW code \in Answers \ {"none", "ok"},
         Reply(r, code)
  PROVE  Moves(r)
<1> DEFINE o == req[r].order
<1>1. /\ req' \in [Requests -> Request] /\ Others(r) /\ Args(r)
      /\ req'[r].pc = "done" /\ req'[r].res = code
  BY ReplyFields DEF IndInv
<1>2. Knows(r) /\ TypeOK
  BY AllKnow DEF IndInv
<1>3. OpAtPc(r)' /\ Truthful(r)'
  BY <1>1, <1>2 DEF Args, Knows, OpAtPc, Truthful, UpdatePcs, CancelPcs,
                    Chosen, Raced
<1>4. req[r].op \in {"update", "cancel"} => Climbed(req[r].at, status'[o])
  <2>1. SUFFICES ASSUME req[r].op \in {"update", "cancel"}
                 PROVE  Climbed(req[r].at, status'[o])
    OBVIOUS
  <2>2. o \in Orders
    BY <1>2, <2>1, RequestFields DEF Knows, OpAtPc
  <2>3. /\ status[o] \in Statuses \cup {None}
        /\ status'[o] \in Statuses \cup {None}
        /\ req[r].at \in Statuses \cup {None}
    BY <1>2, <2>2, RequestFields DEF TypeOK, RowsOK
  <2>4. Climbed(req[r].at, status[o]) /\ Climbed(status[o], status'[o])
    BY <1>2, <2>1, <2>2 DEF Knows, StatusAtPc, RowsOK, RowsClimb
  <2> QED BY <2>3, <2>4, ClimbedTrans
<1>5. StatusAtPc(r)'
  BY <1>1, <1>4 DEF Args, StatusAtPc, Chosen, Raced
<1> QED BY <1>1, <1>3, <1>5 DEF Moves, Knows

LEMMA ArrivalMoves ==
  ASSUME IndInv, NEW r \in Requests, Arrive(r) PROVE Moves(r)
<1> USE DEF IndInv, TypeOK
<1> USE DEF Others, Moves, Knows, OpAtPc, StatusAtPc, Truthful, UpdatePcs,
            CancelPcs, Chosen, Raced
<1>1. ASSUME NEW u \in Users, NEW valid \in BOOLEAN, Create(r, u, valid)
      PROVE  Moves(r)
  <2> DEFINE q == [IdleRequest EXCEPT !.op = "create", !.user = u,
                     !.pc  = IF valid THEN "create_insert" ELSE "done",
                     !.res = IF valid THEN "none" ELSE "validation"]
  <2>1. q \in Request
    BY DEF IdleRequest, Request, Pcs, Answers
  <2>2. req' = [req EXCEPT ![r] = q]
    BY <1>1 DEF Create
  <2>3. u # None
    BY NoneAssumption
  <2> QED BY <2>1, <2>2, <2>3 DEF IdleRequest
<1>2. ASSUME NEW o \in Orders, NEW to \in SentStatuses, NEW admin \in BOOLEAN,
             Update(r, o, to, admin)
      PROVE  Moves(r)
  <2> DEFINE q == [IdleRequest EXCEPT !.op = "update", !.order = o, !.to = to,
                     !.at  = status[o],
                     !.pc  = IF admin THEN "update_read" ELSE "done",
                     !.res = IF admin THEN "none" ELSE "forbidden"]
  <2>1. q \in Request
    BY DEF IdleRequest, Request, Pcs, Answers
  <2>2. req' = [req EXCEPT ![r] = q] /\ UNCHANGED status
    BY <1>2 DEF Update
  <2>3. o # None /\ to # None /\ Climbed(status[o], status[o])
    BY NoneAssumption, StatusFacts DEF Climbed
  <2> QED BY <2>1, <2>2, <2>3 DEF IdleRequest
<1>3. ASSUME NEW o \in Orders, NEW u \in Users, Cancel(r, o, u)
      PROVE  Moves(r)
  <2> DEFINE q == [IdleRequest EXCEPT !.op = "cancel", !.order = o, !.user = u,
                     !.at = status[o], !.pc = "cancel_read"]
  <2>1. q \in Request
    BY DEF IdleRequest, Request, Pcs, Answers
  <2>2. req' = [req EXCEPT ![r] = q] /\ UNCHANGED status
    BY <1>3 DEF Cancel
  <2>3. o # None /\ u # None /\ Climbed(status[o], status[o])
    BY NoneAssumption, StatusFacts DEF Climbed
  <2> QED BY <2>1, <2>2, <2>3 DEF IdleRequest
<1> HIDE DEF Moves
<1> QED BY <1>1, <1>2, <1>3 DEF Arrive, ArriveForStatus

LEMMA CreateMoves ==
  ASSUME IndInv, NEW r \in Requests, NEW o \in Orders, NEW ack \in BOOLEAN,
         CreateInsert(r, o, ack)
  PROVE  Moves(r)
<1>1. Knows(r) /\ TypeOK /\ RowsOK /\ req[r].pc = "create_insert"
  BY AllKnow, CreateRowsOK DEF IndInv, CreateInsert
<1>2. CASE ack
  <2>1. ReplyOrder(r, "NEW") /\ "NEW" \in Statuses
    BY <1>2 DEF CreateInsert, Statuses
  <2>2. /\ req' \in [Requests -> Request] /\ Others(r) /\ Args(r)
        /\ req'[r].pc = "done" /\ req'[r].res = "ok"
    BY <1>1, <2>1, ReplyOrderFields
  <2>3. req[r].op = "create"
    BY <1>1 DEF Knows, OpAtPc
  <2> QED BY <2>2, <2>3, <1>1 DEF Moves, Args, Knows, OpAtPc, StatusAtPc, Truthful,
                          UpdatePcs, CancelPcs, Chosen, Raced
<1>3. CASE ~ack
  <2>1. Reply(r, "internal") /\ "internal" \in Answers \ {"none", "ok"}
    BY <1>3 DEF CreateInsert, Answers
  <2> QED BY <1>1, <2>1, ErrorMoves
<1> QED BY <1>2, <1>3

(* A statement that only reads and then answers with what it read. *)
LEMMA OrderMoves ==
  ASSUME IndInv, RowsKept, NEW r \in Requests, NEW s \in Statuses,
         ReplyOrder(r, s), req[r].order \in Orders, s = status[req[r].order],
         req[r].op = "cancel" => s = "CANCELLED",
         req[r].op = "update" =>
           req[r].to \in passed[req[r].order] /\ Rank[req[r].to] <= Rank[s]
  PROVE  Moves(r)
<1>1. Knows(r) /\ TypeOK /\ PassedOK
  BY AllKnow DEF IndInv
<1>2. /\ req' \in [Requests -> Request] /\ Others(r) /\ Args(r)
      /\ req'[r].pc = "done" /\ req'[r].res = "ok" /\ req'[r].body = s
  BY <1>1, ReplyOrderFields
<1>3. s \in passed[req[r].order]
  BY <1>1, StatusFacts DEF PassedOK
<1>4. Truthful(r)'
  BY <1>2, <1>3 DEF Truthful, Args, RowsKept
<1>5. OpAtPc(r)' /\ StatusAtPc(r)'
  BY <1>1, <1>2 DEF Knows, Args, RowsKept, OpAtPc, StatusAtPc, UpdatePcs,
                    CancelPcs, Chosen, Raced
<1> QED BY <1>2, <1>4, <1>5 DEF Moves, Knows

LEMMA UpdateMoves ==
  ASSUME IndInv, NEW r \in Requests, RowsOK,
         \/ UpdateRead(r) \/ UpdateRecheck(r) \/ UpdateReload(r)
         \/ \E ack \in BOOLEAN : UpdateCas(r, ack)
  PROVE  Moves(r)
<1> DEFINE o == req[r].order
           current == status[o]
<1>1. Knows(r) /\ TypeOK /\ PassedOK
  BY AllKnow DEF IndInv
<1>2. /\ o \in Orders /\ req[r].op = "update" /\ req[r].res = "none"
      /\ current \in Statuses \cup {None} /\ req[r].to # None
      /\ req[r].at \in Statuses \cup {None}
      /\ req[r].prev \in Statuses \cup {None}
      /\ req[r].pc \in UpdatePcs /\ req[r].order # None
  <2>1. req[r].pc \in UpdatePcs
    BY DEF UpdateRead, UpdateRecheck, UpdateReload, UpdateCas, UpdatePcs
  <2>2. req[r].op = "update" /\ o # None /\ req[r].to # None
    BY <1>1, <2>1 DEF Knows, OpAtPc
  <2>3. req[r].res = "none"
    BY <1>1, <2>1 DEF Knows, OpAtPc, UpdatePcs
  <2> QED BY <1>1, <2>1, <2>2, <2>3, RequestFields DEF TypeOK
<1>e. {"conflict", "notfound", "internal"} \subseteq Answers \ {"none", "ok"}
  BY DEF Answers
<1>c. Climbed(req[r].at, current)
  BY <1>1, <1>2 DEF Knows, StatusAtPc
<1>3. CASE UpdateRead(r)
  <2>1. CASE Reply(r, "notfound") \/ Reply(r, "conflict")
    BY <1>e, <2>1, ErrorMoves
  <2>2. CASE CanTransition(current, req[r].to)
               /\ Choose(r, "update_cas", current)
    <3>1. current \in Statuses /\ current # None
      BY <2>2, StatusFacts
    <3>2. "update_cas" \in Pcs
      BY DEF Pcs
    <3>3. /\ req' \in [Requests -> Request] /\ Others(r) /\ Args(r)
          /\ req'[r].pc = "update_cas" /\ req'[r].prev = current
          /\ req'[r].res = "none"
      BY <1>1, <1>2, <2>2, <3>1, <3>2, ChooseFields
    <3>4. UNCHANGED <<status, owner, passed>>
      BY <1>3 DEF UpdateRead
    <3>5. OpAtPc(r)'
      BY <1>2, <2>2, <3>1, <3>3
         DEF OpAtPc, Args, UpdatePcs, CancelPcs, Chosen, Raced
    <3>6. Climbed(current, current)
      BY <3>1, StatusFacts DEF Climbed
    <3>7. StatusAtPc(r)'
      BY <1>2, <1>c, <3>3, <3>4, <3>6 DEF StatusAtPc, Args, Chosen, Raced
    <3>8. Truthful(r)'
      BY <3>3 DEF Truthful
    <3> QED BY <3>3, <3>5, <3>7, <3>8 DEF Moves, Knows
  <2> QED BY <1>3, <2>1, <2>2 DEF UpdateRead
<1>4. ASSUME NEW ack \in BOOLEAN, UpdateCas(r, ack) PROVE Moves(r)
  <2>1. /\ CanTransition(req[r].prev, req[r].to)
        /\ req[r].prev \in Statuses /\ req[r].to \in Statuses
        /\ Rank[req[r].prev] < Rank[req[r].to]
        /\ Climbed(req[r].at, req[r].prev) /\ Climbed(req[r].prev, current)
    BY <1>1, <1>4, StatusFacts
       DEF UpdateCas, Knows, OpAtPc, StatusAtPc, Chosen
  <2>2. CASE current = req[r].prev /\ ack
    <3>1. Goto(r, "update_reload") /\ SetStatus(o, req[r].to)
      BY <1>4, <2>2 DEF UpdateCas
    <3>2. /\ status'[o] = req[r].to /\ req[r].to \in passed'[o]
      BY <1>1, <1>2, <2>1, <3>1, SetStatusRows
    <3>3. /\ req' \in [Requests -> Request] /\ Others(r) /\ Args(r)
          /\ req'[r].pc = "update_reload" /\ req'[r].res = "none"
      BY <1>1, <1>2, <3>1, GotoFields DEF Pcs
    <3>4. OpAtPc(r)' /\ Truthful(r)'
      BY <1>2, <3>3 DEF OpAtPc, Truthful, Args, UpdatePcs, CancelPcs, Chosen,
                        Raced
    <3>5. Climbed(req[r].at, req[r].to) /\ Climbed(req[r].to, req[r].to)
      BY <1>2, <2>1, StatusFacts DEF Climbed
    <3>6. StatusAtPc(r)'
      BY <1>2, <3>2, <3>3, <3>5 DEF StatusAtPc, Args, Chosen, Raced
    <3> QED BY <3>3, <3>4, <3>6 DEF Moves, Knows
  <2>3. CASE current = req[r].prev /\ ~ack
    BY <1>4, <1>e, <2>3, ErrorMoves DEF UpdateCas
  <2>4. CASE current # req[r].prev
    <3>1. Goto(r, "update_recheck") /\ UNCHANGED <<status, owner, passed>>
      BY <1>4, <2>4 DEF UpdateCas
    <3>2. /\ req' \in [Requests -> Request] /\ Others(r) /\ Args(r)
          /\ req'[r].pc = "update_recheck" /\ req'[r].res = "none"
          /\ req'[r].prev = req[r].prev
      BY <1>1, <1>2, <3>1, GotoFields DEF Pcs
    <3>3. OpAtPc(r)' /\ Truthful(r)'
      BY <1>2, <2>1, <3>2, StatusFacts
         DEF OpAtPc, Truthful, Args, UpdatePcs, CancelPcs, Chosen, Raced
    <3>4. StatusAtPc(r)'
      BY <1>2, <1>c, <2>1, <2>4, <3>1, <3>2
         DEF StatusAtPc, Args, Chosen, Raced
    <3> QED BY <3>2, <3>3, <3>4 DEF Moves, Knows
  <2> QED BY <2>2, <2>3, <2>4
<1>5. CASE UpdateRecheck(r)
  <2>1. /\ CanTransition(req[r].prev, req[r].to) /\ current # None
        /\ req[r].to \in Statuses
    BY <1>1, <1>5, StatusFacts
       DEF UpdateRecheck, Knows, OpAtPc, StatusAtPc, Chosen, Raced, Climbed
  <2>2. CASE current = req[r].to
    <3>1. ReplyOrder(r, current) /\ RowsKept
      BY <1>5, <2>2 DEF UpdateRecheck, RowsKept
    <3>2. req[r].to \in passed[o] /\ Rank[req[r].to] <= Rank[current]
      BY <1>1, <1>2, <2>1, <2>2, StatusFacts DEF PassedOK
    <3> QED BY <1>2, <2>1, <2>2, <3>1, <3>2, OrderMoves
  <2>3. CASE current # req[r].to
    BY <1>5, <1>e, <2>3, ErrorMoves DEF UpdateRecheck
  <2> QED BY <2>2, <2>3
<1>6. CASE UpdateReload(r)
  <2>1. req[r].to \in passed[o] /\ Climbed(req[r].to, current)
    BY <1>1, <1>6 DEF UpdateReload, Knows, StatusAtPc
  <2>2. current \in Statuses /\ Rank[req[r].to] <= Rank[current]
    BY <1>2, <2>1 DEF Climbed
  <2>3. ReplyOrder(r, current) /\ RowsKept
    BY <1>6 DEF UpdateReload, RowsKept
  <2> QED BY <1>2, <2>1, <2>2, <2>3, OrderMoves
<1> QED BY <1>3, <1>4, <1>5, <1>6

LEMMA CancelMoves ==
  ASSUME IndInv, NEW r \in Requests, RowsOK,
         \/ CancelRead(r) \/ CancelRecheck(r) \/ CancelReload(r)
         \/ \E ack \in BOOLEAN : CancelCas(r, ack)
  PROVE  Moves(r)
<1> DEFINE o == req[r].order
           current == status[o]
<1>1. Knows(r) /\ TypeOK /\ PassedOK
  BY AllKnow DEF IndInv
<1>2. /\ o \in Orders /\ o # None /\ req[r].op = "cancel"
      /\ req[r].res = "none" /\ req[r].user # None
      /\ current \in Statuses \cup {None}
      /\ req[r].at \in Statuses \cup {None}
      /\ req[r].prev \in Statuses \cup {None}
  <2>1. req[r].pc \in CancelPcs
    BY DEF CancelRead, CancelRecheck, CancelReload, CancelCas, CancelPcs
  <2>2. req[r].op = "cancel" /\ o # None /\ req[r].user # None
    BY <1>1, <2>1 DEF Knows, OpAtPc
  <2>3. req[r].res = "none"
    BY <1>1, <2>1 DEF Knows, OpAtPc, CancelPcs
  <2> QED BY <1>1, <2>1, <2>2, <2>3, RequestFields DEF TypeOK
<1>e. {"conflict", "forbidden", "notfound", "internal"}
        \subseteq Answers \ {"none", "ok"}
  BY DEF Answers
<1>s. {"NEW", "CANCELLED"} \subseteq Statuses
  BY DEF Statuses
<1>c. Climbed(req[r].at, current)
  BY <1>1, <1>2 DEF Knows, StatusAtPc
<1>3. CASE CancelRead(r)
  <2>1. CASE \/ Reply(r, "notfound") \/ Reply(r, "conflict")
             \/ Reply(r, "forbidden")
    BY <1>e, <2>1, ErrorMoves
  <2>2. CASE /\ current = "NEW" /\ owner[o] = req[r].user
             /\ Choose(r, "cancel_cas", "NEW")
    <3>1. /\ req' \in [Requests -> Request] /\ Others(r) /\ Args(r)
          /\ req'[r].pc = "cancel_cas" /\ req'[r].prev = "NEW"
          /\ req'[r].res = "none"
      BY <1>1, <1>2, <1>s, <2>2, ChooseFields DEF Pcs
    <3>2. UNCHANGED <<status, owner, passed>>
      BY <1>3 DEF CancelRead
    <3>3. OpAtPc(r)' /\ Truthful(r)'
      BY <1>2, <1>s, <3>1, StatusFacts
         DEF OpAtPc, Truthful, Args, UpdatePcs, CancelPcs, Chosen, Raced
    <3>4. Climbed("NEW", "NEW")
      BY <1>s, StatusFacts DEF Climbed
    <3>5. StatusAtPc(r)'
      BY <1>2, <1>c, <2>2, <3>1, <3>2, <3>4
         DEF StatusAtPc, Args, Chosen, Raced
    <3> QED BY <3>1, <3>3, <3>5 DEF Moves, Knows
  <2> QED BY <1>3, <2>1, <2>2 DEF CancelRead
<1>4. ASSUME NEW ack \in BOOLEAN, CancelCas(r, ack) PROVE Moves(r)
  <2>1. /\ req[r].prev = "NEW" /\ owner[o] = req[r].user
        /\ Climbed(req[r].at, "NEW") /\ Climbed("NEW", current)
    BY <1>1, <1>4 DEF CancelCas, Knows, OpAtPc, StatusAtPc, Chosen
  <2>2. CASE current = "NEW" /\ ack
    <3>1. Goto(r, "cancel_reload") /\ SetStatus(o, "CANCELLED")
      BY <1>4, <2>2 DEF CancelCas
    <3>2. status'[o] = "CANCELLED" /\ UNCHANGED owner
      BY <1>1, <1>2, <1>4, <1>s, <3>1, SetStatusRows DEF CancelCas
    <3>3. /\ req' \in [Requests -> Request] /\ Others(r) /\ Args(r)
          /\ req'[r].pc = "cancel_reload" /\ req'[r].res = "none"
      BY <1>1, <1>2, <3>1, GotoFields DEF Pcs
    <3>4. OpAtPc(r)' /\ Truthful(r)'
      BY <1>2, <3>3 DEF OpAtPc, Truthful, Args, UpdatePcs, CancelPcs, Chosen,
                        Raced
    <3>5. Climbed(req[r].at, "CANCELLED")
      BY <1>2, <1>s, <2>1, StatusFacts DEF Climbed, CanTransition, Allowed
    <3>6. StatusAtPc(r)'
      BY <1>2, <2>1, <3>2, <3>3, <3>5 DEF StatusAtPc, Args, Chosen, Raced
    <3> QED BY <3>3, <3>4, <3>6 DEF Moves, Knows
  <2>3. CASE current = "NEW" /\ ~ack
    BY <1>4, <1>e, <2>3, ErrorMoves DEF CancelCas
  <2>4. CASE current # "NEW"
    <3>1. Goto(r, "cancel_recheck") /\ UNCHANGED <<status, owner, passed>>
      BY <1>4, <2>4 DEF CancelCas
    <3>2. /\ req' \in [Requests -> Request] /\ Others(r) /\ Args(r)
          /\ req'[r].pc = "cancel_recheck" /\ req'[r].res = "none"
          /\ req'[r].prev = "NEW"
      BY <1>1, <1>2, <2>1, <3>1, GotoFields DEF Pcs
    <3>3. OpAtPc(r)' /\ Truthful(r)'
      BY <1>2, <1>s, <3>2, StatusFacts
         DEF OpAtPc, Truthful, Args, UpdatePcs, CancelPcs, Chosen, Raced
    <3>4. StatusAtPc(r)'
      BY <1>2, <1>c, <2>1, <2>4, <3>1, <3>2
         DEF StatusAtPc, Args, Chosen, Raced
    <3> QED BY <3>2, <3>3, <3>4 DEF Moves, Knows
  <2> QED BY <2>2, <2>3, <2>4
<1>5. CASE CancelRecheck(r)
  <2>1. CASE current = "CANCELLED"
    <3>1. ReplyOrder(r, current) /\ RowsKept
      BY <1>5, <2>1 DEF CancelRecheck, RowsKept
    <3> QED BY <1>2, <1>s, <2>1, <3>1, OrderMoves
  <2>2. CASE current # "CANCELLED"
    BY <1>5, <1>e, <2>2, ErrorMoves DEF CancelRecheck
  <2> QED BY <2>1, <2>2
<1>6. CASE CancelReload(r)
  <2>1. current = "CANCELLED"
    BY <1>1, <1>6 DEF CancelReload, Knows, StatusAtPc
  <2>2. ReplyOrder(r, current) /\ RowsKept
    BY <1>6 DEF CancelReload, RowsKept
  <2> QED BY <1>2, <1>s, <2>1, <2>2, OrderMoves
<1> QED BY <1>3, <1>4, <1>5, <1>6

-----------------------------------------------------------------------------
(* The inductive invariant. *)

LEMMA IndInvInit == Init => IndInv
<1> SUFFICES ASSUME Init PROVE IndInv
  OBVIOUS
<1>1. TypeOK /\ PassedOK
  BY IdleIsRequest DEF Init, TypeOK, PassedOK
<1>2. \A r \in Requests : Knows(r)
  BY DEF Init, Knows, OpAtPc, StatusAtPc, Truthful, IdleRequest, UpdatePcs,
         CancelPcs, Chosen, Raced
<1> QED BY <1>1, <1>2 DEF IndInv, Knows, Truthful, CancelAckTruthful,
                          UpdateAckTruthful

LEMMA MovesStep ==
  ASSUME IndInv, [Next]_vars, NEW s \in Requests
  PROVE  req' \in [Requests -> Request] /\ Knows(s)'
<1>r. RowsOK
  BY RowsStep
<1>o. ASSUME NEW r \in Requests, Moves(r)
      PROVE  req' \in [Requests -> Request] /\ Knows(s)'
  BY <1>o, <1>r, OthersKnow DEF Moves, Others
<1>1. CASE UNCHANGED vars
  BY <1>1, <1>r, OthersKnow DEF vars, IndInv, TypeOK
<1>2. ASSUME NEW r \in Requests, Arrive(r)
      PROVE  req' \in [Requests -> Request] /\ Knows(s)'
  BY <1>2, <1>o, ArrivalMoves
<1>3. ASSUME NEW r \in Requests, Serve(r)
      PROVE  req' \in [Requests -> Request] /\ Knows(s)'
  BY <1>3, <1>o, <1>r, CreateMoves, UpdateMoves, CancelMoves, IdleMoves
     DEF Serve, ServeStatus, Answered
<1>4. ASSUME NEW r \in Requests, Fail(r)
      PROVE  req' \in [Requests -> Request] /\ Knows(s)'
  BY <1>4, <1>o, <1>r, ErrorMoves DEF Fail, Answers
<1>5. CASE Crash
  BY <1>5, IdleIsRequest, IdleKnows DEF Crash
<1> QED BY <1>1, <1>2, <1>3, <1>4, <1>5 DEF Next

LEMMA IndInvStep == IndInv /\ [Next]_vars => IndInv'
<1> SUFFICES ASSUME IndInv, [Next]_vars PROVE IndInv'
  OBVIOUS
<1>1. RowsOK
  BY RowsStep
<1>2. \A s \in Requests : Knows(s)'
  BY MovesStep
<1>3. req' \in [Requests -> Request]
  <2>1. CASE Requests = {}
    BY <2>1 DEF IndInv, TypeOK, Next, Crash, vars
  <2>2. CASE Requests # {}
    BY <2>2, MovesStep
  <2> QED BY <2>1, <2>2
<1>4. TypeOK' /\ PassedOK'
  BY <1>1, <1>3 DEF TypeOK, RowsOK
<1> QED BY <1>2, <1>4 DEF IndInv, Knows, Truthful, CancelAckTruthful,
                          UpdateAckTruthful

(* What every handler knows between two statements stays true of the rows,
   whatever the others do: the inductive invariant of the service. *)
THEOREM Invariance == Spec => []IndInv
BY IndInvInit, IndInvStep, PTL DEF Spec

(* The rows, the histories and the handler records stay well typed. *)
THEOREM TypeCorrect == Spec => []TypeOK
<1>1. IndInv => TypeOK
  BY DEF IndInv
<1> QED BY <1>1, Invariance, PTL

(* An acknowledged cancellation is final: see CancelAckTruthful. *)
THEOREM CancellationsAreTruthful == Spec => []CancelAckTruthful
<1>1. IndInv => CancelAckTruthful
  BY DEF IndInv
<1> QED BY <1>1, Invariance, PTL

(* An acknowledged update took place: see UpdateAckTruthful. *)
THEOREM UpdatesAreTruthful == Spec => []UpdateAckTruthful
<1>1. IndInv => UpdateAckTruthful
  BY DEF IndInv
<1> QED BY <1>1, Invariance, PTL

(* Whoever races, a status changes along canTransition only. *)
THEOREM MovesAreAllowed == Spec => OnlyAllowedMoves
<1>1. IndInv /\ [Next]_vars =>
        [\A o \in Orders : status'[o] # status[o] =>
           \/ status[o] = None /\ status'[o] = "NEW"
           \/ CanTransition(status[o], status'[o])]_vars
  BY RowsStep DEF RowsOK, RowsClimb
<1> QED BY <1>1, Invariance, PTL DEF Spec, OnlyAllowedMoves

-----------------------------------------------------------------------------
(* Refinement: each step of a handler is a step of AtomicOrders or none. *)

LEMMA SameStatuses ==
  /\ \A s, t : Atomic!CanTransition(s, t) <=> CanTransition(s, t)
  /\ Atomic!Statuses = Statuses /\ Atomic!SentStatuses = SentStatuses
BY DEF Atomic!CanTransition, CanTransition, Atomic!Allowed, Allowed,
       Atomic!Statuses, Statuses, Atomic!SentStatuses, SentStatuses

LEMMA CallFields ==
  ASSUME NEW r \in Requests
  PROVE  /\ calls[r] = CallOf(r)
         /\ calls[r].op = req[r].op /\ calls[r].order = req[r].order
         /\ calls[r].user = req[r].user /\ calls[r].to = req[r].to
         /\ calls[r].at = req[r].at /\ calls[r].ans = AnswerOf(r)
BY DEF calls, CallOf

(* When only r moved, only its call changes. *)
LEMMA OneCall ==
  ASSUME NEW r \in Requests, Others(r)
  PROVE  calls' = [calls EXCEPT ![r] = CallOf(r)']
<1>1. \A s \in Requests : s # r => CallOf(s)' = CallOf(s)
  BY DEF Others, CallOf, AnswerOf
<1> QED BY <1>1 DEF calls

(* A handler that keeps its arguments only changes its answer. *)
LEMMA AnswerStep ==
  ASSUME NEW r \in Requests, Others(r), Args(r)
  PROVE  Atomic!Answer(r, AnswerOf(r)')
<1>1. CallOf(r)' = [CallOf(r) EXCEPT !.ans = AnswerOf(r)']
  BY DEF Args, CallOf
<1>2. calls' = [calls EXCEPT ![r] = [calls[r] EXCEPT !.ans = AnswerOf(r)']]
  BY <1>1, OneCall, CallFields
<1> QED BY <1>2 DEF Atomic!Answer

LEMMA SilentStep ==
  ASSUME NEW r \in Requests, Others(r), Args(r), AnswerOf(r)' = AnswerOf(r)
  PROVE  calls' = calls
<1>1. CallOf(r)' = CallOf(r)
  BY DEF Args, CallOf
<1>2. \A s \in Requests : CallOf(s)' = CallOf(s)
  BY <1>1 DEF Others, CallOf, AnswerOf
<1> QED BY <1>2 DEF calls

AtomicStep == Atomic!Next \/ UNCHANGED <<status, owner, calls>>

LEMMA AtomicActions ==
  ASSUME NEW r \in Requests,
         \/ \E u \in Users, refused \in BOOLEAN : Atomic!CallCreate(r, u, refused)
         \/ \E o \in Orders, to \in SentStatuses, refused \in BOOLEAN :
              Atomic!CallUpdate(r, o, to, refused)
         \/ \E o \in Orders, u \in Users : Atomic!CallCancel(r, o, u)
         \/ \E o \in Orders : Atomic!Place(r, o)
         \/ Atomic!Move(r) \/ Atomic!CancelOwn(r) \/ Atomic!AlreadyDone(r)
         \/ Atomic!RefuseUpdate(r) \/ Atomic!RefuseCancel(r)
         \/ Atomic!Break(r) \/ Atomic!Return(r)
  PROVE  AtomicStep
BY SameStatuses DEF AtomicStep, Atomic!Next

LEMMA ArrivalRefines ==
  ASSUME IndInv, NEW r \in Requests, Arrive(r) PROVE AtomicStep
<1>o. Others(r) /\ calls' = [calls EXCEPT ![r] = CallOf(r)']
  BY ArrivalMoves, OneCall DEF Moves
<1>t. req \in [Requests -> Request]
  BY DEF IndInv, TypeOK
<1> USE DEF Atomic!Call
<1>1. ASSUME NEW u \in Users, NEW valid \in BOOLEAN, Create(r, u, valid)
      PROVE  AtomicStep
  <2>1. CallOf(r)' = Atomic!CallRecord("create", None, u, None, None,
                       IF ~valid THEN "validation" ELSE "pending")
    <3>1. /\ req'[r].op = "create" /\ req'[r].order = None
          /\ req'[r].user = u /\ req'[r].to = None /\ req'[r].at = None
          /\ req'[r].pc = IF valid THEN "create_insert" ELSE "done"
          /\ req'[r].res = IF valid THEN "none" ELSE "validation"
      BY <1>1, <1>t DEF Create, IdleRequest
    <3>2. AnswerOf(r)' = IF ~valid THEN "validation" ELSE "pending"
      BY <3>1 DEF AnswerOf
    <3> QED BY <3>1, <3>2 DEF CallOf, Atomic!CallRecord
  <2>2. Atomic!CallCreate(r, u, ~valid)
    BY <1>1, <1>o, <2>1, CallFields
       DEF Create, AnswerOf, Atomic!CallCreate
  <2> QED BY <2>2, AtomicActions
<1>2. ASSUME NEW o \in Orders, NEW to \in SentStatuses, NEW admin \in BOOLEAN,
             Update(r, o, to, admin)
      PROVE  AtomicStep
  <2>1. CallOf(r)' = Atomic!CallRecord("update", o, None, to, status[o],
                       IF ~admin THEN "forbidden" ELSE "pending")
    <3>1. /\ req'[r].op = "update" /\ req'[r].order = o
          /\ req'[r].user = None /\ req'[r].to = to /\ req'[r].at = status[o]
          /\ req'[r].pc = IF admin THEN "update_read" ELSE "done"
          /\ req'[r].res = IF admin THEN "none" ELSE "forbidden"
      BY <1>2, <1>t DEF Update, IdleRequest
    <3>2. AnswerOf(r)' = IF ~admin THEN "forbidden" ELSE "pending"
      BY <3>1 DEF AnswerOf
    <3> QED BY <3>1, <3>2 DEF CallOf, Atomic!CallRecord
  <2>2. Atomic!CallUpdate(r, o, to, ~admin)
    BY <1>2, <1>o, <2>1, CallFields
       DEF Update, AnswerOf, Atomic!CallUpdate
  <2> QED BY <2>2, AtomicActions
<1>3. ASSUME NEW o \in Orders, NEW u \in Users, Cancel(r, o, u)
      PROVE  AtomicStep
  <2>1. CallOf(r)' = Atomic!CallRecord("cancel", o, u, None, status[o],
                       "pending")
    <3>1. /\ req'[r].op = "cancel" /\ req'[r].order = o
          /\ req'[r].user = u /\ req'[r].to = None /\ req'[r].at = status[o]
          /\ req'[r].pc = "cancel_read"
          /\ req'[r].res = "none"
      BY <1>3, <1>t DEF Cancel, IdleRequest
    <3>2. AnswerOf(r)' = "pending"
      BY <3>1 DEF AnswerOf
    <3> QED BY <3>1, <3>2 DEF CallOf, Atomic!CallRecord
  <2>2. Atomic!CallCancel(r, o, u)
    BY <1>3, <1>o, <2>1, CallFields
       DEF Cancel, AnswerOf, Atomic!CallCancel
  <2> QED BY <2>2, AtomicActions
<1> QED BY <1>1, <1>2, <1>3 DEF Arrive, ArriveForStatus

LEMMA CreateRefines ==
  ASSUME IndInv, NEW r \in Requests, NEW o \in Orders, NEW ack \in BOOLEAN,
         CreateInsert(r, o, ack)
  PROVE  AtomicStep
<1>1. TypeOK /\ Knows(r) /\ req[r].pc = "create_insert"
  BY AllKnow DEF IndInv, CreateInsert
<1>2. Atomic!Pending(r, "create")
  BY <1>1, CallFields DEF Atomic!Pending, AnswerOf, Knows, OpAtPc
<1>3. /\ Others(r) /\ Args(r)
      /\ AnswerOf(r)' = "ok" \/ AnswerOf(r)' = "internal"
  <2>1. "NEW" \in Statuses /\ "internal" \in Answers
    BY DEF Statuses, Answers
  <2> QED
    BY <1>1, <2>1, ReplyFields, ReplyOrderFields DEF CreateInsert, AnswerOf
<1>4. Atomic!Answer(r, "ok") \/ Atomic!Answer(r, "internal")
  BY <1>3, AnswerStep
<1>5. Atomic!Place(r, o)
  BY <1>2, <1>4, CallFields DEF CreateInsert, SetStatus, Atomic!Place
<1> QED BY <1>5, AtomicActions

LEMMA UpdateRefines ==
  ASSUME IndInv, NEW r \in Requests,
         \/ UpdateRead(r) \/ UpdateRecheck(r) \/ UpdateReload(r)
         \/ \E ack \in BOOLEAN : UpdateCas(r, ack)
  PROVE  AtomicStep
<1> DEFINE o == req[r].order
           current == status[o]
<1>1. Knows(r) /\ TypeOK
  BY AllKnow DEF IndInv
<1>p. req[r].pc \in UpdatePcs
  BY DEF UpdateRead, UpdateRecheck, UpdateReload, UpdateCas, UpdatePcs
<1>2. /\ req[r].op = "update" /\ o \in Orders
      /\ current \in Statuses \cup {None}
      /\ req[r].at \in Statuses \cup {None}
      /\ req[r].prev \in Statuses \cup {None}
  BY <1>1, <1>p, CasMoves, RequestFields DEF Knows, OpAtPc, TypeOK
<1>e. {"conflict", "notfound", "internal", "ok"} \subseteq Answers
  BY DEF Answers
<1>c. calls[r].order = o /\ calls[r].to = req[r].to /\ calls[r].at = req[r].at
  BY CallFields
<1>q. req[r].pc # "update_reload" => Atomic!Pending(r, "update")
  BY <1>2, <1>p, CallFields DEF Atomic!Pending, AnswerOf, UpdatePcs
<1>a. ASSUME NEW code \in Answers, Reply(r, code)
      PROVE  Atomic!Answer(r, code)
  <2>1. Others(r) /\ Args(r) /\ AnswerOf(r)' = code
    BY <1>1, <1>a, ReplyFields DEF AnswerOf
  <2> QED BY <2>1, AnswerStep
<1>3. CASE UpdateRead(r)
  <2>1. CASE current = None /\ Reply(r, "notfound")
    <3>1. Atomic!RefuseUpdate(r)
      BY <1>3, <1>a, <1>c, <1>e, <1>q, <2>1
         DEF UpdateRead, Atomic!RefuseUpdate
    <3> QED BY <3>1, AtomicActions
  <2>2. CASE /\ current # None /\ ~CanTransition(current, req[r].to)
             /\ Reply(r, "conflict")
    <3>1. Atomic!RefuseUpdate(r)
      BY <1>3, <1>a, <1>c, <1>e, <1>q, <2>2, SameStatuses
         DEF UpdateRead, Atomic!RefuseUpdate
    <3> QED BY <3>1, AtomicActions
  <2>3. CASE CanTransition(current, req[r].to)
               /\ Choose(r, "update_cas", current)
    <3>1. current \in Statuses /\ "update_cas" \in Pcs
      BY <2>3, StatusFacts DEF Pcs
    <3>2. Others(r) /\ Args(r) /\ req'[r].pc = "update_cas"
      BY <1>1, <2>3, <3>1, ChooseFields
    <3>3. AnswerOf(r)' = AnswerOf(r)
      BY <1>3, <3>2 DEF UpdateRead, AnswerOf
    <3> QED BY <1>3, <3>2, <3>3, SilentStep DEF UpdateRead, AtomicStep
  <2> QED BY <1>3, <2>1, <2>2, <2>3 DEF UpdateRead
<1>4. ASSUME NEW ack \in BOOLEAN, UpdateCas(r, ack) PROVE AtomicStep
  <2>1. CASE current = req[r].prev
    <3>1. CanTransition(current, req[r].to)
      BY <1>4, <2>1, CasMoves DEF UpdateCas
    <3>2. Atomic!Answer(r, "ok") \/ Atomic!Answer(r, "internal")
      <4>1. CASE ack
        <5>1. Goto(r, "update_reload") /\ "update_reload" \in Pcs
          BY <1>4, <2>1, <4>1 DEF UpdateCas, Pcs
        <5>2. Others(r) /\ Args(r) /\ req'[r].pc = "update_reload"
          BY <1>1, <5>1, GotoFields
        <5>3. AnswerOf(r)' = "ok"
          BY <5>2 DEF AnswerOf
        <5> QED BY <5>2, <5>3, AnswerStep
      <4>2. CASE ~ack
        BY <1>4, <1>a, <1>e, <2>1, <4>2 DEF UpdateCas
      <4> QED BY <4>1, <4>2
    <3>3. /\ status' = [status EXCEPT ![o] = req[r].to]
          /\ UNCHANGED owner
      BY <1>4, <2>1 DEF UpdateCas, SetStatus
    <3>4. Atomic!Pending(r, "update")
      BY <1>4, <1>q DEF UpdateCas
    <3>5. Atomic!Move(r)
      BY <1>c, <3>1, <3>2, <3>3, <3>4, SameStatuses DEF Atomic!Move
    <3> QED BY <3>5, AtomicActions
  <2>2. CASE current # req[r].prev
    <3>1. Goto(r, "update_recheck") /\ "update_recheck" \in Pcs
          /\ UNCHANGED <<status, owner>> /\ req[r].pc = "update_cas"
      BY <1>4, <2>2 DEF UpdateCas, Pcs
    <3>2. Others(r) /\ Args(r) /\ req'[r].pc = "update_recheck"
      BY <1>1, <3>1, GotoFields
    <3>3. AnswerOf(r)' = AnswerOf(r)
      BY <3>1, <3>2 DEF AnswerOf
    <3> QED BY <3>1, <3>2, <3>3, SilentStep DEF AtomicStep
  <2> QED BY <2>1, <2>2
<1>5. CASE UpdateRecheck(r)
  <2>1. /\ CanTransition(req[r].prev, req[r].to) /\ current # req[r].prev
        /\ Climbed(req[r].at, req[r].prev) /\ Climbed(req[r].prev, current)
        /\ req[r].prev # None
    BY <1>1, <1>5
       DEF UpdateRecheck, Knows, OpAtPc, StatusAtPc, Chosen, Raced
  <2>2. current # None /\ Atomic!Moved(r)
    BY <1>2, <1>c, <2>1, StatusFacts, RankInjective DEF Climbed, Atomic!Moved
  <2>3. Atomic!Pending(r, "update") /\ UNCHANGED <<status, owner>>
    BY <1>5, <1>q DEF UpdateRecheck
  <2>4. CASE current = req[r].to
    <3>1. ReplyOrder(r, current) /\ current \in Statuses
      BY <1>2, <1>5, <2>2, <2>4 DEF UpdateRecheck
    <3>2. Others(r) /\ Args(r) /\ AnswerOf(r)' = "ok"
      BY <1>1, <3>1, ReplyOrderFields DEF AnswerOf
    <3>3. Atomic!AlreadyDone(r)
      BY <1>c, <2>2, <2>3, <2>4, <3>2, AnswerStep DEF Atomic!AlreadyDone
    <3> QED BY <3>3, AtomicActions
  <2>5. CASE current # req[r].to
    <3>1. Atomic!RefuseUpdate(r)
      BY <1>5, <1>a, <1>c, <1>e, <2>2, <2>3, <2>5
         DEF UpdateRecheck, Atomic!RefuseUpdate
    <3> QED BY <3>1, AtomicActions
  <2> QED BY <2>4, <2>5
<1>6. CASE UpdateReload(r)
  <2>1. Climbed(req[r].to, current) /\ req[r].to \in passed[o]
    BY <1>1, <1>6 DEF UpdateReload, Knows, StatusAtPc
  <2>2. ReplyOrder(r, current) /\ current \in Statuses
    BY <1>1, <1>2, <1>6, <2>1, StatusFacts DEF UpdateReload, Climbed, TypeOK
  <2>3. Others(r) /\ Args(r) /\ AnswerOf(r)' = AnswerOf(r)
    BY <1>1, <1>6, <2>2, ReplyOrderFields DEF UpdateReload, AnswerOf
  <2> QED BY <1>6, <2>3, SilentStep DEF UpdateReload, AtomicStep
<1> QED BY <1>3, <1>4, <1>5, <1>6

LEMMA CancelRefines ==
  ASSUME IndInv, NEW r \in Requests,
         \/ CancelRead(r) \/ CancelRecheck(r) \/ CancelReload(r)
         \/ \E ack \in BOOLEAN : CancelCas(r, ack)
  PROVE  AtomicStep
<1> DEFINE o == req[r].order
           current == status[o]
<1>1. Knows(r) /\ TypeOK
  BY AllKnow DEF IndInv
<1>p. req[r].pc \in CancelPcs
  BY DEF CancelRead, CancelRecheck, CancelReload, CancelCas, CancelPcs
<1>2. /\ req[r].op = "cancel" /\ o \in Orders
      /\ current \in Statuses \cup {None}
      /\ req[r].at \in Statuses \cup {None}
  BY <1>1, <1>p, CasMoves, RequestFields DEF Knows, OpAtPc, TypeOK
<1>e. {"conflict", "forbidden", "notfound", "internal", "ok"} \subseteq Answers
  BY DEF Answers
<1>s. {"NEW", "CANCELLED"} \subseteq Statuses
  BY DEF Statuses
<1>c. calls[r].order = o /\ calls[r].user = req[r].user
        /\ calls[r].at = req[r].at
  BY CallFields
<1>q. req[r].pc # "cancel_reload" => Atomic!Pending(r, "cancel")
  BY <1>2, <1>p, CallFields DEF Atomic!Pending, AnswerOf, CancelPcs
<1>a. ASSUME NEW code \in Answers, Reply(r, code)
      PROVE  Atomic!Answer(r, code)
  <2>1. Others(r) /\ Args(r) /\ AnswerOf(r)' = code
    BY <1>1, <1>a, ReplyFields DEF AnswerOf
  <2> QED BY <2>1, AnswerStep
<1>3. CASE CancelRead(r)
  <2>1. CASE current = "NEW" /\ Choose(r, "cancel_cas", "NEW")
    <3>1. Others(r) /\ Args(r) /\ req'[r].pc = "cancel_cas"
      BY <1>1, <1>s, <2>1, ChooseFields DEF Pcs
    <3>2. AnswerOf(r)' = AnswerOf(r)
      BY <1>3, <3>1 DEF CancelRead, AnswerOf
    <3> QED BY <1>3, <3>1, <3>2, SilentStep DEF CancelRead, AtomicStep
  <2>2. CASE \/ current = None /\ Reply(r, "notfound")
             \/ current # None /\ owner[o] # req[r].user
                  /\ Reply(r, "forbidden")
             \/ current \notin {None, "NEW"} /\ owner[o] = req[r].user
                  /\ Reply(r, "conflict")
    <3>1. Atomic!RefuseCancel(r)
      BY <1>3, <1>a, <1>c, <1>e, <1>q, <2>2
         DEF CancelRead, Atomic!RefuseCancel
    <3> QED BY <3>1, AtomicActions
  <2> QED BY <1>3, <2>1, <2>2 DEF CancelRead
<1>4. ASSUME NEW ack \in BOOLEAN, CancelCas(r, ack) PROVE AtomicStep
  <2>1. CASE current = "NEW"
    <3>1. owner[o] = req[r].user
      BY <1>1, <1>4 DEF CancelCas, Knows, StatusAtPc
    <3>2. Atomic!Answer(r, "ok") \/ Atomic!Answer(r, "internal")
      <4>1. CASE ack
        <5>1. Goto(r, "cancel_reload") /\ "cancel_reload" \in Pcs
          BY <1>4, <2>1, <4>1 DEF CancelCas, Pcs
        <5>2. Others(r) /\ Args(r) /\ req'[r].pc = "cancel_reload"
          BY <1>1, <5>1, GotoFields
        <5>3. AnswerOf(r)' = "ok"
          BY <5>2 DEF AnswerOf
        <5> QED BY <5>2, <5>3, AnswerStep
      <4>2. CASE ~ack
        BY <1>4, <1>a, <1>e, <2>1, <4>2 DEF CancelCas
      <4> QED BY <4>1, <4>2
    <3>3. /\ status' = [status EXCEPT ![o] = "CANCELLED"]
          /\ UNCHANGED owner
      BY <1>4, <2>1 DEF CancelCas, SetStatus
    <3>4. Atomic!Pending(r, "cancel")
      BY <1>4, <1>q DEF CancelCas
    <3>5. Atomic!CancelOwn(r)
      BY <1>c, <2>1, <3>1, <3>2, <3>3, <3>4 DEF Atomic!CancelOwn
    <3> QED BY <3>5, AtomicActions
  <2>2. CASE current # "NEW"
    <3>1. Goto(r, "cancel_recheck") /\ "cancel_recheck" \in Pcs
          /\ UNCHANGED <<status, owner>> /\ req[r].pc = "cancel_cas"
      BY <1>4, <2>2 DEF CancelCas, Pcs
    <3>2. Others(r) /\ Args(r) /\ req'[r].pc = "cancel_recheck"
      BY <1>1, <3>1, GotoFields
    <3>3. AnswerOf(r)' = AnswerOf(r)
      BY <3>1, <3>2 DEF AnswerOf
    <3> QED BY <3>1, <3>2, <3>3, SilentStep DEF AtomicStep
  <2> QED BY <2>1, <2>2
<1>5. CASE CancelRecheck(r)
  <2>1. /\ req[r].prev = "NEW" /\ current # "NEW"
        /\ owner[o] = req[r].user
        /\ Climbed(req[r].at, "NEW") /\ Climbed("NEW", current)
    BY <1>1, <1>5
       DEF CancelRecheck, Knows, OpAtPc, StatusAtPc, Chosen, Raced
  <2>2. "NEW" # None
    BY <1>s, StatusFacts
  <2>3. current # None /\ Atomic!Moved(r)
    BY <1>2, <1>c, <1>s, <2>1, <2>2, StatusFacts, RankInjective
       DEF Climbed, Atomic!Moved
  <2>4. Atomic!Pending(r, "cancel") /\ UNCHANGED <<status, owner>>
    BY <1>5, <1>q DEF CancelRecheck
  <2>5. CASE current = "CANCELLED"
    <3>1. ReplyOrder(r, current) /\ current \in Statuses
      BY <1>s, <1>5, <2>5 DEF CancelRecheck
    <3>2. Others(r) /\ Args(r) /\ AnswerOf(r)' = "ok"
      BY <1>1, <3>1, ReplyOrderFields DEF AnswerOf
    <3>3. Atomic!AlreadyDone(r)
      BY <1>c, <2>3, <2>4, <2>5, <3>2, AnswerStep DEF Atomic!AlreadyDone
    <3> QED BY <3>3, AtomicActions
  <2>6. CASE current # "CANCELLED"
    <3>1. Atomic!RefuseCancel(r)
      BY <1>5, <1>a, <1>c, <1>e, <2>1, <2>3, <2>4, <2>6
         DEF CancelRecheck, Atomic!RefuseCancel
    <3> QED BY <3>1, AtomicActions
  <2> QED BY <2>5, <2>6
<1>6. CASE CancelReload(r)
  <2>1. current = "CANCELLED"
    BY <1>1, <1>6 DEF CancelReload, Knows, StatusAtPc
  <2>2. Others(r) /\ Args(r) /\ AnswerOf(r)' = AnswerOf(r)
    BY <1>1, <1>6, <1>s, <2>1, ReplyOrderFields DEF CancelReload, AnswerOf
  <2> QED BY <1>6, <2>2, SilentStep DEF CancelReload, AtomicStep
<1> QED BY <1>3, <1>4, <1>5, <1>6

LEMMA EndRefines ==
  ASSUME IndInv, NEW r \in Requests, Answered(r) \/ Fail(r)
  PROVE  AtomicStep
<1>1. TypeOK
  BY DEF IndInv
<1>2. CASE Answered(r)
  <2>1. Others(r) /\ req'[r] = IdleRequest
    BY <1>1, <1>2 DEF Answered, TypeOK, Others
  <2>2. CallOf(r)' = Atomic!NoCall
    BY <2>1 DEF CallOf, AnswerOf, IdleRequest, Atomic!NoCall,
           Atomic!CallRecord
  <2>3. calls[r].ans \notin {"idle", "pending"}
    BY <1>1, <1>2, CallFields, RequestFields DEF Answered, AnswerOf, Answers
  <2>4. Atomic!Return(r)
    BY <1>2, <2>1, <2>2, <2>3, OneCall DEF Answered, Atomic!Return
  <2> QED BY <2>4, AtomicActions
<1>3. CASE Fail(r)
  <2>1. Others(r) /\ Args(r) /\ AnswerOf(r)' = "internal"
    BY <1>1, <1>3, ReplyFields DEF Fail, AnswerOf, Answers
  <2>2. calls[r].ans \in {"pending", "ok"}
    BY <1>3, CallFields DEF Fail, AnswerOf
  <2>3. Atomic!Break(r)
    BY <1>3, <2>1, <2>2, AnswerStep DEF Fail, Atomic!Break
  <2> QED BY <2>3, AtomicActions
<1> QED BY <1>2, <1>3

(* A customer cancels an own, unpaid order only: see
   CustomerCancelsUnpaidOnly. *)
THEOREM CustomersCancelUnpaidOrders == Spec => CustomerCancelsUnpaidOnly
<1> DEFINE Rule(o, r) ==
      status'[o] # status[o] /\ req[r].op = "cancel" /\ req'[r] # req[r]
        => status[o] = "NEW" /\ owner[o] = req[r].user
<1>1. ASSUME IndInv, [Next]_vars, NEW o \in Orders, NEW r \in Requests
      PROVE  Rule(o, r)
  <2> SUFFICES ASSUME status'[o] # status[o], req[r].op = "cancel",
                      req'[r] # req[r]
               PROVE  status[o] = "NEW" /\ owner[o] = req[r].user
    OBVIOUS
  <2>1. OpAtPc(r) /\ StatusAtPc(r) /\ TypeOK
    BY <1>1 DEF IndInv
  <2>2. PICK s \in Requests, p \in Orders, ack \in BOOLEAN :
          CreateInsert(s, p, ack) \/ UpdateCas(s, ack) \/ CancelCas(s, ack)
    BY <1>1 DEF Next, Arrive, ArriveForStatus, Serve, ServeStatus, vars,
       Create, Update, Cancel, UpdateRead,
       UpdateRecheck, UpdateReload, CancelRead, CancelRecheck, CancelReload,
       Answered, Fail, Crash
  <2>3. s = r
    BY <2>1, <2>2 DEF CreateInsert, UpdateCas, CancelCas, Goto, Reply,
                      ReplyOrder, TypeOK
  <2>4. CancelCas(r, ack)
    BY <2>1, <2>2, <2>3 DEF CreateInsert, UpdateCas, OpAtPc, UpdatePcs
  <2>5. status[req[r].order] = "NEW" /\ o = req[r].order
    BY <2>1, <2>4 DEF CancelCas, SetStatus, TypeOK
  <2> QED BY <2>1, <2>4, <2>5 DEF CancelCas, StatusAtPc
<1>2. IndInv /\ [Next]_vars =>
        [\A o \in Orders, r \in Requests : Rule(o, r)]_vars
  BY <1>1
<1> QED BY <1>2, Invariance, PTL DEF Spec, CustomerCancelsUnpaidOnly

(* The read / compare-and-set / re-read handlers are linearizable: they
   implement AtomicOrders, where each request is one atomic step. *)
THEOREM ImplementsAtomicOrders == Spec => AtomicSpec
<1>1. Init => Atomic!Init
  <2> SUFFICES ASSUME Init PROVE Atomic!Init
    OBVIOUS
  <2>1. \A r \in Requests : CallOf(r) = Atomic!NoCall
    BY DEF Init, CallOf, AnswerOf, IdleRequest, Atomic!NoCall,
           Atomic!CallRecord
  <2> QED BY <2>1 DEF Init, calls, Atomic!Init
<1>2. IndInv /\ [Next]_vars => [Atomic!Next]_<<status, owner, calls>>
  <2> SUFFICES ASSUME IndInv, [Next]_vars
               PROVE  AtomicStep
    BY DEF AtomicStep
  <2>1. CASE UNCHANGED vars
    BY <2>1 DEF vars, calls, CallOf, AnswerOf, AtomicStep
  <2>2. ASSUME NEW r \in Requests, Arrive(r) PROVE AtomicStep
    BY <2>2, ArrivalRefines
  <2>3. ASSUME NEW r \in Requests, Serve(r) PROVE AtomicStep
    BY <2>3, CreateRefines, UpdateRefines, CancelRefines, EndRefines
       DEF Serve, ServeStatus
  <2>4. ASSUME NEW r \in Requests, Fail(r) PROVE AtomicStep
    BY <2>4, EndRefines
  <2>5. CASE Crash
    <3>1. \A r \in Requests : CallOf(r)' = Atomic!NoCall
      BY <2>5 DEF Crash, CallOf, AnswerOf, IdleRequest, Atomic!NoCall,
             Atomic!CallRecord
    <3>2. Atomic!Crash
      BY <2>5, <3>1 DEF Crash, calls, Atomic!Crash
    <3> QED BY <3>2 DEF AtomicStep, Atomic!Next
  <2> QED BY <2>1, <2>2, <2>3, <2>4, <2>5 DEF Next
<1> QED BY <1>1, <1>2, Invariance, PTL DEF Spec, AtomicSpec, Atomic!Spec
=============================================================================
