-------------------------- MODULE AuthServiceProofs --------------------------
(***************************************************************************)
(* Proofs about AuthService, for every set of users, tokens and concurrent *)
(* handlers and every size of the connection pool.                         *)
(***************************************************************************)
EXTENDS AuthService, FiniteSetTheorems, TLAPS

LEMMA RequestFields ==
  ASSUME TypeOK, NEW r \in Requests
  PROVE  /\ req[r].pc \in Pcs /\ req[r].op \in AllOps \cup {"none"}
         /\ req[r].user \in Users \cup {None}
         /\ req[r].tok \in Jti \cup {None}
         /\ req[r].new \in Jti \cup {None}
         /\ req[r].res \in Results /\ req[r].stale \in BOOLEAN
BY DEF TypeOK, Request

LEMMA IdleIsRequest == IdleRequest \in Request
BY DEF IdleRequest, Request, Pcs, Results

LEMMA TypeInit == Init => TypeOK
BY IdleIsRequest DEF Init, TypeOK

LEMMA GotoType ==
  ASSUME TypeOK, NEW r \in Requests, NEW label \in Pcs, Goto(r, label)
  PROVE  req' \in [Requests -> Request]
BY DEF TypeOK, Request, Goto

LEMMA ReplyType ==
  ASSUME TypeOK, NEW r \in Requests, NEW code \in Results, Reply(r, code)
  PROVE  req' \in [Requests -> Request]
<1>1. [req[r] EXCEPT !.pc = "done", !.res = code] \in Request
  BY DEF TypeOK, Request, Pcs
<1> QED BY <1>1 DEF TypeOK, Reply

LEMMA GenerateType ==
  ASSUME TypeOK, NEW r \in Requests, NEW label \in Pcs,
         GenerateToken(r, label)
  PROVE  req' \in [Requests -> Request]
<1>1. PICK j \in Jti :
        req' = [req EXCEPT ![r] = [@ EXCEPT !.pc = label, !.new = j]]
  BY DEF GenerateToken
<1>2. [req[r] EXCEPT !.pc = label, !.new = j] \in Request
  BY DEF TypeOK, Request
<1> QED BY <1>1, <1>2 DEF TypeOK

(* What Goto, Reply and GenerateToken change, field by field. *)
Others(r) == \A s \in Requests : s # r => req'[s] = req[s]

Kept(r) ==
  /\ req'[r].op = req[r].op
  /\ req'[r].user = req[r].user
  /\ req'[r].tok = req[r].tok
  /\ req'[r].stale = req[r].stale

LEMMA GotoFields ==
  ASSUME TypeOK, NEW r \in Requests, NEW label, Goto(r, label)
  PROVE  /\ Others(r) /\ Kept(r)
         /\ req'[r].pc = label
         /\ req'[r].new = req[r].new /\ req'[r].res = req[r].res
BY DEF TypeOK, Request, Goto, Others, Kept

LEMMA ReplyFields ==
  ASSUME TypeOK, NEW r \in Requests, NEW code, Reply(r, code)
  PROVE  /\ Others(r) /\ Kept(r)
         /\ req'[r].pc = "done"
         /\ req'[r].new = req[r].new /\ req'[r].res = code
<1> DEFINE q == [req[r] EXCEPT !.pc = "done", !.res = code]
<1>1. req[r] \in Request
  BY DEF TypeOK
<1>2. /\ q.pc = "done" /\ q.res = code /\ q.op = req[r].op
      /\ q.user = req[r].user /\ q.tok = req[r].tok
      /\ q.stale = req[r].stale /\ q.new = req[r].new
  BY <1>1 DEF Request
<1>3. req'[r] = q /\ Others(r)
  BY DEF TypeOK, Reply, Others
<1> QED BY <1>2, <1>3 DEF Kept

LEMMA GenerateFields ==
  ASSUME TypeOK, NEW r \in Requests, NEW label, GenerateToken(r, label)
  PROVE  /\ Others(r) /\ Kept(r)
         /\ req'[r].pc = label /\ req'[r].res = req[r].res
         /\ req'[r].new \in Jti /\ Fresh(req'[r].new)
<1>1. PICK j \in Jti :
        /\ Fresh(j)
        /\ req' = [req EXCEPT ![r] = [@ EXCEPT !.pc = label, !.new = j]]
  BY DEF GenerateToken
<1> DEFINE q == [req[r] EXCEPT !.pc = label, !.new = j]
<1>2. req[r] \in Request
  BY DEF TypeOK
<1>3. /\ q.pc = label /\ q.new = j /\ q.op = req[r].op
      /\ q.user = req[r].user /\ q.tok = req[r].tok
      /\ q.stale = req[r].stale /\ q.res = req[r].res
  BY <1>2 DEF Request
<1>4. req'[r] = q /\ Others(r)
  BY <1>1 DEF TypeOK, Others
<1> QED BY <1>1, <1>3, <1>4 DEF Kept

LEMMA TypeStep == TypeOK /\ Control /\ [Next]_vars => TypeOK'
<1> SUFFICES ASSUME TypeOK, Control, [Next]_vars PROVE TypeOK'
    OBVIOUS
<1> USE DEF TypeOK
<1>1. CASE UNCHANGED vars
  BY <1>1 DEF vars, tokenVars
<1>2. ASSUME NEW r \in Requests, Arrive(r) PROVE TypeOK'
  <2>1. ASSUME NEW u \in Users \cup {None}, Register(r, u) \/ Login(r, u)
        PROVE  TypeOK'
    <3> DEFINE q(op, label) == [IdleRequest EXCEPT !.op = op, !.user = u,
                 !.pc  = IF u = None THEN "done" ELSE label,
                 !.res = IF u = None THEN "validation" ELSE "none"]
    <3>1. q("register", "reg_select") \in Request
      BY DEF IdleRequest, Request, Pcs, Results, AllOps
    <3>2. q("login", "login_select") \in Request
      BY DEF IdleRequest, Request, Pcs, Results, AllOps
    <3> QED BY <2>1, <3>1, <3>2 DEF Register, Login, tokenVars
  <2>2. ASSUME NEW j \in held \cup {None}, Refresh(r, j) PROVE TypeOK'
    BY <2>2 DEF Refresh, tokenVars, IdleRequest, Request, Pcs, Results, AllOps
  <2>3. ASSUME NEW j \in held \cup {None}, NEW valid \in BOOLEAN,
               Logout(r, j, valid)
        PROVE  TypeOK'
    BY <2>3 DEF Logout, tokenVars, IdleRequest, Request, Pcs, Results, AllOps
  <2> QED BY <1>2, <2>1, <2>2, <2>3 DEF Arrive
<1>3. ASSUME NEW r \in Requests, Serve(r) PROVE TypeOK'
  <2> USE DEF Pcs, Results, tokenVars
  <2>1. CASE RegisterSelect(r)
    BY <2>1, GotoType, ReplyType DEF RegisterSelect
  <2>2. ASSUME NEW ack \in BOOLEAN, RegisterInsert(r, ack) PROVE TypeOK'
    BY <2>2, ReplyType DEF RegisterInsert, ReplyWrite
  <2>3. ASSUME NEW ok \in BOOLEAN, LoginSelect(r, ok) PROVE TypeOK'
    BY <2>3, GenerateType, ReplyType DEF LoginSelect
  <2>4. ASSUME NEW ack \in BOOLEAN, LoginInsert(r, ack) PROVE TypeOK'
    BY <2>4, ReplyType, RequestFields DEF LoginInsert, ReplyWrite
  <2>5. CASE RefreshLoad(r)
    BY <2>5, GenerateType, ReplyType DEF RefreshLoad
  <2>6. CASE RotateBegin(r)
    BY <2>6, GotoType DEF RotateBegin
  <2>7. CASE RotateCheck(r)
    BY <2>7, GotoType, ReplyType DEF RotateCheck
  <2>8. CASE RotateMark(r)
    BY <2>8, GotoType DEF RotateMark
  <2>9. ASSUME NEW ack \in BOOLEAN, RotateCommit(r, ack) PROVE TypeOK'
    <3>1. req' \in [Requests -> Request]
      BY <2>9, ReplyType DEF RotateCommit, ReplyWrite
    <3>2. status' \in [Jti -> {"absent", "live", "revoked"}]
      BY <2>9 DEF RotateCommit, Rotated
    <3>3. parent' \in [Jti -> Jti \cup {None}]
      BY <2>9, RequestFields DEF RotateCommit, Rotated
    <3>4. req[r].tok \in Jti /\ req[r].pc = "rot_commit"
      BY <2>9, RequestFields DEF RotateCommit, Control, OpAtPc, Rotating
    <3>5. owner' \in [Jti -> Users \cup {None}]
      BY <2>9, <3>4 DEF RotateCommit, Rotated
    <3> QED BY <2>9, <3>1, <3>2, <3>3, <3>5 DEF RotateCommit, ReleaseLocks
  <2>10. CASE LogoutBegin(r)
    BY <2>10, GotoType DEF LogoutBegin
  <2>11. ASSUME NEW ack \in BOOLEAN, LogoutUpdate(r, ack) PROVE TypeOK'
    <3>1. req[r].tok \in Jti
      BY <2>11, RequestFields DEF LogoutUpdate, Control, OpAtPc
    <3>2. req' \in [Requests -> Request]
      BY <2>11, ReplyType DEF LogoutUpdate, ReplyWrite
    <3> QED BY <2>11, <3>1, <3>2 DEF LogoutUpdate
  <2>12. CASE Deliver(r)
    <3>1. held' \subseteq Jti
      BY <2>12, RequestFields DEF Deliver, IssuesToken, Control, OpAtPc
    <3> QED BY <2>12, <3>1, IdleIsRequest DEF Deliver
  <2> QED BY <1>3, <2>1, <2>2, <2>3, <2>4, <2>5, <2>6, <2>7, <2>8, <2>9,
             <2>10, <2>11, <2>12 DEF Serve
<1>4. ASSUME NEW r \in Requests, Fail(r) PROVE TypeOK'
  BY <1>4, ReplyType DEF Fail, ReleaseLocks, tokenVars, Results
<1>5. ASSUME NEW r \in Requests, LoseReply(r) PROVE TypeOK'
  BY <1>5, IdleIsRequest DEF LoseReply, tokenVars
<1>6. ASSUME NEW j \in Jti, Expire(j) PROVE TypeOK'
  BY <1>6 DEF Expire, tokenVars
<1>7. CASE Crash
  BY <1>7, IdleIsRequest DEF Crash, tokenVars
<1> QED BY <1>1, <1>2, <1>3, <1>4, <1>5, <1>6, <1>7 DEF Next


LEMMA ControlInit == Init => Control
BY DEF Init, Control, OpAtPc, IdleRequest, Rotating

(* Only the record of the request that moves changes; each new record
   satisfies OpAtPc. *)
LEMMA ControlStep == TypeOK /\ Control /\ [Next]_vars => Control'
<1> SUFFICES ASSUME TypeOK, Control, [Next]_vars PROVE Control'
    OBVIOUS
<1> USE DEF Control, OpAtPc, Rotating
<1>t. req \in [Requests -> Request]
  BY DEF TypeOK
<1>1. CASE UNCHANGED vars
  BY <1>1 DEF vars
<1>2. ASSUME NEW r \in Requests, Arrive(r) PROVE Control'
  <2> USE DEF IdleRequest
  <2>1. ASSUME NEW u \in Users \cup {None}, Register(r, u) PROVE Control'
    BY <2>1, <1>t DEF Register
  <2>2. ASSUME NEW u \in Users \cup {None}, Login(r, u) PROVE Control'
    BY <2>2, <1>t DEF Login
  <2>3. ASSUME NEW j \in held \cup {None}, Refresh(r, j) PROVE Control'
    BY <2>3, <1>t DEF Refresh
  <2>4. ASSUME NEW j \in held \cup {None}, NEW valid \in BOOLEAN,
               Logout(r, j, valid)
        PROVE  Control'
    BY <2>4, <1>t DEF Logout
  <2> QED BY <1>2, <2>1, <2>2, <2>3, <2>4 DEF Arrive
<1>3. ASSUME NEW r \in Requests, Serve(r) PROVE Control'
  <2> USE GotoFields, ReplyFields, GenerateFields
        DEF Others, Kept, ReplyWrite
  <2>1. CASE RegisterSelect(r)
    BY <2>1 DEF RegisterSelect
  <2>2. ASSUME NEW ack \in BOOLEAN, RegisterInsert(r, ack) PROVE Control'
    BY <2>2 DEF RegisterInsert
  <2>3. ASSUME NEW ok \in BOOLEAN, LoginSelect(r, ok) PROVE Control'
    BY <2>3, NoneAssumption DEF LoginSelect
  <2>4. ASSUME NEW ack \in BOOLEAN, LoginInsert(r, ack) PROVE Control'
    BY <2>4 DEF LoginInsert
  <2>5. CASE RefreshLoad(r)
    BY <2>5, NoneAssumption DEF RefreshLoad, JwtValid
  <2>6. CASE RotateBegin(r)
    BY <2>6 DEF RotateBegin
  <2>7. CASE RotateCheck(r)
    BY <2>7 DEF RotateCheck
  <2>8. CASE RotateMark(r)
    BY <2>8 DEF RotateMark
  <2>9. ASSUME NEW ack \in BOOLEAN, RotateCommit(r, ack) PROVE Control'
    BY <2>9 DEF RotateCommit
  <2>10. CASE LogoutBegin(r)
    BY <2>10 DEF LogoutBegin
  <2>11. ASSUME NEW ack \in BOOLEAN, LogoutUpdate(r, ack) PROVE Control'
    BY <2>11 DEF LogoutUpdate
  <2>12. CASE Deliver(r)
    BY <2>12 DEF Deliver, IdleRequest
  <2> QED BY <1>3, <2>1, <2>2, <2>3, <2>4, <2>5, <2>6, <2>7, <2>8, <2>9,
             <2>10, <2>11, <2>12 DEF Serve
<1>4. ASSUME NEW r \in Requests, Fail(r) PROVE Control'
  BY <1>4, ReplyFields DEF Fail, Others, Kept
<1>5. ASSUME NEW r \in Requests, LoseReply(r) PROVE Control'
  BY <1>5, <1>t DEF LoseReply, IdleRequest
<1>6. ASSUME NEW j \in Jti, Expire(j) PROVE Control'
  BY <1>6 DEF Expire
<1>7. CASE Crash
  BY <1>7 DEF Crash, IdleRequest
<1> QED BY <1>1, <1>2, <1>3, <1>4, <1>5, <1>6, <1>7 DEF Next

-----------------------------------------------------------------------------
(* Rows only move forward. *)

Forward ==
  /\ \A u \in Users : accounts[u] > 0 => accounts'[u] > 0
  /\ \A j \in Jti : status[j] # "absent" =>
       status'[j] # "absent" /\ owner'[j] = owner[j] /\ parent'[j] = parent[j]
  /\ \A j \in Jti : status[j] = "revoked" => status'[j] = "revoked"
  /\ expired \subseteq expired'
  /\ \A s \in Requests :
       req'[s] = req[s] /\ req[s].pc \in {"login_insert"} \cup Rotating
         => status'[req[s].new] = "absent"

RowsKept == UNCHANGED <<accounts, status, owner, parent, loggedOut>>

LEMMA KeptForward ==
  ASSUME IndInv, RowsKept, expired \subseteq expired'
  PROVE  Forward
BY DEF IndInv, TypeOK, RowsKept, Forward, TokensAtPc

(* Every step but a write to the tables keeps the rows. *)
Writes(r) ==
  \E ack \in BOOLEAN : \/ RegisterInsert(r, ack)
                       \/ LoginInsert(r, ack)
                       \/ RotateCommit(r, ack)
                       \/ LogoutUpdate(r, ack)

LEMMA StepKinds ==
  ASSUME [Next]_vars
  PROVE  \/ RowsKept /\ expired \subseteq expired'
         \/ \E r \in Requests : Writes(r)
<1> USE DEF RowsKept, tokenVars
<1>1. CASE UNCHANGED vars
  BY <1>1 DEF vars
<1>2. ASSUME NEW r \in Requests, Arrive(r)
      PROVE  RowsKept /\ expired \subseteq expired'
  BY <1>2 DEF Arrive, Register, Login, Refresh, Logout
<1>3. ASSUME NEW r \in Requests, Serve(r)
      PROVE  (RowsKept /\ expired \subseteq expired') \/ Writes(r)
  BY <1>3 DEF Serve, RegisterSelect, LoginSelect, RefreshLoad, RotateBegin,
              RotateCheck, RotateMark, LogoutBegin, Deliver, Writes
<1>4. ASSUME NEW r \in Requests, Fail(r) \/ LoseReply(r)
      PROVE  RowsKept /\ expired \subseteq expired'
  BY <1>4 DEF Fail, LoseReply
<1>5. ASSUME NEW j \in Jti, Expire(j)
      PROVE  RowsKept /\ expired \subseteq expired'
  BY <1>5 DEF Expire
<1>6. CASE Crash
  BY <1>6 DEF Crash
<1> QED BY <1>1, <1>2, <1>3, <1>4, <1>5, <1>6 DEF Next

LEMMA ForwardStep == ASSUME IndInv, [Next]_vars PROVE Forward
<1> USE DEF IndInv, TypeOK
<1>1. CASE RowsKept /\ expired \subseteq expired'
  BY <1>1, KeptForward
<1>2. ASSUME NEW r \in Requests, NEW ack \in BOOLEAN, RegisterInsert(r, ack)
      PROVE  Forward
  BY <1>2 DEF RegisterInsert, Forward, tokenVars, TokensAtPc
<1>3. ASSUME NEW r \in Requests, NEW ack \in BOOLEAN, LoginInsert(r, ack)
      PROVE  Forward
  <2>1. req'[r] # req[r] /\ req[r].pc = "login_insert"
    BY <1>3, ReplyFields DEF LoginInsert, ReplyWrite
  <2>2. status[req[r].new] = "absent" /\ req[r].new \in Jti
    BY <2>1, RequestFields DEF TokensAtPc, Control, OpAtPc
  <2>3. ASSUME NEW s \in Requests, req'[s] = req[s],
               req[s].pc \in {"login_insert"} \cup Rotating
        PROVE  status'[req[s].new] = "absent"
    <3>1. req[s].new # req[r].new /\ req[s].new \in Jti
      BY <2>1, <2>3, RequestFields DEF NewDistinct, Control, OpAtPc
    <3> QED BY <1>3, <2>3, <3>1 DEF LoginInsert, TokensAtPc
  <2> QED BY <1>3, <2>2, <2>3 DEF LoginInsert, Forward
<1>4. ASSUME NEW r \in Requests, NEW ack \in BOOLEAN, RotateCommit(r, ack)
      PROVE  Forward
  <2>1. req'[r] # req[r] /\ req[r].pc = "rot_commit"
    BY <1>4, ReplyFields DEF RotateCommit, ReplyWrite
  <2>2. /\ status[req[r].new] = "absent" /\ req[r].new \in Jti
        /\ status[req[r].tok] # "absent" /\ req[r].tok \in Jti
    BY <2>1, RequestFields DEF TokensAtPc, Control, OpAtPc, Rotating
  <2>3. ASSUME NEW s \in Requests, req'[s] = req[s],
               req[s].pc \in {"login_insert"} \cup Rotating
        PROVE  status'[req[s].new] = "absent"
    <3>1. req[s].new # req[r].new /\ req[s].new \in Jti
      BY <2>1, <2>3, RequestFields DEF NewDistinct, Control, OpAtPc
    <3>2. status[req[s].new] = "absent"
      BY <2>3 DEF TokensAtPc
    <3> QED BY <1>4, <2>2, <3>1, <3>2 DEF RotateCommit, Rotated
  <2>4. \A j \in Jti : j # req[r].new =>
          /\ owner'[j] = owner[j] /\ parent'[j] = parent[j]
          /\ status'[j] = IF j = req[r].tok THEN "revoked" ELSE status[j]
    BY <1>4 DEF RotateCommit, Rotated
  <2>5. UNCHANGED <<accounts, expired>>
    BY <1>4 DEF RotateCommit
  <2> QED BY <2>2, <2>3, <2>4, <2>5 DEF Forward
<1>5. ASSUME NEW r \in Requests, NEW ack \in BOOLEAN, LogoutUpdate(r, ack)
      PROVE  Forward
  <2>1. req[r].tok \in Jti /\ status[req[r].tok] # "absent"
    BY <1>5, RequestFields DEF LogoutUpdate, TokensAtPc, Control, OpAtPc
  <2>2. ASSUME NEW s \in Requests, req'[s] = req[s],
               req[s].pc \in {"login_insert"} \cup Rotating
        PROVE  status'[req[s].new] = "absent"
    <3>1. status[req[s].new] = "absent" /\ req[s].new \in Jti
      BY <2>2, RequestFields DEF TokensAtPc, Control, OpAtPc
    <3> QED BY <1>5, <2>1, <3>1 DEF LogoutUpdate
  <2> QED BY <1>5, <2>1, <2>2 DEF LogoutUpdate, Forward
<1> QED BY <1>1, <1>2, <1>3, <1>4, <1>5, StepKinds DEF Writes

-----------------------------------------------------------------------------
(* What the rows mean. *)

(* held grows by the token of a delivered answer, which has its row. *)
LEMMA HeldStep ==
  ASSUME IndInv, [Next]_vars
  PROVE  \A j \in held' : j \in held \/ status[j] # "absent"
<1> USE DEF IndInv, TypeOK
<1>1. ASSUME NEW r \in Requests, Deliver(r)
      PROVE  \A j \in held' : j \in held \/ status[j] # "absent"
  <2>1. CASE ~IssuesToken(r)
    BY <1>1, <2>1 DEF Deliver
  <2>2. CASE IssuesToken(r)
    <3>1. Durable(r) /\ req[r].op \in {"login", "refresh"}
      BY <2>2 DEF AckedIsDurable, IssuesToken
    <3>2. req[r].new \in Jti
      BY <2>2, RequestFields DEF Control, OpAtPc, IssuesToken
    <3>3. req[r].op = "refresh" => req[r].tok # None
      BY <2>2 DEF Control, OpAtPc, IssuesToken
    <3>4. status[req[r].new] # "absent"
      BY <3>1, <3>2, <3>3, NoneAssumption DEF Durable, RowsOK
    <3> QED BY <1>1, <2>2, <3>4 DEF Deliver
  <2> QED BY <2>1, <2>2
<1>2. CASE \A r \in Requests : ~Deliver(r)
  BY <1>2 DEF Next, vars, Arrive, Register, Login, Refresh, Logout, Serve,
       RegisterSelect, RegisterInsert, LoginSelect, LoginInsert, RefreshLoad,
       RotateBegin, RotateCheck, RotateMark, RotateCommit, LogoutBegin,
       LogoutUpdate, Fail, LoseReply, Expire, Crash
<1> QED BY <1>1, <1>2

LEMMA RowsStep == ASSUME IndInv, [Next]_vars PROVE RowsOK' /\ RotationAtomic'
<1> USE DEF IndInv, TypeOK
<1>h. \A j \in held' : j \in held \/ status[j] # "absent"
  BY HeldStep
<1>1. CASE RowsKept
  BY <1>1, <1>h DEF RowsKept, RowsOK, RotationAtomic, Successors
<1>2. ASSUME NEW r \in Requests, NEW ack \in BOOLEAN, RegisterInsert(r, ack)
      PROVE  RowsOK' /\ RotationAtomic'
  BY <1>2 DEF RegisterInsert, tokenVars, RowsOK, RotationAtomic, Successors
<1>3. ASSUME NEW r \in Requests, NEW ack \in BOOLEAN, LoginInsert(r, ack)
      PROVE  RowsOK' /\ RotationAtomic'
  <2> DEFINE n == req[r].new
  <2>1. /\ n \in Jti /\ status[n] = "absent"
        /\ req[r].user \in Users /\ accounts[req[r].user] > 0
    BY <1>3, RequestFields DEF LoginInsert, TokensAtPc, Control, OpAtPc
  <2>2. Successors(n) = {} /\ n \notin loggedOut /\ parent[n] = None
    BY <2>1 DEF RotationAtomic, RowsOK
  <2>3. RowsOK'
    BY <1>3, <2>1, <2>2 DEF LoginInsert, RowsOK
  <2>4. RotationAtomic'
    BY <1>3, <2>1, <2>2, NoneAssumption
       DEF LoginInsert, RotationAtomic, Successors
  <2> QED BY <2>3, <2>4
<1>4. ASSUME NEW r \in Requests, NEW ack \in BOOLEAN, RotateCommit(r, ack)
      PROVE  RowsOK' /\ RotationAtomic'
  <2> DEFINE n == req[r].new
             t == req[r].tok
  <2>1. /\ n \in Jti /\ status[n] = "absent"
        /\ t \in Jti /\ status[t] # "absent"
    BY <1>4, RequestFields DEF RotateCommit, TokensAtPc, Control, OpAtPc,
                               Rotating
  <2>2. Successors(n) = {} /\ n \notin loggedOut /\ parent[n] = None
    BY <2>1 DEF RotationAtomic, RowsOK
  <2>3. /\ \A j \in Jti : status'[j] = IF j = n THEN "live"
                                 ELSE IF j = t THEN "revoked" ELSE status[j]
        /\ \A j \in Jti : owner'[j] = IF j = n THEN owner[t] ELSE owner[j]
        /\ \A j \in Jti : parent'[j] = IF j = n THEN t ELSE parent[j]
        /\ UNCHANGED <<accounts, loggedOut, held>>
    BY <1>4, <2>1 DEF RotateCommit, Rotated
  <2> HIDE DEF n, t
  <2>4. RowsOK'
    BY <2>1, <2>2, <2>3 DEF RowsOK
  <2>5. \A j \in Jti : Successors(j)' =
          IF j = t THEN Successors(j) \cup {n} ELSE Successors(j)
    BY <2>1, <2>2, <2>3, NoneAssumption DEF Successors
  <2>6. RotationAtomic'
    <3>1. ASSUME NEW j \in Jti
          PROVE  status'[j] = "revoked"
                   <=> j \in loggedOut' \/ Successors(j)' # {}
      BY <2>1, <2>2, <2>3, <2>5 DEF RotationAtomic
    <3>2. ASSUME NEW j \in Jti, NEW k \in Successors(j)'
          PROVE  status'[k] # "absent" /\ owner'[k] = owner'[j]
      <4>1. CASE k = n
        BY <2>1, <2>2, <2>3, <2>5, <3>2, <4>1 DEF RotationAtomic
      <4>2. CASE k # n
        <5>1. k \in Successors(j) /\ k \in Jti
          BY <2>5, <3>2, <4>2 DEF Successors
        <5>2. j # n
          BY <2>2, <5>1
        <5> QED BY <2>3, <4>2, <5>1, <5>2 DEF RotationAtomic
      <4> QED BY <4>1, <4>2
    <3> QED BY <3>1, <3>2 DEF RotationAtomic
  <2> QED BY <2>4, <2>6
<1>5. ASSUME NEW r \in Requests, NEW ack \in BOOLEAN, LogoutUpdate(r, ack)
      PROVE  RowsOK' /\ RotationAtomic'
  <2>1. req[r].tok \in Jti /\ status[req[r].tok] # "absent"
    BY <1>5, RequestFields DEF LogoutUpdate, TokensAtPc, Control, OpAtPc
  <2> QED
    BY <1>5, <2>1 DEF LogoutUpdate, RowsOK, RotationAtomic, Successors
<1> QED BY <1>1, <1>2, <1>3, <1>4, <1>5, StepKinds DEF Writes

-----------------------------------------------------------------------------
(* What each handler knows. *)

Knows(r) ==
  /\ TokensAtPc(r)
  /\ req[r].res = "ok" => Durable(r)
  /\ req[r].res = "invalid" /\ req[r].tok # None => Spent(req[r].tok)

(* A handler that did not move keeps what it knows. *)
LEMMA OthersKnow ==
  ASSUME IndInv, Forward, NEW s \in Requests, req'[s] = req[s]
  PROVE  Knows(s)'
<1>1. /\ req[s].tok # None => req[s].tok \in Jti
      /\ req[s].user # None => req[s].user \in Users
      /\ req[s].new # None => req[s].new \in Jti
  BY RequestFields DEF IndInv
<1>2. OpAtPc(s) /\ TokensAtPc(s)
  BY DEF IndInv, Control
<1>3. TokensAtPc(s)'
  BY <1>1, <1>2 DEF Forward, Spent, TokensAtPc, OpAtPc
<1>4. req[s].res = "ok" => Durable(s)'
  <2>1. SUFFICES ASSUME req[s].res = "ok" PROVE Durable(s)'
    OBVIOUS
  <2>2. Durable(s)
    BY <2>1 DEF IndInv, AckedIsDurable
  <2>3. req[s].op = "register" => accounts'[req[s].user] > 0
    BY <1>1, <1>2, <2>1, <2>2 DEF Forward, Durable, OpAtPc
  <2>4. req[s].op = "login" =>
          status'[req[s].new] # "absent" /\ owner'[req[s].new] = req[s].user
    BY <1>1, <1>2, <2>1, <2>2 DEF Forward, Durable, OpAtPc
  <2>5. req[s].op = "refresh" =>
          status'[req[s].tok] = "revoked" /\ parent'[req[s].new] = req[s].tok
    BY <1>1, <1>2, <2>1, <2>2 DEF Forward, Durable, OpAtPc, IndInv, RowsOK
  <2>6. req[s].op = "logout" /\ req[s].tok # None =>
          status'[req[s].tok] = "revoked"
    BY <1>1, <2>2 DEF Forward, Durable
  <2> QED BY <2>3, <2>4, <2>5, <2>6 DEF Durable
<1>5. req[s].res = "invalid" /\ req[s].tok # None => Spent(req[s].tok)'
  BY <1>1 DEF Forward, IndInv, RefusedOnlyIfSpent, Spent
<1> QED BY <1>3, <1>4, <1>5 DEF Knows

(* A handler that has just started, or has finished, knows nothing. *)
LEMMA IdleKnows ==
  ASSUME NEW s \in Requests, req'[s] = IdleRequest
  PROVE  Knows(s)'
BY DEF Knows, TokensAtPc, IdleRequest, Rotating

(* A request that arrives presents a token the client got. *)
LEMMA ArrivalKnows ==
  ASSUME IndInv, NEW r \in Requests, Arrive(r)
  PROVE  /\ Knows(r)' /\ Others(r)
         /\ req'[r].new = None /\ req'[r].pc # "rot_commit"
<1> USE DEF IndInv, TypeOK, Others
<1>1. ASSUME NEW u \in Users \cup {None}, Register(r, u) \/ Login(r, u)
      PROVE  /\ Knows(r)' /\ Others(r)
             /\ req'[r].new = None /\ req'[r].pc # "rot_commit"
  <2>1. /\ Others(r) /\ req'[r].tok = None /\ req'[r].new = None
        /\ req'[r].stale = FALSE /\ req'[r].res \in {"none", "validation"}
        /\ req'[r].pc \in {"done", "reg_select", "login_select"}
    <3>1. CASE Register(r, u)
      BY <3>1 DEF Register, IdleRequest
    <3>2. CASE Login(r, u)
      BY <3>2 DEF Login, IdleRequest
    <3> QED BY <1>1, <3>1, <3>2
  <2> QED BY <2>1 DEF Knows, TokensAtPc, Rotating
<1>2. ASSUME NEW j \in held \cup {None}, Refresh(r, j)
      PROVE  /\ Knows(r)' /\ Others(r)
             /\ req'[r].new = None /\ req'[r].pc # "rot_commit"
  <2>1. j # None => j \in Jti /\ status[j] # "absent"
    BY DEF RowsOK
  <2> QED BY <1>2, <2>1 DEF Refresh, tokenVars, Knows, Spent, TokensAtPc,
                            IdleRequest, Rotating
<1>3. ASSUME NEW j \in held \cup {None}, NEW valid \in BOOLEAN,
             Logout(r, j, valid)
      PROVE  /\ Knows(r)' /\ Others(r)
             /\ req'[r].new = None /\ req'[r].pc # "rot_commit"
  <2>1. j # None => j \in Jti /\ status[j] # "absent"
    BY DEF RowsOK
  <2> QED BY <1>3, <2>1 DEF Logout, tokenVars, Knows, Spent, TokensAtPc, Durable,
                            IdleRequest, Rotating
<1> QED BY <1>1, <1>2, <1>3 DEF Arrive

(* A handler that runs its next statement learns what the statement saw. *)
LEMMA ServedKnows ==
  ASSUME IndInv, NEW r \in Requests, Serve(r)
  PROVE  Knows(r)' /\ Others(r)
<1> USE DEF IndInv
<1>c. OpAtPc(r) /\ TokensAtPc(r)
  BY DEF Control
<1>t. /\ req[r].tok # None => req[r].tok \in Jti
      /\ req[r].user # None => req[r].user \in Users
      /\ req[r].new # None => req[r].new \in Jti
  BY RequestFields
<1>1. CASE RegisterSelect(r)
  <2>1. /\ Others(r) /\ Kept(r) /\ req'[r].pc \in {"done", "reg_insert"}
        /\ req'[r].res \in {"none", "conflict"}
    BY <1>1, <1>c, GotoFields, ReplyFields DEF RegisterSelect, OpAtPc
  <2> QED
    BY <1>1, <1>c, <2>1 DEF RegisterSelect, Kept, Knows, OpAtPc, TokensAtPc,
                            Rotating, tokenVars
<1>2. ASSUME NEW ack \in BOOLEAN, RegisterInsert(r, ack)
      PROVE  Knows(r)' /\ Others(r)
  <2>1. Others(r) /\ Kept(r) /\ req'[r].pc = "done"
    BY <1>2, ReplyFields DEF RegisterInsert, ReplyWrite
  <2>2. req[r].op = "register" /\ req[r].user \in Users
    BY <1>2, <1>c, <1>t DEF RegisterInsert, OpAtPc
  <2>3. TokensAtPc(r)'
    BY <1>2, <1>c, <2>1, <2>2
       DEF RegisterInsert, Kept, Spent, TokensAtPc, Rotating, tokenVars
  <2>4. req'[r].res = "ok" => accounts'[req[r].user] > 0
    BY <1>2, <2>2, ReplyFields DEF RegisterInsert, ReplyWrite, TypeOK
  <2>5. req'[r].res # "invalid"
    BY <1>2, ReplyFields DEF RegisterInsert, ReplyWrite
  <2> QED BY <2>1, <2>2, <2>3, <2>4, <2>5 DEF Knows, Durable, Kept
<1>3. ASSUME NEW ok \in BOOLEAN, LoginSelect(r, ok)
      PROVE  Knows(r)' /\ Others(r)
  <2>1. CASE Reply(r, "unauthorized")
    BY <1>3, <1>c, <2>1, ReplyFields
       DEF LoginSelect, Kept, Knows, OpAtPc, TokensAtPc, Rotating, tokenVars
  <2>2. CASE /\ GenerateToken(r, "login_insert")
             /\ accounts[req[r].user] # 0
    <3>1. req[r].user \in Users /\ req[r].op = "login"
      BY <1>3, <1>c, <1>t DEF LoginSelect, OpAtPc
    <3>2. accounts[req[r].user] > 0
      BY <2>2, <3>1 DEF TypeOK
    <3> QED
      BY <1>3, <1>c, <2>2, <3>1, <3>2, GenerateFields
         DEF LoginSelect, Kept, Knows, OpAtPc, TokensAtPc, Rotating,
             tokenVars, Fresh
  <2> QED BY <1>3, <2>1, <2>2 DEF LoginSelect
<1>4. ASSUME NEW ack \in BOOLEAN, LoginInsert(r, ack)
      PROVE  Knows(r)' /\ Others(r)
  <2>1. Others(r) /\ Kept(r) /\ req'[r].pc = "done"
        /\ req'[r].new = req[r].new /\ req'[r].res # "invalid"
    BY <1>4, ReplyFields DEF LoginInsert, ReplyWrite
  <2>2. /\ req[r].op = "login" /\ req[r].tok = None
        /\ req[r].new \in Jti /\ ~req[r].stale
    BY <1>4, <1>c, <1>t DEF LoginInsert, OpAtPc, TokensAtPc
  <2>3. status'[req[r].new] = "live" /\ owner'[req[r].new] = req[r].user
    BY <1>4, <2>2 DEF LoginInsert, TypeOK
  <2> QED BY <2>1, <2>2, <2>3 DEF Knows, Durable, Kept, TokensAtPc, Rotating
<1>5. CASE RefreshLoad(r)
  <2>1. CASE Reply(r, "invalid") /\ ~(JwtValid(req[r].tok)
                                       /\ UserExists(req[r].tok))
    <3>1. req[r].tok # None => Spent(req[r].tok)
      BY <1>c, <1>t, <2>1, NoneAssumption
         DEF JwtValid, UserExists, RowsOK, TokensAtPc, Spent
    <3> QED
      BY <1>5, <1>c, <2>1, <3>1, ReplyFields
         DEF RefreshLoad, Kept, Knows, OpAtPc, TokensAtPc, Rotating,
             tokenVars, Spent
  <2>2. CASE GenerateToken(r, "rot_begin")
    BY <1>5, <1>c, <2>2, GenerateFields
       DEF RefreshLoad, Kept, Knows, OpAtPc, Spent, TokensAtPc, Rotating,
           tokenVars, Fresh
  <2> QED BY <1>5, <2>1, <2>2 DEF RefreshLoad
<1>6. CASE RotateBegin(r)
  BY <1>6, <1>c, GotoFields
     DEF RotateBegin, Kept, Knows, OpAtPc, Spent, TokensAtPc, Rotating, tokenVars
<1>7. CASE RotateCheck(r)
  <2>1. req[r].tok \in Jti /\ req[r].op = "refresh" /\ req[r].res = "none"
    BY <1>7, <1>c, <1>t DEF RotateCheck, OpAtPc, Rotating
  <2>2. CASE Reply(r, "invalid") /\ ExpiredOrRevoked(req[r].tok)
    BY <1>7, <1>c, <2>1, <2>2, ReplyFields
       DEF RotateCheck, ExpiredOrRevoked, Kept, Knows, TokensAtPc, Rotating,
           tokenVars, Spent
  <2>3. CASE Goto(r, "rot_mark") /\ ~ExpiredOrRevoked(req[r].tok)
    BY <1>7, <1>c, <2>1, <2>3, GotoFields
       DEF RotateCheck, ExpiredOrRevoked, Kept, Knows, Spent, TokensAtPc, Rotating,
           tokenVars
  <2> QED BY <1>7, <2>2, <2>3 DEF RotateCheck
<1>8. CASE RotateMark(r)
  BY <1>8, <1>c, GotoFields
     DEF RotateMark, Kept, Knows, OpAtPc, TokensAtPc, Rotating, tokenVars
<1>9. ASSUME NEW ack \in BOOLEAN, RotateCommit(r, ack)
      PROVE  Knows(r)' /\ Others(r)
  <2>1. Others(r) /\ Kept(r) /\ req'[r].pc = "done"
        /\ req'[r].new = req[r].new /\ req'[r].res # "invalid"
    BY <1>9, ReplyFields DEF RotateCommit, ReplyWrite
  <2>2. /\ req[r].op = "refresh" /\ req[r].tok \in Jti
        /\ req[r].new \in Jti /\ ~req[r].stale
        /\ status[req[r].new] = "absent" /\ status[req[r].tok] # "absent"
    BY <1>9, <1>c, <1>t DEF RotateCommit, OpAtPc, TokensAtPc, Rotating
  <2>3. status'[req[r].tok] = "revoked" /\ parent'[req[r].new] = req[r].tok
    BY <1>9, <2>2 DEF RotateCommit, Rotated, TypeOK
  <2> QED BY <2>1, <2>2, <2>3 DEF Knows, Durable, Kept, TokensAtPc, Rotating
<1>10. CASE LogoutBegin(r)
  BY <1>10, <1>c, GotoFields
     DEF LogoutBegin, Kept, Knows, OpAtPc, Spent, TokensAtPc, Rotating, tokenVars
<1>11. ASSUME NEW ack \in BOOLEAN, LogoutUpdate(r, ack)
      PROVE  Knows(r)' /\ Others(r)
  <2>1. Others(r) /\ Kept(r) /\ req'[r].pc = "done"
        /\ req'[r].res # "invalid"
    BY <1>11, ReplyFields DEF LogoutUpdate, ReplyWrite
  <2>2. req[r].op = "logout" /\ req[r].tok \in Jti
    BY <1>11, <1>c, <1>t DEF LogoutUpdate, OpAtPc
  <2>3. status'[req[r].tok] = "revoked"
    BY <1>11, <2>2 DEF LogoutUpdate, TypeOK
  <2> QED BY <2>1, <2>2, <2>3 DEF Knows, Durable, Kept, Spent, TokensAtPc, Rotating
<1>12. CASE Deliver(r)
  <2>1. Others(r) /\ req'[r] = IdleRequest
    BY <1>12 DEF Deliver, Others, TypeOK
  <2> QED BY <2>1, IdleKnows
<1> QED BY <1>1, <1>2, <1>3, <1>4, <1>5, <1>6, <1>7, <1>8, <1>9, <1>10,
           <1>11, <1>12 DEF Serve

LEMMA KnowsStep ==
  ASSUME IndInv, [Next]_vars, NEW s \in Requests PROVE Knows(s)'
<1>f. Forward
  BY ForwardStep
<1>0. CASE req'[s] = req[s]
  BY <1>0, <1>f, OthersKnow
<1>1. CASE req'[s] = IdleRequest
  BY <1>1, IdleKnows
<1>2. ASSUME NEW r \in Requests, Arrive(r) PROVE Knows(s)'
  BY <1>0, <1>2, ArrivalKnows DEF Others
<1>3. ASSUME NEW r \in Requests, Serve(r) PROVE Knows(s)'
  BY <1>0, <1>3, ServedKnows DEF Others
<1>4. ASSUME NEW r \in Requests, Fail(r) PROVE Knows(s)'
  <2>1. Others(r) /\ Kept(r) /\ req'[r].pc = "done"
        /\ req'[r].res = "internal"
    BY <1>4, ReplyFields DEF Fail, IndInv
  <2>2. Knows(r)'
    BY <1>4, <2>1 DEF Fail, Kept, Knows, IndInv, Spent, TokensAtPc, Rotating,
                      tokenVars
  <2> QED BY <1>0, <2>1, <2>2 DEF Others
<1>5. ASSUME NEW r \in Requests, LoseReply(r) PROVE Knows(s)'
  <2>1. Others(r) /\ req'[r] = IdleRequest
    BY <1>5 DEF LoseReply, IndInv, TypeOK, Others
  <2> QED BY <1>0, <1>1, <2>1 DEF Others
<1>6. ASSUME NEW j \in Jti, Expire(j) PROVE Knows(s)'
  BY <1>0, <1>6 DEF Expire
<1>7. CASE Crash
  BY <1>1, <1>7 DEF Crash
<1>8. CASE UNCHANGED vars
  BY <1>0, <1>8 DEF vars
<1> QED BY <1>2, <1>3, <1>4, <1>5, <1>6, <1>7, <1>8 DEF Next

-----------------------------------------------------------------------------
(* Pairs of handlers: new tokens never coincide, row locks are rotations. *)

LEMMA NewDistinctStep == ASSUME IndInv, [Next]_vars PROVE NewDistinct'
<1> USE DEF IndInv, NewDistinct
<1>1. CASE UNCHANGED req
  BY <1>1
<1>2. ASSUME NEW r \in Requests, Others(r),
             \/ req'[r].new \in {None, req[r].new}
             \/ req'[r].new \in Jti /\ Fresh(req'[r].new)
      PROVE  NewDistinct'
  BY <1>2 DEF Others, Fresh
<1>3. ASSUME NEW r \in Requests, Arrive(r) PROVE NewDistinct'
  BY <1>2, <1>3, ArrivalKnows
<1>4. ASSUME NEW r \in Requests, Serve(r) PROVE NewDistinct'
  <2>1. Others(r)
    BY <1>4, ServedKnows
  <2>2. CASE Deliver(r)
    BY <1>2, <2>1, <2>2 DEF Deliver, IdleRequest, TypeOK
  <2>3. CASE LoginSelect(r, TRUE) \/ LoginSelect(r, FALSE) \/ RefreshLoad(r)
    BY <1>2, <2>1, <2>3, ReplyFields, GenerateFields
       DEF LoginSelect, RefreshLoad
  <2>4. CASE ~(Deliver(r) \/ LoginSelect(r, TRUE) \/ LoginSelect(r, FALSE)
                 \/ RefreshLoad(r))
    <3>1. req'[r].new = req[r].new
      BY <1>4, <2>4, ReplyFields, GotoFields
         DEF Serve, RegisterSelect, RegisterInsert, LoginInsert, RotateBegin,
             RotateCheck, RotateMark, RotateCommit, LogoutBegin, LogoutUpdate,
             ReplyWrite
    <3> QED BY <1>2, <2>1, <3>1
  <2> QED BY <2>2, <2>3, <2>4
<1>5. ASSUME NEW r \in Requests, Fail(r) PROVE NewDistinct'
  BY <1>2, <1>5, ReplyFields DEF Fail
<1>6. ASSUME NEW r \in Requests, LoseReply(r) PROVE NewDistinct'
  BY <1>2, <1>6 DEF LoseReply, IdleRequest, TypeOK, Others
<1>7. CASE Crash
  BY <1>7 DEF Crash, IdleRequest
<1> QED BY <1>1, <1>3, <1>4, <1>5, <1>6, <1>7 DEF Next, Expire, vars

LEMMA LockStep == ASSUME IndInv, [Next]_vars PROVE LockDiscipline'
<1> USE DEF IndInv, LockDiscipline
<1>1. CASE UNCHANGED <<req, rowLock>>
  BY <1>1
<1>2. ASSUME NEW r \in Requests, Others(r), UNCHANGED rowLock,
             req[r].pc # "rot_commit", req'[r].pc # "rot_commit"
      PROVE  LockDiscipline'
  BY <1>2 DEF Others
<1>3. ASSUME NEW r \in Requests, Others(r), ReleaseLocks(r),
             req'[r].pc # "rot_commit"
      PROVE  LockDiscipline'
  <2>1. \A j \in Jti : rowLock'[j] = IF rowLock[j] = r THEN None ELSE rowLock[j]
    BY <1>3 DEF ReleaseLocks
  <2> QED BY <1>3, <2>1, NoneAssumption DEF Others
<1>4. ASSUME NEW r \in Requests, Arrive(r) PROVE LockDiscipline'
  <2>1. req[r].pc = "idle" /\ UNCHANGED rowLock
    BY <1>4 DEF Arrive, Register, Login, Refresh, Logout
  <2> QED BY <1>2, <1>4, <2>1, ArrivalKnows
<1>5. ASSUME NEW r \in Requests, Serve(r) PROVE LockDiscipline'
  <2>1. Others(r)
    BY <1>5, ServedKnows
  <2>2. CASE RotateMark(r)
    <3>1. /\ Kept(r) /\ req'[r].pc = "rot_commit" /\ req[r].pc = "rot_mark"
          /\ req[r].tok \in Jti
      BY <2>2, GotoFields, RequestFields
         DEF RotateMark, Control, OpAtPc, Rotating
    <3>2. /\ rowLock[req[r].tok] = None
          /\ \A j \in Jti :
               rowLock'[j] = IF j = req[r].tok THEN r ELSE rowLock[j]
      BY <2>2 DEF RotateMark, TypeOK
    <3> QED BY <2>1, <3>1, <3>2, NoneAssumption DEF Others, Kept
  <2>3. CASE \E ack \in BOOLEAN : RotateCommit(r, ack)
    BY <1>3, <2>1, <2>3, ReplyFields DEF RotateCommit, ReplyWrite
  <2>4. CASE ~(RotateMark(r) \/ \E ack \in BOOLEAN : RotateCommit(r, ack))
    <3>1. UNCHANGED rowLock /\ req[r].pc # "rot_commit"
      BY <1>5, <2>4
         DEF Serve, RegisterSelect, RegisterInsert, LoginSelect, LoginInsert,
             RefreshLoad, RotateBegin, RotateCheck, LogoutBegin, LogoutUpdate,
             Deliver
    <3>2. req'[r].pc # "rot_commit"
      BY <1>5, <2>4, ReplyFields, GotoFields, GenerateFields
         DEF Serve, RegisterSelect, RegisterInsert, LoginSelect, LoginInsert,
             RefreshLoad, RotateBegin, RotateCheck, LogoutBegin, LogoutUpdate,
             Deliver, ReplyWrite, IdleRequest, TypeOK
    <3> QED BY <1>2, <2>1, <3>1, <3>2
  <2> QED BY <2>2, <2>3, <2>4
<1>6. ASSUME NEW r \in Requests, Fail(r) PROVE LockDiscipline'
  BY <1>3, <1>6, ReplyFields DEF Fail
<1>7. ASSUME NEW r \in Requests, LoseReply(r) PROVE LockDiscipline'
  BY <1>2, <1>7 DEF LoseReply, IdleRequest, TypeOK, Others
<1>8. CASE Crash
  BY <1>8, NoneAssumption DEF Crash, IdleRequest
<1> QED BY <1>1, <1>4, <1>5, <1>6, <1>7, <1>8 DEF Next, Expire, vars

-----------------------------------------------------------------------------
(* The theorems. *)

(* The state stays well typed: statuses, owners, locks and handler records. *)
THEOREM TypeCorrect == Spec => []TypeOK
<1>1. Init => TypeOK /\ Control
  BY TypeInit, ControlInit
<1>2. TypeOK /\ Control /\ [Next]_vars => (TypeOK /\ Control)'
  BY TypeStep, ControlStep
<1> QED BY <1>1, <1>2, PTL DEF Spec

LEMMA IndInvInit == Init => IndInv
<1> SUFFICES ASSUME Init PROVE IndInv
  OBVIOUS
<1>1. TypeOK /\ Control
  BY TypeInit, ControlInit
<1>2. \A r \in Requests : req[r] = IdleRequest
  BY DEF Init
<1>3. RowsOK /\ RotationAtomic
  BY NoneAssumption DEF Init, RowsOK, RotationAtomic, Successors
<1>4. /\ \A r \in Requests : TokensAtPc(r)
      /\ AckedIsDurable /\ RefusedOnlyIfSpent
  BY <1>2 DEF TokensAtPc, AckedIsDurable, RefusedOnlyIfSpent, IdleRequest,
              Rotating
<1>5. NewDistinct /\ LockDiscipline
  BY <1>2, NoneAssumption DEF Init, NewDistinct, LockDiscipline, IdleRequest
<1> QED BY <1>1, <1>3, <1>4, <1>5 DEF IndInv

LEMMA IndInvStep == IndInv /\ [Next]_vars => IndInv'
<1> SUFFICES ASSUME IndInv, [Next]_vars PROVE IndInv'
  OBVIOUS
<1>1. TypeOK' /\ Control'
  BY TypeStep, ControlStep DEF IndInv
<1>2. RowsOK' /\ RotationAtomic'
  BY RowsStep
<1>3. \A r \in Requests : Knows(r)'
  BY KnowsStep
<1>4. NewDistinct' /\ LockDiscipline'
  BY NewDistinctStep, LockStep
<1>5. AckedIsDurable' /\ RefusedOnlyIfSpent'
  BY <1>3 DEF Knows, AckedIsDurable, RefusedOnlyIfSpent
<1> QED BY <1>1, <1>2, <1>3, <1>4, <1>5 DEF IndInv, Knows

(* What rows, handlers between two statements and pairs of handlers know of
   each other stays true: the inductive invariant of the service. *)
THEOREM Invariance == Spec => []IndInv
BY IndInvInit, IndInvStep, PTL DEF Spec

(* What a handler acknowledged is in the database: see AckedIsDurable. *)
THEOREM AcknowledgedWritesAreDurable == Spec => []AckedIsDurable
<1>1. IndInv => AckedIsDurable
  BY DEF IndInv
<1> QED BY <1>1, Invariance, PTL

(* A token is spent by a logout or by a rotation that left a successor. *)
THEOREM RotationIsAtomic == Spec => []RotationAtomic
<1>1. IndInv => RotationAtomic
  BY DEF IndInv
<1> QED BY <1>1, Invariance, PTL

(* A refresh that arrives with an expired or revoked token is never served. *)
THEOREM SpentTokensNeverRefresh == Spec => []SpentNeverRefreshes
<1>1. IndInv => SpentNeverRefreshes
  BY DEF IndInv, TokensAtPc, SpentNeverRefreshes
<1> QED BY <1>1, Invariance, PTL

(* Only a missing, expired or revoked token is refused as invalid. *)
THEOREM OnlySpentTokensAreRefused == Spec => []RefusedOnlyIfSpent
<1>1. IndInv => RefusedOnlyIfSpent
  BY DEF IndInv
<1> QED BY <1>1, Invariance, PTL

(* An exhausted pool is in use. *)
LEMMA PoolInUse ==
  ASSUME ~FreeConn
  PROVE  \E r \in Requests : HoldsConn(r)
<1> DEFINE H == {r \in Requests : HoldsConn(r)}
<1>1. Cardinality({}) = 0
  BY FS_EmptySet
<1>2. ~(Cardinality(H) < MaxConns)
  BY DEF FreeConn
<1>3. H # {}
  BY <1>1, <1>2, ConnsAssumption
<1> QED BY <1>3

(* However many handlers there are and however small the pool, no circle of
   them waits for rows and connections: a row is had by a rotation whose next
   statement is its last, and a connection by somebody who can go on. *)
THEOREM WaitsAreFinite == Spec => []WaitsEnd
<1>1. IndInv => WaitsEnd
  <2> SUFFICES ASSUME IndInv, NEW r \in Requests
               PROVE  /\ AwaitsRow(r) => CanGo(rowLock[req[r].tok])
                      /\ AwaitsConn(r) =>
                           \E s \in Requests : HoldsConn(s) /\ CanGo(s)
    BY DEF WaitsEnd
  <2>1. ASSUME NEW s \in Requests, AwaitsRow(s)
        PROVE  /\ rowLock[req[s].tok] \in Requests
               /\ HoldsConn(rowLock[req[s].tok]) /\ CanGo(rowLock[req[s].tok])
    <3>1. TypeOK /\ LockDiscipline /\ OpAtPc(s)
      BY DEF IndInv, Control
    <3>2. req[s].tok \in Jti /\ rowLock[req[s].tok] # None
      BY <2>1, <3>1, RequestFields DEF AwaitsRow, OpAtPc, Rotating
    <3>3. PICK t \in Requests : rowLock[req[s].tok] = t
      BY <3>1, <3>2 DEF TypeOK
    <3>4. req[t].pc = "rot_commit"
      BY <3>1, <3>2, <3>3 DEF LockDiscipline
    <3> QED BY <3>3, <3>4 DEF HoldsConn, CanGo, AwaitsRow, AwaitsConn
  <2>2. ASSUME AwaitsConn(r)
        PROVE  \E s \in Requests : HoldsConn(s) /\ CanGo(s)
    <3>1. PICK s \in Requests : HoldsConn(s)
      BY <2>2, PoolInUse DEF AwaitsConn
    <3>2. CASE AwaitsRow(s)
      BY <2>1, <3>2
    <3>3. CASE ~AwaitsRow(s)
      BY <3>1, <3>3 DEF HoldsConn, CanGo, AwaitsConn
    <3> QED BY <3>1, <3>2, <3>3
  <2> QED BY <2>1, <2>2
<1> QED BY <1>1, Invariance, PTL

-----------------------------------------------------------------------------
(***************************************************************************)
(* The handlers of AuthService, statement by statement, implement          *)
(* AtomicAuth, for every set of users, tokens and concurrent handlers: each *)
(* step of a handler is one step of its call, or none.                     *)
(***************************************************************************)
rowsUnchanged == UNCHANGED <<accounts, status, owner, expired>>

AtomicStep == Atomic!Next \/ (rowsUnchanged /\ UNCHANGED calls)

Running(r) == req[r].pc \notin {"idle", "done"}

LEMMA CallFields ==
  ASSUME NEW r \in Requests
  PROVE  /\ calls[r] = callOf(r)
         /\ req[r].pc # "idle" =>
              /\ calls[r].op = req[r].op /\ calls[r].user = req[r].user
              /\ calls[r].tok = req[r].tok /\ calls[r].spent = req[r].stale
         /\ Running(r) => calls[r].ans = "pending"
         /\ req[r].pc = "idle" => calls[r].ans = "idle"
         /\ req[r].pc = "done" => calls[r].ans = req[r].res
BY DEF calls, callOf, Running

(* When only r moved, only its call changes. *)
LEMMA OneCall ==
  ASSUME NEW r \in Requests, Others(r)
  PROVE  calls' = [calls EXCEPT ![r] = callOf(r)']
<1>1. \A s \in Requests : s # r => callOf(s)' = callOf(s)
  BY DEF Others, callOf, IssuesToken
<1> QED BY <1>1 DEF calls

(* A handler that is done answers its call. *)
LEMMA AnswerStep ==
  ASSUME NEW r \in Requests, Others(r), Kept(r), Running(r),
         req'[r].pc = "done"
  PROVE  Atomic!Answer(r, req'[r].res,
                       IF IssuesToken(r)' THEN req'[r].new ELSE None)
<1> DEFINE j == IF IssuesToken(r)' THEN req'[r].new ELSE None
<1>1. callOf(r)' = [callOf(r) EXCEPT !.ans = req'[r].res, !.new = j]
  <2> DEFINE k == IF IssuesToken(r) THEN req[r].new ELSE None
  <2>1. callOf(r) \in [op: {req[r].op}, user: {req[r].user},
                       tok: {req[r].tok}, spent: {req[r].stale},
                       new: {k}, ans: {"pending"}]
    BY DEF callOf, Running
  <2>2. callOf(r)' \in [op: {req[r].op}, user: {req[r].user},
                        tok: {req[r].tok}, spent: {req[r].stale},
                        new: {j}, ans: {req'[r].res}]
    BY DEF callOf, Kept, IssuesToken
  <2> HIDE DEF j, k
  <2> QED BY <2>1, <2>2
<1>2. calls' = [calls EXCEPT ![r] =
                  [calls[r] EXCEPT !.ans = req'[r].res, !.new = j]]
  BY <1>1, OneCall, CallFields
<1> QED BY <1>2 DEF Atomic!Answer

(* A handler that goes on leaves its call pending. *)
LEMMA SilentStep ==
  ASSUME NEW r \in Requests, Others(r), Kept(r), Running(r), Running(r)',
         req[r].res # "ok", req'[r].res = req[r].res
  PROVE  calls' = calls
<1>1. callOf(r)' = callOf(r)
  BY DEF Kept, callOf, Running, IssuesToken
<1>2. \A s \in Requests : callOf(s)' = callOf(s)
  BY <1>1 DEF Others, callOf, IssuesToken
<1> QED BY <1>2 DEF calls

LEMMA AtomicEffects ==
  ASSUME NEW r \in Requests, calls[r].ans = "pending",
         \/ Atomic!OpenAccount(r) \/ Atomic!NameTaken(r)
         \/ Atomic!WrongPassword(r) \/ Atomic!InvalidToken(r)
         \/ Atomic!Revoke(r) \/ Atomic!Break(r)
         \/ \E j \in Jti : Atomic!Issue(r, j) \/ Atomic!Rotate(r, j)
  PROVE  AtomicStep
BY DEF AtomicStep, Atomic!Next, Atomic!Effect

(* What a handler between two statements knows. *)
LEMMA HandlerFacts ==
  ASSUME IndInv, NEW r \in Requests, Running(r)
  PROVE  /\ TypeOK /\ OpAtPc(r) /\ TokensAtPc(r)
         /\ req[r].res = "none"
         /\ calls[r].ans = "pending" /\ calls[r].op = req[r].op
         /\ calls[r].user = req[r].user /\ calls[r].tok = req[r].tok
         /\ calls[r].spent = req[r].stale
<1>1. TypeOK /\ OpAtPc(r) /\ TokensAtPc(r)
  BY DEF IndInv, Control
<1> QED BY <1>1, CallFields DEF OpAtPc, Running

(* The answers of Reply: a refusal, a failure, an effect. *)
LEMMA ReplyStep ==
  ASSUME IndInv, NEW r \in Requests, Running(r), NEW code, code # "ok",
         Reply(r, code)
  PROVE  Atomic!Answer(r, code, None)
BY HandlerFacts, ReplyFields, AnswerStep DEF IssuesToken

LEMMA ReplyWriteStep ==
  ASSUME IndInv, NEW r \in Requests, Running(r), NEW ack \in BOOLEAN,
         ReplyWrite(r, ack)
  PROVE  Atomic!Effected(r, IF req[r].op \in {"login", "refresh"}
                              THEN req[r].new ELSE None)
<1> DEFINE j == IF req[r].op \in {"login", "refresh"} THEN req[r].new ELSE None
<1>1. CASE ack
  <2>1. Reply(r, "ok")
    BY <1>1 DEF ReplyWrite
  <2>2. Atomic!Answer(r, "ok", j)
    BY <2>1, HandlerFacts, ReplyFields, AnswerStep DEF IssuesToken, Kept
  <2> QED BY <2>2 DEF Atomic!Effected
<1>2. CASE ~ack
  <2>1. Reply(r, "internal")
    BY <1>2 DEF ReplyWrite
  <2> QED BY <2>1, ReplyStep DEF Atomic!Effected
<1> QED BY <1>1, <1>2

LEMMA GotoStep ==
  ASSUME IndInv, NEW r \in Requests, Running(r),
         NEW label \in Pcs \ {"idle", "done"}, rowsUnchanged,
         Goto(r, label) \/ GenerateToken(r, label)
  PROVE  AtomicStep
<1>1. TypeOK /\ req[r].res = "none"
  BY HandlerFacts
<1>2. /\ Others(r) /\ Kept(r) /\ req'[r].pc = label
      /\ req'[r].res = req[r].res
  BY <1>1, GotoFields, GenerateFields
<1>3. calls' = calls
  BY <1>1, <1>2, SilentStep DEF Running
<1> QED BY <1>3 DEF AtomicStep

LEMMA RegisterRefines ==
  ASSUME IndInv, NEW r \in Requests,
         RegisterSelect(r) \/ \E ack \in BOOLEAN : RegisterInsert(r, ack)
  PROVE  AtomicStep
<1>1. Running(r)
  BY DEF RegisterSelect, RegisterInsert, Running
<1>2. /\ calls[r].ans = "pending" /\ calls[r].op = "register"
      /\ calls[r].user = req[r].user /\ req[r].user \in Users
      /\ accounts \in [Users -> Nat]
  BY <1>1, HandlerFacts, RequestFields
     DEF OpAtPc, RegisterSelect, RegisterInsert, TypeOK
<1>3. CASE RegisterSelect(r)
  <2>0. rowsUnchanged
    BY <1>3 DEF RegisterSelect, tokenVars, rowsUnchanged
  <2>1. CASE accounts[req[r].user] > 0
    <3>1. Atomic!NameTaken(r)
      BY <1>1, <1>2, <1>3, <2>0, <2>1, ReplyStep
         DEF RegisterSelect, Atomic!NameTaken, Atomic!Pending,
             Atomic!Refused, Atomic!rows, rowsUnchanged
    <3> QED BY <1>2, <3>1, AtomicEffects
  <2>2. CASE ~(accounts[req[r].user] > 0)
    BY <1>1, <1>3, <2>0, <2>2, GotoStep DEF RegisterSelect, Pcs
  <2> QED BY <2>1, <2>2
<1>4. ASSUME NEW ack \in BOOLEAN, RegisterInsert(r, ack) PROVE AtomicStep
  <2>1. CASE accounts[req[r].user] = 0
    <3>1. accounts' = [accounts EXCEPT ![req[r].user] = 1]
      BY <1>2, <1>4, <2>1 DEF RegisterInsert, UniqueAllows
    <3>2. Atomic!Effected(r, None)
      <4>1. ReplyWrite(r, ack) /\ req[r].op = "register"
        BY <1>1, <1>4, <2>1, HandlerFacts
           DEF RegisterInsert, UniqueAllows, OpAtPc
      <4> QED BY <1>1, <4>1, ReplyWriteStep
    <3>3. Atomic!OpenAccount(r)
      BY <1>2, <1>4, <2>1, <3>1, <3>2
         DEF RegisterInsert, tokenVars, Atomic!OpenAccount, Atomic!Pending
    <3> QED BY <1>2, <3>3, AtomicEffects
  <2>2. CASE accounts[req[r].user] # 0
    <3>1. Reply(r, "internal") /\ rowsUnchanged
      BY <1>4, <2>2 DEF RegisterInsert, UniqueAllows, tokenVars, rowsUnchanged
    <3>2. Atomic!Break(r)
      BY <1>1, <1>2, <3>1, ReplyStep
         DEF Atomic!Break, Atomic!Refused, Atomic!rows, rowsUnchanged
    <3> QED BY <1>2, <3>2, AtomicEffects
  <2> QED BY <2>1, <2>2
<1> QED BY <1>3, <1>4

LEMMA LoginRefines ==
  ASSUME IndInv, NEW r \in Requests,
         \/ \E ok \in BOOLEAN : LoginSelect(r, ok)
         \/ \E ack \in BOOLEAN : LoginInsert(r, ack)
  PROVE  AtomicStep
<1>1. Running(r)
  BY DEF LoginSelect, LoginInsert, Running
<1>2. /\ calls[r].ans = "pending" /\ calls[r].op = "login"
      /\ calls[r].user = req[r].user /\ req[r].op = "login"
  BY <1>1, HandlerFacts DEF OpAtPc, LoginSelect, LoginInsert
<1>3. ASSUME NEW ok \in BOOLEAN, LoginSelect(r, ok) PROVE AtomicStep
  <2>1. rowsUnchanged
    BY <1>3 DEF LoginSelect, tokenVars, rowsUnchanged
  <2>2. CASE Reply(r, "unauthorized")
    <3>1. Atomic!WrongPassword(r)
      BY <1>1, <1>2, <2>1, <2>2, ReplyStep
         DEF Atomic!WrongPassword, Atomic!Pending, Atomic!Refused,
             Atomic!rows, rowsUnchanged
    <3> QED BY <1>2, <3>1, AtomicEffects
  <2>3. CASE GenerateToken(r, "login_insert")
    BY <1>1, <2>1, <2>3, GotoStep DEF Pcs
  <2> QED BY <1>3, <2>2, <2>3 DEF LoginSelect
<1>4. ASSUME NEW ack \in BOOLEAN, LoginInsert(r, ack) PROVE AtomicStep
  <2> DEFINE j == req[r].new
  <2>1. /\ j \in Jti /\ status[j] = "absent"
        /\ accounts[req[r].user] > 0
    BY <1>1, <1>4, HandlerFacts, RequestFields
       DEF LoginInsert, OpAtPc, TokensAtPc
  <2>2. Atomic!Effected(r, j)
    BY <1>1, <1>2, <1>4, ReplyWriteStep DEF LoginInsert
  <2>3. Atomic!Issue(r, j)
    BY <1>2, <1>4, <2>1, <2>2
       DEF LoginInsert, Atomic!Issue, Atomic!Pending
  <2> QED BY <1>2, <2>1, <2>3, AtomicEffects
<1> QED BY <1>3, <1>4

LEMMA RefreshRefines ==
  ASSUME IndInv, NEW r \in Requests,
         \/ RefreshLoad(r) \/ RotateBegin(r) \/ RotateCheck(r)
         \/ RotateMark(r) \/ \E ack \in BOOLEAN : RotateCommit(r, ack)
  PROVE  AtomicStep
<1> DEFINE old == req[r].tok
<1>1. Running(r)
  BY DEF RefreshLoad, RotateBegin, RotateCheck, RotateMark, RotateCommit,
         Running
<1>2. /\ calls[r].ans = "pending" /\ calls[r].op = "refresh"
      /\ calls[r].tok = old /\ req[r].op = "refresh"
      /\ calls[r].spent = req[r].stale
      /\ old \in Jti \cup {None}
  BY <1>1, HandlerFacts, RequestFields
     DEF OpAtPc, RefreshLoad, RotateBegin, RotateCheck, RotateMark,
         RotateCommit, Rotating
<1>3. ASSUME rowsUnchanged, Reply(r, "invalid"), old = None \/ Spent(old)
      PROVE  AtomicStep
  <2>1. Atomic!InvalidToken(r)
    BY <1>1, <1>2, <1>3, ReplyStep
       DEF Atomic!InvalidToken, Atomic!Pending, Atomic!Refused, Atomic!rows,
           Atomic!Spent, Spent, rowsUnchanged
  <2> QED BY <1>2, <2>1, AtomicEffects
<1>4. CASE RefreshLoad(r)
  <2>1. rowsUnchanged
    BY <1>4 DEF RefreshLoad, tokenVars, rowsUnchanged
  <2>2. CASE JwtValid(old) /\ UserExists(old)
    BY <1>1, <1>4, <2>1, <2>2, GotoStep DEF RefreshLoad, Pcs
  <2>3. CASE ~(JwtValid(old) /\ UserExists(old))
    <3>1. old # None => UserExists(old)
      BY <1>1, <1>2, HandlerFacts, NoneAssumption
         DEF TokensAtPc, UserExists, IndInv, RowsOK
    <3>2. old = None \/ Spent(old)
      BY <2>3, <3>1 DEF JwtValid, Spent
    <3> QED BY <1>3, <1>4, <2>1, <2>3, <3>2 DEF RefreshLoad
  <2> QED BY <2>2, <2>3
<1>5. CASE RotateBegin(r)
  BY <1>1, <1>5, GotoStep DEF RotateBegin, tokenVars, rowsUnchanged, Pcs
<1>6. CASE RotateCheck(r)
  <2>1. rowsUnchanged
    BY <1>6 DEF RotateCheck, tokenVars, rowsUnchanged
  <2>2. CASE ExpiredOrRevoked(old)
    BY <1>3, <1>6, <2>1, <2>2 DEF RotateCheck, ExpiredOrRevoked, Spent
  <2>3. CASE ~ExpiredOrRevoked(old)
    BY <1>1, <1>6, <2>1, <2>3, GotoStep DEF RotateCheck, Pcs
  <2> QED BY <2>2, <2>3
<1>7. CASE RotateMark(r)
  BY <1>1, <1>7, GotoStep DEF RotateMark, tokenVars, rowsUnchanged, Pcs
<1>8. ASSUME NEW ack \in BOOLEAN, RotateCommit(r, ack) PROVE AtomicStep
  <2> DEFINE j == req[r].new
  <2>1. /\ j \in Jti /\ status[j] = "absent"
        /\ old # None /\ ~req[r].stale
    BY <1>1, <1>2, <1>8, HandlerFacts, RequestFields
       DEF RotateCommit, OpAtPc, TokensAtPc, Rotating
  <2>2. Atomic!Effected(r, j)
    BY <1>1, <1>2, <1>8, ReplyWriteStep DEF RotateCommit
  <2>3. Atomic!Rotate(r, j)
    BY <1>2, <1>8, <2>1, <2>2
       DEF RotateCommit, Rotated, Atomic!Rotate, Atomic!Pending
  <2> QED BY <1>2, <2>1, <2>3, AtomicEffects
<1> QED BY <1>4, <1>5, <1>6, <1>7, <1>8

LEMMA LogoutRefines ==
  ASSUME IndInv, NEW r \in Requests,
         LogoutBegin(r) \/ \E ack \in BOOLEAN : LogoutUpdate(r, ack)
  PROVE  AtomicStep
<1>1. Running(r)
  BY DEF LogoutBegin, LogoutUpdate, Running
<1>2. /\ calls[r].ans = "pending" /\ calls[r].op = "logout"
      /\ calls[r].tok = req[r].tok /\ req[r].op = "logout"
  BY <1>1, HandlerFacts DEF OpAtPc, LogoutBegin, LogoutUpdate
<1>3. CASE LogoutBegin(r)
  BY <1>1, <1>3, GotoStep DEF LogoutBegin, tokenVars, rowsUnchanged, Pcs
<1>4. ASSUME NEW ack \in BOOLEAN, LogoutUpdate(r, ack) PROVE AtomicStep
  <2>1. Atomic!Effected(r, None)
    BY <1>1, <1>2, <1>4, ReplyWriteStep DEF LogoutUpdate
  <2>2. Atomic!Revoke(r)
    BY <1>2, <1>4, <2>1 DEF LogoutUpdate, Atomic!Revoke, Atomic!Pending
  <2> QED BY <1>2, <2>2, AtomicEffects
<1> QED BY <1>3, <1>4

LEMMA EndRefines ==
  ASSUME IndInv, NEW r \in Requests, Deliver(r) \/ LoseReply(r) \/ Fail(r)
  PROVE  AtomicStep
<1>1. TypeOK
  BY DEF IndInv
<1>2. CASE Deliver(r) \/ LoseReply(r)
  <2>1. Others(r) /\ req'[r] = IdleRequest /\ rowsUnchanged
    BY <1>1, <1>2
       DEF Deliver, LoseReply, TypeOK, Others, tokenVars, rowsUnchanged
  <2>2. callOf(r)' = Atomic!NoCall
    BY <2>1 DEF callOf, IdleRequest, Atomic!NoCall
  <2>3. calls[r].ans \notin {"idle", "pending"}
    BY <1>1, <1>2, CallFields, RequestFields DEF Deliver, LoseReply, Results
  <2>4. Atomic!Return(r)
    BY <2>1, <2>2, <2>3, OneCall
       DEF Atomic!Return, Atomic!rows, rowsUnchanged
  <2> QED BY <2>4 DEF AtomicStep, Atomic!Next
<1>3. CASE Fail(r)
  <2>1. Running(r) /\ rowsUnchanged
    BY <1>3 DEF Fail, Running, tokenVars, rowsUnchanged
  <2>2. Atomic!Break(r)
    BY <1>3, <2>1, HandlerFacts, ReplyStep
       DEF Fail, Atomic!Break, Atomic!Refused, Atomic!rows, rowsUnchanged
  <2> QED BY <2>1, <2>2, HandlerFacts, AtomicEffects
<1> QED BY <1>2, <1>3

LEMMA RegisterArrives ==
  ASSUME IndInv, NEW r \in Requests, NEW u \in Users \cup {None},
         Register(r, u) \/ Login(r, u)
  PROVE  Atomic!Arrive(r)
<1>1. req \in [Requests -> Request] /\ calls[r].ans = "idle"
  BY CallFields DEF IndInv, TypeOK, Register, Login
<1>2. Others(r) /\ rowsUnchanged
  BY <1>1 DEF Register, Login, Others, tokenVars, rowsUnchanged
<1>3. ASSUME NEW op \in {"register", "login"}, NEW label \in Pcs,
             label \notin {"idle", "done"},
             req'[r] = [IdleRequest EXCEPT !.op = op, !.user = u,
               !.pc  = IF u = None THEN "done" ELSE label,
               !.res = IF u = None THEN "validation" ELSE "none"]
      PROVE  Atomic!Call(r, op, u, None,
                         IF u = None THEN "validation" ELSE "pending")
  <2>1. /\ req'[r].op = op /\ req'[r].user = u /\ req'[r].tok = None
        /\ req'[r].new = None /\ req'[r].stale = FALSE
        /\ req'[r].pc = IF u = None THEN "done" ELSE label
        /\ req'[r].res = IF u = None THEN "validation" ELSE "none"
    BY <1>3 DEF IdleRequest
  <2>2. callOf(r)' = [op |-> op, user |-> u, tok |-> None, spent |-> FALSE,
                      new |-> None,
                      ans |-> IF u = None THEN "validation" ELSE "pending"]
    BY <1>3, <2>1 DEF callOf
  <2> QED
    BY <1>2, <2>2, OneCall DEF Atomic!Call, Atomic!rows, rowsUnchanged
<1>4. CASE Register(r, u)
  <2>1. Atomic!CallRegister(r, u)
    BY <1>1, <1>3, <1>4 DEF Register, Atomic!CallRegister, Pcs
  <2> QED BY <1>1, <2>1 DEF Atomic!Arrive
<1>5. CASE Login(r, u)
  <2>1. Atomic!CallLogin(r, u)
    BY <1>1, <1>3, <1>5 DEF Login, Atomic!CallLogin, Pcs
  <2> QED BY <1>1, <2>1 DEF Atomic!Arrive
<1> QED BY <1>4, <1>5

LEMMA TokenArrives ==
  ASSUME IndInv, NEW r \in Requests, NEW j \in held \cup {None},
         Refresh(r, j) \/ \E valid \in BOOLEAN : Logout(r, j, valid)
  PROVE  Atomic!Arrive(r)
<1> DEFINE spent == j # None /\ Spent(j)
<1>1. /\ req \in [Requests -> Request] /\ calls[r].ans = "idle"
      /\ j \in Jti \cup {None}
  BY CallFields DEF IndInv, TypeOK, Refresh, Logout
<1>2. Others(r) /\ rowsUnchanged
  BY <1>1 DEF Refresh, Logout, Others, tokenVars, rowsUnchanged
<1>3. spent = (j # None /\ Atomic!Spent(j))
  BY DEF Spent, Atomic!Spent
<1>4. CASE Refresh(r, j)
  <2>1. /\ req'[r].op = "refresh" /\ req'[r].user = None /\ req'[r].tok = j
        /\ req'[r].stale = spent
        /\ req'[r].pc = "ref_load" /\ req'[r].res = "none"
    BY <1>1, <1>4 DEF Refresh, IdleRequest
  <2>2. callOf(r)' = [op |-> "refresh", user |-> None, tok |-> j,
                      spent |-> spent, new |-> None, ans |-> "pending"]
    BY <2>1 DEF callOf, IssuesToken
  <2>3. Atomic!CallRefresh(r, j)
    BY <1>2, <1>3, <2>2, OneCall
       DEF Atomic!CallRefresh, Atomic!Call, Atomic!rows, rowsUnchanged
  <2> QED BY <1>1, <2>3 DEF Atomic!Arrive
<1>5. ASSUME NEW valid \in BOOLEAN, Logout(r, j, valid)
      PROVE  Atomic!Arrive(r)
  <2> DEFINE ans == IF ~valid THEN "unauthorized"
                    ELSE IF j = None THEN "ok" ELSE "pending"
  <2>1. /\ req'[r].op = "logout" /\ req'[r].user = None /\ req'[r].tok = j
        /\ req'[r].stale = spent
        /\ req'[r].pc = IF valid /\ j # None THEN "out_begin" ELSE "done"
        /\ req'[r].res = IF ~valid THEN "unauthorized"
                         ELSE IF j = None THEN "ok" ELSE "none"
    BY <1>1, <1>5 DEF Logout, IdleRequest
  <2>2. callOf(r)' = [op |-> "logout", user |-> None, tok |-> j,
                      spent |-> spent, new |-> None, ans |-> ans]
    BY <2>1 DEF callOf, IssuesToken
  <2>3. Atomic!CallLogout(r, j, valid)
    BY <1>2, <1>3, <2>2, OneCall
       DEF Atomic!CallLogout, Atomic!Call, Atomic!rows, rowsUnchanged
  <2> QED BY <1>1, <2>3 DEF Atomic!Arrive
<1> QED BY <1>4, <1>5

(* Register, Login, Refresh and LogOut of the auth service, cut into the
   statements they send and run concurrently, implement AtomicAuth: every call
   takes effect at one moment, or is refused for a reason that holds at one. *)
THEOREM ImplementsAtomicAuth == Spec => AtomicSpec
<1>1. Init => Atomic!Init
  <2> SUFFICES ASSUME Init PROVE Atomic!Init
    OBVIOUS
  <2>1. \A r \in Requests : callOf(r) = Atomic!NoCall
    BY DEF Init, callOf, IdleRequest, Atomic!NoCall
  <2> QED BY <2>1 DEF Init, calls, Atomic!Init
<1>2. IndInv /\ [Next]_vars => [Atomic!Next]_<<Atomic!rows, calls>>
  <2> SUFFICES ASSUME IndInv, [Next]_vars
               PROVE  AtomicStep
    BY DEF AtomicStep, Atomic!rows, rowsUnchanged
  <2>1. CASE UNCHANGED vars
    BY <2>1 DEF vars, tokenVars, calls, callOf, IssuesToken, AtomicStep,
                rowsUnchanged
  <2>2. ASSUME NEW r \in Requests, Arrive(r) PROVE AtomicStep
    BY <2>2, RegisterArrives, TokenArrives
       DEF Arrive, AtomicStep, Atomic!Next
  <2>3. ASSUME NEW r \in Requests, Serve(r) PROVE AtomicStep
    BY <2>3, RegisterRefines, LoginRefines, RefreshRefines, LogoutRefines,
       EndRefines DEF Serve
  <2>4. ASSUME NEW r \in Requests, Fail(r) \/ LoseReply(r) PROVE AtomicStep
    BY <2>4, EndRefines
  <2>5. ASSUME NEW j \in Jti, Expire(j) PROVE AtomicStep
    <3>1. calls' = calls
      BY <2>5 DEF Expire, calls, callOf, IssuesToken
    <3>2. Atomic!Expire(j)
      BY <2>5, <3>1 DEF Expire, tokenVars, Atomic!Expire
    <3> QED BY <3>2 DEF AtomicStep, Atomic!Next
  <2>6. CASE Crash
    <3>1. \A r \in Requests : callOf(r)' = Atomic!NoCall
      BY <2>6 DEF Crash, callOf, IdleRequest, Atomic!NoCall
    <3>2. Atomic!Crash
      BY <2>6, <3>1 DEF Crash, tokenVars, calls, Atomic!Crash, Atomic!rows
    <3> QED BY <3>2 DEF AtomicStep, Atomic!Next
  <2> QED BY <2>1, <2>2, <2>3, <2>4, <2>5, <2>6 DEF Next
<1> QED BY <1>1, <1>2, Invariance, PTL DEF Spec, AtomicSpec, Atomic!Spec
=============================================================================
