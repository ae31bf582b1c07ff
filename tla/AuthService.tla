----------------------------- MODULE AuthService -----------------------------
(***************************************************************************)
(* The auth service (services/auth): registration, login, refresh-token    *)
(* rotation and logout, as concurrent HTTP request handlers over one       *)
(* PostgreSQL database.                                                    *)
(*                                                                         *)
(* Every handler is cut at its SQL statements.  A statement outside a      *)
(* transaction is one step.  RotateRefreshToken is an explicit             *)
(* transaction at the default READ COMMITTED level: its SELECT takes no    *)
(* lock, its UPDATE takes the row lock of the old token, and what it       *)
(* writes becomes visible at COMMIT.                                       *)
(*                                                                         *)
(* A refresh token is its jti.  Whether its lifetime is over is the set    *)
(* "expired", which only the passage of time (Expire) extends.             *)
(***************************************************************************)
EXTENDS Naturals, FiniteSets

CONSTANTS
  Users,      \* usernames clients register and log in with
  Jti,        \* refresh-token identifiers (NewJTI never repeats one)
  Requests,   \* handler goroutines that may be in flight together
  Ops,        \* operations clients call in this instance
  MaxConns,   \* SetMaxOpenConns of the database pool
  None        \* the missing username / token / parent

AllOps == {"register", "login", "refresh", "logout"}

ASSUME NoneAssumption  == None \notin Users \cup Jti \cup Requests
ASSUME ConnsAssumption == MaxConns \in Nat \ {0}
ASSUME OpsAssumption   == Ops \subseteq AllOps

VARIABLES
  accounts,   \* rows of table users for each username
  status,     \* row of table refresh_tokens: "absent", "live" or "revoked"
  owner,      \* its user_id
  expired,    \* tokens past expires_at
  rowLock,    \* request whose open transaction has updated the row, or None
  req,        \* what each handler goroutine is doing
  held,       \* refresh tokens that reached a client in a Set-Cookie
  parent,     \* history: the token a row was rotated from, or None
  loggedOut   \* history: tokens revoked by a LogOut statement

tokenVars == <<status, owner, parent, loggedOut>>
vars == <<accounts, status, owner, expired, rowLock, req, held, parent,
          loggedOut>>

(***************************************************************************)
(* A request: its operation and arguments, the statement it runs next      *)
(* (pc), the jti it generated (new) and its answer (res).  "stale" is      *)
(* history: the presented token was revoked or expired when it arrived.    *)
(***************************************************************************)
Pcs == {"idle", "reg_select", "reg_insert", "login_select", "login_insert",
        "ref_load", "rot_begin", "rot_check", "rot_mark", "rot_commit",
        "out_begin", "out_update", "done"}

Results == {"none", "ok", "validation", "conflict", "unauthorized",
            "invalid", "internal"}

Request == [pc: Pcs, op: AllOps \cup {"none"}, user: Users \cup {None},
            tok: Jti \cup {None}, new: Jti \cup {None}, res: Results,
            stale: BOOLEAN]

IdleRequest == [pc |-> "idle", op |-> "none", user |-> None, tok |-> None,
                new |-> None, res |-> "none", stale |-> FALSE]

TypeOK ==
  /\ accounts \in [Users -> Nat]
  /\ status \in [Jti -> {"absent", "live", "revoked"}]
  /\ owner \in [Jti -> Users \cup {None}]
  /\ expired \subseteq Jti
  /\ rowLock \in [Jti -> Requests \cup {None}]
  /\ req \in [Requests -> Request]
  /\ held \subseteq Jti
  /\ parent \in [Jti -> Jti \cup {None}]
  /\ loggedOut \subseteq Jti

(* The lifetime or the use of a token is over. *)
Spent(j) == j \in expired \/ status[j] = "revoked"

Init ==
  /\ accounts \in [Users -> {0, 1}]
  /\ status = [j \in Jti |-> "absent"]
  /\ owner = [j \in Jti |-> None]
  /\ expired = {}
  /\ rowLock = [j \in Jti |-> None]
  /\ req = [r \in Requests |-> IdleRequest]
  /\ held = {}
  /\ parent = [j \in Jti |-> None]
  /\ loggedOut = {}

-----------------------------------------------------------------------------
(* Control flow of a handler. *)

Goto(r, label) == req' = [req EXCEPT ![r].pc = label]

Reply(r, code) ==
  req' = [req EXCEPT ![r] = [@ EXCEPT !.pc = "done", !.res = code]]

(* The answer after a committed write.  When the connection breaks after the
   server committed, the handler reports an error for what did take place. *)
ReplyWrite(r, acknowledged) ==
  Reply(r, IF acknowledged THEN "ok" ELSE "internal")

(* A jti no row and no handler in flight has. *)
Fresh(j) ==
  /\ status[j] = "absent"
  /\ \A r \in Requests : req[r].new # j

(* Bound of the instance, not of the code: a request that may generate a
   token arrives only while a jti is left for it. *)
JtiLeft ==
  Cardinality({j \in Jti : Fresh(j)})
    > Cardinality({r \in Requests : req[r].pc \in {"login_select", "ref_load"}})

(* Generates the next refresh token and goes on with it. *)
GenerateToken(r, label) ==
  \E j \in Jti :
    /\ Fresh(j)
    /\ req' = [req EXCEPT ![r] = [@ EXCEPT !.pc = label, !.new = j]]

(* Connections of the pool: an open transaction keeps one, and so does a
   statement that waits for a row lock. *)
HoldsConn(r) ==
  req[r].pc \in {"rot_check", "rot_mark", "rot_commit", "out_update"}

FreeConn == Cardinality({r \in Requests : HoldsConn(r)}) < MaxConns

(* Mutant of ReleaseLocks: a transaction ends and its row lock stays.        *)
ReleaseLocks_Leaked(r) == UNCHANGED rowLock

ReleaseLocks(r) ==
  rowLock' = [j \in Jti |-> IF rowLock[j] = r THEN None ELSE rowLock[j]]

-----------------------------------------------------------------------------
(* Register: empty username or password, then FirstOrCreate, which is a     *)
(* SELECT and, when it finds nothing, an INSERT of its own.                 *)

Register(r, u) ==
  /\ "register" \in Ops
  /\ req[r].pc = "idle"
  /\ req' = [req EXCEPT ![r] =
       [IdleRequest EXCEPT !.op = "register", !.user = u,
          !.pc  = IF u = None THEN "done" ELSE "reg_select",
          !.res = IF u = None THEN "validation" ELSE "none"]]
  /\ UNCHANGED <<accounts, tokenVars, expired, rowLock, held>>

RegisterSelect(r) ==
  /\ req[r].pc = "reg_select"
  /\ FreeConn
  /\ IF accounts[req[r].user] > 0
       THEN Reply(r, "conflict")
       ELSE Goto(r, "reg_insert")
  /\ UNCHANGED <<accounts, tokenVars, expired, rowLock, held>>

(* users.username is UNIQUE: a second row is refused by the database. *)
UniqueAllows(u) == accounts[u] = 0

RegisterInsert(r, acknowledged) ==
  /\ req[r].pc = "reg_insert"
  /\ FreeConn
  /\ IF UniqueAllows(req[r].user)
       THEN /\ accounts' = [accounts EXCEPT ![req[r].user] = @ + 1]
            /\ ReplyWrite(r, acknowledged)
       ELSE /\ Reply(r, "internal")
            /\ UNCHANGED accounts
  /\ UNCHANGED <<tokenVars, expired, rowLock, held>>

-----------------------------------------------------------------------------
(* Login: look the user up, check the password, sign both tokens, INSERT    *)
(* the refresh token.                                                       *)

Login(r, u) ==
  /\ "login" \in Ops
  /\ req[r].pc = "idle"
  /\ u # None => JtiLeft
  /\ req' = [req EXCEPT ![r] =
       [IdleRequest EXCEPT !.op = "login", !.user = u,
          !.pc  = IF u = None THEN "done" ELSE "login_select",
          !.res = IF u = None THEN "validation" ELSE "none"]]
  /\ UNCHANGED <<accounts, tokenVars, expired, rowLock, held>>

LoginSelect(r, passwordOK) ==
  /\ req[r].pc = "login_select"
  /\ FreeConn
  /\ IF accounts[req[r].user] = 0 \/ ~passwordOK
       THEN Reply(r, "unauthorized")
       ELSE GenerateToken(r, "login_insert")
  /\ UNCHANGED <<accounts, tokenVars, expired, rowLock, held>>

LoginInsert(r, acknowledged) ==
  /\ req[r].pc = "login_insert"
  /\ FreeConn
  /\ status' = [status EXCEPT ![req[r].new] = "live"]
  /\ owner'  = [owner EXCEPT ![req[r].new] = req[r].user]
  /\ ReplyWrite(r, acknowledged)
  /\ UNCHANGED <<accounts, expired, rowLock, held, parent, loggedOut>>

-----------------------------------------------------------------------------
(* Refresh: parse the JWT, load the user, sign the new pair, then rotate in *)
(* one transaction: check the old row, mark it revoked, insert the new one. *)

Refresh(r, j) ==
  /\ "refresh" \in Ops
  /\ req[r].pc = "idle"
  /\ j # None => JtiLeft
  /\ req' = [req EXCEPT ![r] =
       [IdleRequest EXCEPT !.op = "refresh", !.tok = j, !.pc = "ref_load",
          !.stale = (j # None /\ Spent(j))]]
  /\ UNCHANGED <<accounts, tokenVars, expired, rowLock, held>>

(* A missing, forged or expired JWT never reaches the database. *)
JwtValid(j) == j # None /\ j \notin expired

UserExists(j) == owner[j] # None /\ accounts[owner[j]] > 0

(* Mutant of RefreshLoad: every error of GetUserById is an invalid token.   *)
RefreshLoad_ErrorAsInvalid(r) ==
  /\ req[r].pc = "ref_load"
  /\ JwtValid(req[r].tok) => FreeConn
  /\ \/ /\ JwtValid(req[r].tok) /\ UserExists(req[r].tok)
        /\ GenerateToken(r, "rot_begin")
     \/ Reply(r, "invalid")
  /\ UNCHANGED <<accounts, tokenVars, expired, rowLock, held>>

RefreshLoad(r) ==
  /\ req[r].pc = "ref_load"
  /\ JwtValid(req[r].tok) => FreeConn
  /\ IF JwtValid(req[r].tok) /\ UserExists(req[r].tok)
       THEN GenerateToken(r, "rot_begin")
       ELSE Reply(r, "invalid")
  /\ UNCHANGED <<accounts, tokenVars, expired, rowLock, held>>

RotateBegin(r) ==
  /\ req[r].pc = "rot_begin"
  /\ FreeConn
  /\ Goto(r, "rot_check")
  /\ UNCHANGED <<accounts, tokenVars, expired, rowLock, held>>

(* Mutant of ExpiredOrRevoked: only the lifetime is looked at.              *)
ExpiredOrRevoked_LifetimeOnly(j) == j \in expired

ExpiredOrRevoked(j) == status[j] = "revoked" \/ j \in expired

(* The SELECT of the transaction: a plain read of the last committed row.   *)
RotateCheck(r) ==
  /\ req[r].pc = "rot_check"
  /\ IF ExpiredOrRevoked(req[r].tok)
       THEN Reply(r, "invalid")
       ELSE Goto(r, "rot_mark")
  /\ UNCHANGED <<accounts, tokenVars, expired, rowLock, held>>

(* Mutant of RotateMark: markAsUsed through r.DB, committed at once.        *)
RotateMark_Autocommit(r) ==
  /\ req[r].pc = "rot_mark"
  /\ rowLock[req[r].tok] = None
  /\ status' = [status EXCEPT ![req[r].tok] = "revoked"]
  /\ Goto(r, "rot_commit")
  /\ UNCHANGED <<accounts, owner, parent, loggedOut, expired, rowLock, held>>

(* UPDATE ... SET revoked = true WHERE jti = old: waits for the row lock and
   keeps it.  Nothing in its WHERE looks at revoked again. *)
RotateMark(r) ==
  /\ req[r].pc = "rot_mark"
  /\ rowLock[req[r].tok] = None
  /\ rowLock' = [rowLock EXCEPT ![req[r].tok] = r]
  /\ Goto(r, "rot_commit")
  /\ UNCHANGED <<accounts, tokenVars, expired, held>>

(* The rows a committed rotation leaves. *)
Rotated(r) ==
  /\ status' = [status EXCEPT ![req[r].tok] = "revoked",
                              ![req[r].new] = "live"]
  /\ owner'  = [owner EXCEPT ![req[r].new] = owner[req[r].tok]]
  /\ parent' = [parent EXCEPT ![req[r].new] = req[r].tok]

(* Mutant of RotateCommit: the INSERT is sent through r.DB, the pool, and
   not through the connection of the transaction. *)
RotateCommit_OnPool(r, acknowledged) ==
  /\ req[r].pc = "rot_commit"
  /\ FreeConn
  /\ Rotated(r)
  /\ ReleaseLocks(r)
  /\ ReplyWrite(r, acknowledged)
  /\ UNCHANGED <<accounts, expired, held, loggedOut>>

(* INSERT of the new row and COMMIT. *)
RotateCommit(r, acknowledged) ==
  /\ req[r].pc = "rot_commit"
  /\ Rotated(r)
  /\ ReleaseLocks(r)
  /\ ReplyWrite(r, acknowledged)
  /\ UNCHANGED <<accounts, expired, held, loggedOut>>

-----------------------------------------------------------------------------
(* LogOut: SimpleAuth refuses a request without a valid access token; with  *)
(* no refresh cookie there is nothing to do; otherwise one UPDATE.          *)

Logout(r, j, accessValid) ==
  /\ "logout" \in Ops
  /\ req[r].pc = "idle"
  /\ req' = [req EXCEPT ![r] =
       [IdleRequest EXCEPT !.op = "logout", !.tok = j,
          !.pc    = IF accessValid /\ j # None THEN "out_begin" ELSE "done",
          !.res   = IF ~accessValid THEN "unauthorized"
                    ELSE IF j = None THEN "ok" ELSE "none",
          !.stale = (j # None /\ Spent(j))]]
  /\ UNCHANGED <<accounts, tokenVars, expired, rowLock, held>>

LogoutBegin(r) ==
  /\ req[r].pc = "out_begin"
  /\ FreeConn
  /\ Goto(r, "out_update")
  /\ UNCHANGED <<accounts, tokenVars, expired, rowLock, held>>

(* Mutant of LogoutUpdate: the WHERE compares the stored hash with the raw  *)
(* token and matches no row.                                                *)
LogoutUpdate_RawToken(r, acknowledged) ==
  /\ req[r].pc = "out_update"
  /\ loggedOut' = loggedOut \cup {req[r].tok}
  /\ ReplyWrite(r, acknowledged)
  /\ UNCHANGED <<accounts, status, owner, expired, rowLock, held, parent>>

(* UPDATE ... SET revoked = true WHERE token = hash, alone in its
   transaction; it waits for a rotation that holds the row. *)
LogoutUpdate(r, acknowledged) ==
  /\ req[r].pc = "out_update"
  /\ rowLock[req[r].tok] = None
  /\ status' = [status EXCEPT ![req[r].tok] = "revoked"]
  /\ loggedOut' = loggedOut \cup {req[r].tok}
  /\ ReplyWrite(r, acknowledged)
  /\ UNCHANGED <<accounts, owner, expired, rowLock, held, parent>>

-----------------------------------------------------------------------------
(* Answers, failures and time. *)

IssuesToken(r) == req[r].op \in {"login", "refresh"} /\ req[r].res = "ok"

(* The answer reaches the client, with the new cookies when there are some. *)
Deliver(r) ==
  /\ req[r].pc = "done"
  /\ held' = IF IssuesToken(r) THEN held \cup {req[r].new} ELSE held
  /\ req' = [req EXCEPT ![r] = IdleRequest]
  /\ UNCHANGED <<accounts, tokenVars, expired, rowLock>>

(* The connection to the client is gone when the answer is written. *)
LoseReply(r) ==
  /\ req[r].pc = "done"
  /\ req' = [req EXCEPT ![r] = IdleRequest]
  /\ UNCHANGED <<accounts, tokenVars, expired, rowLock, held>>

(* Mutant of Fail: a failed statement reported as an invalid token.         *)
Fail_AsInvalid(r) ==
  /\ req[r].pc \notin {"idle", "done"}
  /\ ReleaseLocks(r)
  /\ Reply(r, "invalid")
  /\ UNCHANGED <<accounts, tokenVars, expired, held>>

(* A statement returns an error (connection lost, request context
   cancelled): an open transaction is rolled back and the handler answers
   500. *)
Fail(r) ==
  /\ req[r].pc \notin {"idle", "done"}
  /\ ReleaseLocks(r)
  /\ Reply(r, "internal")
  /\ UNCHANGED <<accounts, tokenVars, expired, held>>

(* The process dies (main handles os.Interrupt only, so SIGTERM kills it)
   and the container is restarted: nobody in flight is answered and the
   database rolls open transactions back. *)
Crash ==
  /\ \E r \in Requests : req[r].pc # "idle"
  /\ req' = [r \in Requests |-> IdleRequest]
  /\ rowLock' = [j \in Jti |-> None]
  /\ UNCHANGED <<accounts, tokenVars, expired, held>>

Expire(j) ==
  /\ status[j] # "absent"
  /\ j \notin expired
  /\ expired' = expired \cup {j}
  /\ UNCHANGED <<accounts, tokenVars, rowLock, req, held>>

(* The next statement of a request in flight. *)
Serve(r) ==
  \/ RegisterSelect(r)
  \/ \E ack \in BOOLEAN : RegisterInsert(r, ack)
  \/ \E ok \in BOOLEAN : LoginSelect(r, ok)
  \/ \E ack \in BOOLEAN : LoginInsert(r, ack)
  \/ RefreshLoad(r)
  \/ RotateBegin(r)
  \/ RotateCheck(r)
  \/ RotateMark(r)
  \/ \E ack \in BOOLEAN : RotateCommit(r, ack)
  \/ LogoutBegin(r)
  \/ \E ack \in BOOLEAN : LogoutUpdate(r, ack)
  \/ Deliver(r)

Arrive(r) ==
  \/ \E u \in Users \cup {None} : Register(r, u) \/ Login(r, u)
  \/ \E j \in held \cup {None} : Refresh(r, j)
  \/ \E j \in held \cup {None}, valid \in BOOLEAN : Logout(r, j, valid)

Next ==
  \/ \E r \in Requests : Arrive(r) \/ Serve(r) \/ Fail(r) \/ LoseReply(r)
  \/ \E j \in Jti : Expire(j)
  \/ Crash

Spec == Init /\ [][Next]_vars

(***************************************************************************)
(* A handler that can run its next statement again and again does run it:  *)
(* the Go scheduler is fair, a freed pool connection goes to a waiting     *)
(* request, and PostgreSQL queues the waiters of a row lock.  Clients owe  *)
(* nothing, and neither failures nor crashes are required.                 *)
(***************************************************************************)
Fairness == \A r \in Requests : SF_vars(Serve(r))

FairSpec == Spec /\ Fairness

-----------------------------------------------------------------------------
(* Properties. *)

(* What a handler answered "ok" to is in the database when the answer leaves
   it: the account, the new refresh token of the right user, the revocation
   by logout.  Nothing is acknowledged that a crash could still undo. *)
Durable(r) ==
  /\ req[r].op = "register" => accounts[req[r].user] > 0
  /\ req[r].op = "login" =>
       status[req[r].new] # "absent" /\ owner[req[r].new] = req[r].user
  /\ req[r].op = "refresh" =>
       status[req[r].tok] = "revoked" /\ parent[req[r].new] = req[r].tok
  /\ req[r].op = "logout" /\ req[r].tok # None =>
       status[req[r].tok] = "revoked"

AckedIsDurable == \A r \in Requests : req[r].res = "ok" => Durable(r)

Successors(j) == {k \in Jti : parent[k] = j}

(* A token is revoked exactly when somebody logged it out or a committed
   rotation left its successor, of the same user: a failure or a crash in the
   middle of RotateRefreshToken never spends a token for nothing. *)
RotationAtomic ==
  \A j \in Jti :
    /\ status[j] = "revoked" <=> j \in loggedOut \/ Successors(j) # {}
    /\ \A k \in Successors(j) : status[k] # "absent" /\ owner[k] = owner[j]

(* A refresh that arrives with a token already expired, or revoked by a
   rotation or a logout, is never served, whatever runs concurrently. *)
SpentNeverRefreshes ==
  \A r \in Requests :
    req[r].op = "refresh" /\ req[r].stale => req[r].res # "ok"

(* A client is told its refresh token is invalid (401, log in again) only for
   a token that is missing, expired or revoked: no failure, lock wait or lost
   race is reported as one. *)
RefusedOnlyIfSpent ==
  \A r \in Requests :
    req[r].res = "invalid" /\ req[r].tok # None => Spent(req[r].tok)

(***************************************************************************)
(* The inductive invariant behind these: what a row, a handler between two *)
(* statements and a pair of handlers know of each other.                   *)
(***************************************************************************)
RowsOK ==
  \A j \in Jti :
    /\ status[j] = "absent" => parent[j] = None /\ j \notin held
    /\ status[j] # "absent" => owner[j] \in Users /\ accounts[owner[j]] > 0

Rotating == {"rot_begin", "rot_check", "rot_mark", "rot_commit"}

OpAtPc(r) ==
  /\ req[r].pc \in {"reg_select", "reg_insert"} =>
       req[r].op = "register" /\ req[r].user # None
  /\ req[r].pc \in {"login_select", "login_insert"} =>
       req[r].op = "login" /\ req[r].user # None
  /\ req[r].pc \in {"ref_load"} \cup Rotating => req[r].op = "refresh"
  /\ req[r].pc \in {"out_begin", "out_update"} =>
       req[r].op = "logout" /\ req[r].tok # None
  /\ req[r].pc \in Rotating => req[r].tok # None
  /\ req[r].pc \in {"login_insert"} \cup Rotating => req[r].new # None
  /\ req[r].pc # "done" => req[r].res = "none"
  /\ req[r].op \in {"login", "register"} => req[r].tok = None
  /\ req[r].op \in {"login", "register"} /\ req[r].res = "ok" =>
       req[r].user # None
  /\ req[r].op \in {"login", "refresh"} /\ req[r].res = "ok" =>
       req[r].new # None
  /\ req[r].op = "refresh" /\ req[r].res = "ok" => req[r].tok # None

Control == \A r \in Requests : OpAtPc(r)

(* The token presented has a row; the token generated has none until its
   INSERT; a stale refresh never gets past the check. *)
TokensAtPc(r) ==
  /\ req[r].tok # None => status[req[r].tok] # "absent"
  /\ req[r].pc \in {"login_insert"} \cup Rotating =>
       status[req[r].new] = "absent"
  /\ req[r].pc = "login_insert" => accounts[req[r].user] > 0
  /\ req[r].stale => req[r].tok # None /\ Spent(req[r].tok)
  /\ req[r].op = "refresh" /\ req[r].stale =>
       req[r].pc \notin {"rot_mark", "rot_commit"} /\ req[r].res # "ok"

NewDistinct ==
  \A r, s \in Requests :
    r # s /\ req[r].new # None => req[r].new # req[s].new

(* A row is locked by the one rotation that has marked it. *)
LockDiscipline ==
  \A j \in Jti, r \in Requests :
    rowLock[j] = r <=> req[r].pc = "rot_commit" /\ req[r].tok = j

IndInv ==
  /\ TypeOK
  /\ RowsOK
  /\ Control
  /\ \A r \in Requests : TokensAtPc(r)
  /\ NewDistinct
  /\ LockDiscipline
  /\ RotationAtomic
  /\ AckedIsDurable
  /\ RefusedOnlyIfSpent

(***************************************************************************)
(* What a handler waits for: a row, or a connection of an exhausted pool.  *)
(***************************************************************************)
AwaitsRow(r) ==
  req[r].pc \in {"rot_mark", "out_update"} /\ rowLock[req[r].tok] # None

AwaitsConn(r) ==
  /\ ~FreeConn
  /\ \/ req[r].pc \in {"reg_select", "reg_insert", "login_select",
                      "login_insert", "rot_begin", "out_begin"}
     \/ req[r].pc = "ref_load" /\ JwtValid(req[r].tok)

CanGo(r) == req[r].pc # "idle" /\ ~AwaitsRow(r) /\ ~AwaitsConn(r)

(* No deadlock between the row locks and the pool, which the code keeps below
   the number of requests: who has the row a handler waits for can go on, and
   of those who have the connections somebody can. *)
WaitsEnd ==
  \A r \in Requests :
    /\ AwaitsRow(r) => CanGo(rowLock[req[r].tok])
    /\ AwaitsConn(r) => \E s \in Requests : HoldsConn(s) /\ CanGo(s)

(* Every request is answered or dies with the process: the row lock and the
   connection pool never leave handlers waiting on each other. *)
EveryRequestAnswered ==
  \A r \in Requests :
    req[r].pc \notin {"idle", "done"} ~> req[r].pc \in {"idle", "done"}

-----------------------------------------------------------------------------
(* What callers are promised: one effect per call (AtomicAuth).  The jti a
   handler has generated is seen in an acknowledged answer only. *)

callOf(r) ==
  IF req[r].pc = "idle"
    THEN [op |-> "none", user |-> None, tok |-> None, spent |-> FALSE,
          new |-> None, ans |-> "idle"]
    ELSE [op |-> req[r].op, user |-> req[r].user, tok |-> req[r].tok,
          spent |-> req[r].stale,
          new |-> IF IssuesToken(r) THEN req[r].new ELSE None,
          ans |-> IF req[r].pc = "done" THEN req[r].res ELSE "pending"]

calls == [r \in Requests |-> callOf(r)]

Atomic == INSTANCE AtomicAuth WITH call <- calls

(* The handlers, cut into statements that interleave with failures and
   crashes, implement AtomicAuth. *)
AtomicSpec == Atomic!Spec

-----------------------------------------------------------------------------
(* What the repository says and the code does not do. *)

(* readme.md says refresh tokens are rotated and the integration tests that
   a used token is refused: a token has one successor.  RotateRefreshToken
   reads the row without a lock and marks it without looking again. *)
OneSuccessor == \A j \in Jti : Cardinality(Successors(j)) <= 1
=============================================================================
