------------------------------ MODULE AtomicAuth ------------------------------
(***************************************************************************)
(* What the auth service promises: every call takes effect at one moment   *)
(* between its arrival and its answer.  A call is refused for a reason     *)
(* that holds at that moment; one that breaks is answered "internal" and   *)
(* may have had its effect.                                                *)
(*                                                                         *)
(* A rotation is promised to a token that was good when the call arrived.  *)
(* Whether it is still good at the moment of the rotation is not: another  *)
(* rotation or a logout of the same token may have come in between.        *)
(***************************************************************************)
EXTENDS Naturals

CONSTANTS Users, Jti, Requests, None

VARIABLES
  accounts,   \* number of accounts of each username
  status,     \* each refresh token: "absent", "live" or "revoked"
  owner,      \* whom it was issued to
  expired,    \* tokens past their lifetime
  call        \* the call each requester has made, and its answer

rows == <<accounts, status, owner, expired>>

NoCall == [op |-> "none", user |-> None, tok |-> None, spent |-> FALSE,
           new |-> None, ans |-> "idle"]

Answers == {"idle", "pending", "ok", "conflict", "invalid", "unauthorized",
            "validation", "internal"}

TypeOK ==
  /\ accounts \in [Users -> {0, 1}]
  /\ status \in [Jti -> {"absent", "live", "revoked"}]
  /\ owner \in [Jti -> Users \cup {None}]
  /\ expired \subseteq Jti
  /\ call \in [Requests ->
       [op: {"none", "register", "login", "refresh", "logout"},
        user: Users \cup {None}, tok: Jti \cup {None}, spent: BOOLEAN,
        new: Jti \cup {None}, ans: Answers]]

Init ==
  /\ accounts \in [Users -> {0, 1}]
  /\ status = [j \in Jti |-> "absent"]
  /\ owner = [j \in Jti |-> None]
  /\ expired = {}
  /\ call = [r \in Requests |-> NoCall]

Spent(j) == j \in expired \/ status[j] = "revoked"

-----------------------------------------------------------------------------
(* Arrivals, at a requester that has no call under way.  "spent" is how the
   token was when the call arrived. *)

Call(r, op, u, j, ans) ==
  /\ call' = [call EXCEPT ![r] =
       [op |-> op, user |-> u, tok |-> j, spent |-> j # None /\ Spent(j),
        new |-> None, ans |-> ans]]
  /\ UNCHANGED rows

CallRegister(r, u) ==
  Call(r, "register", u, None, IF u = None THEN "validation" ELSE "pending")

CallLogin(r, u) ==
  Call(r, "login", u, None, IF u = None THEN "validation" ELSE "pending")

CallRefresh(r, j) == Call(r, "refresh", None, j, "pending")

CallLogout(r, j, accessValid) ==
  Call(r, "logout", None, j, IF ~accessValid THEN "unauthorized"
                             ELSE IF j = None THEN "ok" ELSE "pending")

-----------------------------------------------------------------------------
(* Effects and refusals. *)

Pending(r, op) == call[r].ans = "pending" /\ call[r].op = op

Answer(r, code, j) == call' = [call EXCEPT ![r] = [@ EXCEPT !.ans = code, !.new = j]]

(* An effect is acknowledged, or the service fails right after it. *)
Effected(r, j) == Answer(r, "ok", j) \/ Answer(r, "internal", None)

Refused(r, code) == Answer(r, code, None) /\ UNCHANGED rows

OpenAccount(r) ==
  /\ Pending(r, "register")
  /\ accounts[call[r].user] = 0
  /\ accounts' = [accounts EXCEPT ![call[r].user] = 1]
  /\ Effected(r, None)
  /\ UNCHANGED <<status, owner, expired>>

NameTaken(r) ==
  /\ Pending(r, "register")
  /\ accounts[call[r].user] > 0
  /\ Refused(r, "conflict")

Issue(r, j) ==
  /\ Pending(r, "login")
  /\ accounts[call[r].user] > 0
  /\ status[j] = "absent"
  /\ status' = [status EXCEPT ![j] = "live"]
  /\ owner' = [owner EXCEPT ![j] = call[r].user]
  /\ Effected(r, j)
  /\ UNCHANGED <<accounts, expired>>

WrongPassword(r) ==
  /\ Pending(r, "login")
  /\ Refused(r, "unauthorized")

Rotate(r, j) ==
  LET old == call[r].tok IN
  /\ Pending(r, "refresh")
  /\ old # None /\ ~call[r].spent
  /\ status[j] = "absent"
  /\ status' = [status EXCEPT ![old] = "revoked", ![j] = "live"]
  /\ owner' = [owner EXCEPT ![j] = owner[old]]
  /\ Effected(r, j)
  /\ UNCHANGED <<accounts, expired>>

InvalidToken(r) ==
  /\ Pending(r, "refresh")
  /\ call[r].tok = None \/ Spent(call[r].tok)
  /\ Refused(r, "invalid")

Revoke(r) ==
  /\ Pending(r, "logout")
  /\ status' = [status EXCEPT ![call[r].tok] = "revoked"]
  /\ Effected(r, None)
  /\ UNCHANGED <<accounts, owner, expired>>

Break(r) ==
  /\ call[r].ans = "pending"
  /\ Refused(r, "internal")

Return(r) ==
  /\ call[r].ans \notin {"idle", "pending"}
  /\ call' = [call EXCEPT ![r] = NoCall]
  /\ UNCHANGED rows

Crash ==
  /\ call' = [r \in Requests |-> NoCall]
  /\ UNCHANGED rows

Expire(j) ==
  /\ status[j] # "absent"
  /\ expired' = expired \cup {j}
  /\ UNCHANGED <<accounts, status, owner, call>>

Arrive(r) ==
  /\ call[r].ans = "idle"
  /\ \/ \E u \in Users \cup {None} : CallRegister(r, u) \/ CallLogin(r, u)
     \/ \E j \in Jti \cup {None} : CallRefresh(r, j)
     \/ \E j \in Jti \cup {None}, valid \in BOOLEAN : CallLogout(r, j, valid)

Effect(r) ==
  /\ call[r].ans = "pending"
  /\ \/ OpenAccount(r) \/ NameTaken(r) \/ WrongPassword(r)
     \/ \E j \in Jti : Issue(r, j) \/ Rotate(r, j)
     \/ InvalidToken(r) \/ Revoke(r) \/ Break(r)

Next ==
  \/ \E r \in Requests : Arrive(r) \/ Effect(r) \/ Return(r)
  \/ \E j \in Jti : Expire(j)
  \/ Crash

Spec == Init /\ [][Next]_<<rows, call>>
==============================================================================
