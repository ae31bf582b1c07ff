----------------------------- MODULE SessionProofs -----------------------------
(***************************************************************************)
(* Proofs about the cookies of one browser, for any users, tokens and      *)
(* number of exchanges in flight.                                          *)
(***************************************************************************)
EXTENDS Session, TLAPS

Token == Jti \cup {None}

CallRecord ==
  [op: {"none", "register", "login", "refresh", "logout"},
   user: Users \cup {None}, tok: Jti \cup {None}, spent: BOOLEAN,
   new: Jti \cup {None}, ans: Auth!Answers]

-----------------------------------------------------------------------------
(* What the steps of the auth service do to its rows and to its calls. *)

OtherCalls(r) == \A s \in Requests : s # r => call'[s] = call[s]

(* A row is never taken back, nor is a revocation. *)
RowsGrow ==
  /\ \A j \in Jti : status[j] # "absent" => status'[j] # "absent"
  /\ \A j \in Jti : status[j] = "revoked" => status'[j] = "revoked"
  /\ expired \subseteq expired'

(* The token exists after the step. *)
IssuedAfter(j) == j # None => status'[j] # "absent"

LEMMA RowsStay ==
  ASSUME UNCHANGED <<accounts, status, owner, expired>>
  PROVE  RowsGrow
BY DEF RowsGrow

LEMMA CallMade ==
  ASSUME Auth!TypeOK, NEW r \in Requests, NEW op \in {"login", "refresh", "logout"},
         NEW u \in Users \cup {None}, NEW j \in Token,
         NEW ans \in Auth!Answers, Auth!Call(r, op, u, j, ans)
  PROVE  /\ Auth!TypeOK' /\ RowsGrow /\ OtherCalls(r)
         /\ UNCHANGED <<status, expired>>
         /\ call'[r].op = op /\ call'[r].tok = j /\ call'[r].new = None
         /\ call'[r].ans = ans
<1> DEFINE c == [op |-> op, user |-> u, tok |-> j,
                 spent |-> j # None /\ Auth!Spent(j), new |-> None, ans |-> ans]
<1>1. /\ c \in CallRecord /\ c.op = op /\ c.tok = j /\ c.new = None
      /\ c.ans = ans
  BY DEF CallRecord, Token
<1>2. call' = [call EXCEPT ![r] = c]
  BY DEF Auth!Call
<1>3. UNCHANGED <<accounts, status, owner, expired>>
  BY DEF Auth!Call, Auth!rows
<1> HIDE DEF c
<1>4. /\ call'[r] = c /\ OtherCalls(r) /\ call' \in [Requests -> CallRecord]
  BY <1>1, <1>2 DEF Auth!TypeOK, OtherCalls, CallRecord
<1>5. Auth!TypeOK'
  BY <1>3, <1>4 DEF Auth!TypeOK, CallRecord
<1> QED BY <1>1, <1>3, <1>4, <1>5, RowsStay

LEMMA CallAnswered ==
  ASSUME Auth!TypeOK, NEW r \in Requests, NEW code \in Auth!Answers,
         NEW j \in Token, Auth!Answer(r, code, j)
  PROVE  /\ call' \in [Requests -> CallRecord] /\ OtherCalls(r)
         /\ call'[r].op = call[r].op /\ call'[r].tok = call[r].tok
         /\ call'[r].ans = code /\ call'[r].new = j
<1> DEFINE c == [call[r] EXCEPT !.ans = code, !.new = j]
<1>1. call[r] \in CallRecord
  BY DEF Auth!TypeOK, CallRecord
<1>2. /\ c \in CallRecord /\ c.op = call[r].op /\ c.tok = call[r].tok
      /\ c.ans = code /\ c.new = j
  BY <1>1 DEF CallRecord, Token
<1>3. call' = [call EXCEPT ![r] = c]
  BY DEF Auth!Answer
<1> HIDE DEF c
<1> QED BY <1>2, <1>3 DEF Auth!TypeOK, OtherCalls, CallRecord

LEMMA NoCallTyped ==
  Auth!NoCall \in CallRecord /\ Auth!NoCall.ans = "idle"
BY DEF Auth!NoCall, CallRecord, Auth!Answers

LEMMA CallReturned ==
  ASSUME Auth!TypeOK, NEW r \in Requests, Auth!Return(r)
  PROVE  /\ Auth!TypeOK' /\ RowsGrow /\ OtherCalls(r)
         /\ UNCHANGED <<status, expired>> /\ call'[r].ans = "idle"
<1>1. /\ call' = [call EXCEPT ![r] = Auth!NoCall]
      /\ UNCHANGED <<accounts, status, owner, expired>>
  BY DEF Auth!Return, Auth!rows
<1>2. /\ call'[r] = Auth!NoCall /\ OtherCalls(r)
      /\ call' \in [Requests -> CallRecord]
  BY <1>1, NoCallTyped DEF Auth!TypeOK, OtherCalls, CallRecord
<1>3. Auth!TypeOK'
  BY <1>1, <1>2 DEF Auth!TypeOK, CallRecord
<1> QED BY <1>1, <1>2, <1>3, RowsStay, NoCallTyped

(* A call that comes to its answer: an effect, a refusal or a failure. *)
LEMMA CallEffect ==
  ASSUME Auth!TypeOK, NEW r \in Requests, Auth!Effect(r), AnswerTells(r)
  PROVE  /\ Auth!TypeOK' /\ RowsGrow /\ OtherCalls(r) /\ AnswerTells(r)'
         /\ call'[r].op = call[r].op /\ call'[r].tok = call[r].tok
         /\ call[r].ans = "pending" /\ call'[r].ans # "idle"
<1> DEFINE c == call[r]
<1>0. /\ c.ans = "pending" /\ c \in CallRecord /\ None \in Token
      /\ c.tok \in Token
      /\ {"ok", "internal", "conflict", "unauthorized", "invalid"}
           \subseteq Auth!Answers \ {"idle", "pending"}
  BY DEF Auth!Effect, Auth!TypeOK, CallRecord, Token, Auth!Answers
<1>1. ASSUME NEW code \in Auth!Answers \ {"idle", "pending"},
             NEW j \in Token, Auth!Answer(r, code, j),
             RowsGrow, accounts' \in [Users -> {0, 1}],
             status' \in [Jti -> {"absent", "live", "revoked"}],
             owner' \in [Jti -> Users \cup {None}], expired' \subseteq Jti,
             IssuedAfter(j), IssuedAfter(c.tok),
             c.op = "login" => code \in {"ok", "unauthorized", "internal"},
             c.op = "refresh" => code \in {"ok", "invalid", "internal"},
             c.op = "logout" => code \in {"ok", "internal"},
             c.op \in {"login", "refresh"} /\ code = "ok" => j # None,
             c.op \in {"refresh", "logout"} /\ code = "ok"
               => status'[c.tok] = "revoked",
             c.op = "refresh" /\ code = "invalid"
               => c.tok \in expired' \/ status'[c.tok] = "revoked"
      PROVE  /\ Auth!TypeOK' /\ RowsGrow /\ OtherCalls(r) /\ AnswerTells(r)'
             /\ call'[r].op = call[r].op /\ call'[r].tok = call[r].tok
             /\ call[r].ans = "pending" /\ call'[r].ans # "idle"
  <2>1. /\ call' \in [Requests -> CallRecord] /\ OtherCalls(r)
        /\ call'[r].op = call[r].op /\ call'[r].tok = call[r].tok
        /\ call'[r].ans = code /\ call'[r].new = j
    BY <1>1, CallAnswered
  <2>2. Auth!TypeOK'
    BY <1>1, <2>1 DEF Auth!TypeOK, CallRecord
  <2>3. AnswerTells(r)'
    BY <1>1, <2>1 DEF AnswerTells, IssuedAfter, Issued, Auth!Spent
  <2> QED BY <1>0, <1>1, <2>1, <2>2, <2>3
<1>2. ASSUME NEW code \in {"conflict", "unauthorized", "invalid", "internal"},
             Auth!Refused(r, code),
             c.op = "login" => code \in {"unauthorized", "internal"},
             c.op = "refresh" => code \in {"invalid", "internal"},
             c.op = "logout" => code = "internal",
             c.op = "refresh" /\ code = "invalid" => Auth!Spent(c.tok)
      PROVE  /\ Auth!TypeOK' /\ RowsGrow /\ OtherCalls(r) /\ AnswerTells(r)'
             /\ call'[r].op = call[r].op /\ call'[r].tok = call[r].tok
             /\ call[r].ans = "pending" /\ call'[r].ans # "idle"
  <2>1. /\ Auth!Answer(r, code, None)
        /\ UNCHANGED <<accounts, status, owner, expired>>
    BY <1>2 DEF Auth!Refused, Auth!rows
  <2>2. RowsGrow /\ IssuedAfter(None) /\ IssuedAfter(c.tok)
    BY <2>1, RowsStay DEF IssuedAfter, Issued, AnswerTells
  <2> QED BY <1>0, <1>1, <1>2, <2>1, <2>2 DEF Auth!TypeOK, Auth!Spent
<1>3. CASE Auth!OpenAccount(r)
  <2>1. /\ accounts' \in [Users -> {0, 1}]
        /\ UNCHANGED <<status, owner, expired>> /\ c.op = "register"
        /\ Auth!Answer(r, "ok", None) \/ Auth!Answer(r, "internal", None)
    BY <1>3 DEF Auth!OpenAccount, Auth!Pending, Auth!TypeOK, Auth!Effected
  <2>2. RowsGrow /\ IssuedAfter(None) /\ IssuedAfter(c.tok)
    BY <2>1 DEF RowsGrow, IssuedAfter, Issued, AnswerTells
  <2> QED BY <1>0, <1>1, <2>1, <2>2 DEF Auth!TypeOK
<1>4. CASE Auth!NameTaken(r)
  BY <1>2, <1>4 DEF Auth!NameTaken, Auth!Pending
<1>5. CASE Auth!WrongPassword(r)
  BY <1>2, <1>5 DEF Auth!WrongPassword, Auth!Pending
<1>6. CASE Auth!InvalidToken(r)
  BY <1>2, <1>6 DEF Auth!InvalidToken, Auth!Pending, AnswerTells
<1>7. CASE Auth!Break(r)
  BY <1>2, <1>7 DEF Auth!Break
<1>8. ASSUME NEW j \in Jti, Auth!Issue(r, j)
      PROVE  /\ Auth!TypeOK' /\ RowsGrow /\ OtherCalls(r) /\ AnswerTells(r)'
             /\ call'[r].op = call[r].op /\ call'[r].tok = call[r].tok
             /\ call[r].ans = "pending" /\ call'[r].ans # "idle"
  <2>1. /\ c.op = "login" /\ status[j] = "absent"
        /\ status' = [status EXCEPT ![j] = "live"]
        /\ owner' = [owner EXCEPT ![j] = c.user]
        /\ Auth!Answer(r, "ok", j) \/ Auth!Answer(r, "internal", None)
        /\ UNCHANGED <<accounts, expired>>
    BY <1>8 DEF Auth!Issue, Auth!Pending, Auth!Effected
  <2>2. /\ RowsGrow /\ IssuedAfter(None) /\ IssuedAfter(c.tok) /\ IssuedAfter(j)
        /\ j \in Token /\ j # None
    BY <1>0, <2>1, NoneAssumption
       DEF RowsGrow, IssuedAfter, Issued, AnswerTells, Auth!TypeOK, CallRecord, Token
  <2>3. /\ status' \in [Jti -> {"absent", "live", "revoked"}]
        /\ owner' \in [Jti -> Users \cup {None}]
    BY <1>0, <2>1 DEF Auth!TypeOK, CallRecord
  <2> QED BY <1>0, <1>1, <2>1, <2>2, <2>3 DEF Auth!TypeOK
<1>9. ASSUME NEW j \in Jti, Auth!Rotate(r, j)
      PROVE  /\ Auth!TypeOK' /\ RowsGrow /\ OtherCalls(r) /\ AnswerTells(r)'
             /\ call'[r].op = call[r].op /\ call'[r].tok = call[r].tok
             /\ call[r].ans = "pending" /\ call'[r].ans # "idle"
  <2>1. /\ c.op = "refresh" /\ status[j] = "absent" /\ c.tok \in Jti
        /\ status' = [status EXCEPT ![c.tok] = "revoked", ![j] = "live"]
        /\ owner' = [owner EXCEPT ![j] = owner[c.tok]]
        /\ Auth!Answer(r, "ok", j) \/ Auth!Answer(r, "internal", None)
        /\ UNCHANGED <<accounts, expired>>
    BY <1>0, <1>9
       DEF Auth!Rotate, Auth!Pending, Auth!Effected, CallRecord
  <2>2. status[c.tok] # "absent" /\ c.tok # j
    BY <2>1, NoneAssumption DEF AnswerTells, Issued
  <2>3. /\ status'[c.tok] = "revoked" /\ status'[j] = "live"
        /\ \A k \in Jti \ {c.tok, j} : status'[k] = status[k]
        /\ status' \in [Jti -> {"absent", "live", "revoked"}]
        /\ owner' \in [Jti -> Users \cup {None}]
    BY <2>1, <2>2 DEF Auth!TypeOK
  <2>4. /\ RowsGrow /\ IssuedAfter(None) /\ IssuedAfter(c.tok) /\ IssuedAfter(j)
        /\ j \in Token /\ j # None
    BY <2>1, <2>2, <2>3, NoneAssumption DEF RowsGrow, IssuedAfter, Token
  <2> QED BY <1>0, <1>1, <2>1, <2>3, <2>4 DEF Auth!TypeOK
<1>10. CASE Auth!Revoke(r)
  <2>1. /\ c.op = "logout" /\ c.tok \in Jti
        /\ status' = [status EXCEPT ![c.tok] = "revoked"]
        /\ Auth!Answer(r, "ok", None) \/ Auth!Answer(r, "internal", None)
        /\ UNCHANGED <<accounts, owner, expired>>
    BY <1>0, <1>10
       DEF Auth!Revoke, Auth!Pending, Auth!Effected, CallRecord, AnswerTells
  <2>2. /\ RowsGrow /\ IssuedAfter(None) /\ IssuedAfter(c.tok)
        /\ status'[c.tok] = "revoked"
        /\ status' \in [Jti -> {"absent", "live", "revoked"}]
    BY <2>1 DEF RowsGrow, IssuedAfter, Issued, AnswerTells, Auth!TypeOK
  <2> QED BY <1>0, <1>1, <2>1, <2>2 DEF Auth!TypeOK
<1> QED BY <1>3, <1>4, <1>5, <1>6, <1>7, <1>8, <1>9, <1>10 DEF Auth!Effect

-----------------------------------------------------------------------------
(* What the steps do to the exchanges. *)

OtherExchanges(r) == \A s \in Requests : s # r => http'[s] = http[s]

LEMMA NoExchangeTyped ==
  /\ NoExchange \in Exchange /\ NoExchange.pc = "idle"
  /\ NoExchange.op = "none" /\ NoExchange.code = 0 /\ NoExchange.pair = None
  /\ NoExchange.access = None /\ NoExchange.refresh = None
BY DEF NoExchange, Exchange, Sayings, Operations, Places, Codes

LEMMA GotoFields ==
  ASSUME TypeOK, NEW r \in Requests,
         NEW label \in {"gateway", "service", "auth", "renew"}, Goto(r, label)
  PROVE  /\ http' \in [Requests -> Exchange] /\ OtherExchanges(r)
         /\ http'[r].pc = label /\ http'[r].op = http[r].op
         /\ http'[r].access = http[r].access
         /\ http'[r].refresh = http[r].refresh
         /\ http'[r].code = http[r].code /\ http'[r].pair = http[r].pair
         /\ http'[r].good = http[r].good /\ http'[r].late = http[r].late
<1> DEFINE x == [http[r] EXCEPT !.pc = label]
<1>1. http[r] \in Exchange /\ label \in Places
  BY DEF TypeOK, Places
<1>2. /\ x \in Exchange /\ x.pc = label /\ x.op = http[r].op
      /\ x.access = http[r].access /\ x.refresh = http[r].refresh
      /\ x.code = http[r].code /\ x.pair = http[r].pair
      /\ x.good = http[r].good /\ x.late = http[r].late
  BY <1>1 DEF Exchange
<1>3. http' = [http EXCEPT ![r] = x]
  BY DEF Goto
<1> HIDE DEF x
<1> QED BY <1>2, <1>3 DEF TypeOK, OtherExchanges

LEMMA AnswerFields ==
  ASSUME TypeOK, NEW r \in Requests, NEW said \in Sayings,
         NEW code \in Codes, NEW sets \in BOOLEAN,
         NEW pair \in Token, Answer(r, said, code, sets, pair)
  PROVE  /\ http' \in [Requests -> Exchange] /\ OtherExchanges(r)
         /\ http'[r].pc = "answered" /\ http'[r].op = http[r].op
         /\ http'[r].said = said /\ http'[r].code = code
         /\ http'[r].sets = sets /\ http'[r].pair = pair
         /\ http'[r].late = http[r].late
         /\ http[r].op = "logout" => http'[r].access = http[r].access
<1> DEFINE access == IF http[r].op = "logout" THEN http[r].access ELSE None
           x == [http[r] EXCEPT !.pc = "answered", !.said = said, !.code = code,
                   !.sets = sets, !.pair = pair, !.refresh = None,
                   !.access = access]
<1>1. http[r] \in Exchange
  BY DEF TypeOK
<1>2. /\ access \in Token
      /\ http[r].op = "logout" => access = http[r].access
  BY <1>1 DEF Exchange, Token
<1>3. http' = [http EXCEPT ![r] = x]
  BY DEF Answer
<1> HIDE DEF access
<1>4. /\ x.pc = "answered" /\ x.op = http[r].op
      /\ x.said = said /\ x.code = code /\ x.sets = sets /\ x.pair = pair
      /\ x.late = http[r].late /\ x.access = access
  BY <1>1 DEF Exchange
<1>5. x \in Exchange
  <2>1. "answered" \in Places
    BY DEF Places
  <2> QED BY <1>1, <1>2, <2>1 DEF Exchange, Token
<1> HIDE DEF x
<1> QED BY <1>2, <1>3, <1>4, <1>5 DEF TypeOK, OtherExchanges

(* The exchange is over. *)
LEMMA EndFields ==
  ASSUME TypeOK, NEW r \in Requests,
         http' = [http EXCEPT ![r] = NoExchange]
  PROVE  /\ http' \in [Requests -> Exchange] /\ OtherExchanges(r)
         /\ http'[r] = NoExchange
BY NoExchangeTyped DEF TypeOK, OtherExchanges

LEMMA SendFields ==
  ASSUME TypeOK, NEW r \in Requests, NEW op \in Operations, Send(r, op)
  PROVE  /\ http' \in [Requests -> Exchange] /\ OtherExchanges(r)
         /\ http'[r].pc = IF op = "api" THEN "gateway" ELSE "service"
         /\ http'[r].op = op /\ http'[r].code = 0 /\ http'[r].pair = None
         /\ op = "login" => http'[r].access = None /\ http'[r].refresh = None
         /\ op # "login" => http'[r].refresh = jar.refresh
         /\ http'[r].access = IF op \in {"login", "refresh"} THEN None
                                                            ELSE jar.access
         /\ http'[r].good <=> op = "api" /\ AccessValid(jar.access)
         /\ call[r].ans = "idle"
         /\ UNCHANGED <<accounts, status, owner, expired, call, lapsed, jar>>
<1> DEFINE pc == IF op = "api" THEN "gateway" ELSE "service"
           access == IF op \in {"login", "refresh"} THEN None ELSE jar.access
           refresh == IF op = "login" THEN None ELSE jar.refresh
           good == op = "api" /\ AccessValid(jar.access)
           x == [NoExchange EXCEPT !.pc = pc, !.op = op, !.access = access,
                   !.refresh = refresh, !.good = good]
<1>1. /\ pc \in {"gateway", "service"} /\ access \in Token /\ refresh \in Token
      /\ good \in BOOLEAN
      /\ op = "login" => access = None /\ refresh = None
      /\ op # "login" => refresh = jar.refresh
      /\ access = IF op \in {"login", "refresh"} THEN None ELSE jar.access
  BY DEF TypeOK, Token
<1>2. /\ http' = [http EXCEPT ![r] = x] /\ call[r].ans = "idle"
      /\ UNCHANGED <<accounts, status, owner, expired, call, lapsed, jar>>
  BY DEF Send, authVars
<1>3. good <=> op = "api" /\ AccessValid(jar.access)
  OBVIOUS
<1> HIDE DEF access, refresh, good
<1>4. /\ x.pc = pc /\ x.op = op /\ x.access = access
      /\ x.refresh = refresh /\ x.good = good /\ x.code = 0 /\ x.pair = None
  BY DEF NoExchange
<1>5. x \in Exchange
  <2>1. pc \in Places
    BY DEF Places
  <2> HIDE DEF pc
  <2> QED BY <1>1, <2>1, NoExchangeTyped DEF Exchange, Token
<1> HIDE DEF x
<1>6. http'[r] = x /\ OtherExchanges(r) /\ http' \in [Requests -> Exchange]
  BY <1>2, <1>5 DEF TypeOK, OtherExchanges
<1> QED BY <1>1, <1>2, <1>3, <1>4, <1>6

(* The browser's cookies are replaced under the exchanges in flight. *)
LEMMA OutdateFields ==
  ASSUME NEW exchanges \in [Requests -> Exchange], http' = Outdate(exchanges)
  PROVE  /\ http' \in [Requests -> Exchange]
         /\ \A s \in Requests :
              /\ http'[s].pc = exchanges[s].pc /\ http'[s].op = exchanges[s].op
              /\ http'[s].access = exchanges[s].access
              /\ http'[s].refresh = exchanges[s].refresh
              /\ http'[s].said = exchanges[s].said
              /\ http'[s].code = exchanges[s].code
              /\ http'[s].sets = exchanges[s].sets
              /\ http'[s].pair = exchanges[s].pair
              /\ http'[s].good = exchanges[s].good
              /\ http'[s].late <=> \/ exchanges[s].late
                                   \/ exchanges[s].op \in {"refresh", "api"}
<1> DEFINE late(s) == exchanges[s].late \/ exchanges[s].op \in {"refresh", "api"}
           x(s) == [exchanges[s] EXCEPT !.late = late(s)]
<1>1. http' = [s \in Requests |-> x(s)]
  BY DEF Outdate
<1>2. ASSUME NEW s \in Requests
      PROVE  /\ x(s) \in Exchange
             /\ x(s).pc = exchanges[s].pc /\ x(s).op = exchanges[s].op
             /\ x(s).access = exchanges[s].access
             /\ x(s).refresh = exchanges[s].refresh
             /\ x(s).said = exchanges[s].said /\ x(s).code = exchanges[s].code
             /\ x(s).sets = exchanges[s].sets /\ x(s).pair = exchanges[s].pair
             /\ x(s).good = exchanges[s].good
             /\ x(s).late <=> late(s)
  <2>1. exchanges[s] \in Exchange /\ late(s) \in BOOLEAN
    OBVIOUS
  <2> HIDE DEF late
  <2> QED BY <2>1 DEF Exchange
<1> HIDE DEF x
<1>3. \A s \in Requests : http'[s] = x(s)
  BY <1>1
<1>4. http' \in [Requests -> Exchange]
  BY <1>1, <1>2
<1>5. ASSUME NEW s \in Requests
      PROVE  /\ http'[s].pc = exchanges[s].pc /\ http'[s].op = exchanges[s].op
             /\ http'[s].access = exchanges[s].access
             /\ http'[s].refresh = exchanges[s].refresh
             /\ http'[s].said = exchanges[s].said
             /\ http'[s].code = exchanges[s].code
             /\ http'[s].sets = exchanges[s].sets
             /\ http'[s].pair = exchanges[s].pair
             /\ http'[s].good = exchanges[s].good
             /\ http'[s].late <=> late(s)
  BY <1>2, <1>3
<1> QED BY <1>4, <1>5

-----------------------------------------------------------------------------
(* The invariant, exchange by exchange. *)

Acked(r) ==
  http[r].op = "logout" /\ http[r].code = 200 =>
    http[r].access # None /\ status[http[r].access] = "revoked"

Excused(r) == DropsSession(r) /\ Usable(jar.refresh) => DropIsExcused(r)

Sound(r) ==
  /\ Under(r) /\ Answered(r) /\ Acked(r) /\ Excused(r)
  /\ call[r].ans # "idle" => AnswerTells(r)
  /\ Waiting(r) => CallMatches(r)

LEMMA InvariantParts ==
  /\ IndInv <=> /\ TypeOK /\ Paired(jar) /\ Issued(jar.refresh)
                /\ \A r \in Requests : Sound(r)
  /\ IndInv' <=> /\ TypeOK' /\ Paired(jar)' /\ Issued(jar.refresh)'
                 /\ \A r \in Requests : Sound(r)'
BY DEF IndInv, Sound, Acked, Excused, AckedLogoutDead,
       UsableDroppedOnlyIfExcused, Under

(* An exchange that the step leaves alone, or makes late. *)
SameExchange(s) ==
  /\ http'[s].pc = http[s].pc /\ http'[s].op = http[s].op
  /\ http'[s].access = http[s].access /\ http'[s].refresh = http[s].refresh
  /\ http'[s].said = http[s].said /\ http'[s].code = http[s].code
  /\ http'[s].sets = http[s].sets /\ http'[s].pair = http[s].pair
  /\ http'[s].good = http[s].good
  /\ http[s].late => http'[s].late

SameCall(s) ==
  call'[s].ans # "idle" =>
    /\ call[s].ans # "idle" /\ AnswerTells(s)'
    /\ call'[s].op = call[s].op /\ call'[s].tok = call[s].tok

LEMMA StillIssued ==
  ASSUME RowsGrow, NEW j \in Token, Issued(j)
  PROVE  IssuedAfter(j)
BY DEF RowsGrow, Issued, IssuedAfter, Token

LEMMA StillTells ==
  ASSUME Auth!TypeOK, RowsGrow, NEW s \in Requests, AnswerTells(s),
         call'[s] = call[s]
  PROVE  AnswerTells(s)'
<1>1. call[s].tok \in Token /\ call[s].new \in Token
  BY DEF Auth!TypeOK, Token
<1>2. IssuedAfter(call[s].tok) /\ IssuedAfter(call[s].new)
  BY <1>1, StillIssued DEF AnswerTells
<1>3. status[call[s].tok] = "revoked" /\ call[s].tok # None
        => status'[call[s].tok] = "revoked"
  BY <1>1 DEF RowsGrow, Token
<1>4. Auth!Spent(call[s].tok) /\ call[s].tok # None
        => call[s].tok \in expired' \/ status'[call[s].tok] = "revoked"
  BY <1>3 DEF RowsGrow, Auth!Spent
<1> QED BY <1>2, <1>3, <1>4 DEF AnswerTells, Issued, IssuedAfter, Auth!Spent

(* A token that is not usable never becomes so once it was issued. *)
LEMMA UsableBefore ==
  ASSUME TypeOK, TypeOK', RowsGrow, NEW j \in Token, Issued(j),
         j # None, status'[j] = "live", j \notin expired'
  PROVE  Usable(j)
<1>1. j \in Jti
  BY DEF Token
<1>2. status[j] \in {"absent", "live", "revoked"}
  BY <1>1 DEF TypeOK, Auth!TypeOK
<1> QED BY <1>1, <1>2 DEF RowsGrow, Issued, Usable

LEMMA SameStaysSound ==
  ASSUME TypeOK, TypeOK', Issued(jar.refresh), RowsGrow, lapsed \subseteq lapsed',
         NEW s \in Requests, Sound(s), SameExchange(s), SameCall(s),
         \/ jar' = jar
         \/ http[s].op \in {"refresh", "api"} => http'[s].late
  PROVE  Sound(s)'
<1>1. http[s] \in Exchange /\ http'[s] \in Exchange /\ jar.refresh \in Token
  BY DEF TypeOK, Token
<1>2. http[s].refresh \in Token /\ http[s].pair \in Token /\ http[s].access \in Token
  BY <1>1 DEF Exchange, Token
<1>3. Under(s)'
  <2>1. http[s].pc # "answered" => IssuedAfter(http[s].refresh)
    BY <1>2, StillIssued DEF Sound, Under
  <2>2. http[s].pc # "answered" /\ http[s].op \in {"refresh", "api"}
          /\ ~http'[s].late => http[s].refresh = jar'.refresh
    BY DEF Sound, Under, SameExchange
  <2> QED BY <2>1, <2>2
          DEF Sound, Under, SameExchange, AccessValid, Paired, Issued, IssuedAfter
<1>4. Answered(s)'
  <2>1. IssuedAfter(http[s].pair)
    BY <1>2, StillIssued DEF Sound, Answered
  <2> QED BY <2>1 DEF Sound, Answered, SameExchange, Issued, IssuedAfter, DropsSession
<1>5. Acked(s)'
  BY <1>2 DEF Sound, Acked, SameExchange, RowsGrow, Token
<1>6. Excused(s)'
  <2> SUFFICES ASSUME DropsSession(s)', Usable(jar.refresh)'
               PROVE  DropIsExcused(s)'
    BY DEF Excused
  <2>1. DropsSession(s) /\ http[s].op \in {"refresh", "logout", "api"}
    BY DEF DropsSession, SameExchange, Sound, Answered
  <2>2. CASE jar' = jar
    <3>1. Usable(jar.refresh)
      BY <1>1, <2>2, UsableBefore DEF Usable
    <3>2. DropIsExcused(s)
      BY <2>1, <3>1 DEF Sound, Excused
    <3> QED BY <3>2 DEF DropIsExcused, SameExchange
  <2>3. CASE http[s].op \in {"refresh", "api"} => http'[s].late
    BY <2>1, <2>3 DEF DropIsExcused, SameExchange
  <2> QED BY <2>2, <2>3
<1>7. call'[s].ans # "idle" => AnswerTells(s)'
  BY DEF SameCall
<1>8. Waiting(s)' => CallMatches(s)'
  BY DEF Waiting, CallMatches, SameExchange, SameCall, Sound
<1> QED BY <1>3, <1>4, <1>5, <1>6, <1>7, <1>8 DEF Sound

(* A step of one exchange that leaves the cookies of the browser alone. *)
LEMMA OneExchangeMoves ==
  ASSUME IndInv, TypeOK', NEW r \in Requests, OtherExchanges(r), OtherCalls(r),
         RowsGrow, lapsed \subseteq lapsed', jar' = jar, Sound(r)'
  PROVE  IndInv'
<1>1. /\ TypeOK /\ Paired(jar) /\ Issued(jar.refresh)
      /\ \A s \in Requests : Sound(s)
  BY InvariantParts
<1>2. ASSUME NEW s \in Requests, s # r PROVE Sound(s)'
  <2>1. SameExchange(s)
    BY <1>2 DEF OtherExchanges, SameExchange
  <2>2. SameCall(s)
    BY <1>1, <1>2, StillTells DEF OtherCalls, SameCall, Sound, TypeOK
  <2> QED BY <1>1, <2>1, <2>2, SameStaysSound
<1>3. Paired(jar)' /\ Issued(jar.refresh)'
  <2>1. jar.refresh \in Token
    BY <1>1 DEF TypeOK, Token
  <2> QED BY <1>1, <2>1, StillIssued DEF Paired, Issued, IssuedAfter
<1>4. \A s \in Requests : Sound(s)'
  BY <1>2
<1> QED BY <1>3, <1>4, InvariantParts

(* A step that moves no exchange on, but may replace the cookies under it. *)
LEMMA NobodyMoves ==
  ASSUME IndInv, TypeOK', RowsGrow, lapsed \subseteq lapsed',
         Paired(jar)', IssuedAfter(jar'.refresh),
         \A s \in Requests :
           \/ Sound(s)'
           \/ /\ SameExchange(s) /\ SameCall(s)
              /\ \/ jar' = jar
                 \/ http[s].op \in {"refresh", "api"} => http'[s].late
  PROVE  IndInv'
<1>1. TypeOK /\ Issued(jar.refresh) /\ \A s \in Requests : Sound(s)
  BY InvariantParts
<1>2. ASSUME NEW s \in Requests PROVE Sound(s)'
  BY <1>1, SameStaysSound
<1>3. Issued(jar.refresh)'
  BY DEF Issued, IssuedAfter
<1> QED BY <1>2, <1>3, InvariantParts

(* The exchange is answered. *)
LEMMA AnswerSound ==
  ASSUME IndInv, RowsGrow, jar' = jar, NEW r \in Requests,
         NEW said \in Sayings, NEW code \in Codes, NEW sets \in BOOLEAN,
         NEW pair \in Token, Answer(r, said, code, sets, pair),
         IssuedAfter(pair), http[r].op \in Operations,
         call'[r].ans # "idle" => AnswerTells(r)',
         http[r].op = "logout" /\ code = 200 =>
           http[r].access # None /\ status'[http[r].access] = "revoked",
         sets /\ pair = None =>
           /\ http[r].op \in {"refresh", "logout", "api"}
           /\ \/ http[r].op = "logout" \/ said \in {"internal", "unreachable"}
              \/ http[r].late \/ ~Usable(jar.refresh)'
  PROVE  /\ http' \in [Requests -> Exchange] /\ OtherExchanges(r)
         /\ Sound(r)'
<1>0. TypeOK
  BY DEF IndInv
<1>1. /\ http' \in [Requests -> Exchange] /\ OtherExchanges(r)
      /\ http'[r].pc = "answered" /\ http'[r].op = http[r].op
      /\ http'[r].said = said /\ http'[r].code = code
      /\ http'[r].sets = sets /\ http'[r].pair = pair
      /\ http'[r].late = http[r].late
      /\ http[r].op = "logout" => http'[r].access = http[r].access
  BY <1>0, AnswerFields
<1>2. Under(r)'
  BY <1>1 DEF Under
<1>3. Answered(r)'
  BY <1>1 DEF Answered, DropsSession, Issued, IssuedAfter
<1>4. Acked(r)'
  BY <1>1 DEF Acked
<1>5. Excused(r)'
  BY <1>1 DEF Excused, DropsSession, DropIsExcused
<1>6. ~Waiting(r)'
  BY <1>1 DEF Waiting
<1> QED BY <1>1, <1>2, <1>3, <1>4, <1>5, <1>6 DEF Sound

(* The exchange is over, and with it what the browser waits for. *)
LEMMA IdleSound ==
  ASSUME IndInv, RowsGrow, NEW r \in Requests, UNCHANGED call,
         http'[r].pc = "idle", http'[r].op = "none", http'[r].code = 0,
         http'[r].pair = None, http'[r].access = None, http'[r].refresh = None
  PROVE  Sound(r)'
<1>1. call[r].ans # "idle" => AnswerTells(r)'
  BY StillTells, InvariantParts DEF Sound, TypeOK
<1> QED BY <1>1
        DEF Sound, Under, Answered, Acked, Excused, Waiting, DropsSession,
            Paired, Issued

-----------------------------------------------------------------------------
(* The browser. *)

LEMMA SendStep ==
  ASSUME IndInv, NEW r \in Requests, NEW op \in Operations, Send(r, op)
  PROVE  IndInv'
<1>0. /\ TypeOK /\ Paired(jar) /\ Issued(jar.refresh) /\ Sound(r)
  BY InvariantParts
<1>1. /\ http' \in [Requests -> Exchange] /\ OtherExchanges(r)
      /\ http'[r].pc = IF op = "api" THEN "gateway" ELSE "service"
      /\ http'[r].op = op /\ http'[r].code = 0 /\ http'[r].pair = None
      /\ op = "login" => http'[r].access = None /\ http'[r].refresh = None
      /\ op # "login" => http'[r].refresh = jar.refresh
      /\ http'[r].access = IF op \in {"login", "refresh"} THEN None
                                                         ELSE jar.access
      /\ http'[r].good <=> op = "api" /\ AccessValid(jar.access)
      /\ call[r].ans = "idle"
      /\ UNCHANGED <<accounts, status, owner, expired, call, lapsed, jar>>
  BY <1>0, SendFields
<1>2. TypeOK' /\ RowsGrow /\ OtherCalls(r)
  BY <1>0, <1>1, RowsStay DEF TypeOK, Auth!TypeOK, OtherCalls
<1>3. Paired(http[r])' /\ IssuedAfter(http'[r].refresh)
  BY <1>0, <1>1 DEF Paired, Issued, IssuedAfter
<1>4. Under(r)'
  BY <1>1, <1>3 DEF Under, AccessValid, Issued, IssuedAfter, Operations
<1>5. /\ Answered(r)' /\ Acked(r)' /\ Excused(r)' /\ ~Waiting(r)'
      /\ call'[r].ans = "idle"
  BY <1>1 DEF Answered, Acked, Excused, Waiting, DropsSession, Issued
<1> QED BY <1>1, <1>2, <1>4, <1>5, OneExchangeMoves DEF Sound

LEMMA CutStep ==
  ASSUME IndInv, NEW r \in Requests, Cut(r)
  PROVE  IndInv'
<1>0. TypeOK
  BY InvariantParts
<1>1. /\ http' \in [Requests -> Exchange] /\ OtherExchanges(r)
      /\ http'[r] = NoExchange
      /\ UNCHANGED <<accounts, status, owner, expired, call, lapsed, jar>>
  BY <1>0, EndFields DEF Cut, authVars
<1>2. TypeOK' /\ RowsGrow /\ OtherCalls(r)
  BY <1>0, <1>1, RowsStay DEF TypeOK, Auth!TypeOK, OtherCalls
<1>3. Sound(r)'
  BY <1>1, <1>2, NoExchangeTyped, IdleSound
<1> QED BY <1>1, <1>2, <1>3, OneExchangeMoves

LEMMA DeliverStep ==
  ASSUME IndInv, NEW r \in Requests, Deliver(r)
  PROVE  IndInv'
<1> DEFINE ended == [http EXCEPT ![r] = NoExchange]
<1>0. /\ TypeOK /\ Sound(r) /\ Paired(jar) /\ Issued(jar.refresh)
      /\ http[r] \in Exchange
  BY InvariantParts DEF TypeOK
<1>1. /\ http[r].pc = "answered"
      /\ UNCHANGED <<accounts, status, owner, expired, call, lapsed>>
  BY DEF Deliver, authVars
<1>2. /\ ended \in [Requests -> Exchange] /\ ended[r] = NoExchange
      /\ \A s \in Requests : s # r => ended[s] = http[s]
  BY <1>0, NoExchangeTyped DEF TypeOK
<1>3. RowsGrow
  BY <1>1, RowsStay
<1>4. CASE ~http[r].sets
  <2>1. http' = ended /\ jar' = jar
    BY <1>4 DEF Deliver
  <2>2. TypeOK' /\ OtherExchanges(r) /\ OtherCalls(r) /\ http'[r] = NoExchange
    BY <1>0, <1>1, <1>2, <2>1
       DEF TypeOK, Auth!TypeOK, OtherExchanges, OtherCalls
  <2>3. Sound(r)'
    BY <1>1, <1>3, <2>2, NoExchangeTyped, IdleSound
  <2> QED BY <1>1, <1>3, <2>1, <2>2, <2>3, OneExchangeMoves
<1>5. CASE http[r].sets
  <2>1. /\ jar' = [access |-> http[r].pair, refresh |-> http[r].pair]
        /\ http' = Outdate(ended)
    BY <1>5 DEF Deliver
  <2> HIDE DEF ended
  <2>2. http[r].pair \in Token /\ Issued(http[r].pair)
    BY <1>0 DEF Exchange, Token, Sound, Answered
  <2>3. /\ jar' \in [access: Jti \cup {None}, refresh: Jti \cup {None}]
        /\ Paired(jar)' /\ IssuedAfter(jar'.refresh)
    BY <1>3, <2>1, <2>2, StillIssued DEF Token, Paired
  <2>4. TypeOK'
    BY <1>0, <1>1, <1>2, <2>1, <2>3, OutdateFields DEF TypeOK, Auth!TypeOK
  <2>5. Sound(r)'
    BY <1>1, <1>2, <1>3, <2>1, NoExchangeTyped, OutdateFields, IdleSound
  <2>6. ASSUME NEW s \in Requests, s # r
        PROVE  /\ SameExchange(s) /\ SameCall(s)
               /\ http[s].op \in {"refresh", "api"} => http'[s].late
    <3>1. SameExchange(s) /\ (http[s].op \in {"refresh", "api"} => http'[s].late)
      BY <1>2, <2>1, <2>6, OutdateFields DEF SameExchange
    <3>2. SameCall(s)
      BY <1>0, <1>1, <1>3, StillTells, InvariantParts DEF SameCall, Sound, TypeOK
    <3> QED BY <3>1, <3>2
  <2> QED BY <1>1, <1>3, <2>3, <2>4, <2>5, <2>6, NobodyMoves
<1> QED BY <1>4, <1>5

LEMMA ForgetStep ==
  ASSUME IndInv, Forget
  PROVE  IndInv'
<1>0. TypeOK /\ Paired(jar) /\ Issued(jar.refresh)
  BY InvariantParts
<1>1. /\ http' = Outdate(http)
      /\ UNCHANGED <<accounts, status, owner, expired, call, lapsed>>
      /\ jar' \in [access: Jti \cup {None}, refresh: Jti \cup {None}]
      /\ jar'.access = None /\ jar'.refresh \in {jar.refresh, None}
  BY <1>0 DEF Forget, authVars, TypeOK
<1>2. RowsGrow
  BY <1>1, RowsStay
<1>3. /\ TypeOK'
      /\ \A s \in Requests :
           SameExchange(s) /\ (http[s].op \in {"refresh", "api"} => http'[s].late)
  BY <1>0, <1>1, OutdateFields DEF TypeOK, Auth!TypeOK, SameExchange
<1>4. \A s \in Requests : SameCall(s)
  BY <1>0, <1>1, <1>2, StillTells, InvariantParts DEF SameCall, Sound, TypeOK
<1>5. Paired(jar)' /\ IssuedAfter(jar'.refresh)
  BY <1>0, <1>1 DEF Paired, Issued, IssuedAfter
<1> QED BY <1>1, <1>2, <1>3, <1>4, <1>5, NobodyMoves

-----------------------------------------------------------------------------
(* The gateway and the auto-refresh middleware. *)

LEMMA CodesAndSayings ==
  /\ {200, 401, 500} \subseteq Codes /\ 401 \in Codes \ {200}
  /\ {"nothing", "ok", "unauthorized", "invalid", "internal", "unreachable"}
       \subseteq Sayings
  /\ "nothing" \in Sayings /\ "unreachable" \in Sayings
BY DEF Codes, Sayings

(* The exchange is answered and the auth service is left alone. *)
LEMMA AnswerStep ==
  ASSUME IndInv, NEW r \in Requests, http[r].op \in Operations,
         UNCHANGED <<accounts, status, owner, expired, call, lapsed, jar>>,
         NEW said \in Sayings, NEW code \in Codes \ {200}, NEW sets \in BOOLEAN,
         Answer(r, said, code, sets, None),
         sets =>
           /\ http[r].op \in {"refresh", "logout", "api"}
           /\ \/ http[r].op = "logout" \/ said \in {"internal", "unreachable"}
              \/ http[r].late \/ ~Usable(jar.refresh)
  PROVE  IndInv'
<1>0. TypeOK /\ Sound(r) /\ code \in Codes
  BY InvariantParts
<1>1. RowsGrow /\ OtherCalls(r)
  BY RowsStay DEF OtherCalls
<1>2. call'[r].ans # "idle" => AnswerTells(r)'
  BY <1>0, <1>1, StillTells DEF Sound, TypeOK
<1>3. Usable(jar.refresh)' => Usable(jar.refresh)
  BY DEF Usable
<1>4. IssuedAfter(None) /\ None \in Token
  BY DEF IssuedAfter, Token
<1>5. /\ http' \in [Requests -> Exchange] /\ OtherExchanges(r)
      /\ Sound(r)'
  BY <1>0, <1>1, <1>2, <1>3, <1>4, AnswerSound
<1>6. TypeOK'
  BY <1>0, <1>5 DEF TypeOK, Auth!TypeOK
<1> QED BY <1>1, <1>5, <1>6, OneExchangeMoves

LEMMA RefuseStep ==
  ASSUME IndInv, NEW r \in Requests, http[r].op \in Operations,
         UNCHANGED <<accounts, status, owner, expired, call, lapsed, jar>>,
         Keep(r, "nothing", 401)
  PROVE  IndInv'
<1> DEFINE said == "nothing"  code == 401  sets == FALSE
<1>1. /\ said \in Sayings /\ code \in Codes \ {200} /\ sets \in BOOLEAN
      /\ ~sets /\ Answer(r, said, code, sets, None)
  BY CodesAndSayings DEF Keep
<1> HIDE DEF said, code, sets
<1> QED BY <1>1, AnswerStep

LEMMA ClearStep ==
  ASSUME IndInv, NEW r \in Requests,
         http[r].op \in Operations, http[r].op # "login",
         UNCHANGED <<accounts, status, owner, expired, call, lapsed, jar>>,
         NEW said \in Sayings, Clear(r, said, 401),
         \/ http[r].op = "logout" \/ said \in {"internal", "unreachable"}
         \/ http[r].late \/ ~Usable(jar.refresh)
  PROVE  IndInv'
<1> DEFINE code == 401  sets == TRUE
<1>1. /\ code \in Codes \ {200} /\ sets \in BOOLEAN
      /\ Answer(r, said, code, sets, None)
      /\ http[r].op \in {"refresh", "logout", "api"}
  BY CodesAndSayings DEF Clear, Operations
<1> HIDE DEF code, sets
<1> QED BY <1>1, AnswerStep

LEMMA GatewayStep ==
  ASSUME IndInv, NEW r \in Requests, Gateway(r)
  PROVE  IndInv'
<1>0. TypeOK /\ Sound(r)
  BY InvariantParts
<1>1. /\ http[r].pc = "gateway" /\ http[r].op = "api"
      /\ http[r].op \in Operations
      /\ UNCHANGED <<accounts, status, owner, expired, call, lapsed, jar>>
  BY <1>0 DEF Gateway, authVars, Sound, Under, Operations
<1>2. RowsGrow /\ OtherCalls(r)
  BY <1>1, RowsStay DEF OtherCalls
<1>3. CASE AccessValid(http[r].access)
  <2>1. /\ http' \in [Requests -> Exchange] /\ OtherExchanges(r)
        /\ http'[r].pc = "service" /\ http'[r].op = http[r].op
        /\ http'[r].access = http[r].access
        /\ http'[r].refresh = http[r].refresh
        /\ http'[r].code = http[r].code /\ http'[r].pair = http[r].pair
        /\ http'[r].good = http[r].good /\ http'[r].late = http[r].late
    BY <1>0, <1>3, GotoFields DEF Gateway, Proxy
  <2>2. Under(r)'
    BY <1>0, <1>1, <1>3, <2>1 DEF Sound, Under, Paired, Issued
  <2>3. /\ Answered(r)' /\ Acked(r)' /\ Excused(r)' /\ ~Waiting(r)'
    BY <1>0, <1>1, <2>1
       DEF Sound, Answered, Acked, Excused, DropsSession, Waiting, Issued
  <2>4. call'[r].ans # "idle" => AnswerTells(r)'
    BY <1>0, <1>1, <1>2, StillTells DEF Sound, TypeOK
  <2>5. TypeOK'
    BY <1>0, <1>1, <2>1 DEF TypeOK, Auth!TypeOK
  <2> QED BY <1>1, <1>2, <2>1, <2>2, <2>3, <2>4, <2>5, OneExchangeMoves DEF Sound
<1>4. CASE ~AccessValid(http[r].access)
  <2>1. Keep(r, "nothing", 401)
    BY <1>4 DEF Gateway
  <2> QED BY <1>1, <2>1, RefuseStep
<1> QED BY <1>3, <1>4

(* The exchange waits for a call it has just made. *)
LEMMA WaitStep ==
  ASSUME IndInv, NEW r \in Requests,
         NEW label \in {"auth", "renew"}, Goto(r, label),
         NEW op \in {"login", "refresh", "logout"}, NEW u \in Users \cup {None},
         NEW j \in Token, Auth!Call(r, op, u, j, "pending"),
         UNCHANGED <<lapsed, jar>>, http[r].pc = "service",
         op = "login" => j = None,
         op # "login" => j = http[r].refresh /\ j # None,
         op = "logout" => http[r].access # None,
         label = "auth" => op = http[r].op,
         label = "renew" => op = "refresh" /\ http[r].op = "api"
  PROVE  IndInv'
<1>0. TypeOK /\ Sound(r) /\ "pending" \in Auth!Answers
  BY InvariantParts DEF Auth!Answers
<1>1. /\ http' \in [Requests -> Exchange] /\ OtherExchanges(r)
      /\ http'[r].pc = label /\ http'[r].op = http[r].op
      /\ http'[r].access = http[r].access
      /\ http'[r].refresh = http[r].refresh
      /\ http'[r].code = http[r].code /\ http'[r].pair = http[r].pair
      /\ http'[r].good = http[r].good /\ http'[r].late = http[r].late
  BY <1>0, GotoFields
<1>2. /\ Auth!TypeOK' /\ RowsGrow /\ OtherCalls(r)
      /\ UNCHANGED <<status, expired>>
      /\ call'[r].op = op /\ call'[r].tok = j /\ call'[r].new = None
      /\ call'[r].ans = "pending"
  BY <1>0, CallMade DEF TypeOK
<1>3. Under(r)'
  BY <1>0, <1>1, <1>2 DEF Sound, Under, Paired, Issued
<1>4. /\ Answered(r)' /\ Acked(r)' /\ Excused(r)'
  BY <1>0, <1>1, <1>2
     DEF Sound, Under, Answered, Acked, Excused, DropsSession, Issued
<1>5. AnswerTells(r)'
  BY <1>0, <1>2 DEF Sound, Under, AnswerTells, Issued
<1>6. CallMatches(r)'
  BY <1>1, <1>2 DEF CallMatches
<1>7. TypeOK'
  BY <1>0, <1>1, <1>2 DEF TypeOK
<1> QED BY <1>1, <1>2, <1>3, <1>4, <1>5, <1>6, <1>7, OneExchangeMoves DEF Sound

LEMMA ServeApiStep ==
  ASSUME IndInv, NEW r \in Requests, ServeApi(r)
  PROVE  IndInv'
<1>0. /\ TypeOK /\ Sound(r) /\ http[r] \in Exchange
      /\ http[r].refresh \in Token
  BY InvariantParts DEF TypeOK, Exchange, Token
<1>1. /\ http[r].pc = "service" /\ http[r].op = "api"
      /\ http[r].op \in Operations /\ UNCHANGED <<lapsed, jar>>
  BY DEF ServeApi, Operations
<1>2. CASE http[r].access = None
  <2>1. Keep(r, "nothing", 401) /\ UNCHANGED authVars
    BY <1>2 DEF ServeApi
  <2> QED BY <1>1, <2>1, RefuseStep DEF authVars
<1>3. CASE http[r].access # None /\ AccessValid(http[r].access)
  <2> DEFINE said == "nothing"  code == 200  sets == FALSE
  <2>0. Keep(r, "nothing", 200) /\ UNCHANGED authVars
    BY <1>3 DEF ServeApi
  <2>1. /\ Answer(r, said, code, sets, None) /\ UNCHANGED authVars
        /\ said \in Sayings /\ code \in Codes /\ sets \in BOOLEAN /\ ~sets
    BY <2>0, CodesAndSayings DEF Keep
  <2> HIDE DEF said, code, sets
  <2>2. UNCHANGED <<accounts, status, owner, expired, call>>
    BY <2>1 DEF authVars
  <2>3. RowsGrow /\ OtherCalls(r) /\ IssuedAfter(None) /\ None \in Token
    BY <2>2, RowsStay DEF OtherCalls, IssuedAfter, Token
  <2>4. call'[r].ans # "idle" => AnswerTells(r)'
    BY <1>0, <2>2, <2>3, StillTells DEF Sound, TypeOK
  <2>5. /\ http' \in [Requests -> Exchange] /\ OtherExchanges(r)
        /\ Sound(r)'
    BY <1>1, <2>1, <2>3, <2>4, AnswerSound
  <2>6. TypeOK'
    BY <1>0, <1>1, <2>2, <2>5 DEF TypeOK, Auth!TypeOK
  <2> QED BY <1>1, <2>3, <2>5, <2>6, OneExchangeMoves
<1>4. CASE /\ http[r].access # None /\ ~AccessValid(http[r].access)
           /\ http[r].refresh = None
  <2>1. Clear(r, "nothing", 401) /\ UNCHANGED authVars
    BY <1>4 DEF ServeApi
  <2>2. http[r].late \/ ~Usable(jar.refresh)
    BY <1>0, <1>1, <1>4 DEF Sound, Under, Usable
  <2> QED BY <1>1, <2>1, <2>2, CodesAndSayings, ClearStep DEF authVars
<1>5. CASE /\ http[r].access # None /\ ~AccessValid(http[r].access)
           /\ http[r].refresh # None
  <2>1. Goto(r, "renew") /\ Auth!CallRefresh(r, http[r].refresh)
    BY <1>5 DEF ServeApi, RefreshTokens
  <2>2. Auth!Call(r, "refresh", None, http[r].refresh, "pending")
    BY <2>1 DEF Auth!CallRefresh
  <2> QED BY <1>0, <1>1, <1>5, <2>1, <2>2, WaitStep
<1> QED BY <1>2, <1>3, <1>4, <1>5

LEMMA RenewedStep ==
  ASSUME IndInv, NEW r \in Requests, Renewed(r)
  PROVE  IndInv'
<1> DEFINE said == call[r].ans
<1>0. TypeOK /\ Sound(r) /\ call[r].tok \in Token
  BY InvariantParts DEF TypeOK, Auth!TypeOK, Token
<1>1. /\ http[r].pc = "renew" /\ said \notin {"idle", "pending"}
      /\ Auth!Return(r) /\ UNCHANGED <<lapsed, jar>>
  BY DEF Renewed
<1>2. Answer(r, said, 401, TRUE, None)
  BY DEF Renewed, Decoded, AccessValid, Clear
<1>3. /\ http[r].op = "api" /\ http[r].op \in Operations
      /\ call[r].op = "refresh" /\ call[r].tok = http[r].refresh
      /\ AnswerTells(r)
  BY <1>0, <1>1 DEF Sound, Under, Waiting, CallMatches, Operations
<1>4. said \in {"ok", "invalid", "internal"}
  BY <1>1, <1>3 DEF AnswerTells
<1>5. /\ Auth!TypeOK' /\ RowsGrow /\ OtherCalls(r)
      /\ UNCHANGED <<status, expired>> /\ call'[r].ans = "idle"
  BY <1>0, <1>1, CallReturned DEF TypeOK
<1>6. said = "internal" \/ http[r].late \/ ~Usable(jar.refresh)'
  <2> SUFFICES ASSUME said # "internal", ~http[r].late
               PROVE  ~Usable(jar.refresh)'
    OBVIOUS
  <2>1. jar.refresh = call[r].tok
    BY <1>0, <1>1, <1>3 DEF Sound, Under
  <2>2. status[call[r].tok] = "revoked" \/ call[r].tok \in expired
    BY <1>3, <1>4 DEF AnswerTells, Auth!Spent
  <2> QED BY <1>1, <1>5, <2>1, <2>2 DEF Usable
<1>7. IssuedAfter(None) /\ None \in Token
  BY DEF IssuedAfter, Token
<1>8. /\ http' \in [Requests -> Exchange] /\ OtherExchanges(r)
      /\ Sound(r)'
  <2> HIDE DEF said
  <2>1. said \in Sayings /\ 401 \in Codes
    BY <1>4, CodesAndSayings
  <2> QED BY <1>1, <1>2, <1>3, <1>5, <1>6, <1>7, <2>1, AnswerSound
<1>9. TypeOK'
  BY <1>0, <1>1, <1>5, <1>8 DEF TypeOK
<1> QED BY <1>1, <1>5, <1>8, <1>9, OneExchangeMoves

LEMMA RenewTimeoutStep ==
  ASSUME IndInv, NEW r \in Requests, RenewTimeout(r)
  PROVE  IndInv'
<1>1. http[r].op = "api" /\ http[r].op \in Operations
  BY InvariantParts DEF RenewTimeout, Sound, Under, Operations
<1>2. Clear(r, "unreachable", 401)
  BY DEF RenewTimeout
<1> QED BY <1>1, <1>2, CodesAndSayings, ClearStep DEF RenewTimeout, authVars

-----------------------------------------------------------------------------
(* The handlers of the auth service. *)

LEMMA CallAuthStep ==
  ASSUME IndInv, NEW r \in Requests, CallAuth(r)
  PROVE  IndInv'
<1>0. /\ TypeOK /\ Sound(r) /\ http[r] \in Exchange
      /\ http[r].refresh \in Token /\ None \in Token
  BY InvariantParts DEF TypeOK, Exchange, Token
<1>1. http[r].pc = "service" /\ UNCHANGED <<lapsed, jar>>
  BY DEF CallAuth
<1>2. ASSUME NEW u \in Users, Login(r, u) PROVE IndInv'
  <2>1. u # None
    BY NoneAssumption
  <2>2. /\ http[r].op = "login" /\ Goto(r, "auth")
        /\ Auth!Call(r, "login", u, None, "pending")
    BY <1>2, <2>1 DEF Login, Auth!CallLogin
  <2> QED BY <1>0, <1>1, <2>2, WaitStep
<1>3. CASE Refresh(r)
  <2>1. http[r].op = "refresh" /\ http[r].op \in Operations
    BY <1>3 DEF Refresh, Operations
  <2>2. CASE http[r].refresh = None
    <3>1. Keep(r, "nothing", 401) /\ UNCHANGED authVars
      BY <1>3, <2>2 DEF Refresh
    <3> QED BY <1>1, <2>1, <3>1, RefuseStep DEF authVars
  <2>3. CASE http[r].refresh # None
    <3>1. /\ Goto(r, "auth")
          /\ Auth!Call(r, "refresh", None, http[r].refresh, "pending")
      BY <1>3, <2>3 DEF Refresh, Auth!CallRefresh
    <3> QED BY <1>0, <1>1, <2>1, <2>3, <3>1, WaitStep
  <2> QED BY <2>2, <2>3
<1>4. CASE Logout(r)
  <2>1. http[r].op = "logout" /\ http[r].op \in Operations
    BY <1>4 DEF Logout, Operations
  <2>2. CASE http[r].access = None
    <3>1. Keep(r, "nothing", 401) /\ UNCHANGED authVars
      BY <1>4, <2>2 DEF Logout
    <3> QED BY <1>1, <2>1, <3>1, RefuseStep DEF authVars
  <2>3. CASE http[r].access # None /\ ~AccessValid(http[r].access)
    <3>1. Clear(r, "nothing", 401) /\ UNCHANGED authVars
      BY <1>4, <2>3 DEF Logout
    <3> QED BY <1>1, <2>1, <3>1, CodesAndSayings, ClearStep DEF authVars
  <2>4. CASE http[r].access # None /\ AccessValid(http[r].access)
    <3>1. http[r].refresh # None
      BY <1>0, <1>1, <2>4 DEF Sound, Under, Paired
    <3>2. Goto(r, "auth") /\ Auth!CallLogout(r, http[r].refresh, TRUE)
      BY <1>4, <2>4 DEF Logout
    <3>3. Auth!Call(r, "logout", None, http[r].refresh, "pending")
      BY <3>1, <3>2 DEF Auth!CallLogout
    <3> QED BY <1>0, <1>1, <2>1, <2>4, <3>1, <3>2, <3>3, WaitStep
  <2> QED BY <2>2, <2>3, <2>4
<1> QED BY <1>2, <1>3, <1>4 DEF CallAuth

LEMMA AuthAnswersStep ==
  ASSUME IndInv, NEW r \in Requests, AuthAnswers(r)
  PROVE  IndInv'
<1> DEFINE said == call[r].ans
           code == CodeOf(said)
           sets == http[r].op # "login" \/ said = "ok"
           pair == call[r].new
<1>0. /\ TypeOK /\ Sound(r)
      /\ call[r].tok \in Token /\ pair \in Token /\ http[r] \in Exchange
  BY InvariantParts DEF TypeOK, Auth!TypeOK, Token
<1>1. /\ http[r].pc = "auth" /\ said \notin {"idle", "pending"}
      /\ Answer(r, said, code, sets, pair)
      /\ Auth!Return(r) /\ UNCHANGED <<lapsed, jar>>
  BY DEF AuthAnswers
<1>2. /\ http[r].op \in {"login", "refresh", "logout"}
      /\ http[r].op \in Operations
      /\ call[r].op = http[r].op
      /\ call[r].op # "login" => call[r].tok = http[r].refresh
      /\ AnswerTells(r)
  BY <1>0, <1>1 DEF Sound, Under, Waiting, CallMatches, Operations
<1>3. /\ said \in {"ok", "unauthorized", "invalid", "internal"}
      /\ http[r].op = "login" => said \in {"ok", "unauthorized", "internal"}
      /\ http[r].op = "refresh" => said \in {"ok", "invalid", "internal"}
  BY <1>1, <1>2 DEF AnswerTells
<1>4. /\ said \in Sayings /\ code \in Codes /\ sets \in BOOLEAN
      /\ code = 200 => said = "ok"
  BY <1>3, CodesAndSayings DEF CodeOf
<1>5. /\ Auth!TypeOK' /\ RowsGrow /\ OtherCalls(r)
      /\ UNCHANGED <<status, expired>> /\ call'[r].ans = "idle"
  BY <1>0, <1>1, CallReturned DEF TypeOK
<1>6. IssuedAfter(pair)
  BY <1>2, <1>5 DEF AnswerTells, Issued, IssuedAfter
<1>7. ASSUME http[r].op = "logout", code = 200
      PROVE  http[r].access # None /\ status'[http[r].access] = "revoked"
  <2>1. http[r].access # None /\ http[r].access = call[r].tok
    BY <1>0, <1>1, <1>2, <1>7 DEF Sound, Under, Paired
  <2>2. status[call[r].tok] = "revoked"
    BY <1>2, <1>4, <1>7 DEF AnswerTells
  <2> QED BY <1>5, <2>1, <2>2
<1>8. ASSUME sets, pair = None
      PROVE  /\ http[r].op \in {"refresh", "logout", "api"}
             /\ \/ http[r].op = "logout" \/ said \in {"internal", "unreachable"}
                \/ http[r].late \/ ~Usable(jar.refresh)'
  <2>1. http[r].op \in {"refresh", "logout"}
    BY <1>2, <1>3, <1>8 DEF AnswerTells
  <2>2. CASE http[r].op = "refresh" /\ said # "internal" /\ ~http[r].late
    <3>1. said = "invalid" /\ Auth!Spent(call[r].tok)
      BY <1>2, <1>3, <1>8, <2>2 DEF AnswerTells
    <3>2. jar.refresh = call[r].tok
      BY <1>0, <1>1, <1>2, <2>2 DEF Sound, Under
    <3> QED BY <1>1, <1>5, <2>1, <3>1, <3>2 DEF Usable, Auth!Spent
  <2> QED BY <2>1, <2>2
<1>9. /\ http' \in [Requests -> Exchange] /\ OtherExchanges(r)
      /\ Sound(r)'
  <2> HIDE DEF said, code, sets, pair
  <2> QED BY <1>0, <1>1, <1>2, <1>4, <1>5, <1>6, <1>7, <1>8, AnswerSound
<1>10. TypeOK'
  BY <1>0, <1>1, <1>5, <1>9 DEF TypeOK
<1> QED BY <1>1, <1>5, <1>9, <1>10, OneExchangeMoves

LEMMA AbandonedStep ==
  ASSUME IndInv, NEW r \in Requests, Abandoned(r)
  PROVE  IndInv'
<1>0. TypeOK /\ Paired(jar) /\ Issued(jar.refresh)
  BY InvariantParts
<1>1. /\ Auth!TypeOK' /\ RowsGrow /\ OtherCalls(r)
      /\ UNCHANGED <<lapsed, jar, http, status>> /\ call'[r].ans = "idle"
  BY <1>0, CallReturned DEF TypeOK, Abandoned
<1>2. TypeOK' /\ Paired(jar)' /\ IssuedAfter(jar'.refresh)
  BY <1>0, <1>1 DEF TypeOK, Paired, Issued, IssuedAfter
<1>3. ASSUME NEW s \in Requests PROVE SameExchange(s) /\ SameCall(s)
  <2>1. SameExchange(s)
    BY <1>1 DEF SameExchange
  <2>2. CASE s = r
    BY <1>1, <2>1, <2>2 DEF SameCall
  <2>3. CASE s # r
    BY <1>0, <1>1, <2>1, <2>3, StillTells, InvariantParts
       DEF SameCall, OtherCalls, Sound, TypeOK
  <2> QED BY <2>2, <2>3
<1> QED BY <1>1, <1>2, <1>3, NobodyMoves

LEMMA AuthWorksStep ==
  ASSUME IndInv, NEW r \in Requests, AuthWorks(r)
  PROVE  IndInv'
<1>0. /\ TypeOK /\ Sound(r) /\ Paired(jar) /\ Issued(jar.refresh)
      /\ jar.refresh \in Token
  BY InvariantParts DEF TypeOK, Token
<1>1. Auth!Effect(r) /\ UNCHANGED <<lapsed, jar, http>>
  BY DEF AuthWorks
<1>2. call[r].ans # "idle" /\ AnswerTells(r)
  BY <1>0, <1>1 DEF Auth!Effect, Sound
<1>3. /\ Auth!TypeOK' /\ RowsGrow /\ OtherCalls(r) /\ AnswerTells(r)'
      /\ call'[r].op = call[r].op /\ call'[r].tok = call[r].tok
  BY <1>0, <1>1, <1>2, CallEffect DEF TypeOK
<1>4. TypeOK' /\ Paired(jar)' /\ IssuedAfter(jar'.refresh)
  BY <1>0, <1>1, <1>3, StillIssued DEF TypeOK, Paired
<1>5. ASSUME NEW s \in Requests PROVE SameExchange(s) /\ SameCall(s)
  <2>1. SameExchange(s)
    BY <1>1 DEF SameExchange
  <2>2. CASE s = r
    BY <1>2, <1>3, <2>1, <2>2 DEF SameCall
  <2>3. CASE s # r
    BY <1>0, <1>3, <2>1, <2>3, StillTells, InvariantParts
       DEF SameCall, OtherCalls, Sound, TypeOK
  <2> QED BY <2>2, <2>3
<1> QED BY <1>1, <1>3, <1>4, <1>5, NobodyMoves

-----------------------------------------------------------------------------
(* A restart of the auth service, and time. *)

LEMMA CrashStep ==
  ASSUME IndInv, AuthCrash
  PROVE  IndInv'
<1>0. TypeOK /\ Paired(jar) /\ Issued(jar.refresh)
  BY InvariantParts
<1>1. /\ UNCHANGED <<accounts, status, owner, expired, lapsed, jar, http>>
      /\ call' = [r \in Requests |-> Auth!NoCall]
  BY DEF AuthCrash, Auth!Crash, Auth!rows
<1>2. TypeOK' /\ RowsGrow
  BY <1>0, <1>1, NoCallTyped, RowsStay DEF TypeOK, Auth!TypeOK, CallRecord
<1>3. ASSUME NEW s \in Requests PROVE SameExchange(s) /\ SameCall(s)
  BY <1>1, NoCallTyped DEF SameExchange, SameCall
<1>4. Paired(jar)' /\ IssuedAfter(jar'.refresh)
  BY <1>0, <1>1 DEF Paired, Issued, IssuedAfter
<1> QED BY <1>1, <1>2, <1>3, <1>4, NobodyMoves

LEMMA TimeStep ==
  ASSUME IndInv, NEW j \in Jti, Lapse(j) \/ Expire(j)
  PROVE  IndInv'
<1>0. TypeOK /\ Paired(jar) /\ Issued(jar.refresh)
  BY InvariantParts
<1>1. /\ UNCHANGED <<accounts, status, owner, call, jar, http>>
      /\ lapsed \subseteq lapsed' /\ lapsed' \subseteq Jti
      /\ expired \subseteq expired' /\ expired' \subseteq Jti
  BY <1>0 DEF Lapse, Expire, Auth!Expire, authVars, TypeOK, Auth!TypeOK
<1>2. TypeOK' /\ RowsGrow
  BY <1>0, <1>1 DEF TypeOK, Auth!TypeOK, RowsGrow
<1>3. ASSUME NEW s \in Requests PROVE SameExchange(s) /\ SameCall(s)
  BY <1>0, <1>1, <1>2, StillTells, InvariantParts
     DEF SameExchange, SameCall, Sound, TypeOK
<1>4. Paired(jar)' /\ IssuedAfter(jar'.refresh)
  BY <1>0, <1>1 DEF Paired, Issued, IssuedAfter
<1> QED BY <1>1, <1>2, <1>3, <1>4, NobodyMoves

LEMMA StutterStep ==
  ASSUME IndInv, UNCHANGED vars
  PROVE  IndInv'
<1>0. TypeOK /\ Paired(jar) /\ Issued(jar.refresh)
  BY InvariantParts
<1>1. UNCHANGED <<accounts, status, owner, expired, call, lapsed, jar, http>>
  BY DEF vars, authVars
<1>2. TypeOK' /\ RowsGrow
  BY <1>0, <1>1 DEF TypeOK, Auth!TypeOK, RowsGrow
<1>3. ASSUME NEW s \in Requests PROVE SameExchange(s) /\ SameCall(s)
  BY <1>0, <1>1, <1>2, StillTells, InvariantParts
     DEF SameExchange, SameCall, Sound, TypeOK
<1>4. Paired(jar)' /\ IssuedAfter(jar'.refresh)
  BY <1>0, <1>1 DEF Paired, Issued, IssuedAfter
<1> QED BY <1>1, <1>2, <1>3, <1>4, NobodyMoves

LEMMA InitInv == Init => IndInv
<1> SUFFICES ASSUME Init PROVE IndInv
    OBVIOUS
<1>1. /\ accounts \in [Users -> {0, 1}]
      /\ status = [j \in Jti |-> "absent"] /\ owner = [j \in Jti |-> None]
      /\ expired = {} /\ call = [r \in Requests |-> Auth!NoCall]
      /\ lapsed = {} /\ jar = [access |-> None, refresh |-> None]
      /\ http = [r \in Requests |-> NoExchange]
  BY DEF Init, Auth!Init
<1>2. TypeOK
  BY <1>1, NoCallTyped, NoExchangeTyped DEF TypeOK, Auth!TypeOK, CallRecord
<1>3. Paired(jar) /\ Issued(jar.refresh)
  BY <1>1 DEF Paired, Issued
<1>4. ASSUME NEW r \in Requests PROVE Sound(r)
  <2>1. http[r] = NoExchange /\ call[r].ans = "idle"
    BY <1>1, NoCallTyped
  <2> QED BY <2>1, NoExchangeTyped
          DEF Sound, Under, Answered, Acked, Excused, Waiting, DropsSession,
              Paired, Issued
<1> QED BY <1>2, <1>3, <1>4, InvariantParts

LEMMA InvStep == IndInv /\ [Next]_vars => IndInv'
<1> SUFFICES ASSUME IndInv, [Next]_vars PROVE IndInv'
    OBVIOUS
<1>1. ASSUME NEW r \in Requests, Handle(r) PROVE IndInv'
  BY <1>1, GatewayStep, ServeApiStep, RenewedStep, RenewTimeoutStep,
     CallAuthStep, AuthAnswersStep DEF Handle
<1>2. ASSUME NEW r \in Requests, NEW op \in Operations, Send(r, op)
      PROVE  IndInv'
  BY <1>2, SendStep
<1>3. ASSUME NEW r \in Requests,
             AuthWorks(r) \/ Abandoned(r) \/ Deliver(r) \/ Cut(r)
      PROVE  IndInv'
  BY <1>3, AuthWorksStep, AbandonedStep, DeliverStep, CutStep
<1>4. CASE Forget \/ AuthCrash
  BY <1>4, ForgetStep, CrashStep
<1>5. ASSUME NEW j \in Jti, Lapse(j) \/ Expire(j) PROVE IndInv'
  BY <1>5, TimeStep
<1>6. CASE UNCHANGED vars
  BY <1>6, StutterStep
<1> QED BY <1>1, <1>2, <1>3, <1>4, <1>5, <1>6 DEF Next

(* The invariant of the session: the cookies of a jar and of a request are of
   one pair, an answer of the auth service tells how the token is, and an
   exchange nobody has outrun carries the browser's refresh token. *)
THEOREM Invariance == Spec => []IndInv
<1> QED BY InitInv, InvStep, PTL DEF Spec

(* A logout answered 200 has revoked the refresh token of the pair whose access
   token let it in, however cookies and answers are lost, late or reordered. *)
THEOREM LogoutsRevoke == Spec => []AckedLogoutDead
<1>1. IndInv => AckedLogoutDead
  BY DEF IndInv
<1> QED BY <1>1, Invariance, PTL

(* An answer that deletes a usable refresh token is that of a logout, of a
   failure inside the auth service or on the way to it, or of a request the
   browser has outrun. *)
THEOREM SessionsAreDroppedForAReason == Spec => []UsableDroppedOnlyIfExcused
<1>1. IndInv => UsableDroppedOnlyIfExcused
  BY DEF IndInv
<1> QED BY <1>1, Invariance, PTL
===============================================================================
