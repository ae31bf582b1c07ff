-------------------------------- MODULE Session --------------------------------
(***************************************************************************)
(* One browser, the gateway, a service behind it and the auth service: who *)
(* sends, replaces and deletes the cookies accessToken and refreshToken.   *)
(*                                                                         *)
(* The auth service is AtomicAuth, which AuthService implements: call[r]   *)
(* is the call made on behalf of exchange r, by the gateway's proxy or by  *)
(* the auto-refresh middleware of a service.  The database behind it keeps *)
(* the rows "status", "owner" and "expired".                               *)
(*                                                                         *)
(* Both tokens of a pair are named by the jti of the refresh token.  The   *)
(* access token of a pair lapses (15 minutes) before the refresh token     *)
(* expires (7 days).  What never touches these cookies is left out:        *)
(* registration, a login without username or password, and the CSRF check, *)
(* which turns a request away before anything here sees it (module Csrf).  *)
(***************************************************************************)
EXTENDS Naturals

CONSTANTS Users, Jti, Requests, None

ASSUME NoneAssumption == None \notin Users \cup Jti \cup Requests

VARIABLES
  accounts, status, owner, expired, call,   \* the auth service
  lapsed,     \* pairs whose access token is past its lifetime
  jar,        \* the two cookies of the browser
  http        \* the exchanges between the browser and the gateway

authVars == <<accounts, status, owner, expired, call>>
vars == <<authVars, lapsed, jar, http>>

Auth == INSTANCE AtomicAuth

(***************************************************************************)
(* An exchange: the cookies it was sent with, what the auth service said   *)
(* to it (said), and its answer: the status code, whether it sets both     *)
(* cookies (sets) and to which pair (None deletes them).                   *)
(* History: "good", the access token of a request to the shop's services   *)
(* was valid when it was sent; "late", the browser's cookies were replaced *)
(* since a refresh or such a request was sent.                             *)
(***************************************************************************)
Operations == {"login", "refresh", "logout", "api"}

Sayings == {"nothing", "ok", "unauthorized", "invalid", "internal",
            "unreachable"}

Places == {"idle", "gateway", "service", "auth", "renew", "answered"}

Codes == {0, 200, 401, 500}

Exchange == [pc: Places,
             op: Operations \cup {"none"},
             access: Jti \cup {None}, refresh: Jti \cup {None},
             said: Sayings, code: Codes,
             sets: BOOLEAN, pair: Jti \cup {None},
             good: BOOLEAN, late: BOOLEAN]

NoExchange == [pc |-> "idle", op |-> "none", access |-> None, refresh |-> None,
               said |-> "nothing", code |-> 0, sets |-> FALSE, pair |-> None,
               good |-> FALSE, late |-> FALSE]

TypeOK ==
  /\ Auth!TypeOK
  /\ lapsed \subseteq Jti
  /\ jar \in [access: Jti \cup {None}, refresh: Jti \cup {None}]
  /\ http \in [Requests -> Exchange]

Init ==
  /\ Auth!Init
  /\ lapsed = {}
  /\ jar = [access |-> None, refresh |-> None]
  /\ http = [r \in Requests |-> NoExchange]

-----------------------------------------------------------------------------
(* Answers: they keep the cookies, delete them or set a new pair.  Of the   *)
(* cookies of the request only the access token of a logout is still wanted, *)
(* by AckedLogoutDead.                                                      *)

Answer(r, said, code, sets, pair) ==
  http' = [http EXCEPT ![r] =
    [@ EXCEPT !.pc = "answered", !.said = said, !.code = code,
              !.sets = sets, !.pair = pair, !.refresh = None,
              !.access = IF http[r].op = "logout" THEN http[r].access
                                                  ELSE None]]

Keep(r, said, code)  == Answer(r, said, code, FALSE, None)
Clear(r, said, code) == Answer(r, said, code, TRUE, None)

Goto(r, label) == http' = [http EXCEPT ![r].pc = label]

(* An access token a service or the gateway accepts. *)
AccessValid(j) == j # None /\ j \notin lapsed

-----------------------------------------------------------------------------
(* The browser. *)

(* Nothing looks at the cookies a login is sent with, nor at the access token
   beside the refresh token of /refresh. *)
Send(r, op) ==
  /\ http[r].pc = "idle" /\ call[r].ans = "idle"
  /\ http' = [http EXCEPT ![r] =
       [NoExchange EXCEPT !.pc = IF op = "api" THEN "gateway" ELSE "service",
          !.op = op,
          !.access  = IF op \in {"login", "refresh"} THEN None ELSE jar.access,
          !.refresh = IF op = "login" THEN None ELSE jar.refresh,
          !.good = op = "api" /\ AccessValid(jar.access)]]
  /\ UNCHANGED <<authVars, lapsed, jar>>

(* The exchanges in flight carry cookies the browser no longer has. *)
Outdate(exchanges) ==
  [s \in Requests |->
     [exchanges[s] EXCEPT !.late = @ \/ exchanges[s].op \in {"refresh", "api"}]]

Deliver(r) ==
  LET ended == [http EXCEPT ![r] = NoExchange] IN
  /\ http[r].pc = "answered"
  /\ IF http[r].sets
       THEN /\ jar' = [access |-> http[r].pair, refresh |-> http[r].pair]
            /\ http' = Outdate(ended)
       ELSE http' = ended /\ UNCHANGED jar
  /\ UNCHANGED <<authVars, lapsed>>

(* The connection breaks, the user leaves the page or a container on the way
   restarts: the browser sees no answer, or a 502 without cookies. *)
Cut(r) ==
  /\ http[r].pc # "idle"
  /\ http' = [http EXCEPT ![r] = NoExchange]
  /\ UNCHANGED <<authVars, lapsed, jar>>

(* A cookie's Expires is that of its token; by its own clock the browser
   drops the access cookie alone, or both. *)
Forget ==
  /\ \/ jar.access \in lapsed /\ jar' = [jar EXCEPT !.access = None]
     \/ jar.refresh \in expired /\ jar' = [access |-> None, refresh |-> None]
  /\ http' = Outdate(http)
  /\ UNCHANGED <<authVars, lapsed>>

-----------------------------------------------------------------------------
(* The gateway checks the access token in front of the shop's services and  *)
(* leaves the cookies alone; /login, /refresh and /logout go straight to    *)
(* the auth service.                                                        *)

(* The request goes on to the service with the cookies it came with. *)
Proxy(r) == Goto(r, "service")

(* Mutant of Gateway: a lapsed token deletes the cookies, as in the services. *)
Gateway_ClearsCookies(r) ==
  /\ http[r].pc = "gateway"
  /\ IF AccessValid(http[r].access)
       THEN Proxy(r)
       ELSE Clear(r, "nothing", 401)
  /\ UNCHANGED <<authVars, lapsed, jar>>

(* Mutant of Gateway: it looks for the cookie and leaves its lifetime to the
   services. *)
Gateway_PresenceOnly(r) ==
  /\ http[r].pc = "gateway"
  /\ IF http[r].access # None
       THEN Proxy(r)
       ELSE Keep(r, "nothing", 401)
  /\ UNCHANGED <<authVars, lapsed, jar>>

Gateway(r) ==
  /\ http[r].pc = "gateway"
  /\ IF AccessValid(http[r].access)
       THEN Proxy(r)
       ELSE Keep(r, "nothing", 401)
  /\ UNCHANGED <<authVars, lapsed, jar>>

-----------------------------------------------------------------------------
(* RequireAuth of cart, catalog and order: a lapsed access token is renewed *)
(* through the auth service, then the handler runs.                         *)

(* The middleware's client posts the refresh token to the auth service. *)
RefreshTokens(r) == Goto(r, "renew") /\ Auth!CallRefresh(r, http[r].refresh)

ServeApi(r) ==
  /\ http[r].pc = "service" /\ http[r].op = "api"
  /\ IF http[r].access = None
       THEN Keep(r, "nothing", 401) /\ UNCHANGED authVars
     ELSE IF AccessValid(http[r].access)
       THEN Keep(r, "nothing", 200) /\ UNCHANGED authVars
     ELSE IF http[r].refresh = None
       THEN Clear(r, "nothing", 401) /\ UNCHANGED authVars
       ELSE RefreshTokens(r)
  /\ UNCHANGED <<lapsed, jar>>

(* The pair the client makes of the answer of /refresh.  The auth service
   encodes LoginResult under the names of its fields (AccessToken, ...), the
   client decodes access_token, ...: no field is found, and every one is left
   empty. *)
Decoded(j) == None

(* What the middleware does with the answer it waited for.  An access token
   it cannot parse deletes the cookies it has just set. *)
Renewed(r) ==
  LET said == call[r].ans
      pair == Decoded(call[r].new) IN
  /\ http[r].pc = "renew"
  /\ said \notin {"idle", "pending"}
  /\ IF said = "ok" /\ AccessValid(pair)
       THEN Answer(r, said, 200, TRUE, pair)
       ELSE Clear(r, said, 401)
  /\ Auth!Return(r)
  /\ UNCHANGED <<lapsed, jar>>

(* Five seconds without an answer, or a connection that fails: the auth
   service may go on with the call. *)
RenewTimeout(r) ==
  /\ http[r].pc = "renew"
  /\ Clear(r, "unreachable", 401)
  /\ UNCHANGED <<authVars, lapsed, jar>>

-----------------------------------------------------------------------------
(* The HTTP handlers of the auth service around its calls. *)

Login(r, u) ==
  /\ http[r].op = "login"
  /\ Goto(r, "auth")
  /\ Auth!CallLogin(r, u)

(* Without a refresh cookie the handler answers at once. *)
Refresh(r) ==
  /\ http[r].op = "refresh"
  /\ IF http[r].refresh = None
       THEN Keep(r, "nothing", 401) /\ UNCHANGED authVars
       ELSE Goto(r, "auth") /\ Auth!CallRefresh(r, http[r].refresh)

(* SimpleAuth first: no access token, one it refuses, or the handler. *)
Logout(r) ==
  /\ http[r].op = "logout"
  /\ IF http[r].access = None
       THEN Keep(r, "nothing", 401) /\ UNCHANGED authVars
     ELSE IF ~AccessValid(http[r].access)
       THEN Clear(r, "nothing", 401) /\ UNCHANGED authVars
       ELSE Goto(r, "auth") /\ Auth!CallLogout(r, http[r].refresh, TRUE)

CallAuth(r) ==
  /\ http[r].pc = "service"
  /\ (\E u \in Users : Login(r, u)) \/ Refresh(r) \/ Logout(r)
  /\ UNCHANGED <<lapsed, jar>>

(* Mutant of CodeOf: the handler ignores the error of the service. *)
CodeOf_ErrorIgnored(ans) ==
  CASE ans \in {"ok", "internal"}            -> 200
    [] ans \in {"unauthorized", "invalid"}   -> 401

CodeOf(ans) ==
  CASE ans = "ok"                            -> 200
    [] ans \in {"unauthorized", "invalid"}   -> 401
    [] ans = "internal"                      -> 500

(* Login sets cookies when it succeeds; Refresh sets or deletes them; LogOut
   deletes them, also when it fails. *)
AuthAnswers(r) ==
  LET ans == call[r].ans IN
  /\ http[r].pc = "auth"
  /\ ans \notin {"idle", "pending"}
  /\ Answer(r, ans, CodeOf(ans), http[r].op # "login" \/ ans = "ok", call[r].new)
  /\ Auth!Return(r)
  /\ UNCHANGED <<lapsed, jar>>

(* Nobody waits for the answer of this call any more. *)
Abandoned(r) ==
  /\ http[r].pc \notin {"auth", "renew"}
  /\ Auth!Return(r)
  /\ UNCHANGED <<lapsed, jar, http>>

-----------------------------------------------------------------------------
(* The auth service on its own, and time. *)

AuthWorks(r) == Auth!Effect(r) /\ UNCHANGED <<lapsed, jar, http>>

(* Restart of the auth service: the proxy answers 502 (Cut), the middleware
   sees an error (RenewTimeout). *)
AuthCrash ==
  /\ \E r \in Requests : call[r].ans # "idle"
  /\ Auth!Crash
  /\ UNCHANGED <<lapsed, jar, http>>

Lapse(j) ==
  /\ status[j] # "absent" /\ j \notin lapsed
  /\ lapsed' = lapsed \cup {j}
  /\ UNCHANGED <<authVars, jar, http>>

Expire(j) ==
  /\ j \in lapsed /\ j \notin expired
  /\ Auth!Expire(j)
  /\ UNCHANGED <<lapsed, jar, http>>

Handle(r) ==
  Gateway(r) \/ ServeApi(r) \/ Renewed(r) \/ RenewTimeout(r) \/ CallAuth(r)
    \/ AuthAnswers(r)

Next ==
  \/ \E r \in Requests :
       \/ \E op \in Operations : Send(r, op)
       \/ Handle(r) \/ AuthWorks(r) \/ Abandoned(r)
       \/ Deliver(r) \/ Cut(r)
  \/ Forget
  \/ AuthCrash
  \/ \E j \in Jti : Lapse(j) \/ Expire(j)

Spec == Init /\ [][Next]_vars

-----------------------------------------------------------------------------
(* Properties. *)

(* A logout answered 200 has revoked the refresh token of the very pair whose
   access token let it in (LogOut and SimpleAuth of the auth service), with
   the cookies sent, lost and replaced in any order. *)
AckedLogoutDead ==
  \A r \in Requests :
    http[r].op = "logout" /\ http[r].code = 200 =>
      /\ http[r].access # None
      /\ status[http[r].access] = "revoked"

Usable(j) == j # None /\ status[j] = "live" /\ j \notin expired

(* An answer that deletes a refresh token still usable is that of a logout,
   of a failure inside the auth service or on the way to it, or of a request
   sent before the browser got the token: a browser that waits for its
   answers never loses a session because a token was refused. *)
DropsSession(r) ==
  http[r].pc = "answered" /\ http[r].sets /\ http[r].pair = None

DropIsExcused(r) ==
  \/ http[r].op = "logout"
  \/ http[r].said \in {"internal", "unreachable"}
  \/ http[r].late

UsableDroppedOnlyIfExcused ==
  \A r \in Requests :
    DropsSession(r) /\ Usable(jar.refresh) => DropIsExcused(r)

(***************************************************************************)
(* The inductive invariant behind the two.  The two cookies of a jar, and  *)
(* of a request, are of one pair; a call under way is the one its exchange *)
(* made; an answer of the auth service tells how the token is; an exchange *)
(* behind the gateway was sent with a good access token (so a renewal is   *)
(* of a token that lapsed on the way); and as long as it is not late, an   *)
(* exchange carries the browser's refresh token.                           *)
(***************************************************************************)
Paired(cookies) == cookies.access # None => cookies.access = cookies.refresh

Issued(j) == j # None => status[j] # "absent"

Waiting(r) == http[r].pc \in {"auth", "renew"} /\ call[r].ans # "idle"

CallMatches(r) ==
  /\ call[r].op = IF http[r].pc = "renew" THEN "refresh" ELSE http[r].op
  /\ call[r].op # "login" => call[r].tok = http[r].refresh

AnswerTells(r) ==
  LET c == call[r] IN
  /\ Issued(c.new) /\ Issued(c.tok)
  /\ c.op \in {"refresh", "logout"} => c.tok # None
  /\ c.op = "login" => c.ans \in {"pending", "ok", "unauthorized", "internal"}
  /\ c.op = "refresh" => c.ans \in {"pending", "ok", "invalid", "internal"}
  /\ c.op = "logout" => c.ans \in {"pending", "ok", "internal"}
  /\ c.op \in {"login", "refresh"} /\ c.ans = "ok" => c.new # None
  /\ c.op \in {"refresh", "logout"} /\ c.ans = "ok" => status[c.tok] = "revoked"
  /\ c.op = "refresh" /\ c.ans = "invalid" => Auth!Spent(c.tok)

Under(r) ==
  LET x == http[r] IN
  /\ x.pc = "gateway" => x.op = "api" /\ (AccessValid(x.access) => x.good)
  /\ x.pc = "service" => x.op \in Operations /\ (x.op = "api" => x.good)
  /\ x.pc = "auth" => x.op \in {"login", "refresh", "logout"}
  /\ x.pc = "renew" => x.op = "api" /\ x.good
  /\ x.pc = "renew" \/ (x.pc = "auth" /\ x.op = "refresh") => x.refresh # None
  /\ x.pc = "auth" /\ x.op = "logout" => x.access # None
  /\ x.pc # "answered" =>
       /\ x.code = 0 /\ Paired(x) /\ Issued(x.refresh)
       /\ x.op \in {"refresh", "api"} /\ ~x.late => x.refresh = jar.refresh

Answered(r) ==
  /\ Issued(http[r].pair)
  /\ DropsSession(r) => http[r].op \in {"refresh", "logout", "api"}

IndInv ==
  /\ TypeOK
  /\ Paired(jar) /\ Issued(jar.refresh)
  /\ \A r \in Requests :
       /\ Under(r) /\ Answered(r)
       /\ call[r].ans # "idle" => AnswerTells(r)
       /\ Waiting(r) => CallMatches(r)
  /\ AckedLogoutDead /\ UsableDroppedOnlyIfExcused

-----------------------------------------------------------------------------
(* What the repository says and the code does not do. *)

(* readme.md says of the auto-refresh middleware that it renews the tokens by
   the refresh token and goes on with the request: once the auth service has
   rotated the pair, the request is served. *)
AutoRefreshContinues ==
  \A r \in Requests :
    http[r].op = "api" /\ http[r].said = "ok" => http[r].code = 200

(* ... and when a request comes with an expired access token and a refresh
   token that is still good, that token is tried: the request is not answered
   where it came in (gateway/internal/middleware/jwt.go). *)
ExpiredTokenIsRenewed ==
  [][\A r \in Requests :
       http[r].pc = "gateway" /\ http[r].access \in lapsed
         /\ Usable(http[r].refresh)
         => http'[r].pc # "answered"]_vars
===============================================================================
