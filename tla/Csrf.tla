---------------------------------- MODULE Csrf ----------------------------------
(***************************************************************************)
(* The CSRF middleware of the gateway (pkg/middleware/csrf): one browser   *)
(* with several pages open, whose requests carry the cookie XSRF-TOKEN and *)
(* repeat in the header X-CSRF-Token what the page knows of it.            *)
(*                                                                         *)
(* The middleware keeps no state.  A request without the cookie is given a *)
(* new token, and every answer sets the cookie again, so answers that      *)
(* arrive out of order may put back a token the browser had replaced.      *)
(*                                                                         *)
(* A request to one of SkipPaths passes untouched and is left out.         *)
(***************************************************************************)
CONSTANTS Pages, Requests, Tokens, None

ASSUME NoneAssumption == None \notin Tokens

VARIABLES
  cookie,   \* XSRF-TOKEN of the browser
  page,     \* the token each page would send
  request,  \* the requests in flight
  split     \* history: tokens may have been minted side by side

vars == <<cookie, page, request, split>>

(***************************************************************************)
(* A request: the page it belongs to, "own" when its Origin (or Referer)   *)
(* is the shop's, the cookie and the header it was sent with; then the     *)
(* verdict and the token its answer sets.                                  *)
(***************************************************************************)
Verdicts == {"none", "passed", "forbidden", "internal"}

Request == [pc: {"idle", "sent", "answered"}, safe: BOOLEAN, own: BOOLEAN,
            page: Pages \cup {None}, cookie: Tokens \cup {None},
            header: Tokens \cup {None}, verdict: Verdicts,
            token: Tokens \cup {None}]

NoRequest == [pc |-> "idle", safe |-> TRUE, own |-> FALSE, page |-> None,
              cookie |-> None, header |-> None, verdict |-> "none",
              token |-> None]

TypeOK ==
  /\ cookie \in Tokens \cup {None}
  /\ page \in [Pages -> Tokens \cup {None}]
  /\ request \in [Requests -> Request]
  /\ split \in BOOLEAN

Init ==
  /\ cookie = None
  /\ page = [p \in Pages |-> None]
  /\ request = [r \in Requests |-> NoRequest]
  /\ split = FALSE

-----------------------------------------------------------------------------
(* The browser. *)

InFlight(r) == request[r].pc # "idle"

(* The token the answer of a request sets, as far as the request decides it. *)
Carried(r) == IF request[r].pc = "sent" THEN request[r].cookie
                                        ELSE request[r].token

(* GET, HEAD and OPTIONS are safe; only the shop's own pages have a token to
   send, and send it with the other methods.  The cookie is SameSite=Lax: with
   an unsafe method another site's page sends it only from the same site.
   Requests whose answer could set no cookie either are left out. *)
Sendable(safe, own) == IF safe \/ own THEN {cookie} ELSE {cookie, None}

Send(r, p, safe, own) ==
  \E sent \in Sendable(safe, own) :
    /\ request[r].pc = "idle"
    /\ request' = [request EXCEPT ![r] =
         [NoRequest EXCEPT !.pc = "sent", !.safe = safe, !.own = own,
            !.page = p, !.cookie = sent,
            !.header = IF own /\ ~safe THEN page[p] ELSE None]]
    /\ split' = \/ split
                \/ sent = None /\ \/ cookie # None
                                  \/ \E s \in Requests : InFlight(s)
    /\ UNCHANGED <<cookie, page>>

(* The cookie of the answer is stored; a page of the shop takes the token from
   the header of the answer to its safe request. *)
Deliver(r) ==
  LET answer == request[r] IN
  /\ answer.pc = "answered"
  /\ cookie' = IF answer.token # None THEN answer.token ELSE cookie
  /\ page' = IF answer.safe /\ answer.own /\ answer.token # None
               THEN [page EXCEPT ![answer.page] = answer.token]
               ELSE page
  /\ request' = [request EXCEPT ![r] = NoRequest]
  /\ UNCHANGED split

(* The browser sees no answer. *)
Cut(r) ==
  /\ InFlight(r)
  /\ request' = [request EXCEPT ![r] = NoRequest]
  /\ UNCHANGED <<cookie, page, split>>

(* The cookie is not HttpOnly: a page may read it. *)
ReadCookie(p) ==
  /\ cookie # None
  /\ page' = [page EXCEPT ![p] = cookie]
  /\ UNCHANGED <<cookie, request, split>>

(* MaxAge, a day after the last answer, or the user's hand. *)
DropCookie ==
  /\ cookie # None
  /\ cookie' = None
  /\ split' = TRUE
  /\ UNCHANGED <<page, request>>

-----------------------------------------------------------------------------
(* The middleware. *)

Answer(r, verdict, token) ==
  request' = [request EXCEPT ![r] =
    [@ EXCEPT !.pc = "answered", !.verdict = verdict, !.token = token]]

(* A token nobody has: 32 random bytes never repeat one. *)
Fresh(t) ==
  /\ t # cookie
  /\ \A p \in Pages : page[p] # t
  /\ \A r \in Requests : t \notin {request[r].cookie, request[r].header,
                                   request[r].token}

(* A page without a token sends an empty header, which matches nothing. *)
SecureCompare(token, header) == token = header

(* Mutant of TokenFor: the token is renewed with every request. *)
TokenFor_Rotating(r, t) == Fresh(t)

(* The token a request is checked against: its cookie, or a new one. *)
TokenFor(r, t) ==
  IF request[r].cookie # None THEN t = request[r].cookie ELSE Fresh(t)

(* Mutant of Verdict: the token is looked for in the form only. *)
Verdict_FormOnly(r, t) ==
  IF request[r].safe THEN "passed" ELSE "forbidden"

Verdict(r, t) ==
  IF request[r].safe \/ (request[r].own /\ SecureCompare(t, request[r].header))
    THEN "passed"
    ELSE "forbidden"

(* Passed on or refused, the answer sets the cookie. *)
Check(r) ==
  /\ request[r].pc = "sent"
  /\ \E t \in Tokens : TokenFor(r, t) /\ Answer(r, Verdict(r, t), t)
  /\ UNCHANGED <<cookie, page, split>>

(* No random bytes for a new token: 500, and no cookie. *)
MintFails(r) ==
  /\ request[r].pc = "sent"
  /\ request[r].cookie = None
  /\ Answer(r, "internal", None)
  /\ UNCHANGED <<cookie, page, split>>

Next ==
  \/ \E r \in Requests :
       \/ \E p \in Pages, safe, own \in BOOLEAN : Send(r, p, safe, own)
       \/ Check(r) \/ MintFails(r) \/ Deliver(r) \/ Cut(r)
  \/ \E p \in Pages : ReadCookie(p)
  \/ DropCookie

Spec == Init /\ [][Next]_vars

-----------------------------------------------------------------------------
(* Properties. *)

(* A page of the shop that sends a token is refused only after tokens were
   minted side by side: a request without a cookie was sent while others were
   in flight or the browser had one, or the cookie was dropped.  Answers may be
   lost or arrive in any order. *)
RefusedOnlyAfterSplit ==
  \A r \in Requests :
    /\ request[r].verdict = "forbidden"
    /\ request[r].own /\ request[r].header # None
    => split

(* The browser, a page and every request in flight carry one token. *)
Agreed(p) ==
  /\ cookie # None /\ page[p] = cookie
  /\ \A r \in Requests : InFlight(r) => Carried(r) = cookie

(* However the tokens came apart, once they agree they stay agreed until the
   cookie is dropped or another site sends a request without it: the middleware
   brings no second token in. *)
Foreign(r) ==
  request[r].pc = "sent" /\ request[r].cookie = None /\ ~request[r].own

AgreementLasts ==
  [][\A p \in Pages :
       Agreed(p) => Agreed(p)' \/ cookie' = None
                       \/ \E r \in Requests : Foreign(r)']_vars

(***************************************************************************)
(* The inductive invariant behind the first one: until tokens are minted   *)
(* side by side, pages and requests know the browser's token or none, and  *)
(* the request that is to bring the first one is alone in flight.          *)
(***************************************************************************)
Follows(r) ==
  /\ request[r].cookie = cookie
  /\ request[r].header \in {None, cookie}
  /\ cookie # None => request[r].token \in {None, cookie}
  /\ cookie = None => \A s \in Requests : InFlight(s) => s = r

OneToken ==
  /\ \A p \in Pages : page[p] \in {None, cookie}
  /\ \A r \in Requests : InFlight(r) => Follows(r)

IndInv ==
  /\ TypeOK
  /\ RefusedOnlyAfterSplit
  /\ ~split => OneToken
===============================================================================
