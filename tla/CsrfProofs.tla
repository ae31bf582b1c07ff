------------------------------ MODULE CsrfProofs ------------------------------
(***************************************************************************)
(* Proofs about the CSRF middleware, for any number of pages, requests and *)
(* tokens.                                                                 *)
(***************************************************************************)
EXTENDS Csrf, TLAPS

LEMMA NoRequestTyped ==
  /\ NoRequest \in Request
  /\ NoRequest.pc = "idle" /\ NoRequest.verdict = "none"
BY DEF NoRequest, Request, Verdicts

Others(r) == \A s \in Requests : s # r => request'[s] = request[s]

(* The request a page or another site sends. *)
LEMMA SendFields ==
  ASSUME TypeOK, NEW r \in Requests, NEW p \in Pages, NEW safe \in BOOLEAN,
         NEW own \in BOOLEAN, Send(r, p, safe, own)
  PROVE  /\ Others(r) /\ request' \in [Requests -> Request]
         /\ request[r].pc = "idle" /\ request'[r].pc = "sent"
         /\ request'[r].own = own /\ request'[r].verdict = "none"
         /\ request'[r].token = None
         /\ request'[r].cookie \in {cookie, None}
         /\ own => request'[r].cookie = cookie
         /\ \E q \in Pages : request'[r].header \in {page[q], None}
         /\ UNCHANGED <<cookie, page>>
         /\ ~split' => /\ ~split /\ request'[r].cookie = cookie
                       /\ cookie = None => \A s \in Requests : ~InFlight(s)
<1>1. PICK sent \in Sendable(safe, own) :
        /\ request[r].pc = "idle"
        /\ request' = [request EXCEPT ![r] =
             [NoRequest EXCEPT !.pc = "sent", !.safe = safe, !.own = own,
                !.page = p, !.cookie = sent,
                !.header = IF own /\ ~safe THEN page[p] ELSE None]]
        /\ split' = \/ split
                    \/ sent = None /\ \/ cookie # None
                                      \/ \E s \in Requests : InFlight(s)
        /\ UNCHANGED <<cookie, page>>
  BY DEF Send
<1> DEFINE header == IF own /\ ~safe THEN page[p] ELSE None
           q == [NoRequest EXCEPT !.pc = "sent", !.safe = safe, !.own = own,
                   !.page = p, !.cookie = sent, !.header = header]
<1>2. /\ sent \in {cookie, None} /\ (own => sent = cookie)
      /\ header \in {page[p], None}
      /\ sent \in Tokens \cup {None} /\ header \in Tokens \cup {None}
  BY <1>1 DEF Sendable, TypeOK
<1> HIDE DEF header
<1>3. /\ q \in Request /\ q.pc = "sent" /\ q.own = own /\ q.verdict = "none"
      /\ q.token = None /\ q.cookie = sent /\ q.header = header
  BY <1>2 DEF NoRequest, Request, Verdicts
<1>4. request' = [request EXCEPT ![r] = q]
  BY <1>1 DEF header
<1> HIDE DEF q
<1>5. request'[r] = q /\ Others(r) /\ request' \in [Requests -> Request]
  BY <1>3, <1>4 DEF TypeOK, Others
<1> QED BY <1>1, <1>2, <1>3, <1>5 DEF InFlight

(* The answer to a request. *)
LEMMA AnswerFields ==
  ASSUME TypeOK, NEW r \in Requests, NEW verdict \in Verdicts,
         NEW t \in Tokens \cup {None}, Answer(r, verdict, t)
  PROVE  /\ Others(r) /\ request' \in [Requests -> Request]
         /\ request'[r].pc = "answered" /\ request'[r].verdict = verdict
         /\ request'[r].token = t
         /\ request'[r].cookie = request[r].cookie
         /\ request'[r].header = request[r].header
         /\ request'[r].own = request[r].own
<1> DEFINE q == [request[r] EXCEPT !.pc = "answered", !.verdict = verdict,
                                   !.token = t]
<1>1. request[r] \in Request
  BY DEF TypeOK
<1>2. /\ q \in Request /\ q.pc = "answered" /\ q.verdict = verdict
      /\ q.token = t /\ q.cookie = request[r].cookie
      /\ q.header = request[r].header /\ q.own = request[r].own
  BY <1>1 DEF Request
<1>3. request' = [request EXCEPT ![r] = q]
  BY DEF Answer
<1> HIDE DEF q
<1> QED BY <1>2, <1>3 DEF TypeOK, Others

(* The request is over. *)
LEMMA EndFields ==
  ASSUME TypeOK, NEW r \in Requests,
         request' = [request EXCEPT ![r] = NoRequest]
  PROVE  /\ Others(r) /\ request' \in [Requests -> Request]
         /\ request'[r].pc = "idle" /\ request'[r].verdict = "none"
BY NoRequestTyped DEF TypeOK, Others

LEMMA CheckFields ==
  ASSUME TypeOK, NEW r \in Requests, Check(r)
  PROVE  \E t \in Tokens :
           /\ TokenFor(r, t) /\ Answer(r, Verdict(r, t), t)
           /\ Verdict(r, t) \in Verdicts
           /\ request[r].pc = "sent" /\ UNCHANGED <<cookie, page, split>>
BY DEF Check, Verdict, Verdicts

LEMMA TypeStep == TypeOK /\ [Next]_vars => TypeOK'
<1> SUFFICES ASSUME TypeOK, [Next]_vars PROVE TypeOK'
    OBVIOUS
<1> USE DEF TypeOK
<1>1. CASE UNCHANGED vars
  BY <1>1 DEF vars
<1>2. ASSUME NEW r \in Requests, NEW p \in Pages, NEW safe \in BOOLEAN,
             NEW own \in BOOLEAN, Send(r, p, safe, own)
      PROVE  TypeOK'
  <2>1. split' \in BOOLEAN
    BY <1>2 DEF Send
  <2> QED BY <1>2, <2>1, SendFields
<1>3. ASSUME NEW r \in Requests, Check(r) PROVE TypeOK'
  BY <1>3, CheckFields, AnswerFields
<1>4. ASSUME NEW r \in Requests, MintFails(r) PROVE TypeOK'
  BY <1>4, AnswerFields DEF MintFails, Verdicts
<1>5. ASSUME NEW r \in Requests, Deliver(r) PROVE TypeOK'
  <2>1. request[r] \in Request
    OBVIOUS
  <2>2. request[r].token \in Tokens \cup {None}
    BY <2>1 DEF Request
  <2> QED BY <1>5, <2>2, EndFields DEF Deliver
<1>6. ASSUME NEW r \in Requests, Cut(r) PROVE TypeOK'
  BY <1>6, EndFields DEF Cut
<1>7. ASSUME NEW p \in Pages, ReadCookie(p) PROVE TypeOK'
  BY <1>7 DEF ReadCookie
<1>8. CASE DropCookie
  BY <1>8 DEF DropCookie
<1> QED BY <1>1, <1>2, <1>3, <1>4, <1>5, <1>6, <1>7, <1>8 DEF Next

-----------------------------------------------------------------------------
(* The inductive invariant. *)

LEMMA InitInv == Init => IndInv
<1> SUFFICES ASSUME Init PROVE IndInv
    OBVIOUS
<1>1. TypeOK
  BY NoRequestTyped DEF Init, TypeOK
<1>2. RefusedOnlyAfterSplit
  BY NoRequestTyped DEF Init, RefusedOnlyAfterSplit
<1>3. OneToken
  BY NoRequestTyped DEF Init, OneToken, InFlight
<1> QED BY <1>1, <1>2, <1>3 DEF IndInv

(* What is kept of a request that is not the one a step moves. *)
LEMMA OtherFollows ==
  ASSUME OneToken, UNCHANGED cookie, NEW r \in Requests, Others(r),
         \A p \in Pages : page'[p] \in {None, cookie},
         (InFlight(r) \/ cookie # None)',
         InFlight(r)' => Follows(r)',
         cookie = None => \A s \in Requests : InFlight(s) => s = r
  PROVE  OneToken'
<1>1. ASSUME NEW s \in Requests, InFlight(s)', s # r
      PROVE  Follows(s)'
  <2>1. request'[s] = request[s] /\ InFlight(s)
    BY <1>1 DEF Others, InFlight
  <2>2. Follows(s) /\ cookie # None
    BY <1>1, <2>1 DEF OneToken
  <2> QED BY <2>1, <2>2 DEF Follows
<1> QED BY <1>1 DEF OneToken

(* Until the tokens come apart a page sends the token the browser holds. *)
LEMMA SendKeepsOneToken ==
  ASSUME TypeOK, OneToken, NEW r \in Requests, NEW p \in Pages,
         NEW safe \in BOOLEAN, NEW own \in BOOLEAN, Send(r, p, safe, own),
         ~split'
  PROVE  OneToken'
<1>1. PICK q \in Pages : request'[r].header \in {page[q], None}
  BY SendFields
<1>2. request'[r].header \in {None, cookie}
  BY <1>1 DEF OneToken
<1>3. cookie = None => \A s \in Requests : ~InFlight(s)
  BY SendFields
<1>4. /\ Others(r) /\ UNCHANGED <<cookie, page>>
      /\ request'[r].pc = "sent" /\ request'[r].cookie = cookie
      /\ request'[r].token = None
  BY SendFields
<1>5. InFlight(r)'
  BY <1>4 DEF InFlight
<1>6. ASSUME cookie = None, NEW s \in Requests, InFlight(s)' PROVE s = r
  BY <1>3, <1>4, <1>6 DEF Others, InFlight
<1>7. Follows(r)'
  BY <1>2, <1>4, <1>6 DEF Follows
<1>8. \A s \in Pages : page'[s] \in {None, cookie}
  BY <1>4 DEF OneToken
<1> QED BY <1>3, <1>4, <1>5, <1>7, <1>8, OtherFollows

(* The middleware sets the token the request came with, or a first one. *)
LEMMA AnswerKeepsOneToken ==
  ASSUME TypeOK, OneToken, NEW r \in Requests, NEW verdict \in Verdicts,
         NEW t \in Tokens \cup {None}, Answer(r, verdict, t),
         request[r].pc = "sent", UNCHANGED <<cookie, page>>,
         request[r].cookie # None => t \in {None, request[r].cookie}
  PROVE  OneToken'
<1>1. InFlight(r) /\ Follows(r)
  BY DEF InFlight, OneToken
<1>2. /\ Others(r) /\ request'[r].pc = "answered" /\ request'[r].token = t
      /\ request'[r].cookie = request[r].cookie
      /\ request'[r].header = request[r].header
  BY AnswerFields
<1>3. InFlight(r)'
  BY <1>2 DEF InFlight
<1>4. cookie = None => \A s \in Requests : InFlight(s) => s = r
  BY <1>1 DEF Follows
<1>5. ASSUME cookie = None, NEW s \in Requests, InFlight(s)' PROVE s = r
  BY <1>2, <1>4, <1>5 DEF Others, InFlight
<1>6. Follows(r)'
  BY <1>1, <1>2, <1>5 DEF Follows
<1>7. \A s \in Pages : page'[s] \in {None, cookie}
  BY DEF OneToken
<1> QED BY <1>2, <1>3, <1>4, <1>6, <1>7, OtherFollows

(* An answer that arrives brings the token the browser has, or its first. *)
LEMMA DeliverKeepsOneToken ==
  ASSUME TypeOK, OneToken, NEW r \in Requests, Deliver(r)
  PROVE  OneToken'
<1> DEFINE token == request[r].token
<1>1. /\ request[r].pc = "answered"
      /\ cookie' = IF token # None THEN token ELSE cookie
      /\ \A p \in Pages : page'[p] \in {page[p], cookie'}
      /\ request' = [request EXCEPT ![r] = NoRequest]
  BY DEF Deliver, TypeOK
<1>2. Others(r) /\ ~InFlight(r)'
  BY <1>1, EndFields DEF InFlight
<1>3. InFlight(r) /\ Follows(r)
  BY <1>1 DEF InFlight, OneToken
<1>4. CASE cookie # None
  <2>1. cookie' = cookie
    BY <1>1, <1>3, <1>4 DEF Follows
  <2>2. \A p \in Pages : page'[p] \in {None, cookie}
    BY <1>1, <2>1 DEF OneToken
  <2> QED BY <1>2, <1>4, <2>1, <2>2, OtherFollows
<1>5. CASE cookie = None
  <2>1. ASSUME NEW s \in Requests PROVE ~InFlight(s)'
    BY <1>2, <1>3, <1>5 DEF Follows, Others, InFlight
  <2>2. \A p \in Pages : page'[p] \in {None, cookie'}
    BY <1>1, <1>5 DEF OneToken
  <2> QED BY <2>1, <2>2 DEF OneToken
<1> QED BY <1>4, <1>5

LEMMA CutKeepsOneToken ==
  ASSUME TypeOK, OneToken, NEW r \in Requests, Cut(r)
  PROVE  OneToken'
<1>1. /\ Others(r) /\ ~InFlight(r)' /\ UNCHANGED <<cookie, page>>
      /\ InFlight(r)
  BY EndFields DEF Cut, InFlight
<1>2. ASSUME NEW s \in Requests, InFlight(s)' PROVE Follows(s)'
  <2>1. s # r /\ InFlight(s) /\ request'[s] = request[s]
    BY <1>1, <1>2 DEF Others, InFlight
  <2>2. Follows(s) /\ Follows(r)
    BY <1>1, <2>1 DEF OneToken
  <2>3. cookie # None
    BY <1>1, <2>1, <2>2 DEF Follows
  <2> QED BY <1>1, <2>1, <2>2, <2>3 DEF Follows
<1> QED BY <1>1, <1>2 DEF OneToken

LEMMA ReadKeepsOneToken ==
  ASSUME TypeOK, OneToken, NEW p \in Pages, ReadCookie(p)
  PROVE  OneToken'
<1>1. /\ UNCHANGED <<cookie, request>>
      /\ \A q \in Pages : page'[q] \in {page[q], cookie}
  BY DEF ReadCookie, TypeOK
<1>2. ASSUME NEW s \in Requests PROVE InFlight(s)' => Follows(s)'
  BY <1>1 DEF OneToken, Follows, InFlight
<1> QED BY <1>1, <1>2 DEF OneToken

(* A page of the shop is refused only by a token it does not know. *)
LEMMA OwnTokenPasses ==
  ASSUME TypeOK, OneToken, NEW r \in Requests, NEW t \in Tokens,
         request[r].pc = "sent", TokenFor(r, t), request[r].own,
         request[r].header # None
  PROVE  Verdict(r, t) # "forbidden"
<1>1. Follows(r)
  BY DEF OneToken, InFlight
<1>2. request[r].header = t
  BY <1>1 DEF Follows, TokenFor
<1> QED BY <1>2 DEF Verdict, SecureCompare

(* A refusal the next state shows is an old one, or that of the request the
   step answers. *)
LEMMA OtherRefusals ==
  ASSUME RefusedOnlyAfterSplit, split => split', NEW r \in Requests,
         Others(r),
         ~split' => ~(/\ request'[r].verdict = "forbidden"
                      /\ request'[r].own /\ request'[r].header # None)
  PROVE  RefusedOnlyAfterSplit'
<1> SUFFICES ASSUME NEW s \in Requests, request'[s].verdict = "forbidden",
                    request'[s].own, request'[s].header # None
             PROVE  split'
    BY DEF RefusedOnlyAfterSplit
<1>1. CASE s = r
  BY <1>1
<1>2. CASE s # r
  BY <1>2 DEF Others, RefusedOnlyAfterSplit
<1> QED BY <1>1, <1>2

LEMMA InvStep == IndInv /\ [Next]_vars => IndInv'
<1> SUFFICES ASSUME IndInv, [Next]_vars PROVE IndInv'
    OBVIOUS
<1> USE DEF IndInv
<1>0. TypeOK'
  BY TypeStep
<1> SUFFICES RefusedOnlyAfterSplit' /\ (~split' => OneToken')
    BY <1>0
<1>1. CASE UNCHANGED vars
  BY <1>1 DEF vars, RefusedOnlyAfterSplit, OneToken, InFlight, Follows
<1>2. ASSUME NEW r \in Requests, NEW p \in Pages, NEW safe \in BOOLEAN,
             NEW own \in BOOLEAN, Send(r, p, safe, own)
      PROVE  RefusedOnlyAfterSplit' /\ (~split' => OneToken')
  <2>1. ~split' => ~split
    BY <1>2, SendFields
  <2>2. Others(r) /\ request'[r].verdict = "none"
    BY <1>2, SendFields
  <2>3. RefusedOnlyAfterSplit'
    BY <2>1, <2>2, OtherRefusals
  <2> QED BY <1>2, <2>1, <2>3, SendKeepsOneToken
<1>3. ASSUME NEW r \in Requests, Check(r)
      PROVE  RefusedOnlyAfterSplit' /\ (~split' => OneToken')
  <2>1. PICK t \in Tokens :
          /\ TokenFor(r, t) /\ Answer(r, Verdict(r, t), t)
          /\ Verdict(r, t) \in Verdicts
          /\ request[r].pc = "sent" /\ UNCHANGED <<cookie, page, split>>
    BY <1>3, CheckFields
  <2>2. /\ Others(r) /\ request'[r].verdict = Verdict(r, t)
        /\ request'[r].header = request[r].header
        /\ request'[r].own = request[r].own
    BY <2>1, AnswerFields
  <2>3. RefusedOnlyAfterSplit'
    BY <2>1, <2>2, OwnTokenPasses, OtherRefusals
  <2>4. request[r].cookie # None => t \in {None, request[r].cookie}
    BY <2>1 DEF TokenFor
  <2>5. ~split' => OneToken'
    BY <2>1, <2>4, AnswerKeepsOneToken
  <2> QED BY <2>3, <2>5
<1>4. ASSUME NEW r \in Requests, MintFails(r)
      PROVE  RefusedOnlyAfterSplit' /\ (~split' => OneToken')
  <2>1. /\ Answer(r, "internal", None) /\ "internal" \in Verdicts
        /\ request[r].pc = "sent" /\ UNCHANGED <<cookie, page, split>>
    BY <1>4 DEF MintFails, Verdicts
  <2>2. Others(r) /\ request'[r].verdict = "internal"
    BY <2>1, AnswerFields
  <2>3. RefusedOnlyAfterSplit'
    BY <2>1, <2>2, OtherRefusals
  <2>4. ~split' => OneToken'
    BY <2>1, AnswerKeepsOneToken
  <2> QED BY <2>3, <2>4
<1>5. ASSUME NEW r \in Requests, Deliver(r)
      PROVE  RefusedOnlyAfterSplit' /\ (~split' => OneToken')
  <2>1. /\ Others(r) /\ request'[r].verdict = "none" /\ UNCHANGED split
    BY <1>5, EndFields DEF Deliver
  <2> QED BY <1>5, <2>1, OtherRefusals, DeliverKeepsOneToken
<1>6. ASSUME NEW r \in Requests, Cut(r)
      PROVE  RefusedOnlyAfterSplit' /\ (~split' => OneToken')
  <2>1. /\ Others(r) /\ request'[r].verdict = "none" /\ UNCHANGED split
    BY <1>6, EndFields DEF Cut
  <2> QED BY <1>6, <2>1, OtherRefusals, CutKeepsOneToken
<1>7. ASSUME NEW p \in Pages, ReadCookie(p)
      PROVE  RefusedOnlyAfterSplit' /\ (~split' => OneToken')
  <2>1. UNCHANGED <<request, split>>
    BY <1>7 DEF ReadCookie
  <2> QED BY <1>7, <2>1, ReadKeepsOneToken DEF RefusedOnlyAfterSplit
<1>8. CASE DropCookie
  BY <1>8 DEF DropCookie, RefusedOnlyAfterSplit
<1> QED BY <1>1, <1>2, <1>3, <1>4, <1>5, <1>6, <1>7, <1>8 DEF Next

(* The invariant of the middleware: until tokens are minted side by side, every
   page and every request knows the browser's token or none. *)
THEOREM Invariance == Spec => []IndInv
<1> QED BY InitInv, InvStep, PTL DEF Spec

(* A page of the shop that sends a token is refused only after tokens were
   minted side by side, however its answers are lost or reordered. *)
THEOREM RefusalsNeedASplit == Spec => []RefusedOnlyAfterSplit
<1>1. IndInv => RefusedOnlyAfterSplit
  BY DEF IndInv
<1> QED BY <1>1, Invariance, PTL

-----------------------------------------------------------------------------
(* Agreement. *)

(* A step that moves one request keeps the agreement if that request does. *)
LEMMA OthersAgree ==
  ASSUME NEW p \in Pages, NEW r \in Requests, Agreed(p), Others(r),
         UNCHANGED cookie, page'[p] = page[p],
         InFlight(r)' => Carried(r)' = cookie
  PROVE  Agreed(p)'
<1>1. ASSUME NEW s \in Requests, InFlight(s)' PROVE Carried(s)' = cookie
  <2>1. CASE s = r
    BY <1>1, <2>1
  <2>2. CASE s # r
    BY <1>1, <2>2 DEF Others, Agreed, InFlight, Carried
  <2> QED BY <2>1, <2>2
<1> QED BY <1>1 DEF Agreed

LEMMA AgreementStep ==
  ASSUME TypeOK, [Next]_vars, NEW p \in Pages, Agreed(p), cookie' # None,
         \A r \in Requests : ~Foreign(r)'
  PROVE  Agreed(p)'
<1> DEFINE Agrees(r) == InFlight(r) => Carried(r) = cookie
<1>0. cookie # None /\ page[p] = cookie /\ \A r \in Requests : Agrees(r)
  BY DEF Agreed
<1>1. CASE UNCHANGED vars
  BY <1>1 DEF vars, Agreed, InFlight, Carried
<1>2. ASSUME NEW r \in Requests, NEW q \in Pages, NEW safe \in BOOLEAN,
             NEW own \in BOOLEAN, Send(r, q, safe, own)
      PROVE  Agreed(p)'
  <2>1. /\ Others(r) /\ UNCHANGED <<cookie, page>> /\ request'[r].pc = "sent"
        /\ request'[r].cookie \in {cookie, None} /\ request'[r].own = own
        /\ own => request'[r].cookie = cookie
    BY <1>2, SendFields
  <2>2. request'[r].cookie = cookie
    BY <2>1 DEF Foreign
  <2>3. Carried(r)' = cookie
    BY <2>1, <2>2 DEF Carried
  <2> QED BY <2>1, <2>3, OthersAgree
<1>3. ASSUME NEW r \in Requests, Check(r) PROVE Agreed(p)'
  <2>1. PICK t \in Tokens :
          /\ TokenFor(r, t) /\ Answer(r, Verdict(r, t), t)
          /\ Verdict(r, t) \in Verdicts
          /\ request[r].pc = "sent" /\ UNCHANGED <<cookie, page, split>>
    BY <1>3, CheckFields
  <2>2. request[r].cookie = cookie
    BY <1>0, <2>1 DEF InFlight, Carried
  <2>3. t = cookie
    BY <1>0, <2>1, <2>2 DEF TokenFor
  <2>4. Others(r) /\ request'[r].pc = "answered" /\ request'[r].token = t
    BY <2>1, AnswerFields
  <2>5. Carried(r)' = cookie
    BY <2>3, <2>4 DEF Carried
  <2> QED BY <2>1, <2>4, <2>5, OthersAgree
<1>4. ASSUME NEW r \in Requests, MintFails(r) PROVE FALSE
  BY <1>0, <1>4 DEF MintFails, InFlight, Carried
<1>5. ASSUME NEW r \in Requests, Deliver(r) PROVE Agreed(p)'
  <2>1. request[r].token = cookie
    BY <1>0, <1>5 DEF Deliver, InFlight, Carried
  <2>2. UNCHANGED cookie /\ page'[p] = page[p]
    BY <1>0, <1>5, <2>1 DEF Deliver, TypeOK
  <2>3. Others(r) /\ request'[r].pc = "idle"
    BY <1>5, EndFields DEF Deliver
  <2>4. ~InFlight(r)'
    BY <2>3 DEF InFlight
  <2> QED BY <2>2, <2>3, <2>4, OthersAgree
<1>6. ASSUME NEW r \in Requests, Cut(r) PROVE Agreed(p)'
  <2>1. /\ Others(r) /\ request'[r].pc = "idle" /\ UNCHANGED <<cookie, page>>
    BY <1>6, EndFields DEF Cut
  <2>2. ~InFlight(r)'
    BY <2>1 DEF InFlight
  <2> QED BY <2>1, <2>2, OthersAgree
<1>7. ASSUME NEW q \in Pages, ReadCookie(q) PROVE Agreed(p)'
  BY <1>0, <1>7 DEF ReadCookie, TypeOK, Agreed, InFlight, Carried
<1>8. CASE DropCookie
  BY <1>8 DEF DropCookie
<1> QED BY <1>1, <1>2, <1>3, <1>4, <1>5, <1>6, <1>7, <1>8 DEF Next

(* Once the browser, a page and the requests in flight carry one token, they
   carry one until the cookie is dropped or another site sends a request
   without it: the middleware brings no second token in. *)
THEOREM AgreementIsLasting == Spec => AgreementLasts
<1>1. TypeOK /\ [Next]_vars
        => [\A p \in Pages :
              Agreed(p) => Agreed(p)' \/ cookie' = None
                              \/ \E r \in Requests : Foreign(r)']_vars
  BY AgreementStep
<1>2. IndInv => TypeOK
  BY DEF IndInv
<1> QED BY <1>1, <1>2, Invariance, PTL DEF Spec, AgreementLasts
===============================================================================
