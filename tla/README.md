# Verification of online_shop

TLA+ specifications, TLC configurations and TLAPS proofs for the services of
this repository: an online shop with a gateway and the services auth, catalog,
cart and order.

1. [The system](#1-the-system) - components, state, operations, what is hard
2. [The modules](#2-the-modules) - which module models what, and how
3. [The runs](#3-the-runs) - what TLC checks, bounds, fairness
4. [The proofs](#4-the-proofs) - what TLAPS proves, and along which argument
5. [What the code does not do](#5-what-the-code-does-not-do) - the findings
6. [What is not modelled](#6-what-is-not-modelled)
7. [Plan](#7-plan)
8. [Running it](#8-running-it)

## 1. The system

| Component | State | Operations | Talks to |
|---|---|---|---|
| **gateway** (`gateway/`) | none | reverse proxy under `/api/v1`; access-token check in front of cart, orders and the writes of the catalog; CSRF check | all services, HTTP |
| **auth** (`services/auth`) | tables `users`, `refresh_tokens` | register, login, refresh (rotation), logout | its database; called by the gateway and by `pkg/authclient` |
| **order** (`services/order`) | tables `orders`, `order_items` | create, list, get, cancel (customer), update (admin) | its database |
| **cart** (`services/cart`) | table `cart_items` | get, add, remove one unit, clear | its database |
| **catalog** (`services/catalog`) | table `products` | get, list, search; create, patch, delete (admin) | its database |
| **auto-refresh middleware**, **auth client** (`pkg/middleware/auth`, `pkg/authclient`) | none of their own; the browser's cookies | renew an expired access token with the refresh cookie, then go on | linked into cart, catalog and order; calls auth |
| **CSRF middleware** (`pkg/middleware/csrf`) | none of its own; the cookie `XSRF-TOKEN` | compare cookie and header, set the cookie again | linked into the gateway |
| **pagination** (`pkg/util`), **search** (`services/catalog`) | none | offset and limit, count and fetch, fall-back from full text to trigrams | the lists of catalog and order |
| **tokens, hashes** (`pkg/tokens`, `pkg/hash`) | none | sign, parse, hash | linked into gateway and services |

Every service is a stateless Go process in front of a PostgreSQL database of
its own; services share no tables. A request is a goroutine. What goroutines
share is the database and the pool of 20 connections to it, so what can
interleave is *statements*: between two statements of one handler, any number
of statements of others take place, unless a transaction holds a row lock. All
transactions run at READ COMMITTED.

What makes each part correct, and what makes that hard:

* **auth.** A refresh token is spent exactly when its successor exists or
  somebody logged it out; whoever is acknowledged can rely on the row being
  committed; a username is one account (its UNIQUE column sees to that). Hard:
  `RotateRefreshToken` reads without a lock and writes without looking again;
  logout is one `UPDATE` that may wait
  for a rotation; `FirstOrCreate` is two statements; cookies get lost; SIGTERM
  is not handled, so the process dies between statements.
* **order.** A status moves along `canTransition` only; a customer cancels an own
  unpaid order only; an answer tells what happened. Hard: read, compare-and-set,
  and a third read to find out why nothing matched, with customers and
  administrators racing for the same row. Money is int64 and wraps.
* **cart.** No unit lost, none counted twice; a cleared cart is empty. Hard: UPDATE
  then INSERT against a unique index, `SELECT ... FOR UPDATE` then a branch, a
  multi-row `DELETE` that locks rows in an order nobody chose, a quantity column
  narrower than the integers that reach it.
* **catalog.** A patch changes the fields it names. Hard: it reads the row,
  changes the copy and saves *all* columns, with an INSERT as fallback.
* **gateway, auto-refresh.** A session survives the expiry of its access token.
  Hard: a rotation that commits while its answer is lost, parallel requests that
  all refresh, answers that arrive after the cookies they would delete were
  replaced, two components that disagree about expired tokens.
* **CSRF.** A page of the shop that repeats the token it was given is let through.
  Hard: the middleware keeps nothing, so cookie, page and requests in flight
  agree only if answers in any order leave them so.
* **lists.** A client that reads page after page sees every row once. Hard: pages
  are cut by OFFSET and counted by a statement of their own while rows come and
  go, search results and orders may tie, `(page - 1) * size` wraps.

`PROJECT.json` lists every hazard at its line with the properties that cover it,
or the reason why none does yet.

## 2. The modules

| Module | Models | Used by |
|---|---|---|
| `AuthService` | all four operations of auth, statement by statement | `MCAuthService`, `AuthServiceProofs` |
| `AtomicAuth` | what auth promises: one atomic effect per call | `AuthService` (refinement), `Session` (composition) |
| `Session` | a browser, the gateway's token check, the auto-refresh middleware with its client, and the HTTP handlers of auth around `AtomicAuth` | `MCSession`, `SessionProofs` |
| `Csrf` | the CSRF middleware around a browser with several pages | `MCCsrf`, `CsrfProofs` |
| `OrderStatuses` | the statuses and `canTransition` | the order modules |
| `OrderService` | create, update and cancel of orders, statement by statement | `OrderTotal` (superposition), `OrderServiceProofs` |
| `AtomicOrders` | what the order service promises: one atomic step per request | `OrderService` (refinement) |
| `OrderTotal` | `OrderService` with what orders contain and cost: the validation and summing loop of `CreateOrder`, int64 arithmetic, the rows and their CHECKs | `MCOrderService`, `OrderTotalProofs` |
| `CartService` | add, remove and clear of one user's cart, statement by statement | `MCCartService`, `CartServiceProofs` |
| `AtomicCart` | what the cart service promises: one atomic effect per request | `CartService` (refinement) |
| `CatalogService` | create, patch and delete of products, statement by statement | `MCCatalogService`, `CatalogServiceProofs` |
| `Listing` | the three paged lists and the search, statement by statement, under a client that walks through them | `MCListing`, `ListingProofs` |
| `MC...` | small instances: symmetry and sets of inputs | the cfg files |
| `...Proofs` | theorems, one module for each component | - |

### Conventions

A handler is a record `req[r]` with a program counter `pc` that names the *next
SQL statement*. An `Arrive` action is the handler up to its first statement:
binding, validation, role checks. Each statement is one action whose guard is
what the statement waits for (a row lock, a reserved key, a free connection) and
whose effect is what it commits; a statement inside an explicit transaction
changes the row only at the action that commits. `done` is the answer on its way
out. Actions that commit take a parameter `ack` (`acknowledged`): when it is
false the server has committed and the connection broke before the client driver
heard of it, so the handler answers 500 for something that took place. `Fail` is
any statement that returns an error without effect, `Crash` the death of the
process: open transactions are rolled back and only rows remain.

What the models abstract: passwords, JSON, JWT signatures, cookie attributes,
timestamps, the text of errors. A refresh token *is* its jti; a forged one is not
representable, and `None` stands for a token that is missing or does not verify.
Ids from `uuid.New` and `NewJTI` never repeat.

History variables and fields record what an observer would know and the code
does not store. They are named as such where they are declared (`parent`,
`loggedOut`, `stale`, `passed`, `at`, `ledger`, `old`, `past`, `raced`, `good`,
`late`, `split` and those of a walk in `Listing`), and no guard of the
code's actions reads them - with two exceptions that only look like it: `past` in
`CatalogService` is how "an id no row has ever had" is said, and `whole` in
`Listing` is also what the client set out to do.

### AuthService

`accounts[u]` is the number of rows of `users` with that name (the UNIQUE constraint is
`UniqueAllows`, the guard of the INSERT), `status`, `owner` and
`expired` are the columns of `refresh_tokens`, `rowLock` is the open transaction
that has updated a row, `held` the tokens that ever reached a client. Clients
may present any token of `held`, an old one too: that is what duplicated and
delayed requests are.

| Code | Actions |
|---|---|
| `Register` → `CreateUserIfNotExists` (`FirstOrCreate`) | `Register`, `RegisterSelect`, `RegisterInsert` |
| `Login` → `UserExist`, `Create(refresh token)` | `Login`, `LoginSelect`, `LoginInsert` |
| `Refresh` → `GetUserById`, `RotateRefreshToken` | `Refresh`, `RefreshLoad`, `RotateBegin`, `RotateCheck`, `RotateMark`, `RotateCommit` |
| `LogOut` | `Logout`, `LogoutBegin`, `LogoutUpdate` |
| answer, lost answer | `Deliver`, `LoseReply` |
| `expires_at` passes | `Expire` |

`RotateBegin` and `LogoutBegin` take a connection of the pool; a transaction
keeps it, also while it waits for a lock.

### AtomicAuth, Session

`AtomicAuth` is what a caller of auth may rely on. A call (`CallRegister`,
`CallLogin`, `CallRefresh`, `CallLogout`) takes effect or is refused at one moment
between its arrival and its answer, for a reason that holds at that moment; a call
that breaks is answered "internal" and may have had its effect. It does *not* say
that a token refreshes once: a rotation is promised to a token that was good on
arrival, which is all the code keeps (section 5). `AuthService` implements it under
the mapping `calls`, where a request counts as pending until its answer is fixed.

`Session` puts the rest of the way around `AtomicAuth`. `jar` is the browser's two
cookies, `http[r]` an exchange with its place on the way (`pc`), the cookies it was
sent with, what auth said to it and what its answer does to the cookies; `lapsed` are
the pairs whose access token (15 minutes) is over, `expired` those whose refresh token
(7 days) is.

| Code | Actions |
|---|---|
| browser: request, answer, broken connection, cookie lifetime | `Send`, `Deliver`, `Cut`, `Forget` |
| gateway `jwt.go` | `Gateway` |
| `RequireAuth`, `RefreshTokens` of the auth client, its timeout | `ServeApi`, `Renewed`, `RenewTimeout` |
| `Login`, `Refresh`, `LogOut` handlers with `SimpleAuth` | `CallAuth`, `AuthAnswers` |
| the service behind them, a call nobody waits for, restart | `AuthWorks`, `Abandoned`, `AuthCrash` |
| token lifetimes | `Lapse`, `Expire` |

`Decoded` is what the client makes of the body of `/refresh`: nothing, because the two
sides name its fields differently (section 5). It is a parameter of everything that
follows from it, so correcting the code means correcting that one definition.

### Csrf

`cookie` is the browser's `XSRF-TOKEN`, `page[p]` what a page would send in the header,
`request[r]` a request in flight or its answer. `Check` is the whole middleware (token
from the cookie or a new one, safe methods, origin, comparison, cookie set again),
`MintFails` its error path. `split` remembers that tokens may have been minted side by
side: a request without the cookie while others are in flight or the browser has one.

### OrderService, AtomicOrders, OrderStatuses

`status[o]` and `owner[o]` are the row. `UpdateRead`/`CancelRead` read it and
decide, `UpdateCas`/`CancelCas` are `UPDATE ... WHERE id = ? AND status = ?`,
`...Recheck` the read after `RowsAffected = 0`, `...Reload` the read that builds
the answer. Administrators send any of the five statuses or some other text.

`AtomicOrders` is the specification a user of the API has in mind: a call, one
atomic effect (or a refusal that is justified by the order as it is at that
moment, or by the fact that the order moved while the call was pending), an
answer. `OrderService` implements it under the mapping `calls`, where a request
whose UPDATE has matched already counts as answered "ok" (the answer can still
turn into "internal" when the re-read fails).

### OrderTotal

A superposition on `OrderService`: every action is one of its actions and what it does to
two more variables, `basket[r]`, the items of the body a creation came with, and `bill[o]`,
the columns `total` and `order_items` of an order. `CreateOrder` is the handler up to its
INSERT (an item that is not `Valid` is the early return), `InsertOrder` the transaction that
writes the order and its items, which the CHECK constraints and the width of the integer
column (`Storable`) may leave no outcome but `Fail`. `RunningTotal` is the loop, `Wrap`
two's complement; the widths of int64 and of the integer column are constants so that TLC can
try bodies around the boundaries. `RunningPrice` is the reference: what the first `k` items of
a body cost, in unbounded integers. `BilledIsOrderService` proves that nothing was taken from
`OrderService`.

### CartService, AtomicCart

One user's cart; carts of different users share only the pool. `qty[p]` is the
committed row (0: no row), `lock[p]` the open transaction that has updated,
inserted, deleted or `FOR UPDATE`-locked it, `val` the quantity a transaction has
computed and not yet committed, `ledger[p]` the units added less those removed since
the row began. A clear takes a snapshot (`ClearScan`), goes to its rows one by
one in an arbitrary order (`ClearNext`), locks each (`ClearLock`) and commits. The
order is that of the rows on disk, which updates change, so two clears can
deadlock: `DeadlockVictim` is the abort by PostgreSQL's deadlock detector. The answer to
an addition or a removal shows the quantity its transaction has computed; `val` keeps it
until the answer is sent.

`AtomicCart` is the cart a client has in mind: an addition adds its units, a removal takes
one, a clear deletes at least the rows it found on arrival that lived on (`old`), each at one
moment, or the call is refused; an answer that acknowledges an effect shows the units left
at *that* moment (`left`). `CartService` implements it under the mapping `calls`: a request
is pending until its answer is fixed, and its COMMIT is the effect.

`WaitsEnd`, here and in `AuthService`, says that handlers which wait (for a row, a key or a
connection) always leave one that can go on. In the cart the exception is a circle
of clears, which the database breaks.

### CatalogService

`row[p]` is a function from fields to values or `None`. A patch is a partial
assignment of fields. `PatchRead` builds the merged row, `PatchUpdate` and
`PatchUpsert` are the two statements of gorm's `Save`: UPDATE of all columns and,
when that matched no row, INSERT ... ON CONFLICT DO UPDATE. `raced` says that the
product changed after `PatchRead` read it.

### Listing

`rank[i]` is the place of a row in the order of the list (or `Unborn`, `Gone`), `fts`
the products that match the search by full text, `walk` the client's request and what
it has seen. `Count` and `Find` are the two statements of `GetProducts`, and of each of
the two searches of `SearchProducts`; orders have only `Find`. Products are sorted by their
key and never tie. Search results are sorted by rank alone, and orders by `created_at` alone,
which is stamped before the INSERT commits and is not unique, so both may tie, and a new order
may come in anywhere (`CanTake`). `Create`, `Delete` and
`Edit` are writes by others between any two statements; `Again` is a statement that fails
or an answer that is lost, followed by a retry. `Offset`, `Limit`, `HasNext` are
`Calculate` and the handlers' arithmetic in ints that wrap at `IntModulus`.

## 3. The runs

Runs that pass:

| Run | Instance | Shows |
|---|---|---|
| `auth` | 2 handlers, 3 tokens, 1 user, 2 connections | `IndInv`; `AtomicSpec` (refinement); handlers never all wait for each other (`WaitsEnd`); acknowledged writes are committed (`AckedIsDurable`); a rotation is all or nothing (`RotationAtomic`); a token that was revoked or expired on arrival is never served (`SpentNeverRefreshes`); "invalid" is answered for spent tokens only (`RefusedOnlyIfSpent`) |
| `auth_live` | 2 handlers, 2 tokens, 1 user, fairness | `EveryRequestAnswered` |
| `order` | 2 handlers, 1 order, 2 customers, 10 bodies, 5-bit int64, 4-bit columns | `IndInv`; `AtomicSpec` (refinement); `OnlyAllowedMoves`, `CustomerCancelsUnpaidOnly`; what is acknowledged took place (`CreateAckTruthful`, `CancelAckTruthful`, `UpdateAckTruthful`); an order is stored with the rows of all its items or not at all (`BillInv`); its total is what the items cost, up to the wrap-around of an int64 (`StoredTotalExact`); what is complete and fits is not refused, and only what is incomplete is called invalid (`RightAnswer`) |
| `cart` | 2 handlers, 2 products, column up to 2, amounts 0, 1 and 3, fairness | `IndInv`; `AtomicSpec` (refinement); no unit is lost from a row (`UnitsConserved`); a clear leaves none of the rows it came for (`ClearIsThorough`); handlers never all wait for each other, circles of clears apart (`WaitsEnd`); `EveryRequestAnswered` |
| `catalog_patch` | 2 handlers, 1 product, 2 fields of 2 values | `IndInv`, `ExactWhenAlone`, `RevertsAtMost`, `OnlyRacesResurrect` |
| `session` | 2 exchanges, 3 pairs of tokens of which 2 lapse and 1 expires, 1 user | `IndInv`; a logout answered 200 has revoked the pair it came with (`AckedLogoutDead`); a usable session is dropped only by a logout, a failure or a late answer (`UsableDroppedOnlyIfExcused`) |
| `csrf` | 1 page, 3 requests, 5 tokens | `IndInv`; a page of the shop is refused only after tokens were minted side by side (`RefusedOnlyAfterSplit`); tokens that agree stay agreed (`AgreementLasts`) |
| `listing` | 3 rows, 3 places, pages 0 to 2 and 7, pages of 1 and 2 rows, 4-bit ints | `IndInv`; what it takes to see a row twice or miss one (`RepeatedOnlyAfterInsertion`, `MissedOnlyAfterDeletion`); a page holds and announces what it should (`PageTruthful`) |

Runs that are expected to end in a violation are in section 5. The largest passing instance is
`session` with about a million states, which takes a few minutes.

**Bounds.** Handlers, tokens, orders, products and fields are finite sets of model
values; amounts are small sets around the boundary that matters. Nothing else is
bounded, except that in `AuthService` a request that may create a token arrives only
while an unused jti is left for it (`JtiLeft`), that in `Session` such a call
breaks when none is left and the instance stops at two lapsed access tokens and one
expired refresh token (`FewRunOut`), and that the ranks of `Listing` end at `MaxRank`. Why the
sizes are enough:

* two handlers exhibit every race of two statements; each of them works through
  any number of requests, so while one stands between two of its statements the
  other can put the row through every change the others of a larger system could
  (the theorems of section 4 hold for any number of handlers); the same goes for
  the two exchanges of `Session`;
* two connections are what two handlers need, so in these instances the pool is a limit
  only for a handler that would ask for a second connection while it holds one: that is
  the mistake `EveryRequestAnswered` excludes. Of `WaitsEnd` the runs exercise the part about
  row locks; that handlers outnumber the connections is covered by the theorems
  `WaitsAreFinite` alone, which hold for every number of handlers and every size of the pool;
* three tokens are a token, its successor and either a second successor or the
  successor's successor;
* an order visits at most four statuses, and orders do not interact; the order has one of
  two customers, so a cancellation may come from the wrong one; rows of
  different products interact through a clear only, for which two are a cycle;
* in `Csrf` three requests are one that is refused and two that mint side by side; with five
  tokens there is one left to mint except in the fullest states, where the request waits for
  the answer of another;
* three rows in pages of two, or the two left of them in pages of one, make a walk of two
  pages, and three in pages of one a walk that ends early, with a row before, on and behind
  the page in question; page 7 is the last int of four bits, where offset and
  has_next wrap; both page sizes come from clamping (0 to the default, 7 to the cap);
* fields of a product are treated alike, so two show what happens to a named and to
  an unnamed one;
* the arithmetic of `OrderTotal` is uniform in its width, and the ten bodies lie on both
  sides of every comparison and of both overflows: a total of exactly the largest int64, a
  line that wraps to a number that is stored and one that wraps to a negative one, a sum
  that wraps though its lines fit, a quantity too wide for its column, a free item, an empty
  body, and items without product, quantity or price.

Symmetry sets are used in runs of safety properties: invariants, action properties, and
the refinements of `AtomicAuth` and `AtomicOrders`, whose abstract states are mapped alike by
every permutation. They are not used with liveness. All modules are of systems that never
stop, so deadlock is checked in every run.

**Fairness.** `SF_vars(Serve(r))` for each handler `r`: a handler whose next statement
can run again and again does run it. The Go scheduler is fair to goroutines;
`database/sql` hands a freed connection to the oldest waiter; PostgreSQL queues
the waiters of a row and its deadlock detector runs after a second. Strong fairness
is needed because a connection or a lock may be free, taken and free again before the
handler gets it. Nothing is assumed of clients (`Arrive`), failures or crashes.

`EveryRequestAnswered` is a claim about waiting: were a statement inside a
transaction sent through the pool (the mutants `RotateCommit_OnPool` and
`AddInsert_OnPool`), a handler could hold a row or a connection, wait for a second
connection, and be waited for by those who hold it. `WaitsEnd` is its counterpart in the
language of states, and as such can be proved; a lock that outlives its transaction (the
mutants `ReleaseLocks_Leaked`) breaks it.

**Mutants.** Each property of a passing run is paired in `PROJECT.json` with a change of
a definition it must notice. The mutated definitions (`..._Unlocked`, `..._Blind`,
`..._OnPool` and so on) stand before the definition they replace.

## 4. The proofs

Proved with tlapm for any sets of users, tokens, orders, items, products, fields, pages,
rows, handlers and exchanges, any pool size and any width of an int; the only assumptions
are the named `ASSUME`s of the modules: `None` differs from what it stands beside, `Zero` is
a value, `MaxConns` and `MaxQty` are positive numbers and amounts natural ones, `Ops` are
operations; bodies are sequences of items whose quantities and prices are int64s, and the
integer column is not wider than an int64;
the rows of a list are finitely many, and they and a page together are fewer than half the
range of an int (2^63 in the code).

**`AuthServiceProofs`**: `TypeCorrect`, `Invariance` (of `IndInv`),
`AcknowledgedWritesAreDurable`, `RotationIsAtomic`, `SpentTokensNeverRefresh`,
`OnlySpentTokensAreRefused`, `WaitsAreFinite`, `ImplementsAtomicAuth`.

None of these is inductive alone. That a committed rotation spends one token for one
successor needs to know that the token was present, that the new jti is still unused
when the INSERT comes (`TokensAtPc`), that no other handler is about to insert the same one
(`NewDistinct`), and who holds the row lock (`LockDiscipline`). That an answer of
"ok" means a committed row needs to know that rows are never taken back, and which
operation a program counter belongs to (`Control`). `RefusedOnlyIfSpent` rests on
revocation and expiry being final. `IndInv` is the conjunction of these; the proof has one
step per action and under it one per conjunct the action can disturb.

`WaitsAreFinite` follows the waiting: a handler without a connection waits for one that has
one (`PoolInUse`), a handler without a row for the rotation that has it, and a rotation that
has its row waits for nothing.

`ImplementsAtomicAuth` is the refinement. Every step of a handler is one step of its
call or none: an INSERT, the COMMIT of a rotation and the UPDATE of a logout are the effects,
a refusal is the step that fixes the answer, and every other statement is a stutter. What
the refusals need - that the reason still holds when the answer is fixed - is
`IndInv` of the auth service: a row once seen revoked or expired stays so, and an
account once found stays. A crash maps to the crash of all calls.

**`SessionProofs`**: `Invariance`, `LogoutsRevoke`, `SessionsAreDroppedForAReason`.

The two properties are about different components and hold for one reason each: the two
cookies of a jar and of a request always belong to one pair (`Paired`), so the logout that
was let in by an access token revokes the refresh token of the same pair; and an exchange
that is not `late` still carries the browser's refresh token, so "invalid" from auth
(`AnswerTells`: the token *is* spent) is about the token the browser
has. The steps of auth are taken from `AtomicAuth`, once, as lemmas about its rows and
its calls; with `ImplementsAtomicAuth` what is proved of the composition rests on what is
proved of the statements.

**`CsrfProofs`**: `Invariance`, `RefusalsNeedASplit`, `AgreementIsLasting`. The invariant
(`OneToken`) says that until tokens are minted side by side every page and request knows the
browser's token or none, and that the request that is to bring the first token is alone in
flight. `AgreementLasts` is proved step by step, with no help from `split`.

**`ListingProofs`**: `Invariance`, `PagesAreTruthful`, `AnnouncementsAreTruthful`,
`DeletionsNeverRepeat`, `InsertionsNeverHide`.

The arithmetic comes first (`WrapIsExact`, `OffsetIsExact`: while a page and the one before
it fit an int, offset and has_next are those of unbounded integers; `WithinTheTable`: on a
walk that follows announced pages they always fit). Then the rows of a list without ties are
numbered: the place of a row is the number of rows before it, places are distinct and
are exactly `0..n-1` (`PlacesAreDistinct`), so OFFSET and LIMIT cut out the rows whose
places lie in an interval (`PageHasItsLength`, `FetchedPage`). The invariant says of a walk
that no insertion has disturbed that every row shown, if it is still there, has its place
*before* the page now read (`ShownIsBehind`: deletions move places down only), and of
one that no deletion has disturbed that every row of the start that was not shown has its
place *on or after* it (`UnseenIsAhead`: insertions move places up only). The first
excludes a repetition, the second an omission; both need `OffsetsFit`, and both exclude
ties, which search results and orders may have and products cannot. That orders are excused by
ties alone comes from `KindOfList`: they have no count that could be stale, and are not
deleted. `CountStands` says that, until
rows are written between the two statements, the count is the number of rows the fetch finds,
in the product list and in both searches, which is what makes has_next right.

**`OrderServiceProofs`**: `Invariance`, `TypeCorrect`, `CancellationsAreTruthful`,
`UpdatesAreTruthful`, `MovesAreAllowed`, `CustomersCancelUnpaidOrders`,
`ImplementsAtomicOrders`.

The argument is that statuses only climb (`Rank`): what a handler read is a lower bound of
what the row is now, an order found to have left the status read never comes back to
it, and an order that was seen cancelled stays so. Hence a failed compare-and-set means
the order *moved* since the request arrived, which is the justification `AtomicOrders`
asks of a refusal, and an answer built from a later read shows the status asked for or
one past it. The refinement is proved step by step: each action of `OrderService` is
one action of `AtomicOrders` or leaves its variables alone.

**`OrderTotalProofs`**: `BilledIsOrderService`, `BillInvariance`, `CreationsAreTruthful`,
`StoredTotalsAreExact`, `AnswersAreRight`.

The invariant (`BillInv`) says that what comes to the INSERT is valid, and that an order in
the table has the rows computed from all its items; it is inductive together with the `IndInv`
of `OrderService`, which `BilledIsOrderService` lends. The rest is arithmetic: `Wrap` changes a
number by a multiple of the modulus, so the sum of the loop and the price differ by one
(`Congruent`); and since no valid item costs less than nothing, a price that fits an int64 at
the end has fitted all along, so nothing has wrapped (`LoopIsRight`). Loop and price are
recursive functions; that they exist, and add an item at each step (`RecursionExists`), is
proved by induction in the form of a set of natural numbers that contains 0 and with each
number the next (`Induction`, from the least number of a set, from the well-foundedness of
inclusion among finite sets).

**`CartServiceProofs`**: `Invariance`, `TypeCorrect`, `UnitsAreConserved`,
`LockedRowsAreStable`, `ClearsAreThorough`, `WaitsAreFinite`, `ImplementsAtomicCart`.

The invariant says who may have a row locked (`LockDiscipline`: the one handler about
to commit on it, or a clear), so what that handler has computed stays based on the
row until it commits. `ClearsAreThorough` needs `OldAtPc`: what is left of the rows a
clear came for is locked by it or still to be locked, so nothing is left at its
commit. The proof separates a step that commits nothing (`LocalStep`) from one that
does (`CommitStep`), and in both what happens to the handler that takes it from what happens
to the others (`OtherStep`).

`ImplementsAtomicCart`: the commit of an addition or a removal is the effect on the row as
it is then, because the row was locked since its quantity was read; the commit of a clear
deletes all its rows at once, those of `old` among them; a refusal is the statement that
found nothing, or an error; every other statement leaves the call pending.
`WaitsAreFinite`: the owner of a row or a key is about to commit on it, or is a clear; so when
nobody can go on every waiting handler waits, in the end, for clears, and each of these for
another: a circle, which is what the deadlock detector looks for.

**`CatalogServiceProofs`**: `Invariance`, `PatchIsExactWhenAlone`,
`PatchRevertsAtMost`, `OnlyRacingPatchesResurrect`.

The invariant (`BuiltOK`) relates the row a patch is about to save to what it read:
unless the product has changed since, it is the committed row with the named fields
replaced; in any case its other fields are values those fields have had; and only a
patch whose product was deleted under it comes to the INSERT of `Save`.

**Model-checked only.** The two liveness properties, `EveryRequestAnswered` of auth and of
cart, since proofs about fairness are beyond the prover. All other properties
of the passing runs are theorems.

## 5. What the code does not do

Four runs end in a violation: a statement of the readme or of a test, and a behaviour in
which the code does something else.

| Run | Property | What happens |
|---|---|---|
| `auth_one_successor` | `OneSuccessor` | Two refreshes of one token both pass the unlocked check of `RotateRefreshToken`; the second `UPDATE` waits for the first, matches the row that is revoked by then, and commits: two live successors of a token that "is rotated" |
| `catalog_keeps_fields` | `PatchKeepsOtherFields` | Two patches of different fields: the later `Save` restores the field the earlier one changed |
| `session_auto_refresh` | `AutoRefreshContinues` | An access token lapses behind the gateway; the middleware has the pair rotated, finds no token in the answer (`LoginResult` has no JSON names, the client expects `access_token`), deletes both cookies and answers 401. The rotation is spent and the session lost |
| `session_expired_token` | `ExpiredTokenIsRenewed` | A request comes with an expired access token and a live refresh token; the gateway answers 401 before any service is asked, so the middleware that is to "renew the tokens and continue the request" never runs. It is reached only by a token that lapses between the gateway and the service |

Further disagreements can be read off the actions and have no run of their own:

* a logout that waits for a rotation of the same token revokes the old row once more and
  answers 200; the token the rotation issued stays live (`LogoutUpdate`; auth
  `repo/user.go:43`);
* of two concurrent registrations of one username the second passes the SELECT of
  `FirstOrCreate`, meets the UNIQUE constraint and is answered 500, where the integration
  tests expect `ErrConflict` (`RegisterInsert`);
* a cancellation that loses a race to a payment is answered 404 for an order that exists
  (`CancelRecheck`; order `repo/order.go:84`);
* of two first additions of one product the second INSERT violates the unique index: 500,
  units not added (`AddInsert`; cart `repo/cart.go:32`);
* a product deleted between the read and the `Save` of a patch is inserted again
  (`PatchUpsert`; catalog `repo/catalog.go:61`), which is what `OnlyRacesResurrect` confines;
* `PATCH /orders/:id` runs `RequireAuth` and `RequireAdmin` one after the other
  (order `route.go:23-30`), and both would refresh a lapsed token with the cookie of the
  request; today the first has ended the request before the second sees it.

What holds all the same is stated next to each: the two successors have the same owner
and the old token stays spent (`RotationAtomic`), the registration that was acknowledged stands
(`AckedIsDurable`), the 404 changes nothing (`AtomicSpec`), no unit of the cart is lost from
a row (`UnitsConserved`), a racing patch restores old values and never invents one
(`RevertsAtMost`), and nothing but that race brings a product back
(`OnlyRacesResurrect`).

A price that does not fit in an int64 wraps, and a sum that wraps to a number that is not
negative is stored; the repository makes no statement about such prices. `StoredTotalExact` says
that this is all that can be wrong with a stored total: it is off by a multiple of 2^64.

The properties of `Listing` name what repeats or hides a row and exclude everything else: a
stale count, a deletion or creation that shifts the pages, and rows that tie, orders of one
`created_at` (order `repo/order.go:29`) among them. All of these happen; no doc denies them.

## 6. What is not modelled

* **In `Session`**: registration and a login without username or password, which
  touch no cookie; the role check of `RequireAdmin`; liveness, because two
  exchanges already make a million states and no property was found that one exchange shows.
* **In `Csrf`**: requests to `SkipPaths`, which pass untouched, and requests whose
  answer can set no cookie.
* **In `Listing`**: a blank search query, which is answered with an empty list and no statement
  (catalog `service/catalog.go:93`); what
  PostgreSQL matches and how it ranks: any set of rows and any ranks are allowed.
* **Reads of one row** (`GetOrder`, `GetCart`, `GetProduct`): a SELECT and its answer.
* **Idempotency keys**: the code has none, so two creations are two orders and two
  additions two additions, in the models as in the code.
* **Password hashing, JWT signing, random identifiers**: assumed to do their job.
* **Configuration, logging, Docker, CI**: no state of the program.
* **`pkg/mykafka`, `pkg/testkit`**: not used by any service.

## 7. Plan

Done: the operations of the four services that change state, their races and failures; the
refinements of `AtomicOrders`, `AtomicAuth` and `AtomicCart`; the session composed of browser,
gateway, middleware and `AtomicAuth`; the CSRF middleware; the lists and the search; the
proofs of section 4.

Left:

1. `RequireAdmin` behind `RequireAuth` in `Session`, once the renewal works: two rotations
   with one cookie in one request.
2. An abstract patch of the catalog: `CatalogService` does not implement "a patch changes
   the fields it names" (section 5), but it does implement a weaker patch that may
   restore old values of the others, which `RevertsAtMost` says of one commit.

## 8. Running it

In this directory:

    tlc -workers 2 -config Auth.cfg MCAuthService
    tlapm AuthServiceProofs.tla

`PROJECT.json` names for each run its module, its cfg and whether it passes, and maps
each definition to the source lines it models.
