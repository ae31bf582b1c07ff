-------------------------------- MODULE Listing --------------------------------
(***************************************************************************)
(* The paged lists: GET /catalog (all products), GET /catalog/search and   *)
(* GET /orders (the orders of one customer).  A client walks through the   *)
(* pages while products and orders come and go.                            *)
(*                                                                         *)
(* Every page is a request of its own.  The two catalog lists count the    *)
(* rows in one statement and fetch the page in another, the orders are     *)
(* fetched only.  The ints of Go wrap around at IntModulus, the 2^64 of an *)
(* instance.                                                               *)
(***************************************************************************)
EXTENDS Integers, FiniteSets

CONSTANTS
  Items,            \* products, or orders of one customer
  MaxRank,          \* places in the order of a list
  Pages, Sizes,     \* what clients ask for
  DefaultPageSize,  \* 20
  MaxPageSize,      \* 100
  IntModulus        \* 2^64

ASSUME SizeAssumption ==
  /\ MaxPageSize \in Nat /\ DefaultPageSize \in 1..MaxPageSize
  /\ IntModulus \in Nat /\ IntModulus % 2 = 0 /\ MaxPageSize < IntModulus \div 2
  /\ Pages \cup Sizes \subseteq -(IntModulus \div 2)..(IntModulus \div 2 - 1)

\* A table never has so many rows that a page behind the last one leaves int.
ASSUME ItemsAssumption ==
  /\ IsFiniteSet(Items) /\ MaxRank \in Nat
  /\ Cardinality(Items) + MaxPageSize < IntModulus \div 2

VARIABLES
  endpoint,   \* "products", "search" or "orders"
  rank,       \* the place of each row, Unborn or Gone
  fts,        \* products that match the search by full text, not by trigram
  walk        \* what the client does and has seen

vars == <<endpoint, rank, fts, walk>>

Unborn == 0
Gone   == MaxRank + 1

Rows == {i \in Items : rank[i] \in 1..MaxRank}

(***************************************************************************)
(* A walk: the request under way (pc, page, size), its count and its page  *)
(* of items, whether a further page is announced, and what was shown.      *)
(* History, since the walk began: whether it began with page 1, and with   *)
(* which rows (whole, start); whether rows came in or moved (inserted),    *)
(* went away (removed) or were written between the first count for this    *)
(* page and its fetch (raced, never of the orders, which have no count);   *)
(* whether a fetched list had rows of equal rank (tied); how many rows the *)
(* fetch of this page found before OFFSET and LIMIT (rows); whether a row  *)
(* was shown twice (repeated).                                             *)
(***************************************************************************)
Stages == {"ready", "count", "fts_count", "trgm_count", "find", "fts_find",
           "trgm_find", "answered", "end"}

Walk == [pc: Stages, page: Int, size: Int, total: Nat, items: SUBSET Items,
         next: BOOLEAN, shown: SUBSET Items, whole: BOOLEAN,
         start: SUBSET Items, inserted: BOOLEAN, removed: BOOLEAN,
         raced: BOOLEAN, tied: BOOLEAN, rows: Nat, repeated: BOOLEAN]

NoWalk == [pc |-> "ready", page |-> 1, size |-> 1, total |-> 0, items |-> {},
           next |-> FALSE, shown |-> {}, whole |-> FALSE, start |-> {},
           inserted |-> FALSE, removed |-> FALSE, raced |-> FALSE,
           tied |-> FALSE, rows |-> 0, repeated |-> FALSE]

TypeOK ==
  /\ endpoint \in {"products", "search", "orders"}
  /\ rank \in [Items -> 0..Gone]
  /\ fts \subseteq Items
  /\ walk \in Walk

(* No two rows have one place: so it is where the list is sorted by the key,
   the id of the products. *)
Distinct(f) ==
  \A i, j \in Items : i # j /\ f[i] \in 1..MaxRank => f[i] # f[j]

Init ==
  /\ endpoint \in {"products", "search", "orders"}
  /\ rank \in [Items -> 0..MaxRank]
  /\ endpoint = "products" => Distinct(rank)
  /\ fts \in SUBSET Rows
  /\ endpoint # "search" => fts = {}
  /\ walk = NoWalk

-----------------------------------------------------------------------------
(* util.Calculate, in the ints of Go. *)

Wrap(n) ==
  ((n + IntModulus \div 2) % IntModulus) - IntModulus \div 2

Limit(size) ==
  IF size < 1 THEN DefaultPageSize
  ELSE IF size > MaxPageSize THEN MaxPageSize
  ELSE size

PageIndex(page) == IF page < 1 THEN 0 ELSE page - 1

(* Mutant of Offset: the page is not brought to zero-based form. *)
Offset_OneBased(page, size) == Wrap((PageIndex(page) + 1) * Limit(size))

Offset(page, size) == Wrap(PageIndex(page) * Limit(size))

(* A negative OFFSET is left out by gorm, and zeroed by SearchProducts. *)
SqlOffset(page, size) ==
  LET offset == Offset(page, size) IN IF offset < 0 THEN 0 ELSE offset

(* Mutant of HasNext: it compares with "at most". *)
HasNext_AtMost(page, size, total) ==
  Wrap(Offset(page, size) + Limit(size)) <= total

HasNext(page, size, total) ==
  Wrap(Offset(page, size) + Limit(size)) < total

-----------------------------------------------------------------------------
(* The queries.  Products are sorted by their key.  Search results are      *)
(* sorted by their rank alone, and orders by created_at alone, which two    *)
(* orders of a customer may share: rows of equal rank come in any order.    *)

Ties ==
  IF Distinct(rank)
    THEN {[i \in Items |-> 1]}
    ELSE {f \in [Items -> 1..Cardinality(Items)] :
            \A i, j \in Items : i # j => f[i] # f[j]}

(* Mutant of Before: the query without its ORDER BY. *)
Before_Unordered(i, j, tie) == tie[i] < tie[j]

Before(i, j, tie) ==
  rank[i] < rank[j] \/ (rank[i] = rank[j] /\ tie[i] < tie[j])

(* OFFSET and LIMIT over the rows that match. *)
Page(matching, tie) ==
  LET place(i) == Cardinality({j \in matching : Before(j, i, tie)})
      offset   == SqlOffset(walk.page, walk.size)
  IN {i \in matching : place(i) \in offset..(offset + Limit(walk.size) - 1)}

(* The rows a statement sees.  The trigram search follows when the full-text
   search counted nothing; a product that has appeared since then and matches
   by full text may match by trigram too. *)
Matching ==
  CASE walk.pc \in {"fts_count", "fts_find"}   -> {Rows \cap fts}
    [] walk.pc \in {"trgm_count", "trgm_find"} ->
         {(Rows \ fts) \cup also : also \in SUBSET (Rows \cap fts)}
    [] OTHER                                   -> {Rows}

-----------------------------------------------------------------------------
(* The client. *)

FirstStatement ==
  CASE endpoint = "products" -> "count"
    [] endpoint = "search"   -> "fts_count"
    [] endpoint = "orders"   -> "find"

(* What a walk through the search will list. *)
Listed ==
  IF endpoint = "search" /\ Rows \cap fts # {} THEN Rows \cap fts ELSE Rows

(* A client reads one page, or from page 1 on all of them. *)
Ask(page, size) ==
  /\ walk.pc \in {"ready", "end"}
  /\ walk' = [NoWalk EXCEPT !.pc = FirstStatement, !.page = page,
                !.size = size, !.whole = page = 1,
                !.start = IF page = 1 THEN Listed ELSE {}]
  /\ UNCHANGED <<endpoint, rank, fts>>

(* The client has its page and asks for the next one when there is one;
   beyond the last page of the instance it gives up. *)
Deliver ==
  LET onward == walk.whole /\ walk.next IN
  /\ walk.pc = "answered"
  /\ walk' = [walk EXCEPT
       !.pc = IF ~onward THEN "end"
              ELSE IF walk.page + 1 \in Pages THEN FirstStatement ELSE "ready",
       !.page = IF onward THEN @ + 1 ELSE @,
       !.shown = @ \cup walk.items,
       !.repeated = @ \/ walk.items \cap walk.shown # {},
       !.total = 0, !.rows = 0, !.items = {}, !.raced = @ /\ ~onward]
  /\ UNCHANGED <<endpoint, rank, fts>>

(* A statement fails (500) or the answer is lost; the client asks again. *)
Again ==
  /\ walk.pc \notin {"ready", "end"}
  /\ walk' = [walk EXCEPT !.pc = FirstStatement, !.total = 0, !.rows = 0,
                          !.items = {}, !.raced = FALSE]
  /\ UNCHANGED <<endpoint, rank, fts>>

-----------------------------------------------------------------------------
(* The handlers. *)

Counting == {"count", "fts_count", "trgm_count"}
Finding  == {"find", "fts_find", "trgm_find"}

(* Mutant of AfterCount: a single match by full text is not enough. *)
AfterCount_MoreThanOne(total) ==
  CASE walk.pc = "count"      -> "find"
    [] walk.pc = "fts_count"  -> IF total > 1 THEN "fts_find" ELSE "trgm_count"
    [] walk.pc = "trgm_count" -> "trgm_find"

(* The full-text search gives way to the trigram search. *)
AfterCount(total) ==
  CASE walk.pc = "count"      -> "find"
    [] walk.pc = "fts_count"  -> IF total > 0 THEN "fts_find" ELSE "trgm_count"
    [] walk.pc = "trgm_count" -> "trgm_find"

Count ==
  /\ walk.pc \in Counting
  /\ \E matching \in Matching :
       LET total == Cardinality(matching) IN
       walk' = [walk EXCEPT !.pc = AfterCount(total), !.total = total]
  /\ UNCHANGED <<endpoint, rank, fts>>

(* The orders come without a count: a client goes on after a full page. *)
Announces(items) ==
  IF endpoint = "orders"
    THEN Cardinality(items) = Limit(walk.size)
    ELSE HasNext(walk.page, walk.size, walk.total)

Find ==
  /\ walk.pc \in Finding
  /\ \E matching \in Matching, tie \in Ties :
       LET items == Page(matching, tie) IN
       walk' = [walk EXCEPT !.pc = "answered", !.items = items,
         !.next = Announces(items), !.rows = Cardinality(matching),
         !.tied = @ \/ \E i, j \in matching : i # j /\ rank[i] = rank[j]]
  /\ UNCHANGED <<endpoint, rank, fts>>

-----------------------------------------------------------------------------
(* Writes by others.  A product gets a random id, so it comes in anywhere   *)
(* in the list.  So does an order: its created_at is read from the clock of *)
(* the process before the INSERT commits, so it may come in behind an order *)
(* that is listed already, or beside it.  An order stays.  Writes while an  *)
(* answer travels might as well come after it, and between two walks they   *)
(* make another initial list: neither is enumerated.                        *)

Written(inserted, removed) ==
  /\ walk.pc \in Counting \cup Finding
  /\ walk' = [walk EXCEPT
       !.inserted = @ \/ inserted, !.removed = @ \/ removed,
       !.raced = @ \/ (endpoint # "orders"
                          /\ walk.pc \in Finding \cup {"trgm_count"})]

CanTake(k) == endpoint = "products" => \A i \in Items : rank[i] # k

Create(i, k, byText) ==
  /\ rank[i] = Unborn
  /\ CanTake(k)
  /\ rank' = [rank EXCEPT ![i] = k]
  /\ byText => endpoint = "search"
  /\ fts' = IF byText THEN fts \cup {i} ELSE fts \ {i}
  /\ Written(TRUE, FALSE)
  /\ UNCHANGED endpoint

Delete(i) ==
  /\ endpoint # "orders"
  /\ i \in Rows
  /\ rank' = [rank EXCEPT ![i] = Gone]
  /\ fts' = fts \ {i}
  /\ Written(FALSE, TRUE)
  /\ UNCHANGED endpoint

(* A new name or description moves a product in the search. *)
Edit(i, k, byText) ==
  /\ endpoint = "search"
  /\ i \in Rows
  /\ rank' = [rank EXCEPT ![i] = k]
  /\ fts' = IF byText THEN fts \cup {i} ELSE fts \ {i}
  /\ Written(TRUE, TRUE)
  /\ UNCHANGED endpoint

Next ==
  \/ \E page \in Pages, size \in Sizes : Ask(page, size)
  \/ Count \/ Find \/ Deliver \/ Again
  \/ \E i \in Items :
       \/ Delete(i)
       \/ \E k \in 1..MaxRank, byText \in BOOLEAN :
            Create(i, k, byText) \/ Edit(i, k, byText)

Spec == Init /\ [][Next]_vars

-----------------------------------------------------------------------------
(* Properties. *)

(* Products that are deleted while a client walks through a list make it miss
   others, and never show one twice: for that a row must come in or move, or
   search results have equal ranks or orders equal times. *)
RepeatedOnlyAfterInsertion ==
  walk.repeated => walk.inserted \/ walk.tied

(* A client that walks from the first page to the last, as announced, has been
   shown every row that was there from the start, whatever was created
   meanwhile, lost or retried.  It takes a deletion, a creation between the
   count and the fetch of the last page (GetProducts), equal ranks or times,
   or in the search any write to miss one; of the orders, which are not
   deleted and not counted, only equal times. *)
MissedOnlyAfterDeletion ==
  walk.pc = "end" /\ walk.whole =>
    \/ walk.start \subseteq walk.shown
    \/ walk.tied
    \/ endpoint # "orders" /\ (walk.removed \/ walk.raced)
    \/ endpoint = "search" /\ walk.inserted

(* While offset and offset + limit fit an int, a page holds the rows it should,
   no more and no fewer, and announces a further page exactly when there are
   rows for it, unless rows were written between the count and the fetch; the
   orders may announce an empty page, and never hide one. *)
Fits(page, size) == (PageIndex(page) + 1) * Limit(size) < IntModulus \div 2

Behind == walk.rows - (PageIndex(walk.page) + 1) * Limit(walk.size)

PageFull ==
  LET limit == Limit(walk.size) IN
  walk.pc = "answered" /\ Fits(walk.page, walk.size) =>
    Cardinality(walk.items) =
      IF Behind >= 0 THEN limit ELSE IF Behind > -limit THEN limit + Behind ELSE 0

NextTruthful ==
  walk.pc = "answered" /\ Fits(walk.page, walk.size)
    /\ endpoint # "orders" /\ ~walk.raced => (walk.next <=> Behind > 0)

PageTruthful ==
  /\ PageFull /\ NextTruthful
  /\ walk.pc = "answered" /\ Fits(walk.page, walk.size) /\ endpoint = "orders"
       => (Behind > 0 => walk.next)

(***************************************************************************)
(* The inductive invariant.  Until rows are written, a count holds what the *)
(* fetch will find, and the trigram search runs only when nothing matches  *)
(* by full text.                                                           *)
(***************************************************************************)
CountStands ==
  /\ walk.pc = "find" /\ endpoint # "orders" => walk.total = Cardinality(Rows)
  /\ walk.pc = "fts_find" => walk.total = Cardinality(Rows \cap fts)
  /\ walk.pc \in {"trgm_count", "trgm_find"} => Rows \cap fts = {}
  /\ walk.pc = "trgm_find" => walk.total = Cardinality(Rows \ fts)
  /\ walk.pc = "answered" /\ endpoint # "orders" =>
       (walk.next <=> HasNext(walk.page, walk.size, walk.rows))

(* Which statements an endpoint runs, and which list of the search they read. *)
Control ==
  /\ walk.pc \in {"fts_count", "fts_find", "trgm_count", "trgm_find"}
       => endpoint = "search"
  /\ walk.pc \in {"count", "find"} => endpoint # "search"
  /\ ~walk.inserted /\ walk.pc \in {"trgm_count", "trgm_find"}
       => Rows \cap fts = {}
  /\ ~walk.inserted /\ ~walk.removed /\ walk.pc = "fts_find"
       => Rows \cap fts # {}

(* Products, listed by their key, come in one order only; orders have no count
   that could be raced and are not deleted. *)
KindOfList ==
  /\ endpoint = "products" => Distinct(rank) /\ ~walk.tied
  /\ endpoint = "orders" => ~walk.raced /\ ~walk.removed

(* What an answer has to do with the rows its fetch found. *)
AnswerExplained ==
  /\ walk.total <= Cardinality(Items)
  /\ PageFull
  /\ walk.pc = "answered" =>
       /\ walk.rows <= Cardinality(Items)
       /\ endpoint = "orders" =>
            (walk.next <=> Cardinality(walk.items) = Limit(walk.size))

(* A walk follows announced pages, so its offsets stay within the table. *)
Walking == walk.whole /\ walk.pc \notin {"ready", "end"}

Reached == PageIndex(walk.page) * Limit(walk.size)

OffsetsFit ==
  /\ Walking =>
       /\ walk.page >= 1 /\ Reached <= Cardinality(Items)
       /\ walk.pc = "answered" /\ walk.next =>
            Reached + Limit(walk.size) <= Cardinality(Items)
  /\ ~walk.whole /\ walk.pc # "end" => walk.shown = {}

(* Where a row stands in the list, when ranks differ. *)
Place(i) == Cardinality({j \in Listed : rank[j] < rank[i]})

(* Deletions only move rows to the front: what was shown and is still there
   stands before the page, and the page holds what stands in its interval. *)
ShownIsBehind ==
  Walking /\ ~walk.inserted /\ ~walk.tied =>
    /\ \A i \in walk.shown \cap Rows : i \in Listed /\ Place(i) < Reached
    /\ walk.pc = "answered" => \A i \in walk.items :
         /\ i \in Listed
         /\ Place(i) \in Reached..(Reached + Limit(walk.size) - 1)

(* Insertions only move rows to the back: what has been there from the start
   and was not shown stands on this page or after it. *)
UnseenIsAhead ==
  Walking /\ ~walk.removed /\ ~walk.tied
      /\ (endpoint = "search" => ~walk.inserted) =>
    /\ walk.start \subseteq Listed
    /\ \A i \in walk.start \ walk.shown : Place(i) >= Reached
    /\ walk.pc = "answered" =>
         /\ walk.rows = Cardinality(Listed)
         /\ \A i \in walk.start \ (walk.shown \cup walk.items) :
              Place(i) >= Reached + Limit(walk.size)

IndInv ==
  /\ TypeOK
  /\ ~walk.raced => CountStands
  /\ Control /\ KindOfList /\ AnswerExplained /\ OffsetsFit
  /\ ShownIsBehind /\ UnseenIsAhead
  /\ RepeatedOnlyAfterInsertion /\ MissedOnlyAfterDeletion
===============================================================================
