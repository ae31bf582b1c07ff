----------------------------- MODULE ListingProofs -----------------------------
(***************************************************************************)
(* Proofs about the paged lists, for any rows, page sizes and width of an  *)
(* int.                                                                    *)
(***************************************************************************)
EXTENDS Listing, FunctionTheorems, FiniteSetTheorems, TLAPS

-----------------------------------------------------------------------------
(* Paging arithmetic. *)

LEMMA Half ==
  /\ IntModulus \div 2 \in Nat /\ IntModulus = 2 * (IntModulus \div 2)
  /\ MaxPageSize < IntModulus \div 2
BY SizeAssumption

LEMMA LimitIsPositive ==
  ASSUME NEW size \in Int
  PROVE  Limit(size) \in Nat /\ Limit(size) \in 1..MaxPageSize
BY SizeAssumption DEF Limit

LEMMA PageIndexIsNatural ==
  ASSUME NEW page \in Int
  PROVE  PageIndex(page) \in Nat
BY DEF PageIndex

(* An integer that fits is left as it is. *)
LEMMA WrapIsExact ==
  ASSUME NEW n \in Nat, n < IntModulus \div 2
  PROVE  Wrap(n) = n
<1> DEFINE half == IntModulus \div 2
<1>1. half \in Nat /\ IntModulus = 2 * half /\ n < half
  BY Half
<1>2. Wrap(n) = ((n + half) % IntModulus) - half
  BY DEF Wrap
<1> HIDE DEF half
<1>3. (n + half) % (2 * half) = n + half
  BY <1>1
<1> QED BY <1>1, <1>2, <1>3

(* While a page and the one before it fit, offset and has_next are what they
   are in unbounded integers. *)
LEMMA OffsetIsExact ==
  ASSUME NEW page \in Int, NEW size \in Int, Fits(page, size)
  PROVE  /\ Offset(page, size) = PageIndex(page) * Limit(size)
         /\ \A total \in Int :
              HasNext(page, size, total)
                <=> (PageIndex(page) + 1) * Limit(size) < total
<1> DEFINE p == PageIndex(page)
           l == Limit(size)
<1>1. /\ p \in Nat /\ l \in Nat /\ IntModulus \div 2 \in Nat
      /\ (p + 1) * l < IntModulus \div 2
  BY LimitIsPositive, PageIndexIsNatural, Half DEF Fits
<1> HIDE DEF p, l
<1>2. p * l \in Nat /\ (p + 1) * l = p * l + l /\ (p + 1) * l \in Nat
  BY <1>1
<1>3. p * l < IntModulus \div 2
  BY <1>1, <1>2
<1>4. Wrap(p * l) = p * l
  BY <1>2, <1>3, WrapIsExact
<1>5. Wrap(p * l + l) = (p + 1) * l
  BY <1>1, <1>2, WrapIsExact
<1>6. Offset(page, size) = p * l
  BY <1>4 DEF Offset, p, l
<1>7. ASSUME NEW total \in Int
      PROVE  HasNext(page, size, total) <=> (p + 1) * l < total
  BY <1>5, <1>6 DEF HasNext, l
<1> QED BY <1>6, <1>7 DEF p, l


(* A walk that stays within the table reads the page it means to. *)
LEMMA WithinTheTable ==
  ASSUME NEW page \in Int, NEW size \in Int,
         PageIndex(page) * Limit(size) <= Cardinality(Items)
  PROVE  Fits(page, size)
<1> DEFINE p == PageIndex(page)
           l == Limit(size)
           n == Cardinality(Items)
<1>1. /\ p \in Nat /\ l \in Nat /\ l <= MaxPageSize /\ MaxPageSize \in Nat
      /\ IntModulus \div 2 \in Nat /\ n \in Nat
      /\ n + MaxPageSize < IntModulus \div 2 /\ p * l <= n
  BY LimitIsPositive, PageIndexIsNatural, Half, SizeAssumption,
     ItemsAssumption, FS_CardinalityType
<1> HIDE DEF p, l, n
<1>2. p * l \in Nat /\ (p + 1) * l = p * l + l
  BY <1>1
<1>3. (p + 1) * l < IntModulus \div 2
  BY <1>1, <1>2
<1> QED BY <1>3 DEF Fits, p, l

LEMMA SqlOffsetIsExact ==
  ASSUME NEW page \in Int, NEW size \in Int
  PROVE  /\ SqlOffset(page, size) \in Nat
         /\ Fits(page, size) =>
              SqlOffset(page, size) = PageIndex(page) * Limit(size)
<1> DEFINE o == Offset(page, size)
           r == PageIndex(page) * Limit(size)
<1>1. r \in Nat /\ (Fits(page, size) => o = r)
  BY OffsetIsExact, LimitIsPositive, PageIndexIsNatural
<1>2. o \in Int
  BY <1>1, SizeAssumption DEF Offset, Wrap
<1>3. SqlOffset(page, size) = IF o < 0 THEN 0 ELSE o
  BY DEF SqlOffset
<1> HIDE DEF o, r
<1> QED BY <1>1, <1>2, <1>3 DEF r

-----------------------------------------------------------------------------
(* Places in a finite order.  Where low[i] are the elements before i, their *)
(* number is the place of i, and the places of n elements are 0..n-1.      *)

LEMMA PlacesAreDistinct ==
  ASSUME NEW M, IsFiniteSet(M), NEW low \in [M -> SUBSET M],
         \A i \in M : i \notin low[i],
         \A i, j \in M : i # j => i \in low[j] \/ j \in low[i],
         \A i, j \in M : i \in low[j] => low[i] \subseteq low[j]
  PROVE  [i \in M |-> Cardinality(low[i])]
           \in Bijection(M, 0..(Cardinality(M) - 1))
<1> DEFINE n == Cardinality(M)
           place == [i \in M |-> Cardinality(low[i])]
<1>1. n \in Nat
  BY FS_CardinalityType
<1>2. ASSUME NEW i \in M
      PROVE  IsFiniteSet(low[i]) /\ place[i] \in 0..(n - 1)
  <2>1. /\ IsFiniteSet(low[i]) /\ Cardinality(low[i]) <= n
        /\ Cardinality(low[i]) # n
    BY FS_Subset
  <2>2. Cardinality(low[i]) \in Nat
    BY <2>1, FS_CardinalityType
  <2> QED BY <1>1, <2>1, <2>2
<1>3. ASSUME NEW i \in M, NEW j \in M, i \in low[j]
      PROVE  place[i] # place[j]
  <2>1. low[i] \in SUBSET low[j] /\ low[i] # low[j]
    BY <1>3
  <2>2. Cardinality(low[i]) # Cardinality(low[j])
    BY <1>2, <2>1, FS_Subset
  <2> QED BY <2>2
<1>4. place \in Injection(M, 0..(n - 1))
  <2>1. place \in [M -> 0..(n - 1)]
    BY <1>2
  <2>2. \A i, j \in M : i # j => place[i] # place[j]
    BY <1>3
  <2> HIDE DEF place
  <2> QED BY <2>1, <2>2, Fun_IsInj
<1>5. IsFiniteSet(0..(n - 1)) /\ Cardinality(0..(n - 1)) = n
  BY <1>1, FS_Interval
<1> HIDE DEF place
<1>6. place \in Surjection(M, 0..(n - 1))
  BY <1>4, <1>5, FS_Injection
<1> QED BY <1>4, <1>6 DEF Bijection, place

(* OFFSET o LIMIT l over n rows. *)
PageLength(n, o, l) == IF n >= o + l THEN l ELSE IF n > o THEN n - o ELSE 0

LEMMA PageHasItsLength ==
  ASSUME NEW M, IsFiniteSet(M), NEW o \in Nat, NEW l \in Nat,
         NEW place \in Bijection(M, 0..(Cardinality(M) - 1))
  PROVE  Cardinality({i \in M : place[i] \in o..(o + l - 1)})
           = PageLength(Cardinality(M), o, l)
<1> DEFINE n == Cardinality(M)
           last == IF n >= o + l THEN o + l - 1 ELSE n - 1
           P == {i \in M : place[i] \in o..(o + l - 1)}
           f == [i \in P |-> place[i]]
<1>1. n \in Nat
  BY FS_CardinalityType
<1>2. /\ place \in [M -> 0..(n - 1)]
      /\ \A i, j \in M : place[i] = place[j] => i = j
      /\ \A k \in 0..(n - 1) : \E i \in M : place[i] = k
  BY DEF Bijection, Injection, Surjection, IsInjective
<1>3. last \in Int /\ last <= n - 1 /\ last <= o + l - 1
  BY <1>1
<1>4. \A k \in 0..(n - 1) : k \in o..(o + l - 1) <=> k \in o..last
  BY <1>1
<1>5. o..last \subseteq 0..(n - 1)
  BY <1>1, <1>3
<1>6. PageLength(n, o, l) = IF o > last THEN 0 ELSE last - o + 1
  BY <1>1 DEF PageLength
<1> HIDE DEF n, last
<1>7. f \in [P -> o..last] /\ \A i, j \in P : f[i] = f[j] => i = j
  BY <1>2, <1>4
<1>8. \A k \in o..last : \E i \in P : f[i] = k
  BY <1>2, <1>4, <1>5
<1> HIDE DEF f
<1>9. f \in Injection(P, o..last) /\ f \in Surjection(P, o..last)
  BY <1>7, <1>8, Fun_IsInj, Fun_IsSurj
<1>10. IsFiniteSet(o..last)
       /\ Cardinality(o..last) = IF o > last THEN 0 ELSE last - o + 1
  BY <1>3, FS_Interval
<1>11. Cardinality(P) = Cardinality(o..last)
  BY <1>9, <1>10, FS_Injection
<1> QED BY <1>6, <1>10, <1>11 DEF n

-----------------------------------------------------------------------------
(* What the steps do to a walk. *)

LEMMA NoWalkTyped ==
  /\ NoWalk \in Walk /\ NoWalk.pc = "ready" /\ ~NoWalk.raced
  /\ NoWalk.total = 0 /\ NoWalk.items = {} /\ NoWalk.shown = {}
  /\ ~NoWalk.whole /\ ~NoWalk.inserted /\ ~NoWalk.removed
  /\ ~NoWalk.tied /\ ~NoWalk.repeated
BY DEF NoWalk, Walk, Stages

LEMMA WalkTyped ==
  ASSUME TypeOK
  PROVE  /\ walk.page \in Int /\ walk.size \in Int /\ walk.total \in Nat
         /\ walk.rows \in Nat /\ walk.items \subseteq Items
         /\ walk.shown \subseteq Items /\ walk.start \subseteq Items
         /\ PageIndex(walk.page) \in Nat /\ Limit(walk.size) \in Nat
         /\ Limit(walk.size) >= 1 /\ Reached \in Nat
<1>1. walk \in Walk
  BY DEF TypeOK
<1>2. walk.page \in Int /\ walk.size \in Int
  BY <1>1 DEF Walk
<1> DEFINE p == PageIndex(walk.page)
           l == Limit(walk.size)
<1>3. p \in Nat /\ l \in Nat /\ l >= 1
  BY <1>2, LimitIsPositive, PageIndexIsNatural, SizeAssumption
<1> HIDE DEF p, l
<1>4. p * l \in Nat
  BY <1>3
<1> QED BY <1>1, <1>2, <1>3, <1>4 DEF Walk, Reached, p, l

LEMMA RowsAreFinite ==
  ASSUME TypeOK
  PROVE  /\ Rows \subseteq Items
         /\ \A S \in SUBSET Items :
              /\ IsFiniteSet(S) /\ Cardinality(S) \in Nat
              /\ Cardinality(S) <= Cardinality(Items)
<1>1. ASSUME NEW S \in SUBSET Items
      PROVE  /\ IsFiniteSet(S) /\ Cardinality(S) \in Nat
             /\ Cardinality(S) <= Cardinality(Items)
  BY ItemsAssumption, FS_Subset, FS_CardinalityType
<1> QED BY <1>1 DEF Rows

LEMMA MatchingRows ==
  ASSUME TypeOK, NEW matching \in Matching
  PROVE  matching \subseteq Rows /\ matching \subseteq Items
BY RowsAreFinite DEF Matching, TypeOK

LEMMA FirstStatements ==
  ASSUME TypeOK
  PROVE  /\ FirstStatement \in Stages
         /\ FirstStatement \in {"count", "fts_count", "find"}
         /\ FirstStatement = "fts_count" <=> endpoint = "search"
         /\ FirstStatement = "find" <=> endpoint = "orders"
BY DEF TypeOK, FirstStatement, Stages

LEMMA AskFields ==
  ASSUME TypeOK, NEW page \in Int, NEW size \in Int, Ask(page, size)
  PROVE  /\ walk' \in Walk /\ walk'.pc = FirstStatement
         /\ walk'.page = page /\ walk'.total = 0 /\ walk'.items = {}
         /\ walk'.shown = {} /\ ~walk'.raced /\ ~walk'.inserted
         /\ ~walk'.removed /\ ~walk'.tied /\ ~walk'.repeated
         /\ walk'.whole => page = 1 /\ walk'.start = Listed
         /\ UNCHANGED <<endpoint, rank, fts>>
<1> DEFINE start == IF page = 1 THEN Listed ELSE {}
           whole == page = 1
           first == FirstStatement
<1>1. start \in SUBSET Items /\ whole \in BOOLEAN /\ first \in Stages
  BY RowsAreFinite, FirstStatements DEF Listed
<1>2. /\ walk' = [NoWalk EXCEPT !.pc = first, !.page = page,
                    !.size = size, !.whole = whole, !.start = start]
      /\ UNCHANGED <<endpoint, rank, fts>>
  BY DEF Ask
<1>3. whole => page = 1 /\ start = Listed
  OBVIOUS
<1> HIDE DEF start, whole, first
<1>4. /\ walk' \in Walk /\ walk'.pc = first /\ walk'.page = page
      /\ walk'.whole = whole /\ walk'.start = start
      /\ walk'.raced = NoWalk.raced /\ walk'.total = NoWalk.total
      /\ walk'.items = NoWalk.items /\ walk'.shown = NoWalk.shown
      /\ walk'.inserted = NoWalk.inserted /\ walk'.removed = NoWalk.removed
      /\ walk'.tied = NoWalk.tied /\ walk'.repeated = NoWalk.repeated
  BY <1>1, <1>2, NoWalkTyped DEF Walk
<1> QED BY <1>2, <1>3, <1>4, NoWalkTyped DEF first

(* What a request sent again keeps of the walk. *)
Kept ==
  /\ walk'.page = walk.page /\ walk'.size = walk.size
  /\ walk'.shown = walk.shown /\ walk'.whole = walk.whole
  /\ walk'.start = walk.start /\ walk'.repeated = walk.repeated

LEMMA AgainFields ==
  ASSUME TypeOK, Again
  PROVE  /\ walk' \in Walk /\ walk'.pc = FirstStatement
         /\ walk.pc \notin {"ready", "end"}
         /\ walk'.total = 0 /\ walk'.items = {} /\ Kept
         /\ walk'.inserted = walk.inserted /\ walk'.removed = walk.removed
         /\ walk'.tied = walk.tied /\ ~walk'.raced
         /\ UNCHANGED <<endpoint, rank, fts>>
<1> DEFINE first == FirstStatement
<1>1. first \in Stages /\ walk \in Walk
  BY FirstStatements DEF TypeOK
<1>2. /\ walk' = [walk EXCEPT !.pc = first, !.total = 0, !.rows = 0,
                              !.items = {}, !.raced = FALSE]
      /\ walk.pc \notin {"ready", "end"}
      /\ UNCHANGED <<endpoint, rank, fts>>
  BY DEF Again
<1> HIDE DEF first
<1>3. /\ walk' \in Walk /\ walk'.pc = first /\ walk'.total = 0
      /\ walk'.items = {} /\ Kept
      /\ walk'.inserted = walk.inserted /\ walk'.removed = walk.removed
      /\ walk'.tied = walk.tied /\ ~walk'.raced
  BY <1>1, <1>2 DEF Walk, Kept
<1> QED BY <1>2, <1>3 DEF first

LEMMA DeliverFields ==
  ASSUME TypeOK, Deliver
  PROVE  /\ walk' \in Walk /\ walk.pc = "answered"
         /\ walk'.pc \in {"end", "ready", FirstStatement}
         /\ walk'.total = 0 /\ walk'.items = {}
         /\ walk'.size = walk.size /\ walk'.whole = walk.whole
         /\ walk'.start = walk.start /\ walk'.shown = walk.shown \cup walk.items
         /\ walk'.inserted = walk.inserted /\ walk'.removed = walk.removed
         /\ walk'.tied = walk.tied
         /\ walk'.repeated =>
              walk.repeated \/ walk.items \cap walk.shown # {}
         /\ walk'.pc # "end" =>
              walk.whole /\ walk.next /\ walk'.page = walk.page + 1
         /\ walk'.pc = "end" =>
              ~(walk.whole /\ walk.next) /\ walk'.raced = walk.raced
         /\ walk'.raced => walk.raced
         /\ UNCHANGED <<endpoint, rank, fts>>
<1> DEFINE onward == walk.whole /\ walk.next
           pc == IF ~onward THEN "end"
                 ELSE IF walk.page + 1 \in Pages THEN FirstStatement ELSE "ready"
           page == IF onward THEN walk.page + 1 ELSE walk.page
           shown == walk.shown \cup walk.items
           repeated == walk.repeated \/ walk.items \cap walk.shown # {}
           raced == walk.raced /\ ~onward
<1>1. walk \in Walk
  BY DEF TypeOK
<1>2. /\ pc \in Stages /\ pc \in {"end", "ready", FirstStatement}
      /\ page \in Int /\ shown \in SUBSET Items
      /\ repeated \in BOOLEAN /\ raced \in BOOLEAN
      /\ pc # "end" => onward /\ page = walk.page + 1
      /\ pc = "end" => ~onward
  <2>1. /\ walk.page \in Int /\ walk.shown \subseteq Items
        /\ walk.items \subseteq Items
    BY <1>1 DEF Walk
  <2>2. /\ FirstStatement \in Stages /\ {"end", "ready"} \subseteq Stages
        /\ FirstStatement # "end"
    BY FirstStatements DEF Stages
  <2> QED BY <2>1, <2>2
<1>3. pc = "end" => raced = walk.raced
  <2>1. walk.raced \in BOOLEAN
    BY <1>1 DEF Walk
  <2>2. ASSUME pc = "end"
        PROVE  raced <=> walk.raced
    <3>1. ~onward
      BY <1>2, <2>2
    <3> QED BY <3>1
  <2> HIDE DEF pc
  <2> QED BY <2>1, <2>2
<1>4. /\ repeated => walk.repeated \/ walk.items \cap walk.shown # {}
      /\ raced => walk.raced
  OBVIOUS
<1>5. /\ walk' = [walk EXCEPT !.pc = pc, !.page = page, !.shown = shown,
                    !.repeated = repeated, !.total = 0, !.rows = 0,
                    !.items = {}, !.raced = raced]
      /\ walk.pc = "answered"
      /\ UNCHANGED <<endpoint, rank, fts>>
  BY DEF Deliver
<1> HIDE DEF pc, page, shown, repeated, raced, onward
<1>6. /\ walk' \in Walk /\ walk'.pc = pc /\ walk'.page = page
      /\ walk'.shown = shown /\ walk'.repeated = repeated
      /\ walk'.total = 0 /\ walk'.items = {} /\ walk'.raced = raced
      /\ walk'.size = walk.size /\ walk'.whole = walk.whole
      /\ walk'.start = walk.start /\ walk'.inserted = walk.inserted
      /\ walk'.removed = walk.removed /\ walk'.tied = walk.tied
  BY <1>1, <1>2, <1>5 DEF Walk
<1> QED BY <1>2, <1>3, <1>4, <1>5, <1>6 DEF shown, onward

LEMMA CountFields ==
  ASSUME TypeOK, Count
  PROVE  /\ walk' \in Walk /\ walk.pc \in Counting /\ walk'.raced = walk.raced
         /\ walk'.items = walk.items /\ Kept
         /\ walk'.inserted = walk.inserted /\ walk'.removed = walk.removed
         /\ walk'.tied = walk.tied
         /\ \E matching \in Matching :
              /\ walk'.total = Cardinality(matching)
              /\ walk'.pc = AfterCount(Cardinality(matching))
         /\ UNCHANGED <<endpoint, rank, fts>>
<1>1. PICK matching \in Matching :
        walk' = [walk EXCEPT !.pc = AfterCount(Cardinality(matching)),
                             !.total = Cardinality(matching)]
  BY DEF Count
<1> DEFINE total == Cardinality(matching)
           pc == AfterCount(total)
<1>2. walk.pc \in Counting /\ UNCHANGED <<endpoint, rank, fts>>
  BY DEF Count
<1>3. total \in Nat /\ pc \in Stages /\ walk \in Walk
  BY <1>2, MatchingRows, RowsAreFinite
     DEF AfterCount, Counting, Stages, TypeOK
<1> HIDE DEF total, pc
<1>4. walk' = [walk EXCEPT !.pc = pc, !.total = total]
  BY <1>1 DEF total, pc
<1>5. /\ walk' \in Walk /\ walk'.total = total /\ walk'.pc = pc
      /\ walk'.raced = walk.raced /\ walk'.items = walk.items /\ Kept
      /\ walk'.inserted = walk.inserted /\ walk'.removed = walk.removed
      /\ walk'.tied = walk.tied
  BY <1>3, <1>4 DEF Walk, Kept
<1> QED BY <1>2, <1>5 DEF total, pc

LEMMA FindFields ==
  ASSUME TypeOK, Find
  PROVE  /\ walk' \in Walk /\ walk.pc \in Finding /\ walk'.pc = "answered"
         /\ walk'.raced = walk.raced /\ walk'.total = walk.total /\ Kept
         /\ walk'.inserted = walk.inserted /\ walk'.removed = walk.removed
         /\ \E matching \in Matching, tie \in Ties :
              /\ walk'.items = Page(matching, tie)
              /\ walk'.rows = Cardinality(matching)
              /\ ~walk'.tied =>
                   /\ ~walk.tied
                   /\ \A i, j \in matching : i # j => rank[i] # rank[j]
              /\ walk'.tied =>
                   \/ walk.tied
                   \/ \E i, j \in matching : i # j /\ rank[i] = rank[j]
         /\ endpoint = "orders" =>
              (walk'.next <=> Cardinality(walk'.items) = Limit(walk.size))
         /\ endpoint # "orders" =>
              (walk'.next <=> HasNext(walk.page, walk.size, walk.total))
         /\ UNCHANGED <<endpoint, rank, fts>>
<1>1. PICK matching \in Matching, tie \in Ties :
        walk' = [walk EXCEPT !.pc = "answered", !.items = Page(matching, tie),
          !.next = Announces(Page(matching, tie)),
          !.rows = Cardinality(matching),
          !.tied = @ \/ \E i, j \in matching : i # j /\ rank[i] = rank[j]]
  BY DEF Find
<1> DEFINE items == Page(matching, tie)
           next == Announces(items)
           rows == Cardinality(matching)
           tied == walk.tied \/ \E i, j \in matching : i # j /\ rank[i] = rank[j]
<1>2. walk.pc \in Finding /\ UNCHANGED <<endpoint, rank, fts>>
  BY DEF Find
<1>3. items \in SUBSET Items /\ rows \in Nat /\ tied \in BOOLEAN
  BY MatchingRows, RowsAreFinite DEF Page
<1>4. /\ next \in BOOLEAN
      /\ endpoint = "orders" =>
           (next <=> Cardinality(items) = Limit(walk.size))
      /\ endpoint # "orders" =>
           (next <=> HasNext(walk.page, walk.size, walk.total))
  <2>1. HasNext(walk.page, walk.size, walk.total) \in BOOLEAN
    BY DEF HasNext
  <2>2. CASE endpoint = "orders"
    <3>1. next = (Cardinality(items) = Limit(walk.size))
      BY <2>2 DEF Announces
    <3> HIDE DEF next
    <3> QED BY <2>2, <3>1
  <2>3. CASE endpoint # "orders"
    <3>1. next = HasNext(walk.page, walk.size, walk.total)
      BY <2>3 DEF Announces
    <3> HIDE DEF next
    <3> QED BY <2>1, <2>3, <3>1
  <2> QED BY <2>2, <2>3
<1>5. /\ ~tied => /\ ~walk.tied
                  /\ \A i, j \in matching : i # j => rank[i] # rank[j]
      /\ tied => \/ walk.tied
                 \/ \E i, j \in matching : i # j /\ rank[i] = rank[j]
  OBVIOUS
<1>6. walk' = [walk EXCEPT !.pc = "answered", !.items = items, !.next = next,
                           !.rows = rows, !.tied = tied]
  BY <1>1
<1>7. walk \in Walk /\ "answered" \in Stages
  BY DEF TypeOK, Stages
<1> HIDE DEF items, next, rows, tied
<1>8. /\ walk' \in Walk /\ walk'.pc = "answered" /\ walk'.rows = rows
      /\ walk'.next = next /\ walk'.raced = walk.raced
      /\ walk'.total = walk.total /\ Kept
      /\ walk'.inserted = walk.inserted /\ walk'.removed = walk.removed
      /\ walk'.items = items /\ walk'.tied = tied
  BY <1>3, <1>4, <1>6, <1>7 DEF Walk, Kept
<1>9. \E m \in Matching, t \in Ties :
        /\ walk'.items = Page(m, t) /\ walk'.rows = Cardinality(m)
        /\ ~walk'.tied => /\ ~walk.tied
                          /\ \A i, j \in m : i # j => rank[i] # rank[j]
        /\ walk'.tied => \/ walk.tied
                         \/ \E i, j \in m : i # j /\ rank[i] = rank[j]
  <2> WITNESS matching \in Matching, tie \in Ties
  <2> QED BY <1>5, <1>8 DEF items, rows
<1> QED BY <1>2, <1>4, <1>8, <1>9

LEMMA WrittenFields ==
  ASSUME TypeOK, NEW inserted \in BOOLEAN, NEW removed \in BOOLEAN,
         Written(inserted, removed)
  PROVE  /\ walk' \in Walk /\ walk'.pc = walk.pc
         /\ walk.pc \in Counting \cup Finding
         /\ ~walk'.raced =>
              endpoint = "orders" \/ walk.pc \in {"count", "fts_count"}
         /\ walk'.raced => walk.raced \/ endpoint # "orders"
         /\ walk'.total = walk.total /\ walk'.items = walk.items /\ Kept
         /\ walk'.tied = walk.tied
         /\ walk.inserted \/ inserted => walk'.inserted
         /\ walk.removed \/ removed => walk'.removed
         /\ walk'.inserted => walk.inserted \/ inserted
         /\ walk'.removed => walk.removed \/ removed
<1> DEFINE in == walk.inserted \/ inserted
           out == walk.removed \/ removed
           race == walk.raced \/ (endpoint # "orders"
                                    /\ walk.pc \in Finding \cup {"trgm_count"})
<1>1. /\ walk \in Walk /\ walk.pc \in Counting \cup Finding
      /\ in \in BOOLEAN /\ out \in BOOLEAN /\ race \in BOOLEAN
  BY DEF Written, TypeOK
<1>2. walk' = [walk EXCEPT !.inserted = in, !.removed = out, !.raced = race]
  BY DEF Written
<1>3. /\ ~race => endpoint = "orders" \/ walk.pc \in {"count", "fts_count"}
      /\ race => walk.raced \/ endpoint # "orders"
  BY <1>1 DEF Counting, Finding
<1> HIDE DEF in, out, race
<1>4. /\ walk' \in Walk /\ walk'.pc = walk.pc /\ walk'.raced = race
      /\ walk'.total = walk.total /\ walk'.items = walk.items /\ Kept
      /\ walk'.tied = walk.tied /\ walk'.inserted = in /\ walk'.removed = out
  BY <1>1, <1>2 DEF Walk, Kept
<1> QED BY <1>1, <1>3, <1>4 DEF in, out

-----------------------------------------------------------------------------
(* The lists and their pages. *)

LEMMA ListFacts ==
  ASSUME TypeOK
  PROVE  /\ Listed \subseteq Rows /\ IsFiniteSet(Listed)
         /\ Cardinality(Listed) \in Nat
         /\ \A i \in Items : Place(i) \in Nat
         /\ \A i \in Listed : Place(i) < Cardinality(Listed)
<1>1. Listed \subseteq Rows /\ Listed \in SUBSET Items
  BY RowsAreFinite DEF Listed
<1>2. IsFiniteSet(Listed) /\ Cardinality(Listed) \in Nat
  BY <1>1, RowsAreFinite
<1>3. ASSUME NEW i \in Items
      PROVE  /\ Place(i) \in Nat
             /\ i \in Listed => Place(i) < Cardinality(Listed)
  <2> DEFINE before == {j \in Listed : rank[j] < rank[i]}
  <2>1. /\ IsFiniteSet(before) /\ Cardinality(before) <= Cardinality(Listed)
        /\ Cardinality(before) = Cardinality(Listed) => before = Listed
    BY <1>2, FS_Subset
  <2>2. Cardinality(before) \in Nat
    BY <2>1, FS_CardinalityType
  <2>3. i \notin before
    BY DEF TypeOK, Gone
  <2> HIDE DEF before
  <2>4. i \in Listed => Cardinality(before) < Cardinality(Listed)
    BY <1>2, <2>1, <2>2, <2>3
  <2> QED BY <2>2, <2>4 DEF Place, before
<1> QED BY <1>1, <1>2, <1>3

LEMMA SameList ==
  ASSUME UNCHANGED <<endpoint, rank, fts>>
  PROVE  /\ Rows' = Rows /\ Listed' = Listed
         /\ \A i \in Items : Place(i)' = Place(i)
<1>1. Rows' = Rows /\ Listed' = Listed
  BY DEF Rows, Listed
<1> QED BY <1>1 DEF Place

(* ORDER BY sorts the rows that match: by rank, and by a whim where two have
   the same, if two can. *)
LEMMA BeforeIsAnOrder ==
  ASSUME TypeOK, NEW matching \in Matching, NEW tie \in Ties
  PROVE  /\ \A i \in matching : ~Before(i, i, tie)
         /\ \A i, j \in matching :
              i # j => Before(i, j, tie) \/ Before(j, i, tie)
         /\ \A i, j, k \in matching :
              Before(k, i, tie) /\ Before(i, j, tie) => Before(k, j, tie)
<1>1. /\ matching \subseteq Items
      /\ \A i \in matching : rank[i] \in 1..MaxRank /\ rank[i] \in Int
  BY MatchingRows DEF Rows
<1>2. /\ \A i \in Items : tie[i] \in Int
      /\ \A i, j \in matching : i # j => rank[i] # rank[j] \/ tie[i] # tie[j]
  <2>1. CASE Distinct(rank)
    <3>1. tie = [i \in Items |-> 1]
      BY <2>1 DEF Ties
    <3> QED BY <1>1, <2>1, <3>1 DEF Distinct
  <2>2. CASE ~Distinct(rank)
    <3>1. /\ tie \in [Items -> 1..Cardinality(Items)]
          /\ \A i, j \in Items : i # j => tie[i] # tie[j]
      BY <2>2 DEF Ties
    <3> QED BY <1>1, <3>1
  <2> QED BY <2>1, <2>2
<1> QED BY <1>1, <1>2 DEF Before

LEMMA FetchedPage ==
  ASSUME TypeOK, NEW matching \in Matching, NEW tie \in Ties
  PROVE  /\ Page(matching, tie) \subseteq matching
         /\ Cardinality(Page(matching, tie)) =
              PageLength(Cardinality(matching),
                         SqlOffset(walk.page, walk.size), Limit(walk.size))
<1> DEFINE low == [i \in matching |-> {j \in matching : Before(j, i, tie)}]
           place == [i \in matching |-> Cardinality(low[i])]
           o == SqlOffset(walk.page, walk.size)
           l == Limit(walk.size)
<1>1. IsFiniteSet(matching)
  BY MatchingRows, RowsAreFinite
<1>2. o \in Nat /\ l \in Nat
  BY WalkTyped, SqlOffsetIsExact
<1>3. /\ low \in [matching -> SUBSET matching]
      /\ \A i, j \in matching : j \in low[i] <=> Before(j, i, tie)
  OBVIOUS
<1>4. Page(matching, tie) = {i \in matching : place[i] \in o..(o + l - 1)}
  BY DEF Page
<1> HIDE DEF low, o, l
<1>5. /\ \A i \in matching : i \notin low[i]
      /\ \A i, j \in matching : i # j => i \in low[j] \/ j \in low[i]
      /\ \A i, j \in matching : i \in low[j] => low[i] \subseteq low[j]
  BY <1>3, BeforeIsAnOrder
<1>6. place \in Bijection(matching, 0..(Cardinality(matching) - 1))
  BY <1>1, <1>3, <1>5, PlacesAreDistinct
<1> HIDE DEF place
<1>7. Cardinality({i \in matching : place[i] \in o..(o + l - 1)})
        = PageLength(Cardinality(matching), o, l)
  BY <1>1, <1>2, <1>6, PageHasItsLength
<1> QED BY <1>4, <1>7 DEF o, l

(* Where ranks differ, the place of a row is Place. *)
LEMMA UntiedPage ==
  ASSUME TypeOK, NEW matching \in Matching, NEW tie \in Ties,
         matching = Listed, Fits(walk.page, walk.size),
         \A i, j \in matching : i # j => rank[i] # rank[j]
  PROVE  Page(matching, tie) =
           {i \in Listed : Place(i) \in Reached..(Reached + Limit(walk.size) - 1)}
<1>1. matching \subseteq Items /\ \A i \in matching : rank[i] \in Int
  BY MatchingRows DEF Rows
<1>2. ASSUME NEW i \in matching
      PROVE  {j \in matching : Before(j, i, tie)}
               = {j \in Listed : rank[j] < rank[i]}
  <2>1. ASSUME NEW j \in matching
        PROVE  Before(j, i, tie) <=> rank[j] < rank[i]
    <3>1. CASE j = i
      BY <1>1, <3>1, BeforeIsAnOrder
    <3>2. CASE j # i
      BY <1>1, <3>2 DEF Before
    <3> QED BY <3>1, <3>2
  <2> QED BY <2>1
<1>3. SqlOffset(walk.page, walk.size) = Reached
  BY WalkTyped, SqlOffsetIsExact DEF Reached
<1> QED BY <1>2, <1>3 DEF Page, Place

(* A page of n rows that fits, in the terms of PageFull. *)
LEMMA LengthOfPage ==
  ASSUME NEW p \in Nat, NEW l \in Nat, l >= 1, NEW n \in Nat
  PROVE  LET behind == n - (p + 1) * l IN
         /\ PageLength(n, p * l, l) =
              IF behind >= 0 THEN l
              ELSE IF behind > -l THEN l + behind ELSE 0
         /\ PageLength(n, p * l, l) = l <=> n >= p * l + l
         /\ behind = n - (p * l + l)
<1> DEFINE r == p * l
<1>1. r \in Nat /\ (p + 1) * l = r + l
  OBVIOUS
<1> HIDE DEF r
<1>2. /\ PageLength(n, r, l) =
           IF n - (r + l) >= 0 THEN l
           ELSE IF n - (r + l) > -l THEN l + (n - (r + l)) ELSE 0
      /\ PageLength(n, r, l) = l <=> n >= r + l
  BY <1>1 DEF PageLength
<1> QED BY <1>1, <1>2 DEF r

(* What a fetch finds: all that is listed, unless writes have emptied or
   refilled the list of the search since the count. *)
LEMMA FetchedList ==
  ASSUME TypeOK, Control, walk.pc \in Finding, NEW matching \in Matching,
         endpoint = "search" => ~walk.inserted
  PROVE  /\ matching = Listed \/ matching = {}
         /\ endpoint # "search" \/ ~walk.removed => matching = Listed
<1>1. CASE walk.pc = "find"
  BY <1>1 DEF Control, Matching, Listed
<1>2. CASE walk.pc = "fts_find"
  BY <1>2 DEF Control, Matching, Listed
<1>3. CASE walk.pc = "trgm_find"
  <2>1. endpoint = "search" /\ Rows \cap fts = {}
    BY <1>3 DEF Control
  <2>2. matching = Rows
    BY <1>3, <2>1 DEF Matching
  <2> QED BY <2>1, <2>2 DEF Listed
<1> QED BY <1>1, <1>2, <1>3 DEF Finding

-----------------------------------------------------------------------------
(* The inductive invariant. *)

LEMMA InitInv == Init => IndInv
<1> SUFFICES ASSUME Init PROVE IndInv
    OBVIOUS
<1>1. /\ walk = NoWalk /\ endpoint \in {"products", "search", "orders"}
      /\ rank \in [Items -> 0..MaxRank] /\ fts \subseteq Rows
      /\ endpoint = "products" => Distinct(rank)
  BY DEF Init
<1>2. TypeOK
  BY <1>1, NoWalkTyped, ItemsAssumption DEF TypeOK, Gone, Rows
<1>3. CountStands /\ Control /\ KindOfList
  BY <1>1, NoWalkTyped DEF CountStands, Control, KindOfList
<1>4. AnswerExplained /\ OffsetsFit
  BY <1>1, NoWalkTyped, ItemsAssumption, FS_CardinalityType
  DEF AnswerExplained, PageFull, OffsetsFit, Walking
<1>5. /\ ShownIsBehind /\ UnseenIsAhead
      /\ RepeatedOnlyAfterInsertion /\ MissedOnlyAfterDeletion
  BY <1>1, NoWalkTyped
  DEF ShownIsBehind, UnseenIsAhead, Walking, RepeatedOnlyAfterInsertion,
      MissedOnlyAfterDeletion
<1> QED BY <1>2, <1>3, <1>4, <1>5 DEF IndInv

(* A new request has counted and found nothing yet. *)
LEMMA FreshRequest ==
  ASSUME TypeOK, KindOfList,
         walk' \in Walk, walk'.pc \in {"ready", "end", FirstStatement},
         walk'.total = 0, walk'.tied => walk.tied,
         walk'.raced => walk.raced, walk'.removed => walk.removed,
         UNCHANGED <<endpoint, rank, fts>>
  PROVE  /\ TypeOK' /\ CountStands' /\ Control' /\ KindOfList'
         /\ AnswerExplained' /\ walk'.pc # "answered"
<1>1. TypeOK'
  BY DEF TypeOK
<1>2. /\ walk'.pc \in {"ready", "end", "count", "fts_count", "find"}
      /\ walk'.pc = "find" => endpoint' = "orders"
      /\ walk'.pc = "fts_count" => endpoint' = "search"
      /\ walk'.pc = "count" => endpoint' # "search"
  BY FirstStatements DEF FirstStatement
<1>3. CountStands' /\ Control'
  BY <1>2 DEF CountStands, Control
<1>4. KindOfList'
  BY DEF KindOfList, Distinct
<1>5. AnswerExplained'
  BY <1>2, ItemsAssumption, FS_CardinalityType DEF AnswerExplained, PageFull
<1> QED BY <1>1, <1>2, <1>3, <1>4, <1>5

LEMMA AskStep ==
  ASSUME IndInv, NEW page \in Int, NEW size \in Int, Ask(page, size)
  PROVE  IndInv'
<1>0. TypeOK /\ KindOfList
  BY DEF IndInv
<1>1. /\ walk' \in Walk /\ walk'.pc = FirstStatement
      /\ walk'.page = page /\ walk'.total = 0 /\ walk'.items = {}
      /\ walk'.shown = {} /\ ~walk'.raced /\ ~walk'.inserted
      /\ ~walk'.removed /\ ~walk'.tied /\ ~walk'.repeated
      /\ walk'.whole => page = 1 /\ walk'.start = Listed
      /\ UNCHANGED <<endpoint, rank, fts>>
  BY <1>0, AskFields
<1>2. /\ TypeOK' /\ CountStands' /\ Control' /\ KindOfList'
      /\ AnswerExplained' /\ walk'.pc # "answered"
  BY <1>0, <1>1, FreshRequest
<1>3. walk'.pc \notin {"ready", "end"}
  BY <1>0, <1>1, FirstStatements
<1>4. walk'.whole => Reached' = 0
  <2>1. Limit(walk'.size) \in Nat
    BY <1>1, LimitIsPositive DEF Walk
  <2> DEFINE l == Limit(walk'.size)
  <2> HIDE DEF l
  <2>2. 0 * l = 0
    BY <2>1 DEF l
  <2> QED BY <1>1, <2>2 DEF Reached, PageIndex, l
<1>5. OffsetsFit'
  BY <1>1, <1>2, <1>4, ItemsAssumption, FS_CardinalityType
  DEF OffsetsFit, Walking
<1>6. ShownIsBehind'
  BY <1>1, <1>2 DEF ShownIsBehind
<1>7. UnseenIsAhead'
  <2>1. \A i \in Items : Place(i)' \in Nat
    BY <1>0, <1>1, ListFacts, SameList
  <2>2. walk'.whole => walk'.start = Listed' /\ Listed' \subseteq Items
    BY <1>0, <1>1, SameList, ListFacts, RowsAreFinite
  <2> QED BY <1>2, <1>4, <2>1, <2>2 DEF UnseenIsAhead, Walking
<1>8. RepeatedOnlyAfterInsertion' /\ MissedOnlyAfterDeletion'
  BY <1>1, <1>3 DEF RepeatedOnlyAfterInsertion, MissedOnlyAfterDeletion
<1> QED BY <1>2, <1>5, <1>6, <1>7, <1>8 DEF IndInv

LEMMA AgainStep ==
  ASSUME IndInv, Again
  PROVE  IndInv'
<1>0. TypeOK /\ KindOfList /\ walk.shown \subseteq Items
      /\ walk.start \subseteq Items
  BY WalkTyped DEF IndInv
<1>1. /\ walk' \in Walk /\ walk'.pc = FirstStatement
      /\ walk.pc \notin {"ready", "end"}
      /\ walk'.total = 0 /\ walk'.items = {} /\ Kept
      /\ walk'.inserted = walk.inserted /\ walk'.removed = walk.removed
      /\ walk'.tied = walk.tied /\ ~walk'.raced
      /\ UNCHANGED <<endpoint, rank, fts>>
  BY <1>0, AgainFields
<1>2. /\ TypeOK' /\ CountStands' /\ Control' /\ KindOfList'
      /\ AnswerExplained' /\ walk'.pc # "answered"
  BY <1>0, <1>1, FreshRequest
<1>3. /\ walk'.pc \notin {"ready", "end"} /\ Reached' = Reached
      /\ Walking' => Walking
      /\ Rows' = Rows /\ Listed' = Listed
      /\ \A i \in Items : Place(i)' = Place(i)
  BY <1>0, <1>1, FirstStatements, SameList DEF Kept, Reached, Walking
<1>4. OffsetsFit'
  BY <1>1, <1>2, <1>3 DEF IndInv, OffsetsFit, Kept
<1>5. ShownIsBehind'
  BY <1>0, <1>1, <1>2, <1>3 DEF IndInv, ShownIsBehind, Kept
<1>6. UnseenIsAhead'
  BY <1>0, <1>1, <1>2, <1>3 DEF IndInv, UnseenIsAhead, Kept
<1>7. RepeatedOnlyAfterInsertion' /\ MissedOnlyAfterDeletion'
  BY <1>1, <1>3
  DEF IndInv, RepeatedOnlyAfterInsertion, MissedOnlyAfterDeletion, Kept
<1> QED BY <1>2, <1>4, <1>5, <1>6, <1>7 DEF IndInv

LEMMA CountStep ==
  ASSUME IndInv, Count
  PROVE  IndInv'
<1>0. /\ TypeOK /\ Control /\ (~walk.raced => CountStands)
      /\ walk.shown \subseteq Items /\ walk.start \subseteq Items
  BY WalkTyped DEF IndInv
<1>1. /\ walk' \in Walk /\ walk.pc \in Counting /\ walk'.raced = walk.raced
      /\ walk'.items = walk.items /\ Kept
      /\ walk'.inserted = walk.inserted /\ walk'.removed = walk.removed
      /\ walk'.tied = walk.tied /\ UNCHANGED <<endpoint, rank, fts>>
  BY <1>0, CountFields
<1>2. PICK matching \in Matching :
        /\ walk'.total = Cardinality(matching)
        /\ walk'.pc = AfterCount(Cardinality(matching))
  BY <1>0, CountFields
<1>3. TypeOK'
  BY <1>0, <1>1 DEF TypeOK
<1>4. /\ Rows' = Rows /\ Listed' = Listed
      /\ \A i \in Items : Place(i)' = Place(i)
  BY <1>1, SameList
<1>5. /\ IsFiniteSet(matching) /\ Cardinality(matching) \in Nat
      /\ Cardinality(matching) <= Cardinality(Items)
  BY <1>0, MatchingRows, RowsAreFinite
<1>6. /\ Control' /\ (~walk.raced => CountStands')
      /\ walk'.pc \in Finding \cup {"trgm_count"}
  <2>1. CASE walk.pc = "count"
    <3>1. matching = Rows /\ walk'.pc = "find"
      BY <1>2, <2>1 DEF Matching, AfterCount
    <3> QED BY <1>0, <1>1, <1>2, <1>4, <2>1, <3>1
            DEF CountStands, Control, Finding
  <2>2. CASE walk.pc = "fts_count"
    <3>1. matching = Rows \cap fts /\ endpoint = "search"
      BY <1>0, <2>2 DEF Matching, Control
    <3>2. CASE Cardinality(matching) > 0
      <4>1. walk'.pc = "fts_find"
        BY <1>2, <2>2, <3>2 DEF AfterCount
      <4>2. matching # {}
        BY <3>2, FS_EmptySet
      <4> QED BY <1>1, <1>2, <1>4, <3>1, <4>1, <4>2
              DEF CountStands, Control, Finding
    <3>3. CASE ~(Cardinality(matching) > 0)
      <4>1. walk'.pc = "trgm_count"
        BY <1>2, <2>2, <3>3 DEF AfterCount
      <4>2. matching = {}
        BY <1>5, <3>3, FS_EmptySet
      <4> QED BY <1>1, <1>2, <1>4, <3>1, <4>1, <4>2
              DEF CountStands, Control, Finding
    <3> QED BY <3>2, <3>3
  <2>3. CASE walk.pc = "trgm_count"
    <3>1. walk'.pc = "trgm_find" /\ endpoint = "search"
      BY <1>0, <1>2, <2>3 DEF AfterCount, Control
    <3>2. Control'
      BY <1>0, <1>1, <1>4, <2>3, <3>1 DEF Control
    <3>3. ASSUME ~walk.raced PROVE CountStands'
      <4>1. Rows \cap fts = {}
        BY <1>0, <2>3, <3>3 DEF CountStands
      <4>2. matching = Rows \ fts
        BY <2>3, <4>1 DEF Matching
      <4> QED BY <1>1, <1>2, <1>4, <3>1, <4>1, <4>2 DEF CountStands
    <3> QED BY <3>1, <3>2, <3>3 DEF Finding
  <2> QED BY <1>1, <2>1, <2>2, <2>3 DEF Counting
<1>7. KindOfList'
  BY <1>1 DEF IndInv, KindOfList, Distinct
<1>8. /\ walk.pc \notin {"ready", "end", "answered"}
      /\ walk'.pc \notin {"ready", "end", "answered"}
      /\ Walking' => Walking /\ Reached' = Reached
  BY <1>1, <1>6 DEF Counting, Finding, Walking, Reached, Kept
<1>9. AnswerExplained'
  BY <1>2, <1>5, <1>8 DEF AnswerExplained, PageFull
<1>10. OffsetsFit'
  BY <1>1, <1>8 DEF IndInv, OffsetsFit, Walking, Reached, Kept
<1>11. ShownIsBehind'
  BY <1>0, <1>1, <1>4, <1>8 DEF IndInv, ShownIsBehind, Kept
<1>12. UnseenIsAhead'
  BY <1>0, <1>1, <1>4, <1>8 DEF IndInv, UnseenIsAhead, Kept
<1>13. RepeatedOnlyAfterInsertion' /\ MissedOnlyAfterDeletion'
  BY <1>1, <1>8
  DEF IndInv, RepeatedOnlyAfterInsertion, MissedOnlyAfterDeletion, Kept
<1> QED BY <1>1, <1>3, <1>6, <1>7, <1>9, <1>10, <1>11, <1>12, <1>13 DEF IndInv

(* What a fetch answers: its page is as long as the rows it found allow, and
   an announced page starts within the table. *)
LEMMA FindAnswers ==
  ASSUME IndInv, Find
  PROVE  /\ AnswerExplained' /\ OffsetsFit'
         /\ walk'.raced = walk.raced /\ (~walk.raced => CountStands')
<1>0. /\ TypeOK /\ AnswerExplained /\ (~walk.raced => CountStands)
      /\ walk.page \in Int /\ walk.size \in Int /\ walk.total \in Nat
  BY WalkTyped DEF IndInv
<1>1. /\ walk.pc \in Finding /\ walk'.pc = "answered"
      /\ walk'.raced = walk.raced /\ walk'.total = walk.total /\ Kept
      /\ endpoint = "orders" =>
           (walk'.next <=> Cardinality(walk'.items) = Limit(walk.size))
      /\ endpoint # "orders" =>
           (walk'.next <=> HasNext(walk.page, walk.size, walk.total))
      /\ UNCHANGED <<endpoint, rank, fts>>
  BY <1>0, FindFields
<1>2. PICK matching \in Matching, tie \in Ties :
        /\ walk'.items = Page(matching, tie)
        /\ walk'.rows = Cardinality(matching)
  BY <1>0, FindFields
<1> DEFINE p == PageIndex(walk.page)
           l == Limit(walk.size)
           n == Cardinality(matching)
           o == SqlOffset(walk.page, walk.size)
           all == Cardinality(Items)
<1>3. /\ p \in Nat /\ l \in Nat /\ l >= 1 /\ n \in Nat /\ n <= all
      /\ all \in Nat /\ walk'.rows = n
  BY <1>0, <1>2, WalkTyped, MatchingRows, RowsAreFinite, ItemsAssumption,
     FS_CardinalityType
<1>4. Cardinality(walk'.items) = PageLength(n, o, l)
  BY <1>0, <1>2, FetchedPage
<1>5. Fits(walk.page, walk.size) => o = p * l
  BY <1>0, SqlOffsetIsExact
<1>6. /\ walk'.page = walk.page /\ walk'.size = walk.size
      /\ walk'.whole = walk.whole
      /\ Behind' = walk'.rows - (p + 1) * l /\ Reached' = p * l
      /\ Reached = p * l /\ Limit(walk'.size) = l
  BY <1>1 DEF Kept, Behind, Reached
<1>7. PageFull'
  <2> HIDE DEF p, l, n, o
  <2>1. Fits(walk.page, walk.size) =>
          Cardinality(walk'.items) =
            IF Behind' >= 0 THEN l
            ELSE IF Behind' > -l THEN l + Behind' ELSE 0
    <3> DEFINE behind == n - (p + 1) * l
    <3>1. PageLength(n, p * l, l) =
            IF behind >= 0 THEN l
            ELSE IF behind > -l THEN l + behind ELSE 0
      BY <1>3, LengthOfPage
    <3>2. Behind' = behind
      BY <1>3, <1>6
    <3>3. Fits(walk.page, walk.size) =>
            Cardinality(walk'.items) = PageLength(n, p * l, l)
      BY <1>4, <1>5
    <3> HIDE DEF behind
    <3> QED BY <3>1, <3>2, <3>3
  <2>2. /\ Fits(walk.page, walk.size)' <=> Fits(walk.page, walk.size)
        /\ Limit(walk.size)' = l
    BY <1>6
  <2> QED BY <2>1, <2>2 DEF PageFull
<1>8. AnswerExplained'
  BY <1>0, <1>1, <1>3, <1>6, <1>7 DEF AnswerExplained
<1>9. OffsetsFit'
  <2>1. Walking' => Walking /\ walk.whole
    BY <1>1, <1>6 DEF Walking, Finding
  <2>2. Walking => walk.page >= 1 /\ Reached <= all
    BY DEF IndInv, OffsetsFit
  <2>3. ASSUME Walking, walk'.next
        PROVE  p * l + l <= all
    <3>1. Fits(walk.page, walk.size)
      BY <1>0, <1>6, <2>2, <2>3, WithinTheTable
    <3>2. CASE endpoint = "orders"
      <4>1. PageLength(n, p * l, l) = l
        BY <1>1, <1>4, <1>5, <2>3, <3>1, <3>2
      <4>2. n >= p * l + l
        <5> HIDE DEF p, l, n
        <5> QED BY <1>3, <4>1, LengthOfPage
      <4> HIDE DEF p, l, n, all
      <4>3. p * l \in Nat
        BY <1>3
      <4> QED BY <1>3, <4>2, <4>3
    <3>3. CASE endpoint # "orders"
      <4>1. (p + 1) * l < walk.total
        BY <1>0, <1>1, <2>3, <3>1, <3>3, OffsetIsExact
      <4>2. walk.total <= all
        BY <1>0 DEF AnswerExplained
      <4> HIDE DEF p, l, n, all
      <4>3. p * l \in Nat /\ (p + 1) * l = p * l + l
        BY <1>3
      <4> QED BY <1>0, <1>3, <4>1, <4>2, <4>3
    <3> QED BY <3>2, <3>3
  <2>4. ~walk'.whole /\ walk'.pc # "end" => walk'.shown = {}
    BY <1>1 DEF IndInv, OffsetsFit, Kept, Finding
  <2> QED BY <1>6, <2>1, <2>2, <2>3, <2>4 DEF OffsetsFit
<1>10. ASSUME ~walk.raced PROVE CountStands'
  <2>1. ASSUME endpoint # "orders"
        PROVE  walk.total = n
    <3>1. CASE walk.pc = "find"
      BY <1>0, <1>10, <2>1, <3>1 DEF Matching, CountStands
    <3>2. CASE walk.pc = "fts_find"
      BY <1>0, <1>10, <2>1, <3>2 DEF Matching, CountStands
    <3>3. CASE walk.pc = "trgm_find"
      <4>1. matching = Rows \ fts
        BY <1>0, <1>10, <3>3 DEF Matching, CountStands
      <4> QED BY <1>0, <1>10, <3>3, <4>1 DEF CountStands
    <3> QED BY <1>1, <3>1, <3>2, <3>3 DEF Finding
  <2> QED BY <1>1, <1>3, <1>6, <2>1 DEF CountStands
<1> QED BY <1>1, <1>8, <1>9, <1>10

(* What a fetch has to do with the walk. *)
LEMMA FindShows ==
  ASSUME IndInv, Find
  PROVE  ShownIsBehind' /\ UnseenIsAhead'
<1>0. /\ TypeOK /\ Control /\ walk.page \in Int /\ walk.size \in Int
      /\ walk.shown \subseteq Items /\ walk.start \subseteq Items
      /\ Reached \in Nat /\ Limit(walk.size) \in Nat
  BY WalkTyped DEF IndInv
<1>1. /\ walk.pc \in Finding /\ walk'.pc = "answered" /\ Kept
      /\ walk'.inserted = walk.inserted /\ walk'.removed = walk.removed
      /\ UNCHANGED <<endpoint, rank, fts>>
  BY <1>0, FindFields
<1>2. PICK matching \in Matching, tie \in Ties :
        /\ walk'.items = Page(matching, tie)
        /\ walk'.rows = Cardinality(matching)
        /\ ~walk'.tied => /\ ~walk.tied
                          /\ \A i, j \in matching : i # j => rank[i] # rank[j]
  BY <1>0, FindFields
<1>3. /\ Rows' = Rows /\ Listed' = Listed /\ Reached' = Reached
      /\ Limit(walk'.size) = Limit(walk.size)
      /\ \A i \in Items : Place(i)' = Place(i)
  BY <1>1, SameList DEF Kept, Reached
<1>4. /\ Walking' => Walking
      /\ Walking => Fits(walk.page, walk.size)
  BY <1>0, <1>1, WithinTheTable
  DEF Walking, Kept, Finding, IndInv, OffsetsFit, Reached
<1>5. /\ Listed \subseteq Items
      /\ \A i \in Items : Place(i) \in Nat
  BY <1>0, ListFacts, RowsAreFinite
<1>6. ASSUME Walking, ~walk'.tied, matching = Listed
      PROVE  walk'.items =
               {i \in Listed :
                  Place(i) \in Reached..(Reached + Limit(walk.size) - 1)}
  <2>1. \A i, j \in matching : i # j => rank[i] # rank[j]
    BY <1>2, <1>6
  <2> QED BY <1>0, <1>2, <1>4, <1>6, <2>1, UntiedPage
<1>7. ShownIsBehind'
  <2> SUFFICES ASSUME Walking', ~walk'.inserted, ~walk'.tied
               PROVE  /\ \A i \in walk'.shown \cap Rows' :
                           i \in Listed' /\ Place(i)' < Reached'
                      /\ \A i \in walk'.items :
                           /\ i \in Listed'
                           /\ Place(i)' \in
                                Reached'..(Reached' + Limit(walk'.size) - 1)
    BY DEF ShownIsBehind
  <2>1. \A i \in walk.shown \cap Rows : i \in Listed /\ Place(i) < Reached
    BY <1>1, <1>2, <1>4 DEF IndInv, ShownIsBehind
  <2>2. matching = Listed \/ matching = {}
    BY <1>0, <1>1, FetchedList
  <2>3. CASE matching = {}
    <3>1. walk'.items = {}
      BY <1>2, <2>3 DEF Page
    <3> QED BY <1>0, <1>1, <1>3, <2>1, <3>1 DEF Kept
  <2>4. CASE matching = Listed
    BY <1>0, <1>1, <1>3, <1>4, <1>5, <1>6, <2>1, <2>4 DEF Kept
  <2> QED BY <2>2, <2>3, <2>4
<1>8. UnseenIsAhead'
  <2> SUFFICES ASSUME Walking', ~walk'.removed, ~walk'.tied,
                      endpoint' = "search" => ~walk'.inserted
               PROVE  /\ walk'.start \subseteq Listed'
                      /\ \A i \in walk'.start \ walk'.shown :
                           Place(i)' >= Reached'
                      /\ walk'.rows = Cardinality(Listed')
                      /\ \A i \in walk'.start \ (walk'.shown \cup walk'.items) :
                           Place(i)' >= Reached' + Limit(walk'.size)
    BY DEF UnseenIsAhead
  <2>1. /\ walk.start \subseteq Listed
        /\ \A i \in walk.start \ walk.shown : Place(i) >= Reached
    BY <1>1, <1>2, <1>4 DEF IndInv, UnseenIsAhead
  <2>2. matching = Listed
    BY <1>0, <1>1, FetchedList
  <2>3. \A i \in walk.start \ (walk.shown \cup walk'.items) :
          Place(i) >= Reached + Limit(walk.size)
    <3>1. ASSUME NEW i \in walk.start \ (walk.shown \cup walk'.items)
          PROVE  Place(i) >= Reached + Limit(walk.size)
      <4>1. /\ Place(i) \in Nat /\ Place(i) >= Reached
            /\ Place(i) \notin Reached..(Reached + Limit(walk.size) - 1)
        BY <1>4, <1>5, <1>6, <2>1, <2>2
      <4> QED BY <1>0, <4>1
    <3> QED BY <3>1
  <2> QED BY <1>0, <1>1, <1>2, <1>3, <2>1, <2>2, <2>3 DEF Kept
<1> QED BY <1>7, <1>8

LEMMA FindStep ==
  ASSUME IndInv, Find
  PROVE  IndInv'
<1>0. TypeOK
  BY DEF IndInv
<1>1. /\ walk' \in Walk /\ walk'.pc = "answered" /\ Kept
      /\ walk'.inserted = walk.inserted /\ walk'.removed = walk.removed
      /\ walk'.raced = walk.raced /\ UNCHANGED <<endpoint, rank, fts>>
  BY <1>0, FindFields
<1>2. PICK matching \in Matching :
        /\ ~walk'.tied => ~walk.tied
        /\ walk'.tied => \/ walk.tied
                         \/ \E i, j \in matching : i # j /\ rank[i] = rank[j]
  BY <1>0, FindFields
<1>3. TypeOK' /\ Control'
  BY <1>0, <1>1 DEF TypeOK, Control
<1>4. KindOfList'
  BY <1>0, <1>1, <1>2, MatchingRows
  DEF IndInv, KindOfList, Distinct, Rows
<1>5. RepeatedOnlyAfterInsertion' /\ MissedOnlyAfterDeletion'
  BY <1>1, <1>2
  DEF IndInv, RepeatedOnlyAfterInsertion, MissedOnlyAfterDeletion, Kept
<1> QED BY <1>3, <1>4, <1>5, FindAnswers, FindShows DEF IndInv

-----------------------------------------------------------------------------
(* The client has its page. *)

(* Rows shown before stand before the page. *)
LEMMA NothingShownTwice ==
  ASSUME IndInv, walk.pc = "answered", ~walk.inserted, ~walk.tied
  PROVE  walk.items \cap walk.shown = {}
<1>0. TypeOK
  BY DEF IndInv
<1>1. CASE ~walk.whole
  BY <1>1 DEF IndInv, OffsetsFit
<1>2. CASE walk.whole
  <2>1. /\ \A i \in walk.shown \cap Rows : i \in Listed /\ Place(i) < Reached
        /\ \A i \in walk.items :
             i \in Listed
             /\ Place(i) \in Reached..(Reached + Limit(walk.size) - 1)
    BY <1>2 DEF IndInv, ShownIsBehind, Walking
  <2>2. ASSUME NEW i \in walk.items \cap walk.shown
        PROVE  FALSE
    <3>1. i \in Rows /\ Place(i) \in Nat /\ Reached \in Nat
      BY <1>0, <2>1, ListFacts, RowsAreFinite, WalkTyped
    <3> QED BY <1>0, <2>1, <3>1, WalkTyped
  <2> QED BY <2>2
<1> QED BY <1>1, <1>2

(* Behind the last page there is no row. *)
LEMMA NothingLeftUnseen ==
  ASSUME IndInv, walk.pc = "answered", walk.whole, ~walk.next,
         ~walk.removed, ~walk.raced, ~walk.tied,
         endpoint = "search" => ~walk.inserted
  PROVE  walk.start \subseteq walk.shown \cup walk.items
<1>0. /\ TypeOK /\ Walking
      /\ walk.page \in Int /\ walk.size \in Int /\ walk.rows \in Nat
  BY WalkTyped DEF IndInv, Walking
<1> DEFINE p == PageIndex(walk.page)
           l == Limit(walk.size)
<1>1. /\ walk.start \subseteq Listed /\ walk.rows = Cardinality(Listed)
      /\ \A i \in walk.start \ (walk.shown \cup walk.items) :
           Place(i) >= p * l + l
  BY <1>0 DEF IndInv, UnseenIsAhead, Reached
<1>2. p \in Nat /\ l \in Nat /\ l >= 1
  BY <1>0, WalkTyped
<1>3. Fits(walk.page, walk.size)
  BY <1>0, WithinTheTable DEF IndInv, OffsetsFit, Reached
<1>4. p * l \in Nat /\ (p + 1) * l = p * l + l
  <2> HIDE DEF p, l
  <2> QED BY <1>2
<1>5. walk.rows <= p * l + l
  <2>1. CASE endpoint = "orders"
    <3>1. Cardinality(walk.items) # l
      BY <1>0, <2>1 DEF IndInv, AnswerExplained
    <3>2. ~(Behind >= 0)
      BY <1>0, <1>3, <3>1 DEF IndInv, AnswerExplained, PageFull
    <3>3. Behind = walk.rows - (p * l + l)
      BY <1>4 DEF Behind
    <3> HIDE DEF p, l
    <3> QED BY <1>0, <1>2, <1>4, <3>2, <3>3
  <2>2. CASE endpoint # "orders"
    <3>1. ~HasNext(walk.page, walk.size, walk.rows)
      BY <2>2 DEF IndInv, CountStands
    <3>2. ~((p + 1) * l < walk.rows)
      BY <1>0, <1>3, <3>1, OffsetIsExact
    <3> HIDE DEF p, l
    <3> QED BY <1>0, <1>2, <1>4, <3>2
  <2> QED BY <2>1, <2>2
<1>6. ASSUME NEW i \in walk.start \ (walk.shown \cup walk.items)
      PROVE  FALSE
  <2>1. i \in Listed /\ Place(i) \in Nat /\ Place(i) < walk.rows
    BY <1>0, <1>1, ListFacts, RowsAreFinite
  <2>2. Place(i) >= p * l + l
    BY <1>1
  <2> HIDE DEF p, l
  <2> QED BY <1>0, <1>2, <1>4, <1>5, <2>1, <2>2
<1> QED BY <1>6

LEMMA DeliverStep ==
  ASSUME IndInv, Deliver
  PROVE  IndInv'
<1>0. /\ TypeOK /\ KindOfList
      /\ walk.page \in Int /\ walk.items \subseteq Items
      /\ walk.shown \subseteq Items /\ walk.start \subseteq Items
      /\ Limit(walk.size) \in Nat /\ Reached \in Nat
  BY WalkTyped DEF IndInv
<1>1. /\ walk' \in Walk /\ walk.pc = "answered"
      /\ walk'.pc \in {"end", "ready", FirstStatement}
      /\ walk'.total = 0 /\ walk'.items = {}
      /\ walk'.size = walk.size /\ walk'.whole = walk.whole
      /\ walk'.start = walk.start /\ walk'.shown = walk.shown \cup walk.items
      /\ walk'.inserted = walk.inserted /\ walk'.removed = walk.removed
      /\ walk'.tied = walk.tied
      /\ walk'.repeated => walk.repeated \/ walk.items \cap walk.shown # {}
      /\ walk'.pc # "end" =>
           walk.whole /\ walk.next /\ walk'.page = walk.page + 1
      /\ walk'.pc = "end" =>
           ~(walk.whole /\ walk.next) /\ walk'.raced = walk.raced
      /\ walk'.raced => walk.raced
      /\ UNCHANGED <<endpoint, rank, fts>>
  BY <1>0, DeliverFields
<1>2. /\ TypeOK' /\ CountStands' /\ Control' /\ KindOfList'
      /\ AnswerExplained' /\ walk'.pc # "answered"
  BY <1>0, <1>1, FreshRequest
<1>3. /\ Rows' = Rows /\ Listed' = Listed
      /\ \A i \in Items : Place(i)' = Place(i)
  BY <1>1, SameList
<1>4. /\ \A i \in Items : Place(i) \in Nat
      /\ \A i \in Listed : i \in Rows
  BY <1>0, ListFacts
<1>5. ASSUME Walking'
      PROVE  /\ Walking /\ walk.next /\ walk'.page >= 1
             /\ Reached' = Reached + Limit(walk.size)
  <2>1. /\ walk'.pc # "end" /\ Walking /\ walk.next
        /\ walk'.page = walk.page + 1 /\ walk.page >= 1
    BY <1>1, <1>5 DEF Walking, IndInv, OffsetsFit
  <2> DEFINE p == PageIndex(walk.page)
             l == Limit(walk.size)
  <2>2. PageIndex(walk'.page) = p + 1 /\ p \in Nat
    BY <1>0, <2>1 DEF PageIndex
  <2>3. Reached' = (p + 1) * l /\ Reached = p * l
    BY <1>1, <2>2 DEF Reached
  <2>4. l \in Nat
    BY <1>0
  <2> HIDE DEF p, l
  <2>5. (p + 1) * l = p * l + l
    BY <2>2, <2>4
  <2> QED BY <1>0, <2>1, <2>3, <2>5 DEF l
<1>6. OffsetsFit'
  <2>1. Walking' => walk'.page >= 1 /\ Reached' <= Cardinality(Items)
    BY <1>1, <1>5 DEF IndInv, OffsetsFit
  <2> QED BY <1>1, <1>2, <2>1 DEF OffsetsFit
<1>7. ShownIsBehind'
  <2> SUFFICES ASSUME Walking', ~walk'.inserted, ~walk'.tied,
                      NEW i \in walk'.shown \cap Rows'
               PROVE  i \in Listed' /\ Place(i)' < Reached'
    BY <1>2 DEF ShownIsBehind
  <2>1. /\ \A j \in walk.shown \cap Rows : j \in Listed /\ Place(j) < Reached
        /\ \A j \in walk.items :
             j \in Listed
             /\ Place(j) \in Reached..(Reached + Limit(walk.size) - 1)
    BY <1>1, <1>5 DEF IndInv, ShownIsBehind
  <2>2. i \in Items /\ i \in Rows /\ Place(i) \in Nat /\ Place(i)' = Place(i)
    BY <1>0, <1>1, <1>3, <1>4
  <2>3. CASE i \in walk.shown
    BY <1>0, <1>3, <1>5, <2>1, <2>2, <2>3
  <2>4. CASE i \in walk.items
    BY <1>0, <1>3, <1>5, <2>1, <2>2, <2>4
  <2> QED BY <1>1, <2>3, <2>4
<1>8. UnseenIsAhead'
  <2> SUFFICES ASSUME Walking', ~walk'.removed, ~walk'.tied,
                      endpoint' = "search" => ~walk'.inserted
               PROVE  /\ walk'.start \subseteq Listed'
                      /\ \A i \in walk'.start \ walk'.shown :
                           Place(i)' >= Reached'
    BY <1>2 DEF UnseenIsAhead
  <2>1. /\ walk.start \subseteq Listed
        /\ \A i \in walk.start \ (walk.shown \cup walk.items) :
             Place(i) >= Reached + Limit(walk.size)
    BY <1>1, <1>5 DEF IndInv, UnseenIsAhead
  <2> QED BY <1>0, <1>1, <1>3, <1>5, <2>1
<1>9. RepeatedOnlyAfterInsertion'
  BY <1>1, NothingShownTwice DEF IndInv, RepeatedOnlyAfterInsertion
<1>10. MissedOnlyAfterDeletion'
  BY <1>0, <1>1, NothingLeftUnseen DEF MissedOnlyAfterDeletion, KindOfList
<1> QED BY <1>2, <1>6, <1>7, <1>8, <1>9, <1>10 DEF IndInv

-----------------------------------------------------------------------------
(* Writes by others. *)

(* A write that leaves an answer on its way alone. *)
LEMMA Writing ==
  ASSUME IndInv, NEW inserted \in BOOLEAN, NEW removed \in BOOLEAN,
         Written(inserted, removed),
         rank' \in [Items -> 0..Gone], fts' \subseteq Items, UNCHANGED endpoint
  PROVE  /\ TypeOK' /\ (~walk'.raced => CountStands')
         /\ AnswerExplained' /\ OffsetsFit'
         /\ RepeatedOnlyAfterInsertion' /\ MissedOnlyAfterDeletion'
         /\ walk.pc \notin {"ready", "end", "answered"} /\ walk'.pc = walk.pc
         /\ Kept /\ walk'.tied = walk.tied
         /\ walk.inserted \/ inserted => walk'.inserted
         /\ walk.removed \/ removed => walk'.removed
         /\ walk'.raced => walk.raced \/ endpoint # "orders"
         /\ walk'.removed => walk.removed \/ removed
         /\ Walking' => Walking /\ Reached' = Reached
<1>0. TypeOK
  BY DEF IndInv
<1>1. /\ walk' \in Walk /\ walk'.pc = walk.pc
      /\ walk.pc \in Counting \cup Finding
      /\ ~walk'.raced =>
           endpoint = "orders" \/ walk.pc \in {"count", "fts_count"}
      /\ walk'.raced => walk.raced \/ endpoint # "orders"
      /\ walk'.total = walk.total /\ walk'.items = walk.items /\ Kept
      /\ walk'.tied = walk.tied
      /\ walk.inserted \/ inserted => walk'.inserted
      /\ walk.removed \/ removed => walk'.removed
      /\ walk'.removed => walk.removed \/ removed
  BY <1>0, WrittenFields
<1>2. walk.pc \notin {"ready", "end", "answered"}
  BY <1>1 DEF Counting, Finding
<1>3. TypeOK'
  BY <1>0, <1>1 DEF TypeOK
<1>4. ~walk'.raced => CountStands'
  BY <1>1, <1>2 DEF CountStands, IndInv, Control
<1>5. Walking' => Walking /\ Reached' = Reached
  BY <1>1 DEF Walking, Reached, Kept
<1>6. AnswerExplained' /\ OffsetsFit'
  BY <1>1, <1>2, <1>5
  DEF IndInv, AnswerExplained, PageFull, OffsetsFit, Walking, Reached, Kept
<1>7. RepeatedOnlyAfterInsertion' /\ MissedOnlyAfterDeletion'
  BY <1>1, <1>2
  DEF IndInv, RepeatedOnlyAfterInsertion, MissedOnlyAfterDeletion, Kept
<1> QED BY <1>1, <1>2, <1>3, <1>4, <1>5, <1>6, <1>7

LEMMA RankUpdate ==
  ASSUME TypeOK, NEW i \in Items, NEW k \in 0..Gone,
         rank' = [rank EXCEPT ![i] = k]
  PROVE  /\ rank' \in [Items -> 0..Gone] /\ rank'[i] = k
         /\ \A j \in Items : j # i => rank'[j] = rank[j]
         /\ \A j \in Items : j # i => (j \in Rows' <=> j \in Rows)
         /\ i \in Rows' <=> k \in 1..MaxRank
BY DEF TypeOK, Rows

(* A row that goes leaves its list, and no other row moves to the back. *)
LEMMA DeleteList ==
  ASSUME TypeOK, NEW d \in Items, Delete(d)
  PROVE  /\ rank' \in [Items -> 0..Gone] /\ fts' \subseteq Items
         /\ Rows' = Rows \ {d} /\ Rows' \cap fts' = (Rows \cap fts) \ {d}
         /\ Listed' = Listed \ {d} \/ Listed \subseteq {d}
         /\ Listed' = Listed \ {d} =>
              \A i \in Items : i # d => Place(i)' <= Place(i)
<1>1. /\ rank' = [rank EXCEPT ![d] = Gone] /\ fts' = fts \ {d}
      /\ d \in Rows /\ endpoint' = endpoint
  BY DEF Delete
<1>2. Gone \in 0..Gone /\ Gone \notin 1..MaxRank
  BY ItemsAssumption DEF Gone
<1>3. /\ rank' \in [Items -> 0..Gone] /\ rank'[d] = Gone
      /\ \A j \in Items : j # d => rank'[j] = rank[j]
      /\ \A j \in Items : j # d => (j \in Rows' <=> j \in Rows)
      /\ d \notin Rows'
  BY <1>1, <1>2, RankUpdate
<1>4. Rows' = Rows \ {d} /\ fts' \subseteq Items
  <2>1. Rows' \subseteq Items /\ Rows \subseteq Items
    BY DEF Rows
  <2> QED BY <1>1, <1>3, <2>1 DEF TypeOK
<1>5. Rows' \cap fts' = (Rows \cap fts) \ {d}
  BY <1>1, <1>4
<1>6. Listed' = Listed \ {d} \/ Listed \subseteq {d}
  BY <1>1, <1>4, <1>5 DEF Listed
<1>7. ASSUME Listed' = Listed \ {d}, NEW i \in Items, i # d
      PROVE  Place(i)' <= Place(i)
  <2> DEFINE before == {j \in Listed : rank[j] < rank[i]}
             after == {j \in Listed' : rank'[j] < rank'[i]}
  <2>1. Listed \subseteq Items
    BY ListFacts, RowsAreFinite
  <2>2. after \subseteq before
    BY <1>3, <1>7, <2>1
  <2>3. IsFiniteSet(before)
    BY <2>1, RowsAreFinite
  <2>4. Cardinality(after) <= Cardinality(before)
    BY <2>2, <2>3, FS_Subset
  <2> QED BY <2>4 DEF Place
<1> QED BY <1>3, <1>4, <1>5, <1>6, <1>7

LEMMA DeleteStep ==
  ASSUME IndInv, NEW d \in Items, Delete(d)
  PROVE  IndInv'
<1>0. /\ TypeOK /\ Control /\ KindOfList
      /\ walk.shown \subseteq Items /\ Reached \in Nat
  BY WalkTyped DEF IndInv
<1>1. /\ rank' \in [Items -> 0..Gone] /\ fts' \subseteq Items
      /\ Rows' = Rows \ {d} /\ Rows' \cap fts' = (Rows \cap fts) \ {d}
      /\ Listed' = Listed \ {d} \/ Listed \subseteq {d}
      /\ Listed' = Listed \ {d} =>
           \A i \in Items : i # d => Place(i)' <= Place(i)
  BY <1>0, DeleteList
<1>2. Written(FALSE, TRUE) /\ UNCHANGED endpoint
  BY DEF Delete
<1>3. /\ TypeOK' /\ (~walk'.raced => CountStands')
      /\ AnswerExplained' /\ OffsetsFit'
      /\ RepeatedOnlyAfterInsertion' /\ MissedOnlyAfterDeletion'
      /\ walk.pc \notin {"ready", "end", "answered"} /\ walk'.pc = walk.pc
      /\ Kept /\ walk'.tied = walk.tied
      /\ walk.inserted => walk'.inserted
      /\ walk'.removed
      /\ Walking' => Walking /\ Reached' = Reached
  BY <1>1, <1>2, Writing
<1>4. Control'
  BY <1>0, <1>1, <1>2, <1>3 DEF Control
<1>5. KindOfList'
  <2>1. rank' = [rank EXCEPT ![d] = Gone] /\ Gone \notin 1..MaxRank
        /\ Gone \in 0..Gone
    BY ItemsAssumption DEF Delete, Gone
  <2>2. Distinct(rank) => Distinct(rank)'
    BY <1>0, <2>1 DEF Distinct, TypeOK
  <2>3. endpoint # "orders"
    BY DEF Delete
  <2> QED BY <1>0, <1>2, <1>3, <2>2, <2>3 DEF KindOfList
<1>6. ShownIsBehind'
  <2> SUFFICES ASSUME Walking', ~walk'.inserted, ~walk'.tied,
                      NEW i \in walk'.shown \cap Rows'
               PROVE  i \in Listed' /\ Place(i)' < Reached'
    BY <1>3 DEF ShownIsBehind
  <2>1. i \in walk.shown \cap Rows /\ i # d /\ i \in Items
    BY <1>0, <1>1, <1>3 DEF Kept
  <2>2. i \in Listed /\ Place(i) < Reached
    BY <1>3, <2>1 DEF IndInv, ShownIsBehind
  <2>3. Listed' = Listed \ {d} /\ Place(i)' <= Place(i) /\ Reached' = Reached
    BY <1>1, <1>3, <2>1, <2>2
  <2>4. Place(i) \in Nat /\ Place(i)' \in Nat
    <3>1. Listed' \subseteq Items
      BY <1>0, <2>3, ListFacts, RowsAreFinite
    <3>2. IsFiniteSet(Listed')
      BY <1>0, <3>1, RowsAreFinite
    <3>3. Cardinality({j \in Listed' : rank'[j] < rank'[i]}) \in Nat
      BY <3>2, FS_Subset, FS_CardinalityType
    <3> QED BY <1>0, <2>1, <3>3, ListFacts DEF Place
  <2> QED BY <1>0, <2>1, <2>2, <2>3, <2>4
<1>7. UnseenIsAhead'
  BY <1>3 DEF UnseenIsAhead
<1> QED BY <1>3, <1>4, <1>5, <1>6, <1>7 DEF IndInv

(* A row that comes in joins its list, and no other row moves to the front. *)
LEMMA CreateStep ==
  ASSUME IndInv, NEW c \in Items, NEW k \in 1..MaxRank, NEW byText \in BOOLEAN,
         Create(c, k, byText)
  PROVE  IndInv'
<1>0. /\ TypeOK /\ Control /\ KindOfList /\ MaxRank \in Nat
      /\ walk.start \subseteq Items /\ Reached \in Nat
  BY WalkTyped, ItemsAssumption DEF IndInv
<1>1. /\ rank' = [rank EXCEPT ![c] = k] /\ rank[c] = 0 /\ CanTake(k)
      /\ fts' = IF byText THEN fts \cup {c} ELSE fts \ {c}
      /\ Written(TRUE, FALSE) /\ UNCHANGED endpoint
  BY DEF Create, Unborn
<1>2. /\ rank' \in [Items -> 0..Gone]
      /\ \A j \in Items : j # c => rank'[j] = rank[j]
      /\ \A j \in Items : j # c => (j \in Rows' <=> j \in Rows)
      /\ rank'[c] = k /\ c \in Rows' /\ c \notin Rows /\ fts' \subseteq Items
  <2>1. k \in 0..Gone
    BY <1>0 DEF Gone
  <2> QED BY <1>0, <1>1, <2>1, RankUpdate DEF Rows, TypeOK
<1>3. /\ TypeOK' /\ (~walk'.raced => CountStands')
      /\ AnswerExplained' /\ OffsetsFit'
      /\ RepeatedOnlyAfterInsertion' /\ MissedOnlyAfterDeletion'
      /\ walk.pc \notin {"ready", "end", "answered"} /\ walk'.pc = walk.pc
      /\ Kept /\ walk'.tied = walk.tied
      /\ walk'.inserted
      /\ walk.removed => walk'.removed
      /\ walk'.removed => walk.removed
      /\ walk'.raced => walk.raced \/ endpoint # "orders"
      /\ Walking' => Walking /\ Reached' = Reached
  BY <1>1, <1>2, Writing
<1>4. Control'
  BY <1>0, <1>1, <1>3 DEF Control
<1>5. KindOfList'
  <2>1. ASSUME endpoint = "products"
        PROVE  Distinct(rank)'
    <3>1. Distinct(rank)
      BY <1>0, <2>1 DEF KindOfList
    <3>2. \A i \in Items : rank[i] # k
      BY <1>1, <2>1 DEF CanTake
    <3> QED BY <1>0, <1>2, <3>1, <3>2 DEF Distinct
  <2> QED BY <1>0, <1>1, <1>3, <2>1 DEF KindOfList
<1>6. ShownIsBehind'
  BY <1>3 DEF ShownIsBehind
<1>7. UnseenIsAhead'
  <2> SUFFICES ASSUME Walking', ~walk'.removed, ~walk'.tied,
                      endpoint' # "search"
               PROVE  /\ walk'.start \subseteq Listed'
                      /\ \A i \in walk'.start \ walk'.shown :
                           Place(i)' >= Reached'
    BY <1>3 DEF UnseenIsAhead
  <2>1. Listed = Rows /\ Listed' = Rows'
    BY <1>1 DEF Listed
  <2>2. /\ walk.start \subseteq Listed
        /\ \A i \in walk.start \ walk.shown : Place(i) >= Reached
    BY <1>1, <1>3 DEF IndInv, UnseenIsAhead
  <2>3. Rows' \subseteq Items /\ Rows \subseteq Items /\ Rows \subseteq Rows'
    BY <1>2 DEF Rows
  <2>4. ASSUME NEW i \in Rows
        PROVE  /\ Place(i)' >= Place(i)
               /\ Place(i)' \in Nat /\ Place(i) \in Nat
    <3> DEFINE before == {j \in Listed : rank[j] < rank[i]}
               after == {j \in Listed' : rank'[j] < rank'[i]}
    <3>1. before \subseteq after
      BY <1>2, <2>1, <2>3
    <3>2. after \in SUBSET Items
      BY <2>1, <2>3
    <3>3. IsFiniteSet(after)
      BY <1>0, <3>2, RowsAreFinite
    <3>4. /\ Cardinality(before) <= Cardinality(after)
          /\ Cardinality(after) \in Nat /\ Cardinality(before) \in Nat
      BY <3>1, <3>3, FS_Subset, FS_CardinalityType
    <3> QED BY <3>4 DEF Place
  <2>5. Reached' = Reached
    BY <1>3
  <2>6. ASSUME NEW i \in walk.start \ walk.shown
        PROVE  Place(i)' >= Reached
    <3>1. /\ Place(i)' >= Place(i) /\ Place(i) >= Reached
          /\ Place(i)' \in Nat /\ Place(i) \in Nat
      BY <2>1, <2>2, <2>4
    <3> QED BY <1>0, <3>1
  <2> QED BY <1>3, <2>1, <2>2, <2>3, <2>5, <2>6 DEF Kept
<1> QED BY <1>3, <1>4, <1>5, <1>6, <1>7 DEF IndInv

LEMMA EditStep ==
  ASSUME IndInv, NEW c \in Items, NEW k \in 1..MaxRank, NEW byText \in BOOLEAN,
         Edit(c, k, byText)
  PROVE  IndInv'
<1>0. TypeOK /\ Control /\ MaxRank \in Nat
  BY ItemsAssumption DEF IndInv
<1>1. /\ rank' = [rank EXCEPT ![c] = k] /\ endpoint = "search"
      /\ fts' = IF byText THEN fts \cup {c} ELSE fts \ {c}
      /\ Written(TRUE, TRUE) /\ UNCHANGED endpoint
  BY DEF Edit
<1>2. rank' \in [Items -> 0..Gone] /\ fts' \subseteq Items
  <2>1. k \in 0..Gone
    BY <1>0 DEF Gone
  <2> QED BY <1>0, <1>1, <2>1, RankUpdate DEF TypeOK
<1>3. /\ TypeOK' /\ (~walk'.raced => CountStands')
      /\ AnswerExplained' /\ OffsetsFit'
      /\ RepeatedOnlyAfterInsertion' /\ MissedOnlyAfterDeletion'
      /\ walk'.pc = walk.pc /\ walk'.inserted /\ walk'.removed
  BY <1>1, <1>2, Writing
<1>4. Control' /\ KindOfList' /\ ShownIsBehind' /\ UnseenIsAhead'
  BY <1>0, <1>1, <1>3
  DEF Control, KindOfList, ShownIsBehind, UnseenIsAhead
<1> QED BY <1>3, <1>4 DEF IndInv

LEMMA InvStep == IndInv /\ [Next]_vars => IndInv'
<1> SUFFICES ASSUME IndInv, [Next]_vars PROVE IndInv'
    OBVIOUS
<1>1. CASE Next
  <2>1. ASSUME NEW page \in Pages, NEW size \in Sizes, Ask(page, size)
        PROVE  IndInv'
    <3>1. page \in Int /\ size \in Int
      BY Half, SizeAssumption
    <3> QED BY <2>1, <3>1, AskStep
  <2> QED BY <1>1, <2>1, CountStep, FindStep, DeliverStep, AgainStep,
             DeleteStep, CreateStep, EditStep DEF Next
<1>2. CASE UNCHANGED vars
  <2>1. /\ endpoint' = endpoint /\ rank' = rank /\ fts' = fts /\ walk' = walk
    BY <1>2 DEF vars
  <2>2. /\ TypeOK' /\ (~walk'.raced => CountStands') /\ Control'
        /\ KindOfList'
    BY <2>1 DEF IndInv, TypeOK, CountStands, Control, KindOfList,
                Distinct, Rows
  <2>3. AnswerExplained' /\ OffsetsFit' /\ Walking' = Walking
        /\ Reached' = Reached
    BY <2>1 DEF IndInv, AnswerExplained, PageFull, Behind, OffsetsFit, Walking,
                Reached
  <2>4. Rows' = Rows /\ Listed' = Listed
        /\ \A i \in Items : Place(i)' = Place(i)
    BY <2>1, SameList
  <2>5. ShownIsBehind' /\ UnseenIsAhead'
    BY <2>1, <2>3, <2>4, WalkTyped DEF IndInv, ShownIsBehind, UnseenIsAhead
  <2>6. RepeatedOnlyAfterInsertion' /\ MissedOnlyAfterDeletion'
    BY <2>1 DEF IndInv, RepeatedOnlyAfterInsertion, MissedOnlyAfterDeletion
  <2> QED BY <2>2, <2>3, <2>5, <2>6 DEF IndInv
<1> QED BY <1>1, <1>2

-----------------------------------------------------------------------------
(* What a client of the lists can rely on, however many rows there are and
   however the writes of others fall between the statements of its requests:
   counts stand until rows are written; deletions only move rows towards the
   front of a list, and insertions only towards its end. *)
THEOREM Invariance == Spec => []IndInv
BY InitInv, InvStep, PTL DEF Spec

(* A page shows a row again only after a row came in or moved, or if search
   results had equal ranks or orders equal times: deletions alone never repeat
   one. *)
THEOREM DeletionsNeverRepeat == Spec => []RepeatedOnlyAfterInsertion
<1>1. IndInv => RepeatedOnlyAfterInsertion
  BY DEF IndInv
<1> QED BY <1>1, Invariance, PTL

(* A client that follows has_next from the first page to the last misses a row
   only after a deletion, a write between the count and the fetch of the last
   page, equal ranks or times, or in the search any write; of the orders, which
   are announced by full pages, only if two have equal times. *)
THEOREM InsertionsNeverHide == Spec => []MissedOnlyAfterDeletion
<1>1. IndInv => MissedOnlyAfterDeletion
  BY DEF IndInv
<1> QED BY <1>1, Invariance, PTL

(* While offset and offset + limit fit an int and no row is written between
   count and fetch, the answer to GET /catalog and GET /catalog/search
   announces a further page exactly when there are rows beyond this one. *)
THEOREM AnnouncementsAreTruthful == Spec => []NextTruthful
<1>1. IndInv => NextTruthful
  <2> SUFFICES ASSUME IndInv, walk.pc = "answered",
                      Fits(walk.page, walk.size), endpoint # "orders", ~walk.raced
               PROVE  walk.next <=> Behind > 0
      BY DEF NextTruthful
  <2>1. walk.page \in Int /\ walk.size \in Int /\ walk.rows \in Nat
    BY DEF IndInv, TypeOK, Walk
  <2>2. walk.next <=> HasNext(walk.page, walk.size, walk.rows)
    BY DEF IndInv, CountStands
  <2>3. HasNext(walk.page, walk.size, walk.rows)
          <=> (PageIndex(walk.page) + 1) * Limit(walk.size) < walk.rows
    BY <2>1, OffsetIsExact
  <2> DEFINE shown == (PageIndex(walk.page) + 1) * Limit(walk.size)
  <2>4. shown \in Int
    BY <2>1, LimitIsPositive, PageIndexIsNatural
  <2>5. Behind = walk.rows - shown
    BY DEF Behind
  <2> HIDE DEF shown
  <2>6. walk.rows > shown <=> walk.rows - shown > 0
    BY <2>1, <2>4
  <2>7. (HasNext(walk.page, walk.size, walk.rows)) <=> shown < walk.rows
    BY <2>3 DEF shown
  <2> QED BY <2>1, <2>2, <2>4, <2>5, <2>6, <2>7
<1> QED BY <1>1, Invariance, PTL

(* A page holds the rows OFFSET and LIMIT select, no more and no fewer, and
   announces a further page truthfully; the orders never hide one. *)
THEOREM PagesAreTruthful == Spec => []PageTruthful
<1>1. ASSUME IndInv, walk.pc = "answered", Fits(walk.page, walk.size),
             endpoint = "orders", Behind > 0
      PROVE  walk.next
  <2> DEFINE l == Limit(walk.size)
             r == (PageIndex(walk.page) + 1) * l
  <2>1. l \in Nat /\ r \in Nat /\ walk.rows \in Nat
    BY <1>1, WalkTyped DEF IndInv
  <2>2. Behind \in Int
    <3> HIDE DEF r
    <3> QED BY <2>1 DEF Behind, r
  <2>3. Cardinality(walk.items) = l
    BY <1>1, <2>2 DEF IndInv, AnswerExplained, PageFull
  <2> QED BY <1>1, <2>3 DEF IndInv, AnswerExplained
<1>2. IndInv => PageFull
  BY DEF IndInv, AnswerExplained
<1>3. IndInv /\ NextTruthful => PageTruthful
  BY <1>1, <1>2 DEF PageTruthful
<1> QED BY <1>3, Invariance, AnnouncementsAreTruthful, PTL
===============================================================================
