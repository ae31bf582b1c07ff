--------------------------- MODULE OrderTotalProofs ---------------------------
(***************************************************************************)
(* Proofs about OrderTotal, for requests of any length, any quantities and *)
(* prices an int64 holds, any widths of the integers and any numbers of    *)
(* orders, customers and handlers.                                         *)
(***************************************************************************)
EXTENDS OrderTotal, OrderServiceProofs, FiniteSetTheorems,
        WellFoundedInduction, TLAPS

-----------------------------------------------------------------------------
(* Induction over the natural numbers, for a set of them: every set of     *)
(* natural numbers has a least one, because the sets 1..n are well founded *)
(* under inclusion.                                                        *)

LEMMA LeastNumber ==
  ASSUME NEW S, S \subseteq Nat, S # {}
  PROVE  \E m \in S : \A n \in S : m <= n
<1> DEFINE Below(n) == 1..n
           T == {Below(n) : n \in S}
<1>1. IsWellFoundedOn(StrictSubsetOrdering(Nat), FiniteSubsetsOf(Nat))
  BY FS_StrictSubsetOrderingWellFounded
<1>2. T \subseteq FiniteSubsetsOf(Nat) /\ T # {}
  <2>1. \A n \in S : Below(n) \in SUBSET Nat /\ IsFiniteSet(Below(n))
    BY FS_Interval
  <2>2. \A n \in S : Below(n) \in FiniteSubsetsOf(Nat)
    BY <2>1 DEF FiniteSubsetsOf
  <2> HIDE DEF Below
  <2> QED BY <2>2
<1>3. PICK x \in T : \A y \in T : <<y, x>> \notin StrictSubsetOrdering(Nat)
  <2> HIDE DEF T
  <2> QED BY <1>1, <1>2, WFMin
<1>4. PICK m \in S : x = 1..m
  BY <1>3
<1>5. ASSUME NEW n \in S, n < m
      PROVE  FALSE
  <2>1. 1..n \in T
    OBVIOUS
  <2>2. 1..n \subseteq 1..m /\ m \in 1..m /\ m \notin 1..n
    BY <1>5
  <2>3. <<1..n, 1..m>> \in StrictSubsetOrdering(Nat)
    BY <2>2 DEF StrictSubsetOrdering
  <2> QED BY <1>3, <1>4, <2>1, <2>3
<1> QED BY <1>5

LEMMA Induction ==
  ASSUME NEW S, 0 \in S, \A n \in Nat : n \in S => n + 1 \in S
  PROVE  Nat \subseteq S
<1> SUFFICES ASSUME Nat \ S # {} PROVE FALSE
    OBVIOUS
<1>1. PICK m \in Nat \ S : \A n \in Nat \ S : m <= n
  BY LeastNumber
<1>2. m # 0 /\ m - 1 \in Nat
  BY <1>1
<1>3. m - 1 \in S
  BY <1>1, <1>2
<1> QED BY <1>1, <1>2, <1>3

-----------------------------------------------------------------------------
(* Recursion: a function g of what came before and the place defines one   *)
(* value for every place up to n.                                          *)

LEMMA RecursionExists ==
  ASSUME NEW n \in Nat, NEW g \in [Int \X (1..n) -> Int]
  PROVE  \E f \in [0..n -> Int] :
           \A k \in 0..n : f[k] = IF k = 0 THEN 0 ELSE g[<<f[k - 1], k>>]
<1> DEFINE Step(f, k) == IF k = 0 THEN 0 ELSE g[<<f[k - 1], k>>]
           S == {m \in Nat : m <= n =>
                   \E f \in [0..m -> Int] : \A k \in 0..m : f[k] = Step(f, k)}
<1>1. 0 \in S
  <2> DEFINE zero == [k \in 0..0 |-> 0]
  <2>1. zero \in [0..0 -> Int] /\ \A k \in 0..0 : zero[k] = Step(zero, k)
    OBVIOUS
  <2> HIDE DEF zero, Step
  <2> QED BY <2>1
<1>2. ASSUME NEW m \in Nat, m \in S
      PROVE  m + 1 \in S
  <2> HIDE DEF Step
  <2> SUFFICES ASSUME m + 1 <= n
               PROVE  \E f \in [0..(m + 1) -> Int] :
                        \A k \in 0..(m + 1) : f[k] = Step(f, k)
    OBVIOUS
  <2> USE DEF Step
  <2>1. PICK f \in [0..m -> Int] : \A k \in 0..m : f[k] = Step(f, k)
    BY <1>2
  <2> DEFINE c == g[<<f[m], m + 1>>]
             longer == [k \in 0..(m + 1) |-> IF k = m + 1 THEN c ELSE f[k]]
  <2>2. c \in Int
    BY <2>1
  <2>3. longer \in [0..(m + 1) -> Int]
    <3> HIDE DEF c
    <3> QED BY <2>1, <2>2
  <2>4. \A k \in 0..m : longer[k] = f[k]
    <3> HIDE DEF c
    <3> QED OBVIOUS
  <2>5. longer[m + 1] = c
    <3> HIDE DEF c
    <3> QED OBVIOUS
  <2> HIDE DEF longer
  <2>6. ASSUME NEW k \in 0..(m + 1)
        PROVE  longer[k] = Step(longer, k)
    <3>1. CASE k = m + 1
      <4>1. k # 0 /\ k - 1 = m /\ longer[k - 1] = f[m]
        BY <2>4, <3>1
      <4> QED BY <4>1, <2>5, <3>1
    <3>2. CASE k \in 1..m
      <4>1. k - 1 \in 0..m /\ k \in 0..m /\ k # 0
        BY <3>2
      <4>2. longer[k] = f[k] /\ longer[k - 1] = f[k - 1]
        BY <4>1, <2>4
      <4> QED BY <4>1, <4>2, <2>1
    <3>3. CASE k = 0
      <4>1. 0 \in 0..m
        OBVIOUS
      <4> QED BY <3>3, <4>1, <2>1, <2>4
    <3> QED BY <3>1, <3>2, <3>3
  <2> HIDE DEF Step
  <2> QED BY <2>3, <2>6
<1>3. n \in S
  <2> HIDE DEF S
  <2> QED BY <1>1, <1>2, Induction
<1> QED BY <1>3

LEMMA ItemFields ==
  ASSUME NEW item \in Item
  PROVE  /\ item.product \in BOOLEAN /\ item.quantity \in Int
         /\ item.price \in Int /\ Cost(item) \in Int
BY WidthAssumption DEF Item, Int64, Cost

LEMMA BodyFacts ==
  ASSUME NEW items \in Seq(Item)
  PROVE  /\ Len(items) \in Nat
         /\ \A i \in 1..Len(items) : items[i] \in Item
         /\ items # <<>> => Len(items) >= 1
OBVIOUS

-----------------------------------------------------------------------------
(* Arithmetic. *)

(* A multiple of a positive number that is not 0 is at least as large. *)
LEMMA Multiples ==
  ASSUME NEW m \in Nat \ {0}, NEW k \in Int
  PROVE  /\ k * m \in Int
         /\ k >= 1 => k * m >= m /\ k * m >= k
         /\ k <= -1 => k * m <= -m
<1>1. k * m \in Int
  OBVIOUS
<1>2. ASSUME k >= 1 PROVE k * m >= m /\ k * m >= k
  <2>1. (k - 1) * m >= 0 /\ k * m = (k - 1) * m + m
    BY <1>2
  <2>2. k * (m - 1) >= 0 /\ k * m = k * (m - 1) + k
    BY <1>2
  <2> QED BY <2>1, <2>2
<1>3. ASSUME k <= -1 PROVE k * m <= -m
  <2>1. (k + 1) * m <= 0 /\ k * m = (k + 1) * m - m
    BY <1>3
  <2> QED BY <2>1
<1> QED BY <1>1, <1>2, <1>3

LEMMA ModulusFacts ==
  /\ Modulus \in Nat \ {0} /\ Modulus = 2 * (Int64Max + 1)
  /\ Int64Max \in Nat
BY WidthAssumption DEF Modulus

(* n and m differ by a multiple of the modulus. *)
Congruent(n, m) == \E k \in Int : n = m + k * Modulus

LEMMA WrapFits ==
  ASSUME NEW n \in Int
  PROVE  /\ Wrap(n) \in Int64 /\ (n \in Int64 => Wrap(n) = n)
         /\ Congruent(n, Wrap(n))
<1> DEFINE half == Int64Max + 1
           rest == (n + half) % Modulus
           k == (n + half) \div Modulus
<1>1. half \in Nat \ {0} /\ Int64 = -half..(half - 1) /\ Modulus = 2 * half
  BY WidthAssumption DEF Int64, Modulus
<1>2. Wrap(n) = rest - half
  BY WidthAssumption DEF Wrap
<1> HIDE DEF half
<1>3. rest \in 0..(Modulus - 1)
  BY <1>1
<1>4. n \in Int64 => rest = n + half
  BY <1>1
<1>5. k \in Int /\ n + half = Modulus * k + rest
  BY <1>1
<1> HIDE DEF rest, k
<1>6. k * Modulus = Modulus * k /\ k * Modulus \in Int
  BY <1>1, <1>5
<1>7. n = Wrap(n) + k * Modulus
  <2> DEFINE prod == k * Modulus
  <2>1. prod \in Int /\ n + half = prod + rest
    BY <1>5, <1>6
  <2> HIDE DEF prod
  <2>2. n = (rest - half) + prod
    BY <1>1, <1>3, <2>1
  <2> QED BY <1>2, <2>2 DEF prod
<1>8. Congruent(n, Wrap(n))
  BY <1>5, <1>7 DEF Congruent
<1>9. Wrap(n) \in Int64 /\ (n \in Int64 => Wrap(n) = n)
  BY <1>1, <1>2, <1>3, <1>4
<1> QED BY <1>8, <1>9

LEMMA SumsCongruent ==
  ASSUME NEW a \in Int, NEW b \in Int, NEW c \in Int, NEW d \in Int,
         Congruent(a, b), Congruent(c, d)
  PROVE  Congruent(a + c, b + d)
<1>1. PICK i \in Int : a = b + i * Modulus
  BY DEF Congruent
<1>2. PICK j \in Int : c = d + j * Modulus
  BY DEF Congruent
<1>3. i * Modulus \in Int /\ j * Modulus \in Int
      /\ (i + j) * Modulus = i * Modulus + j * Modulus /\ i + j \in Int
  BY ModulusFacts
<1> DEFINE x == i * Modulus
           y == j * Modulus
           z == (i + j) * Modulus
<1>4. a = b + x /\ c = d + y /\ z = x + y /\ x \in Int /\ y \in Int
  BY <1>1, <1>2, <1>3
<1>5. a + c = (b + d) + z
  <2> HIDE DEF x, y, z
  <2> QED BY <1>4
<1> QED BY <1>3, <1>5 DEF Congruent

LEMMA CongruentTransitive ==
  ASSUME NEW a \in Int, NEW b \in Int, NEW c \in Int,
         Congruent(a, b), Congruent(b, c)
  PROVE  Congruent(a, c)
<1>1. PICK i \in Int : a = b + i * Modulus
  BY DEF Congruent
<1>2. PICK j \in Int : b = c + j * Modulus
  BY DEF Congruent
<1>3. i * Modulus \in Int /\ j * Modulus \in Int
      /\ (i + j) * Modulus = i * Modulus + j * Modulus /\ i + j \in Int
  BY ModulusFacts
<1> DEFINE x == i * Modulus
           y == j * Modulus
           z == (i + j) * Modulus
<1>4. a = b + x /\ b = c + y /\ z = x + y /\ x \in Int /\ y \in Int
  BY <1>1, <1>2, <1>3
<1>5. a = c + z
  <2> HIDE DEF x, y, z
  <2> QED BY <1>4
<1> QED BY <1>3, <1>5 DEF Congruent

LEMMA CostOfValid ==
  ASSUME NEW item \in Item, ~Invalid(item)
  PROVE  Cost(item) \in Nat /\ item.product
<1>1. item.quantity \in Nat /\ item.price \in Nat /\ item.product
  BY ItemFields DEF Invalid
<1>2. \A a, b \in Nat : a * b \in Nat
  OBVIOUS
<1> QED BY <1>1, <1>2 DEF Cost

LEMMA LineTotalFits ==
  ASSUME NEW item \in Item
  PROVE  /\ LineTotal(item) \in Int64
         /\ Cost(item) \in Int64 => LineTotal(item) = Cost(item)
         /\ Congruent(Cost(item), LineTotal(item))
<1> DEFINE c == Cost(item)
<1>1. c \in Int /\ LineTotal(item) = Wrap(c)
  BY ItemFields DEF LineTotal, Cost
<1> HIDE DEF c
<1>2. /\ Wrap(c) \in Int64 /\ (c \in Int64 => Wrap(c) = c)
      /\ Congruent(c, Wrap(c))
  BY <1>1, WrapFits
<1> QED BY <1>1, <1>2 DEF c
-----------------------------------------------------------------------------
(* What the loop computes and what a request costs. *)

LEMMA RunningPriceSums ==
  ASSUME NEW items \in Seq(Item)
  PROVE  /\ RunningPrice(items) \in [0..Len(items) -> Int]
         /\ \A k \in 0..Len(items) :
              RunningPrice(items)[k] =
                IF k = 0 THEN 0
                ELSE RunningPrice(items)[k - 1] + Cost(items[k])
<1> DEFINE n == Len(items)
           Next1(x, k) == x + Cost(items[k])
           Step(f, k) == IF k = 0 THEN 0 ELSE f[k - 1] + Cost(items[k])
           g == [a \in Int \X (1..n) |-> Next1(a[1], a[2])]
           p == RunningPrice(items)
<1>0. n \in Nat /\ \A k \in 1..n : items[k] \in Item
  BY BodyFacts
<1>1. \A x \in Int, k \in 1..n : Next1(x, k) \in Int
  BY <1>0, ItemFields
<1>2. g \in [Int \X (1..n) -> Int]
      /\ \A x \in Int, k \in 1..n : g[<<x, k>>] = Next1(x, k)
  <2> HIDE DEF Next1, n
  <2> QED BY <1>1
<1>3. PICK f \in [0..n -> Int] :
        \A k \in 0..n : f[k] = IF k = 0 THEN 0 ELSE g[<<f[k - 1], k>>]
  <2> HIDE DEF g, n
  <2> QED BY <1>0, <1>2, RecursionExists
<1> HIDE DEF g
<1>4. \A k \in 0..n : f[k] = Step(f, k)
  <2> SUFFICES ASSUME NEW k \in 0..n PROVE f[k] = Step(f, k)
    OBVIOUS
  <2>1. CASE k = 0
    BY <1>3, <2>1
  <2>2. CASE k # 0
    <3>1. k \in 1..n /\ k - 1 \in 0..n /\ f[k - 1] \in Int
      BY <1>0, <1>3, <2>2
    <3>2. f[k] = Next1(f[k - 1], k)
      <4> HIDE DEF Next1
      <4> QED BY <1>2, <1>3, <2>2, <3>1
    <3> QED BY <2>2, <3>2
  <2> QED BY <2>1, <2>2
<1>5. f = [k \in 0..n |-> Step(f, k)]
  <2> HIDE DEF Step, n
  <2> QED BY <1>3, <1>4
<1>6. p = CHOOSE h : h = [k \in 0..n |-> Step(h, k)]
  BY DEF RunningPrice
<1>7. p = [k \in 0..n |-> Step(p, k)]
  <2> HIDE DEF p, Step, n
  <2> QED BY <1>5, <1>6
<1> HIDE DEF p
<1>8. \A k \in 0..n : p[k] = Step(p, k)
  <2> HIDE DEF Step, n
  <2> QED BY <1>7
<1> DEFINE S == {m \in Nat : m <= n => p[m] \in Int}
<1>9. 0 \in S
  BY <1>0, <1>8
<1>10. ASSUME NEW m \in Nat, m \in S
       PROVE  m + 1 \in S
  <2> SUFFICES ASSUME m + 1 <= n PROVE p[m + 1] \in Int
    OBVIOUS
  <2>1. p[m + 1] = Next1(p[m], m + 1)
    BY <1>0, <1>8
  <2>2. p[m] \in Int /\ m + 1 \in 1..n
    BY <1>0, <1>10
  <2> HIDE DEF Next1
  <2> QED BY <1>1, <2>1, <2>2
<1>11. Nat \subseteq S
  <2> HIDE DEF S
  <2> QED BY <1>9, <1>10, Induction
<1>12. \A k \in 0..n : p[k] \in Int
  BY <1>0, <1>11
<1>13. p \in [0..n -> Int]
  <2> DEFINE step(k) == Step(p, k)
  <2>1. p = [k \in 0..n |-> step(k)]
    BY <1>7
  <2> HIDE DEF step, n
  <2> QED BY <1>12, <2>1
<1> QED BY <1>8, <1>13 DEF p

LEMMA RunningTotalSums ==
  ASSUME NEW items \in Seq(Item)
  PROVE  /\ RunningTotal(items) \in [0..Len(items) -> Int]
         /\ \A k \in 0..Len(items) :
              RunningTotal(items)[k] =
                IF k = 0 THEN 0
                ELSE Wrap(RunningTotal(items)[k - 1] + LineTotal(items[k]))
<1> DEFINE n == Len(items)
           Next1(x, k) == Wrap(x + LineTotal(items[k]))
           Step(f, k) == IF k = 0 THEN 0 ELSE Wrap(f[k - 1] + LineTotal(items[k]))
           g == [a \in Int \X (1..n) |-> Next1(a[1], a[2])]
           p == RunningTotal(items)
<1>0. n \in Nat /\ \A k \in 1..n : items[k] \in Item
  BY BodyFacts
<1>1. \A x \in Int, k \in 1..n : Next1(x, k) \in Int
  <2> SUFFICES ASSUME NEW x \in Int, NEW k \in 1..n
               PROVE  Next1(x, k) \in Int
    OBVIOUS
  <2> DEFINE line == LineTotal(items[k])
  <2>1. line \in Int64
    BY <1>0, LineTotalFits
  <2>2. x + line \in Int
    <3> HIDE DEF line
    <3> QED BY <2>1, WidthAssumption DEF Int64
  <2>3. Wrap(x + line) \in Int64
    <3> HIDE DEF line
    <3> QED BY <2>2, WrapFits
  <2> HIDE DEF line
  <2> QED BY <2>3, WidthAssumption DEF Int64, line
<1>2. g \in [Int \X (1..n) -> Int]
      /\ \A x \in Int, k \in 1..n : g[<<x, k>>] = Next1(x, k)
  <2> HIDE DEF Next1, n
  <2> QED BY <1>1
<1>3. PICK f \in [0..n -> Int] :
        \A k \in 0..n : f[k] = IF k = 0 THEN 0 ELSE g[<<f[k - 1], k>>]
  <2> HIDE DEF g, n
  <2> QED BY <1>0, <1>2, RecursionExists
<1> HIDE DEF g
<1>4. \A k \in 0..n : f[k] = Step(f, k)
  <2> SUFFICES ASSUME NEW k \in 0..n PROVE f[k] = Step(f, k)
    OBVIOUS
  <2>1. CASE k = 0
    BY <1>3, <2>1
  <2>2. CASE k # 0
    <3>1. k \in 1..n /\ k - 1 \in 0..n /\ f[k - 1] \in Int
      BY <1>0, <1>3, <2>2
    <3>2. f[k] = Next1(f[k - 1], k)
      <4> HIDE DEF Next1
      <4> QED BY <1>2, <1>3, <2>2, <3>1
    <3> QED BY <2>2, <3>2
  <2> QED BY <2>1, <2>2
<1>5. f = [k \in 0..n |-> Step(f, k)]
  <2> HIDE DEF Step, n
  <2> QED BY <1>3, <1>4
<1>6. p = CHOOSE h : h = [k \in 0..n |-> Step(h, k)]
  BY DEF RunningTotal
<1>7. p = [k \in 0..n |-> Step(p, k)]
  <2> HIDE DEF p, Step, n
  <2> QED BY <1>5, <1>6
<1> HIDE DEF p
<1>8. \A k \in 0..n : p[k] = Step(p, k)
  <2> HIDE DEF Step, n
  <2> QED BY <1>7
<1> DEFINE S == {m \in Nat : m <= n => p[m] \in Int}
<1>9. 0 \in S
  BY <1>0, <1>8
<1>10. ASSUME NEW m \in Nat, m \in S
       PROVE  m + 1 \in S
  <2> SUFFICES ASSUME m + 1 <= n PROVE p[m + 1] \in Int
    OBVIOUS
  <2>1. p[m + 1] = Next1(p[m], m + 1)
    BY <1>0, <1>8
  <2>2. p[m] \in Int /\ m + 1 \in 1..n
    BY <1>0, <1>10
  <2> HIDE DEF Next1
  <2> QED BY <1>1, <2>1, <2>2
<1>11. Nat \subseteq S
  <2> HIDE DEF S
  <2> QED BY <1>9, <1>10, Induction
<1>12. \A k \in 0..n : p[k] \in Int
  BY <1>0, <1>11
<1>13. p \in [0..n -> Int]
  <2> DEFINE step(k) == Step(p, k)
  <2>1. p = [k \in 0..n |-> step(k)]
    BY <1>7
  <2> HIDE DEF step, n
  <2> QED BY <1>12, <2>1
<1> QED BY <1>8, <1>13 DEF p

(* The running total of valid items differs from their price by the
   wrap-around of an int64 only, and not at all while the price fits: no
   valid item costs less than nothing, so a price that fits at the end has
   fitted all along. *)
LEMMA LoopIsRight ==
  ASSUME NEW items \in Seq(Item), Valid(items)
  PROVE  /\ TrueTotal(items) \in Nat
         /\ RunningTotal(items)[Len(items)] \in Int64
         /\ Congruent(TrueTotal(items), RunningTotal(items)[Len(items)])
         /\ TrueTotal(items) <= Int64Max =>
              /\ RunningTotal(items)[Len(items)] = TrueTotal(items)
              /\ \A i \in 1..Len(items) : LineTotal(items[i]) = Cost(items[i])
<1> DEFINE n == Len(items)
           price == RunningPrice(items)
           total == RunningTotal(items)
           Right(k) ==
             /\ price[k] \in Nat /\ total[k] \in Int64
             /\ Congruent(price[k], total[k])
             /\ price[k] <= Int64Max =>
                  /\ total[k] = price[k]
                  /\ \A i \in 1..k : LineTotal(items[i]) = Cost(items[i])
           S == {k \in Nat : k <= n => Right(k)}
<1>1. /\ n \in Nat
      /\ \A i \in 1..n : items[i] \in Item /\ ~Invalid(items[i])
  BY BodyFacts DEF Valid
<1>2. /\ price[0] = 0 /\ total[0] = 0
      /\ \A k \in 1..n : /\ price[k] = price[k - 1] + Cost(items[k])
                         /\ total[k] = Wrap(total[k - 1] + LineTotal(items[k]))
  <2>1. \A k \in 1..n : k \in 0..n /\ k # 0
    BY <1>1
  <2>2. 0 \in 0..n
    BY <1>1
  <2> QED BY <2>1, <2>2, RunningPriceSums, RunningTotalSums
<1> HIDE DEF n, price, total
<1>3. 0 \in S
  <2>1. 0 \in Int64 /\ Congruent(0, 0)
    <3>1. 0 = 0 + 0 * Modulus
      BY ModulusFacts
    <3> QED BY <3>1, WidthAssumption DEF Congruent, Int64
  <2> QED BY <1>2, <2>1
<1>4. ASSUME NEW k \in Nat, k \in S
      PROVE  k + 1 \in S
  <2> DEFINE item == items[k + 1]
             c == Cost(item)
             line == LineTotal(item)
  <2> HIDE DEF item
  <2> SUFFICES ASSUME k + 1 <= n PROVE Right(k + 1)
    OBVIOUS
  <2>1. Right(k) /\ k + 1 \in 1..n /\ (k + 1) - 1 = k
    BY <1>1, <1>4
  <2>2. item \in Item /\ ~Invalid(item)
    BY <1>1, <2>1 DEF item
  <2>3. /\ c \in Nat /\ line \in Int64 /\ (c \in Int64 => line = c)
        /\ Congruent(c, line)
    BY <2>2, CostOfValid, LineTotalFits
  <2>4. price[k + 1] = price[k] + c /\ total[k + 1] = Wrap(total[k] + line)
    BY <1>2, <2>1 DEF item
  <2> DEFINE next == total[k] + line
  <2>5. \A x \in Int64 : x \in Int
    BY WidthAssumption DEF Int64
  <2> HIDE DEF c, line
  <2>6. next \in Int /\ price[k + 1] \in Nat
    BY <2>1, <2>3, <2>4, <2>5
  <2>7. Congruent(price[k + 1], next)
    <3> DEFINE before == price[k]
               sum == total[k]
    <3>1. before \in Int /\ sum \in Int /\ c \in Int /\ line \in Int
          /\ Congruent(before, sum) /\ Congruent(c, line)
      BY <2>1, <2>3, <2>5
    <3>2. price[k + 1] = before + c /\ next = sum + line
      BY <2>4 DEF next
    <3> HIDE DEF before, sum
    <3>3. Congruent(before + c, sum + line)
      BY <3>1, SumsCongruent
    <3> QED BY <3>2, <3>3
  <2> HIDE DEF next
  <2>8. /\ Wrap(next) \in Int64 /\ (next \in Int64 => Wrap(next) = next)
        /\ Congruent(next, Wrap(next))
    BY <2>6, WrapFits
  <2>9. total[k + 1] = Wrap(next)
    BY <2>4 DEF next
  <2>10. Congruent(price[k + 1], total[k + 1]) /\ total[k + 1] \in Int64
    BY <2>5, <2>6, <2>7, <2>8, <2>9, CongruentTransitive
  <2>11. ASSUME price[k + 1] <= Int64Max
         PROVE  /\ total[k + 1] = price[k + 1]
                /\ \A i \in 1..(k + 1) : LineTotal(items[i]) = Cost(items[i])
    <3>1. price[k] <= Int64Max /\ c \in Int64 /\ price[k + 1] \in Int64
      BY <2>1, <2>3, <2>4, <2>6, <2>11, WidthAssumption DEF Int64
    <3>2. line = c /\ total[k] = price[k]
          /\ \A i \in 1..k : LineTotal(items[i]) = Cost(items[i])
      BY <2>1, <2>3, <3>1
    <3>3. next = price[k + 1]
      BY <2>4, <3>2 DEF next
    <3>4. LineTotal(items[k + 1]) = Cost(items[k + 1])
      BY <3>2 DEF line, c, item
    <3> QED BY <2>8, <2>9, <3>1, <3>2, <3>3, <3>4
  <2> QED BY <2>6, <2>10, <2>11
<1>5. Right(n)
  <2>1. Nat \subseteq S
    <3> HIDE DEF S
    <3> QED BY <1>3, <1>4, Induction
  <2> QED BY <1>1, <2>1
<1> QED BY <1>5 DEF TrueTotal, n, price, total

LEMMA BillIsBill ==
  ASSUME NEW items \in Seq(Item), Valid(items)
  PROVE  /\ BillOf(items) \in Bill
         /\ BillOf(items).items = items
         /\ BillOf(items).total = RunningTotal(items)[Len(items)]
         /\ \A i \in 1..Len(items) :
              BillOf(items).lines[i] = LineTotal(items[i])
<1>1. RunningTotal(items)[Len(items)] \in Int64
  BY LoopIsRight
<1> DEFINE lines == [i \in 1..Len(items) |-> LineTotal(items[i])]
<1>2. lines \in Seq(Int64)
  BY BodyFacts, LineTotalFits
<1> QED BY <1>1, <1>2 DEF BillOf, Bill

-----------------------------------------------------------------------------
(* Every step of OrderTotal is a step of OrderService, so the theorems about *)
(* the statuses hold of the orders with their items too.                     *)

LEMMA StepIsOrderStep == [BilledNext]_billedVars => [Next]_vars
<1>1. ASSUME NEW r \in Requests, NEW u \in Users, NEW items \in Bodies,
             CreateOrder(r, u, items)
      PROVE  Next
  <2>1. Valid(items) \in BOOLEAN
    BY DEF Valid
  <2>2. Create(r, u, Valid(items))
    BY <1>1 DEF CreateOrder
  <2> QED BY <2>1, <2>2 DEF Next, Arrive
<1>2. ASSUME NEW r \in Requests, NEW o \in Orders, NEW ack \in BOOLEAN,
             InsertOrder(r, o, ack)
      PROVE  Next
  BY <1>2 DEF InsertOrder, Next, Serve
<1>3. ASSUME NEW r \in Requests, KeepBills(r) PROVE Next
  BY <1>3 DEF KeepBills, Next, Arrive, Serve
<1>4. ASSUME NEW r \in Requests, BilledAnswered(r) PROVE Next
  BY <1>4 DEF BilledAnswered, Next, Serve
<1>5. BilledCrash => Next
  BY DEF BilledCrash, Next
<1>6. UNCHANGED billedVars => UNCHANGED vars
  BY DEF billedVars, vars
<1> QED BY <1>1, <1>2, <1>3, <1>4, <1>5, <1>6 DEF BilledNext

(* The orders with items and totals behave, as far as statuses can tell, as
   OrderService does. *)
THEOREM BilledIsOrderService == BilledSpec => Spec
BY StepIsOrderStep, PTL DEF BilledSpec, BilledInit, Spec

LEMMA OrderInvariance == BilledSpec => []IndInv
BY BilledIsOrderService, Invariance, PTL

-----------------------------------------------------------------------------
(* The invariant, one kind of step at a time. *)

LEMMA InitBilled == BilledInit => BillInv
<1> SUFFICES ASSUME BilledInit PROVE BillInv
  OBVIOUS
<1>1. NoBill \in Bill /\ <<>> \in Seq(Item)
  BY WidthAssumption DEF NoBill, Bill, Int64
<1>2. BillTypeOK
  BY <1>1 DEF BilledInit, BillTypeOK
<1>3. \A r \in Requests : req[r].op = "none"
  BY DEF BilledInit, Init, IdleRequest
<1>4. \A o \in Orders : status[o] = None /\ bill[o] = NoBill
  BY DEF BilledInit, Init
<1> QED BY <1>2, <1>3, <1>4 DEF BillInv, BasketAtPc, BillWhole,
                                CreateAckTruthful

(* What a step that leaves bills and the other handlers alone must still show. *)
LEMMA QuietStep ==
  ASSUME IndInv, BillInv, NEW r \in Requests, BillTypeOK', UNCHANGED bill,
         \A s \in Requests : s # r =>
           req'[s] = req[s] /\ basket'[s] = basket[s],
         BasketAtPc(r)', req'[r].op = "create" => req'[r].res # "ok",
         \A o \in Orders :
           /\ status'[o] = None <=> status[o] = None
           /\ status[o] # None => owner'[o] = owner[o]
  PROVE  BillInv'
<1>1. \A s \in Requests : BasketAtPc(s)'
  BY DEF BillInv, BasketAtPc
<1>2. \A o \in Orders : BillWhole(o)'
  BY DEF BillInv, BillWhole
<1>3. CreateAckTruthful'
  <2> SUFFICES ASSUME NEW s \in Requests,
                      req'[s].op = "create" /\ req'[s].res = "ok"
               PROVE  \E o \in Orders :
                        /\ status'[o] # None /\ owner'[o] = req'[s].user
                        /\ bill'[o] = BillOf(basket'[s])
    BY DEF CreateAckTruthful
  <2>1. s # r /\ req'[s] = req[s] /\ basket'[s] = basket[s]
    OBVIOUS
  <2>2. PICK o \in Orders : /\ status[o] # None /\ owner[o] = req[s].user
                            /\ bill[o] = BillOf(basket[s])
    BY <2>1 DEF BillInv, CreateAckTruthful
  <2> QED BY <2>1, <2>2
<1> QED BY <1>1, <1>2, <1>3 DEF BillInv

LEMMA CreateBilled ==
  ASSUME IndInv, BillInv, NEW r \in Requests, NEW u \in Users,
         NEW items \in Bodies, CreateOrder(r, u, items)
  PROVE  BillInv'
<1>1. items \in Seq(Item)
  BY BodiesAssumption
<1>2. /\ basket' = [basket EXCEPT ![r] = items] /\ UNCHANGED bill
      /\ basket \in [Requests -> Seq(Item)] /\ bill \in [Orders -> Bill]
      /\ req \in [Requests -> Request]
  BY DEF CreateOrder, BillInv, BillTypeOK, IndInv, TypeOK
<1>3. BillTypeOK' /\ basket'[r] = items
      /\ \A s \in Requests : s # r => basket'[s] = basket[s]
  BY <1>1, <1>2 DEF BillTypeOK
<1>4. /\ req'[r].op = "create"
      /\ req'[r].res = IF Valid(items) THEN "none" ELSE "validation"
      /\ \A s \in Requests : s # r => req'[s] = req[s]
      /\ UNCHANGED <<status, owner>>
  BY <1>2 DEF CreateOrder, Create, IdleRequest
<1>5. BasketAtPc(r)'
  BY <1>3, <1>4 DEF BasketAtPc
<1> QED BY <1>2, <1>3, <1>4, <1>5, QuietStep

LEMMA InsertBilled ==
  ASSUME IndInv, BillInv, NEW r \in Requests, NEW o \in Orders,
         NEW ack \in BOOLEAN, InsertOrder(r, o, ack)
  PROVE  BillInv'
<1> DEFINE rows == BillOf(basket[r])
<1>1. /\ basket \in [Requests -> Seq(Item)] /\ bill \in [Orders -> Bill]
      /\ req \in [Requests -> Request] /\ TypeOK /\ OpAtPc(r)
      /\ status \in [Orders -> Statuses \cup {None}]
      /\ owner \in [Orders -> Users \cup {None}]
  BY DEF BillInv, BillTypeOK, IndInv, TypeOK
<1>2. /\ req[r].pc = "create_insert" /\ req[r].op = "create"
      /\ req[r].res = "none" /\ status[o] = None /\ Storable(rows)
      /\ basket' = basket /\ bill' = [bill EXCEPT ![o] = rows]
  BY <1>1 DEF InsertOrder, CreateInsert, OpAtPc
<1>3. Valid(basket[r]) /\ basket[r] \in Seq(Item)
  BY <1>1, <1>2 DEF BillInv, BasketAtPc
<1>4. rows \in Bill /\ rows.items = basket[r]
  BY <1>3, BillIsBill
<1>5. /\ req'[r].op = "create" /\ req'[r].user = req[r].user
      /\ req'[r].res \in {"ok", "internal"}
      /\ \A s \in Requests : s # r => req'[s] = req[s]
  <2>1. "NEW" \in Statuses /\ "internal" \in Answers
    BY DEF Statuses, Answers
  <2>2. CASE ack
    BY <1>1, <1>2, <2>1, <2>2, ReplyOrderFields
       DEF InsertOrder, CreateInsert, Args, Others
  <2>3. CASE ~ack
    BY <1>1, <1>2, <2>1, <2>3, ReplyFields
       DEF InsertOrder, CreateInsert, Args, Others
  <2> QED BY <2>2, <2>3
<1>6. /\ status'[o] = "NEW" /\ owner'[o] = req[r].user
      /\ \A p \in Orders : p # o =>
           status'[p] = status[p] /\ owner'[p] = owner[p]
  <2>1. SetStatus(o, "NEW") /\ owner' = [owner EXCEPT ![o] = req[r].user]
    BY DEF InsertOrder, CreateInsert
  <2>2. "NEW" \in Statuses
    BY DEF Statuses
  <2> QED BY <1>1, <2>1, <2>2, SetStatusRows
<1> HIDE DEF rows
<1>7. bill'[o] = rows /\ \A p \in Orders : p # o => bill'[p] = bill[p]
  BY <1>1, <1>2
<1>8. BillTypeOK'
  BY <1>1, <1>2, <1>4 DEF BillTypeOK
<1>9. \A s \in Requests : BasketAtPc(s)'
  BY <1>2, <1>3, <1>5 DEF BillInv, BasketAtPc
<1>10. ASSUME NEW p \in Orders PROVE BillWhole(p)'
  <2>1. CASE p = o
    <3>1. "NEW" # None
      BY NoneAssumption DEF SentStatuses, Statuses
    <3>2. Valid(rows.items) /\ Storable(rows) /\ rows = BillOf(rows.items)
      BY <1>2, <1>3, <1>4 DEF rows
    <3> QED BY <1>6, <1>7, <2>1, <3>1, <3>2 DEF BillWhole
  <2>2. CASE p # o
    BY <1>6, <1>7, <2>2 DEF BillInv, BillWhole
  <2> QED BY <2>1, <2>2
<1>11. CreateAckTruthful'
  <2> SUFFICES ASSUME NEW s \in Requests,
                      req'[s].op = "create" /\ req'[s].res = "ok"
               PROVE  \E p \in Orders :
                        /\ status'[p] # None /\ owner'[p] = req'[s].user
                        /\ bill'[p] = BillOf(basket'[s])
    BY DEF CreateAckTruthful
  <2>1. CASE s = r
    <3>1. status'[o] # None
      BY <1>6, NoneAssumption DEF SentStatuses, Statuses
    <3> QED BY <1>2, <1>5, <1>6, <1>7, <2>1, <3>1 DEF rows
  <2>2. CASE s # r
    <3>1. req'[s] = req[s]
      BY <1>5, <2>2
    <3>2. PICK p \in Orders : /\ status[p] # None /\ owner[p] = req[s].user
                              /\ bill[p] = BillOf(basket[s])
      BY <3>1 DEF BillInv, CreateAckTruthful
    <3>3. p # o
      BY <1>2, <3>2
    <3> QED BY <1>2, <1>6, <1>7, <3>1, <3>2, <3>3
  <2> QED BY <2>1, <2>2
<1> QED BY <1>8, <1>9, <1>10, <1>11 DEF BillInv

(* A request about a status is no creation, and its UPDATE makes no order. *)
LEMMA StatusStep ==
  ASSUME IndInv, NEW r \in Requests, ServeStatus(r)
  PROVE  /\ Others(r) /\ req'[r].op = req[r].op /\ req[r].op # "create"
         /\ owner' = owner
         /\ \A o \in Orders : status'[o] = None <=> status[o] = None
<1>1. TypeOK /\ OpAtPc(r) /\ req \in [Requests -> Request]
      /\ status \in [Orders -> Statuses \cup {None}]
  BY DEF IndInv, TypeOK
<1>2. req[r].pc \in UpdatePcs \cup CancelPcs
  BY DEF ServeStatus, UpdateRead, UpdateCas, UpdateRecheck, UpdateReload,
         CancelRead, CancelCas, CancelRecheck, CancelReload, UpdatePcs,
         CancelPcs
<1>3. req[r].op \in {"update", "cancel"}
  BY <1>1, <1>2 DEF OpAtPc
<1>4. Others(r) /\ req'[r].op = req[r].op
  <2> DEFINE Same == Others(r) /\ req'[r].op = req[r].op
  <2>1. \A label : Goto(r, label) => Same
    BY <1>1 DEF Goto, Others, Request
  <2>2. \A label, s : Choose(r, label, s) => Same
    BY <1>1 DEF Choose, Others, Request
  <2>3. \A code : Reply(r, code) => Same
    BY <1>1 DEF Reply, Others, Request
  <2>4. \A s : ReplyOrder(r, s) => Same
    BY <1>1 DEF ReplyOrder, Others, Request
  <2> HIDE DEF Same
  <2>5. Same
    BY <2>1, <2>2, <2>3, <2>4
       DEF ServeStatus, UpdateRead, UpdateCas, UpdateRecheck, UpdateReload,
           CancelRead, CancelCas, CancelRecheck, CancelReload
  <2> QED BY <2>5 DEF Same
<1>5. owner' = owner
  BY DEF ServeStatus, UpdateRead, UpdateCas, UpdateRecheck, UpdateReload,
         CancelRead, CancelCas, CancelRecheck, CancelReload
<1>6. ASSUME NEW ack \in BOOLEAN, UpdateCas(r, ack), NEW o \in Orders
      PROVE  status'[o] = None <=> status[o] = None
  <2>1. req[r].prev # None /\ CanTransition(req[r].prev, req[r].to)
    BY <1>1, <1>6 DEF OpAtPc, UpdateCas, Chosen
  <2>2. req[r].to \in Statuses /\ req[r].to # None
    BY <2>1, StatusFacts
  <2> QED BY <1>1, <1>6, <2>1, <2>2 DEF UpdateCas, SetStatus
<1>7. ASSUME NEW ack \in BOOLEAN, CancelCas(r, ack), NEW o \in Orders
      PROVE  status'[o] = None <=> status[o] = None
  <2>1. "CANCELLED" # None /\ "NEW" # None
    BY StatusFacts DEF Statuses
  <2> QED BY <1>1, <1>7, <2>1 DEF CancelCas, SetStatus
<1>8. ASSUME NEW o \in Orders
      PROVE  status'[o] = None <=> status[o] = None
  BY <1>6, <1>7 DEF ServeStatus, UpdateRead, UpdateRecheck, UpdateReload,
                    CancelRead, CancelRecheck, CancelReload
<1> QED BY <1>3, <1>4, <1>5, <1>8

LEMMA KeepBilled ==
  ASSUME IndInv, BillInv, NEW r \in Requests, KeepBills(r)
  PROVE  BillInv'
<1>1. /\ UNCHANGED <<basket, bill>> /\ BillTypeOK' /\ TypeOK /\ OpAtPc(r)
      /\ req \in [Requests -> Request]
  BY DEF KeepBills, BillInv, BillTypeOK, IndInv, TypeOK
<1>2. CASE ArriveForStatus(r)
  <2>1. ASSUME NEW o, NEW to, NEW admin, Update(r, o, to, admin)
        PROVE  Others(r) /\ req'[r].op # "create" /\ UNCHANGED <<status, owner>>
    BY <1>1, <2>1 DEF Update, Others, IdleRequest
  <2>2. ASSUME NEW o, NEW u, Cancel(r, o, u)
        PROVE  Others(r) /\ req'[r].op # "create" /\ UNCHANGED <<status, owner>>
    BY <1>1, <2>2 DEF Cancel, Others, IdleRequest
  <2>3. Others(r) /\ req'[r].op # "create" /\ UNCHANGED <<status, owner>>
    BY <1>2, <2>1, <2>2 DEF ArriveForStatus
  <2> QED BY <1>1, <2>3, QuietStep DEF Others, BasketAtPc
<1>3. CASE ServeStatus(r)
  BY <1>1, <1>3, StatusStep, QuietStep DEF Others, BasketAtPc
<1>4. CASE Fail(r)
  <2>1. req[r].pc # "done" /\ Reply(r, "internal") /\ "internal" \in Answers
        /\ UNCHANGED <<status, owner>>
    BY <1>4 DEF Fail, Answers
  <2>2. Others(r) /\ req'[r].op = req[r].op /\ req'[r].res = "internal"
    BY <1>1, <2>1, ReplyFields DEF Args
  <2>3. req[r].res = "none"
    BY <1>1, <2>1 DEF OpAtPc
  <2>4. BasketAtPc(r)'
    BY <1>1, <2>2, <2>3 DEF BillInv, BasketAtPc
  <2> QED BY <1>1, <2>1, <2>2, <2>4, QuietStep DEF Others
<1> QED BY <1>2, <1>3, <1>4 DEF KeepBills

LEMMA AnsweredBilled ==
  ASSUME IndInv, BillInv, NEW r \in Requests, BilledAnswered(r)
  PROVE  BillInv'
<1>1. /\ basket \in [Requests -> Seq(Item)] /\ req \in [Requests -> Request]
      /\ basket' = [basket EXCEPT ![r] = <<>>] /\ UNCHANGED bill
      /\ req' = [req EXCEPT ![r] = IdleRequest] /\ UNCHANGED <<status, owner>>
  BY DEF BilledAnswered, Answered, BillInv, BillTypeOK, IndInv, TypeOK
<1>2. BillTypeOK' /\ req'[r].op = "none"
      /\ \A s \in Requests : s # r =>
           req'[s] = req[s] /\ basket'[s] = basket[s]
  BY <1>1 DEF BillInv, BillTypeOK, IdleRequest
<1> QED BY <1>1, <1>2, QuietStep DEF BasketAtPc

LEMMA CrashBilled == ASSUME IndInv, BillInv, BilledCrash PROVE BillInv'
<1>1. /\ \A r \in Requests : req'[r].op = "none"
      /\ basket' \in [Requests -> Seq(Item)]
      /\ UNCHANGED <<status, owner, bill>>
  BY DEF BilledCrash, Crash, IdleRequest
<1> QED BY <1>1 DEF BillInv, BillTypeOK, BasketAtPc, BillWhole,
                    CreateAckTruthful

(* Only valid items come to the INSERT, and an order is stored with all the
   rows computed from its items or not at all. *)
THEOREM BillInvariance == BilledSpec => []BillInv
<1>1. IndInv /\ BillInv /\ [BilledNext]_billedVars => BillInv'
  <2> SUFFICES ASSUME IndInv, BillInv, [BilledNext]_billedVars PROVE BillInv'
    OBVIOUS
  <2>1. CASE UNCHANGED billedVars
    BY <2>1 DEF billedVars, BillInv, BillTypeOK, BasketAtPc, BillWhole,
                CreateAckTruthful
  <2> QED BY <2>1, CreateBilled, InsertBilled, KeepBilled, AnsweredBilled,
             CrashBilled DEF BilledNext
<1> QED BY <1>1, InitBilled, OrderInvariance, PTL DEF BilledSpec

(* Who is told the order was placed has it, with all its items. *)
THEOREM CreationsAreTruthful == BilledSpec => []CreateAckTruthful
<1>1. BillInv => CreateAckTruthful
  BY DEF BillInv
<1> QED BY <1>1, BillInvariance, PTL

(* A price that is off by multiples of the modulus, and not negative, is off
   upwards. *)
LEMMA OffByWholeTurns ==
  ASSUME NEW price \in Nat, NEW total \in Int64, total >= 0,
         Congruent(price, total)
  PROVE  \E k \in 0..price : price = total + k * Modulus
<1>1. PICK k \in Int : price = total + k * Modulus
  BY DEF Congruent
<1> DEFINE turn == k * Modulus
<1>2. /\ turn \in Int /\ (k >= 1 => turn >= Modulus /\ turn >= k)
      /\ (k <= -1 => turn <= -Modulus)
  BY ModulusFacts, Multiples
<1>3. price = total + turn
  BY <1>1
<1> HIDE DEF turn
<1>4. k >= 0
  BY <1>2, <1>3, ModulusFacts DEF Int64
<1>5. k <= price
  BY <1>2, <1>3, <1>4, ModulusFacts DEF Int64
<1> QED BY <1>1, <1>4, <1>5

(* A stored order costs what its items cost, up to the wrap-around of an
   int64, and exactly when that fits. *)
THEOREM StoredTotalsAreExact == BilledSpec => []StoredTotalExact
<1>1. ASSUME BillInv, NEW o \in Orders, status[o] # None
      PROVE  LET price == TrueTotal(bill[o].items) IN
             /\ \E k \in 0..price : price = bill[o].total + k * Modulus
             /\ price <= Int64Max =>
                  /\ bill[o].total = price
                  /\ \A i \in 1..Len(bill[o].items) :
                       bill[o].lines[i] = Cost(bill[o].items[i])
  <2> DEFINE items == bill[o].items
             price == TrueTotal(items)
  <2>1. /\ items \in Seq(Item) /\ Valid(items) /\ bill[o].total >= 0
        /\ bill[o] = BillOf(items)
    BY <1>1 DEF BillInv, BillTypeOK, Bill, BillWhole, Storable
  <2> HIDE DEF items
  <2>2. /\ price \in Nat /\ bill[o].total \in Int64
        /\ Congruent(price, bill[o].total)
        /\ price <= Int64Max =>
             /\ bill[o].total = price
             /\ \A i \in 1..Len(items) : LineTotal(items[i]) = Cost(items[i])
        /\ \A i \in 1..Len(items) : bill[o].lines[i] = LineTotal(items[i])
    BY <2>1, LoopIsRight, BillIsBill
  <2>3. \E k \in 0..price : price = bill[o].total + k * Modulus
    <3> HIDE DEF price
    <3> QED BY <2>1, <2>2, OffByWholeTurns
  <2> QED BY <2>2, <2>3 DEF items
<1>2. BillInv => StoredTotalExact
  BY <1>1 DEF StoredTotalExact
<1> QED BY <1>2, BillInvariance, PTL

(* A creation is refused as invalid exactly when it is not complete, and a
   complete one whose numbers fit is never refused by a constraint. *)
THEOREM AnswersAreRight == BilledSpec => []RightAnswer
<1>1. ASSUME NEW items \in Seq(Item)
      PROVE  Valid(items) <=> Complete(items)
  <2>1. \A i \in 1..Len(items) :
          ~Invalid(items[i]) <=> /\ items[i].product /\ items[i].quantity >= 1
                                 /\ items[i].price >= 0
    BY BodyFacts, ItemFields DEF Invalid
  <2> QED BY <2>1 DEF Valid, Complete
<1>2. ASSUME NEW items \in Seq(Item), Valid(items), Fitting(items)
      PROVE  Storable(BillOf(items))
  <2>1. /\ BillOf(items).total = TrueTotal(items) /\ TrueTotal(items) \in Nat
        /\ BillOf(items).items = items
        /\ \A i \in 1..Len(items) : BillOf(items).lines[i] = Cost(items[i])
    BY <1>2, LoopIsRight, BillIsBill DEF Fitting
  <2>2. ASSUME NEW i \in 1..Len(items)
        PROVE  /\ items[i].quantity \in 1..Int32Max /\ items[i].price >= 0
               /\ Cost(items[i]) >= 0
    <3>1. items[i] \in Item /\ ~Invalid(items[i])
      BY <1>2, BodyFacts DEF Valid
    <3>2. /\ items[i].quantity \in Int /\ items[i].quantity >= 1
          /\ items[i].price >= 0 /\ items[i].quantity <= Int32Max
      BY <1>2, <3>1, ItemFields DEF Invalid, Fitting
    <3>3. Cost(items[i]) \in Nat
      BY <3>1, CostOfValid
    <3> QED BY <3>2, <3>3, WidthAssumption
  <2> QED BY <2>1, <2>2 DEF Storable
<1>3. ASSUME IndInv, BillInv, NEW r \in Requests, req[r].op = "create"
      PROVE  /\ req[r].res = "validation" <=> ~Complete(basket[r])
             /\ req[r].pc = "create_insert" /\ Fitting(basket[r]) =>
                  Storable(BillOf(basket[r]))
  <2>1. /\ basket[r] \in Seq(Item)
        /\ req[r].res = "validation" <=> ~Valid(basket[r])
    BY <1>3 DEF BillInv, BillTypeOK, BasketAtPc
  <2>2. req[r].pc = "create_insert" => req[r].res = "none"
    BY <1>3 DEF IndInv, OpAtPc
  <2> QED BY <1>1, <1>2, <2>1, <2>2
<1>4. IndInv /\ BillInv => RightAnswer
  BY <1>3 DEF RightAnswer
<1> QED BY <1>4, BillInvariance, OrderInvariance, PTL
=============================================================================
