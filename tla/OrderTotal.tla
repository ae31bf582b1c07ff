------------------------------ MODULE OrderTotal ------------------------------
(***************************************************************************)
(* What the orders of OrderService contain and cost: the body of a POST    *)
(* /orders, the loop of CreateOrder (services/order/internal/service) that *)
(* validates its items and adds up the total in int64, and the rows of     *)
(* orders and order_items with their CHECK constraints.  Every step is a   *)
(* step of OrderService and what it does to the two variables added here.  *)
(*                                                                         *)
(* Integers have the widths of the code, scaled down in the instances.     *)
(***************************************************************************)
EXTENDS OrderService, Integers, Sequences

CONSTANTS
  Int64Max,   \* 2^63 - 1 in the code
  Int32Max,   \* 2^31 - 1, the largest integer column
  Bodies      \* what clients send: sequences of items

Int64 == (-Int64Max - 1)..Int64Max

(* product is FALSE for uuid.Nil. *)
Item == [product: BOOLEAN, quantity: Int64, price: Int64]

ASSUME WidthAssumption  == Int64Max \in Nat /\ Int32Max \in 1..Int64Max
ASSUME BodiesAssumption == Bodies \subseteq Seq(Item)

VARIABLES
  basket,     \* the items of the creation a handler works on, else <<>>
  bill        \* total and order_items of each order, NoBill without a row

billedVars == <<status, owner, req, passed, basket, bill>>

Bill == [items: Seq(Item), lines: Seq(Int64), total: Int64]

NoBill == [items |-> <<>>, lines |-> <<>>, total |-> 0]

-----------------------------------------------------------------------------
(* The loop of CreateOrder. *)

(* Mutant of Invalid: a free item is refused. *)
Invalid_FreeItem(item) == ~item.product \/ item.quantity <= 0 \/ item.price <= 0

(* A missing product id, no quantity, or a negative price. *)
Invalid(item) == ~item.product \/ item.quantity <= 0 \/ item.price < 0

(* The first bad item ends the loop with a validation error. *)
Valid(items) ==
  items # <<>> /\ \A i \in 1..Len(items) : ~Invalid(items[i])

Modulus == 2 * (Int64Max + 1)

(* Two's complement: what an int64 holds after an operation. *)
Wrap(n) == ((n + Int64Max + 1) % Modulus) - (Int64Max + 1)

LineTotal(item) == Wrap(item.quantity * item.price)

(* Mutant of RunningTotal: the total counts one unit of each product. *)
RunningTotal_UnitPrice(items) ==
  LET total[k \in 0..Len(items)] ==
        IF k = 0 THEN 0 ELSE Wrap(total[k - 1] + items[k].price)
  IN  total

(* The variable total after the first k items. *)
RunningTotal(items) ==
  LET total[k \in 0..Len(items)] ==
        IF k = 0 THEN 0 ELSE Wrap(total[k - 1] + LineTotal(items[k]))
  IN  total

(* The rows that CreateOrder hands to the repository. *)
BillOf(items) ==
  [items |-> items,
   lines |-> [i \in 1..Len(items) |-> LineTotal(items[i])],
   total |-> RunningTotal(items)[Len(items)]]

(* The CHECKs of orders and order_items, and the width of quantity. *)
Storable(b) ==
  /\ b.total >= 0
  /\ \A i \in 1..Len(b.items) :
       /\ b.items[i].quantity \in 1..Int32Max
       /\ b.items[i].price >= 0
       /\ b.lines[i] >= 0

-----------------------------------------------------------------------------
(* The steps of OrderService, with baskets and bills. *)

BilledInit ==
  /\ Init
  /\ basket = [r \in Requests |-> <<>>]
  /\ bill = [o \in Orders |-> NoBill]

CreateOrder(r, u, items) ==
  /\ Create(r, u, Valid(items))
  /\ basket' = [basket EXCEPT ![r] = items]
  /\ UNCHANGED bill

(* Mutant of InsertOrder: the error of the repository is dropped. *)
InsertOrder_ErrorDropped(r, o, acknowledged) ==
  /\ UNCHANGED basket
  /\ IF Storable(BillOf(basket[r]))
       THEN /\ CreateInsert(r, o, acknowledged)
            /\ bill' = [bill EXCEPT ![o] = BillOf(basket[r])]
       ELSE /\ req[r].pc = "create_insert"
            /\ ReplyOrder(r, "NEW")
            /\ UNCHANGED <<status, owner, passed, bill>>

(* Mutant of InsertOrder: the order and its items in two transactions. *)
InsertOrder_ItemsApart(r, o, acknowledged) ==
  LET rows == BillOf(basket[r]) IN
  /\ rows.total >= 0
  /\ CreateInsert(r, o, acknowledged /\ Storable(rows))
  /\ bill' = [bill EXCEPT ![o] =
       IF Storable(rows) THEN rows ELSE [NoBill EXCEPT !.total = rows.total]]
  /\ UNCHANGED basket

(* One transaction: the order with all its items.  Rows that a constraint
   refuses leave the statement no outcome but Fail. *)
InsertOrder(r, o, acknowledged) ==
  /\ Storable(BillOf(basket[r]))
  /\ CreateInsert(r, o, acknowledged)
  /\ bill' = [bill EXCEPT ![o] = BillOf(basket[r])]
  /\ UNCHANGED basket

(* Everything that happens to statuses leaves baskets and bills alone. *)
KeepBills(r) ==
  /\ ArriveForStatus(r) \/ ServeStatus(r) \/ Fail(r)
  /\ UNCHANGED <<basket, bill>>

BilledAnswered(r) ==
  /\ Answered(r)
  /\ basket' = [basket EXCEPT ![r] = <<>>]
  /\ UNCHANGED bill

BilledCrash ==
  /\ Crash
  /\ basket' = [r \in Requests |-> <<>>]
  /\ UNCHANGED bill

BilledNext ==
  \/ \E r \in Requests :
       \/ \E u \in Users, items \in Bodies : CreateOrder(r, u, items)
       \/ \E o \in Orders, ack \in BOOLEAN : InsertOrder(r, o, ack)
       \/ KeepBills(r)
       \/ BilledAnswered(r)
  \/ BilledCrash

BilledSpec == BilledInit /\ [][BilledNext]_billedVars

-----------------------------------------------------------------------------
(* Properties. *)

(* What the first k items of a request cost, in unbounded integers. *)
Cost(item) == item.quantity * item.price

RunningPrice(items) ==
  LET price[k \in 0..Len(items)] ==
        IF k = 0 THEN 0 ELSE price[k - 1] + Cost(items[k])
  IN  price

TrueTotal(items) == RunningPrice(items)[Len(items)]

(* A stored order costs what its items cost, line by line and in total,
   whenever that price exists in an int64; a higher price is off by the
   wrap-around of an int64 and by nothing else (service/order.go:64-73). *)
StoredTotalExact ==
  \A o \in Orders : status[o] # None =>
    LET price == TrueTotal(bill[o].items) IN
    /\ \E k \in 0..price : price = bill[o].total + k * Modulus
    /\ price <= Int64Max =>
         /\ bill[o].total = price
         /\ \A i \in 1..Len(bill[o].items) :
              bill[o].lines[i] = Cost(bill[o].items[i])

Complete(items) ==
  /\ items # <<>>
  /\ \A i \in 1..Len(items) :
       items[i].product /\ items[i].quantity >= 1 /\ items[i].price >= 0

Fitting(items) ==
  /\ TrueTotal(items) <= Int64Max
  /\ \A i \in 1..Len(items) : items[i].quantity <= Int32Max

(* A creation is refused as invalid exactly when an item lacks a product, a
   quantity or a price that is not negative; and no constraint of the tables
   stands in the way of an order whose quantities and price fit. *)
RightAnswer ==
  \A r \in Requests : req[r].op = "create" =>
    /\ req[r].res = "validation" <=> ~Complete(basket[r])
    /\ req[r].pc = "create_insert" /\ Fitting(basket[r]) =>
         Storable(BillOf(basket[r]))

(* A customer who is told the order was placed has one, with all the items
   sent and their total, whatever has happened to its status since. *)
CreateAckTruthful ==
  \A r \in Requests : req[r].op = "create" /\ req[r].res = "ok" =>
    \E o \in Orders : /\ status[o] # None /\ owner[o] = req[r].user
                      /\ bill[o] = BillOf(basket[r])

(***************************************************************************)
(* The inductive invariant: only valid items come to the INSERT, only      *)
(* invalid ones are refused; and an order is stored with the rows computed *)
(* from its items, all of them and within the constraints, or not at all.  *)
(***************************************************************************)
BillTypeOK ==
  /\ basket \in [Requests -> Seq(Item)]
  /\ bill \in [Orders -> Bill]

BasketAtPc(r) ==
  req[r].op = "create" =>
    req[r].res = "validation" <=> ~Valid(basket[r])

BillWhole(o) ==
  IF status[o] = None
    THEN bill[o] = NoBill
    ELSE /\ Valid(bill[o].items) /\ Storable(bill[o])
         /\ bill[o] = BillOf(bill[o].items)

BillInv ==
  /\ BillTypeOK
  /\ \A r \in Requests : BasketAtPc(r)
  /\ \A o \in Orders : BillWhole(o)
  /\ CreateAckTruthful
=============================================================================
