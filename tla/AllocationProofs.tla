-------------------------- MODULE AllocationProofs --------------------------
(***************************************************************************)
(* Proofs about module Commerce: what checkout takes, location by          *)
(* location, adds up to what the customer asked for, and it stays whole    *)
(* until the goods leave or the order is closed.                           *)
(***************************************************************************)
EXTENDS ShopProofs

------------------------------------------------------------------------------
(***************************************************************************)
(* What checkout takes adds up.                                            *)
(***************************************************************************)

(* The locations a pass over the locations has seen before number n, and   *)
(* the free units it found there.                                          *)
Seen(n) == {k \in Location : k < n}
FreeBefore(i, n) == Cardinality(FreeUnits(i, Seen(n)))

(* The units a checkout takes.                                             *)
Taken(i, needed) ==
  {u \in Location \X (1..MaxStock) : u[2] <= Share(i, u[1], needed)}

(* A longer pass finds no less.                                            *)
LEMMA SeenMore ==
  ASSUME NEW i, NEW m \in Nat, NEW n \in Nat, m <= n
  PROVE  FreeBefore(i, m) <= FreeBefore(i, n)
<1>1. \A k \in Location : k \in Nat
  BY InventoryAssumption
<1>2. Seen(m) \subseteq Seen(n)
  BY <1>1 DEF Seen
<1>3. FreeUnits(i, Seen(m)) \subseteq FreeUnits(i, Seen(n))
  BY <1>2 DEF FreeUnits
<1>4. Seen(n) \in SUBSET Location
  BY DEF Seen
<1> QED
  BY <1>3, <1>4, FreeUnitsAreFinite, FS_Subset DEF FreeBefore

(* Passing a location finds what is free there.                            *)
LEMMA SeenOneMore ==
  ASSUME StockInv, NEW i \in Item, NEW l \in Nat
  PROVE  /\ (l \in Location \cap eligible /\ FreeAt(i, l) > 0)
              => FreeBefore(i, l + 1) = FreeBefore(i, l) + FreeAt(i, l)
         /\ ~(l \in Location \cap eligible /\ FreeAt(i, l) > 0)
              => FreeBefore(i, l + 1) = FreeBefore(i, l)
<1> DEFINE S == FreeUnits(i, Seen(l))
           T == FreeUnits(i, Seen(l + 1))
<1>1. \A k \in Location : k \in Nat
  BY InventoryAssumption
<1>2. Seen(l + 1) = Seen(l) \cup ({l} \cap Location)
  BY <1>1 DEF Seen
<1>3. Seen(l) \in SUBSET Location /\ l \notin Seen(l)
  BY DEF Seen
<1>4. IsFiniteSet(S) /\ \A u \in S : u[1] # l
  BY <1>3, FreeUnitsAreFinite DEF FreeUnits
<1>5. CASE l \in Location \cap eligible /\ FreeAt(i, l) > 0
  <2> DEFINE f == FreeAt(i, l)
  <2>1. f \in 0..MaxStock
    BY <1>5, FreeAtIsInt
  <2>2. f \in 1..MaxStock /\ f \in Nat /\ MaxStock \in Nat
    BY <1>5, <2>1, InventoryAssumption
  <2>3. ASSUME NEW u
        PROVE  u \in T <=> u \in S \/ u \in {l} \X (1..f)
    <3>1. CASE u \in (Location \cap eligible) \X (1..MaxStock)
      <4>1. u = <<u[1], u[2]>> /\ u[1] \in Location /\ u[1] \in eligible /\ u[2] \in 1..MaxStock
        BY <3>1
      <4>2. CASE u[1] = l
        <5>1. u \in T <=> u[2] <= f
          BY <1>2, <1>5, <4>1, <4>2 DEF FreeUnits
        <5>2. u \notin S
          BY <1>4, <4>2
        <5>3. u[2] <= f <=> u[2] \in 1..f
          BY <2>2, <4>1
        <5>4. u \in {l} \X (1..f) <=> u[2] \in 1..f
          BY <4>1, <4>2
        <5> QED
          BY <5>1, <5>2, <5>3, <5>4
      <4>3. CASE u[1] # l
        <5>1. u[1] \in Seen(l + 1) <=> u[1] \in Seen(l)
          BY <1>2, <4>3
        <5> QED
          BY <4>1, <4>3, <5>1 DEF FreeUnits
      <4> QED
        BY <4>2, <4>3
    <3>2. CASE u \notin (Location \cap eligible) \X (1..MaxStock)
      <4>1. u \notin S /\ u \notin T
        BY <1>2, <1>3, <3>2 DEF FreeUnits
      <4>2. u \notin {l} \X (1..f)
        BY <1>5, <2>2, <3>2
      <4> QED
        BY <4>1, <4>2
    <3> QED
      BY <3>1, <3>2
  <2>4. T = S \cup ({l} \X (1..f))
    BY <2>3
  <2> HIDE DEF S, T, f
  <2>5. Cardinality(T) = Cardinality(S) + f
    BY <1>4, <2>2, <2>4, MovementAdds
  <2> QED
    BY <1>5, <2>5 DEF S, T, f, FreeBefore
<1>6. CASE ~(l \in Location \cap eligible /\ FreeAt(i, l) > 0)
  <2>1. ASSUME NEW u \in T PROVE u \in S
    <3>1. /\ u \in (Location \cap eligible) \X (1..MaxStock) /\ u[1] \in Seen(l + 1)
          /\ u[2] <= FreeAt(i, u[1]) /\ u[2] \in 1..MaxStock
      BY <1>2, <1>3, <2>1 DEF FreeUnits
    <3>2. u[1] # l
      <4>1. CASE u[1] = l
        <5>1. l \in Location \cap eligible /\ FreeAt(i, l) \in 0..MaxStock
          BY <3>1, <4>1, FreeAtIsInt
        <5> QED
          BY <1>6, <3>1, <4>1, <5>1, InventoryAssumption
      <4> QED
        BY <4>1
    <3> QED
      BY <1>2, <3>1, <3>2 DEF FreeUnits
  <2>2. S \subseteq T
    BY <1>2 DEF FreeUnits
  <2>3. S = T
    BY <2>1, <2>2
  <2> QED
    BY <1>6, <2>3 DEF FreeBefore
<1> QED
  BY <1>5, <1>6

(* Share in terms of what the pass has found before.                       *)
LEMMA ShareBefore ==
  ASSUME NEW i, NEW l \in Location, NEW needed
  PROVE  Share(i, l, needed) =
           IF l \notin eligible \/ needed - FreeBefore(i, l) <= 0 \/ FreeAt(i, l) <= 0 THEN 0
           ELSE Lesser(needed - FreeBefore(i, l), FreeAt(i, l))
  BY DEF Share, FreeBefore, Seen

(* The location at which the line is served, the locations before it give  *)
(* all they have free and it gives the rest.                               *)
LEMMA ServedSomewhere ==
  ASSUME StockInv, NEW i \in Item, NEW needed \in Nat \ {0}, needed <= AvailableQuantity(i)
  PROVE  \E l \in Location \cap eligible :
           FreeBefore(i, l) < needed /\ needed <= FreeBefore(i, l) + FreeAt(i, l)
<1> DEFINE Enough == {n \in Nat : needed <= FreeBefore(i, n)}
<1>1. \A n \in Nat : FreeBefore(i, n) \in Nat
  BY FreeUnitsAreFinite DEF FreeBefore, Seen
<1>2. PICK b \in Nat : \A l \in Location : l < b
  BY InventoryAssumption, FiniteIsBounded
<1>3. Seen(b) = Location
  BY <1>2 DEF Seen
<1>4. b \in Enough
  BY <1>3 DEF AvailableQuantity, FreeBefore
<1>5. PICK n \in Enough : \A m \in Enough : n <= m
  BY <1>4, LeastNat
<1>6. n # 0
  <2>1. Seen(0) = {}
    <3>1. \A k \in Location : k \in Nat
      BY InventoryAssumption
    <3> QED
      BY <3>1 DEF Seen
  <2>2. FreeUnits(i, Seen(0)) = {}
    BY <2>1 DEF FreeUnits
  <2>3. FreeBefore(i, 0) = 0
    BY <2>2, FS_EmptySet DEF FreeBefore
  <2> QED
    BY <2>3
<1> DEFINE l == n - 1
<1>7. l \in Nat /\ n = l + 1
  BY <1>6
<1>8. FreeBefore(i, l) < needed
  BY <1>1, <1>5, <1>7
<1>9. needed <= FreeBefore(i, l + 1)
  BY <1>7
<1> HIDE DEF l
<1>10. l \in Location \cap eligible /\ FreeBefore(i, l + 1) = FreeBefore(i, l) + FreeAt(i, l)
  BY <1>1, <1>7, <1>8, <1>9, SeenOneMore
<1> QED
  BY <1>8, <1>9, <1>10

(* Checkout takes exactly what the line needs.                             *)
LEMMA TakenIsNeeded ==
  ASSUME StockInv, NEW i \in Item, NEW needed \in Nat, needed <= AvailableQuantity(i)
  PROVE  Cardinality(Taken(i, needed)) = needed
<1>1. \A k \in Location : k \in Nat /\ FreeBefore(i, k) \in Nat
  BY InventoryAssumption, FreeUnitsAreFinite DEF FreeBefore, Seen
<1>2. \A k \in Location : FreeAt(i, k) \in 0..MaxStock
  BY FreeAtIsInt
<1>3. CASE needed = 0
  <2>1. \A k \in Location : Share(i, k, needed) = 0
    BY <1>1, <1>3, ShareBefore
  <2>2. Taken(i, needed) = {}
    <3>1. \A n \in 1..MaxStock : ~(n <= 0)
      BY InventoryAssumption
    <3> QED
      BY <2>1, <3>1 DEF Taken
  <2> QED
    BY <1>3, <2>2, FS_EmptySet
<1>4. CASE needed > 0
  <2>1. PICK l \in Location \cap eligible :
          FreeBefore(i, l) < needed /\ needed <= FreeBefore(i, l) + FreeAt(i, l)
    BY <1>4, ServedSomewhere
  <2> DEFINE S == FreeUnits(i, Seen(l))
             rest == needed - FreeBefore(i, l)
  <2>2. rest \in 1..MaxStock /\ rest <= FreeAt(i, l) /\ rest \in Nat
    BY <1>1, <1>2, <2>1, InventoryAssumption
  <2>3. IsFiniteSet(S) /\ \A u \in S : u[1] # l
    <3>1. Seen(l) \in SUBSET Location /\ l \notin Seen(l)
      BY <1>1 DEF Seen
    <3> QED
      BY <3>1, FreeUnitsAreFinite DEF FreeUnits
  <2>4. ASSUME NEW k \in Location, k < l
        PROVE  Share(i, k, needed) = IF k \in eligible THEN FreeAt(i, k) ELSE 0
    <3>1. CASE k \in eligible /\ FreeAt(i, k) > 0
      <4>1. FreeBefore(i, k + 1) = FreeBefore(i, k) + FreeAt(i, k)
        BY <1>1, <3>1, SeenOneMore
      <4>2. FreeBefore(i, k + 1) <= FreeBefore(i, l)
        BY <1>1, <2>4, SeenMore
      <4>3. FreeAt(i, k) < needed - FreeBefore(i, k)
        BY <1>1, <1>2, <2>1, <4>1, <4>2
      <4> QED
        BY <1>1, <1>2, <3>1, <4>3, ShareBefore, InventoryAssumption DEF Lesser
    <3>2. CASE ~(k \in eligible /\ FreeAt(i, k) > 0)
      BY <1>2, <3>2, ShareBefore, InventoryAssumption
    <3> QED
      BY <3>1, <3>2
  <2>5. Share(i, l, needed) = rest
    BY <1>1, <1>2, <2>1, <2>2, ShareBefore, InventoryAssumption DEF Lesser
  <2>6. ASSUME NEW k \in Location, l < k
        PROVE  Share(i, k, needed) = 0
    <3>1. FreeBefore(i, l + 1) = FreeBefore(i, l) + FreeAt(i, l)
      BY <1>1, <1>2, <2>1, SeenOneMore, InventoryAssumption
    <3>2. FreeBefore(i, l + 1) <= FreeBefore(i, k)
      BY <1>1, <2>6, SeenMore
    <3>3. needed - FreeBefore(i, k) <= 0
      BY <1>1, <1>2, <2>1, <3>1, <3>2, InventoryAssumption
    <3> QED
      BY <3>3, ShareBefore
  <2>7. ASSUME NEW u \in Location \X (1..MaxStock)
        PROVE  u \in Taken(i, needed) <=> u \in S \/ u \in {l} \X (1..rest)
    <3>1. u = <<u[1], u[2]>> /\ u[1] \in Location /\ u[2] \in 1..MaxStock /\ u[2] \in Nat
      BY InventoryAssumption
    <3>2. u \in Taken(i, needed) <=> u[2] <= Share(i, u[1], needed)
      BY DEF Taken
    <3>3. u \in S <=> u[1] \in eligible /\ u[1] < l /\ u[2] <= FreeAt(i, u[1])
      BY <3>1 DEF FreeUnits, Seen
    <3>4. CASE u[1] < l
      <4>1. u \notin {l} \X (1..rest)
        BY <1>1, <3>1, <3>4
      <4> QED
        BY <2>4, <3>1, <3>2, <3>3, <3>4, <4>1
    <3>5. CASE u[1] = l
      <4>1. u \in {l} \X (1..rest) <=> u[2] <= rest
        BY <2>2, <3>1, <3>5
      <4> QED
        BY <2>3, <2>5, <3>2, <3>5, <4>1
    <3>6. CASE l < u[1]
      <4>1. u \notin {l} \X (1..rest) /\ u \notin S
        BY <1>1, <3>1, <3>3, <3>6
      <4> QED
        BY <2>6, <3>1, <3>2, <3>6, <4>1
    <3> QED
      BY <1>1, <3>1, <3>4, <3>5, <3>6
  <2>8. Taken(i, needed) = S \cup ({l} \X (1..rest))
    <3>1. Taken(i, needed) \subseteq Location \X (1..MaxStock)
      BY DEF Taken
    <3>2. S \subseteq Location \X (1..MaxStock)
      BY DEF FreeUnits, Seen
    <3>3. {l} \X (1..rest) \subseteq Location \X (1..MaxStock)
      BY <2>2, InventoryAssumption
    <3> HIDE DEF S, rest
    <3> QED
      BY <2>7, <3>1, <3>2, <3>3
  <2> HIDE DEF S, rest
  <2>9. Cardinality(Taken(i, needed)) = Cardinality(S) + rest
    <3>1. Cardinality(S \cup ({l} \X (1..rest))) = Cardinality(S) + rest
      BY <2>2, <2>3, MovementAdds
    <3> QED
      BY <2>8, <3>1
  <2> QED
    BY <1>1, <2>9 DEF S, rest, FreeBefore
<1> QED
  BY <1>3, <1>4
------------------------------------------------------------------------------
(***************************************************************************)
(* An allocation stays whole.                                              *)
(***************************************************************************)
SameRows(o) ==
  \A i \in Item, l \in Location : reservation'[<<o, i, l>>] = reservation[<<o, i, l>>]

(* What a step may do to the rows of an order.                             *)
RowsFate(o) ==
  \/ /\ SameRows(o)
     /\ \/ order'[o].status = order[o].status
        \/ {order[o].status, order'[o].status} \subseteq {"PAID", "PREPARING"}
        \/ {order[o].status, order'[o].status} \subseteq Gone
  \/ /\ reservation' = Released(o)
     /\ \/ order'[o].status \in Closed
        \/ /\ order'[o].status = order[o].status
           /\ order[o].status \notin {"PENDING", "PAID", "PREPARING"}
  \/ \E e \in Event : ApplyEvent(e) /\ EventPaid(e) /\ e.order = o
  \/ Ship(o)
  \/ \E g \in Guest, k \in CheckoutKey, q \in Quote : Checkout(g, k, q, o)

(* A step about another order keeps the rows of this one.                  *)
LEMMA OthersKeepRows ==
  ASSUME TypeOK, NEW o \in Order, NEW p \in Order, p # o, order'[o] = order[o],
         \/ reservation' = Released(p) \/ reservation' = Confirmed(p)
         \/ Ship(p)
         \/ \E g \in Guest, k \in CheckoutKey, q \in Quote : Checkout(g, k, q, p)
  PROVE  RowsFate(o)
<1>1. ASSUME NEW i \in Item, NEW l \in Location
      PROVE  reservation'[<<o, i, l>>] = reservation[<<o, i, l>>]
  <2> DEFINE a == <<o, i, l>>
  <2>1. a \in Allocation /\ a[1] # p
    BY DEF Allocation, Order
  <2>2. a \notin Outgoing(p)
    BY <2>1 DEF Outgoing
  <2> HIDE DEF a
  <2>3. reservation'[a] = reservation[a]
    BY <2>1, <2>2 DEF Released, Confirmed, Ship, Consume, Checkout
  <2> QED
    BY <2>3 DEF a
<1> QED
  BY <1>1 DEF RowsFate, SameRows

(* Every step deals with the rows of an order in one of these ways.        *)
LEMMA StepFate ==
  ASSUME TypeOK, [Next]_vars, NEW o \in Order
  PROVE  RowsFate(o)
<1>1. order \in [Order -> OrderRecord] /\ order[o] \in OrderRecord
  BY DEF TypeOK
<1>2. ASSUME NEW g \in Guest, NEW k \in CheckoutKey, NEW q \in Quote, NEW p \in Order,
             Checkout(g, k, q, p)
      PROVE  RowsFate(o)
  <2>1. CASE p = o
    BY <1>2, <2>1 DEF RowsFate
  <2>2. CASE p # o
    <3>1. order'[o] = order[o]
      BY <1>1, <1>2, <2>2 DEF Checkout
    <3> QED
      BY <1>2, <2>2, <3>1, OthersKeepRows
  <2> QED
    BY <2>1, <2>2
<1>3. ASSUME NEW p \in Order,
             Expire(p) \/ CancelByGuest(p) \/ CancelByStaff(p) \/ RequestRefund(p)
      PROVE  RowsFate(o)
  <2>1. reservation' = Released(p)
    BY <1>3 DEF Expire, CancelByGuest, CancelByStaff, RequestRefund
  <2>2. CASE p = o
    <3>1. \/ order'[o].status = "CANCELLED"
          \/ order'[o].status = Withdrawn(order[o].status)
      BY <1>1, <1>3, <2>2
         DEF Expire, CancelByGuest, CancelByStaff, RequestRefund, OrderRecord
    <3> QED
      BY <2>1, <2>2, <3>1 DEF RowsFate, Withdrawn, Closed
  <2>3. CASE p # o
    <3>1. order'[o] = order[o]
      BY <1>1, <1>3, <2>3 DEF Expire, CancelByGuest, CancelByStaff, RequestRefund
    <3> QED
      BY <2>1, <2>3, <3>1, OthersKeepRows
  <2> QED
    BY <2>2, <2>3
<1>4. ASSUME NEW p \in Order, Prepare(p) \/ Deliver(p) PROVE RowsFate(o)
  <2>1. reservation' = reservation
    BY <1>4 DEF Prepare, Deliver, inventoryVars
  <2>2. CASE p = o
    <3>1. \/ order[o].status = "PAID" /\ order'[o].status = "PREPARING"
          \/ order[o].status = "SHIPPED" /\ order'[o].status = "DELIVERED"
      BY <1>1, <1>4, <2>2 DEF Prepare, Deliver, OrderRecord
    <3> QED
      BY <2>1, <3>1 DEF RowsFate, SameRows, Gone
  <2>3. CASE p # o
    <3>1. order'[o] = order[o]
      BY <1>1, <1>4, <2>3 DEF Prepare, Deliver
    <3> QED
      BY <2>1, <3>1 DEF RowsFate, SameRows
  <2> QED
    BY <2>2, <2>3
<1>5. ASSUME NEW p \in Order, Ship(p) PROVE RowsFate(o)
  <2>1. CASE p = o
    BY <1>5, <2>1 DEF RowsFate
  <2>2. CASE p # o
    <3>1. order'[o] = order[o]
      BY <1>1, <1>5, <2>2 DEF Ship
    <3> QED
      BY <1>5, <2>2, <3>1, OthersKeepRows
  <2> QED
    BY <2>1, <2>2
<1>6. ASSUME NEW e \in Event, ApplyEvent(e) PROVE RowsFate(o)
  <2>1. e.order \in Order
    BY DEF Event
  <2>2. e.order # o => order'[o] = order[o]
    BY <1>1, <1>6 DEF ApplyEvent, EventEffect, EventContradicts, EventRefunded,
       EventRefundFailed, EventFailed, EventIgnored, EventPaid, EventPaidLate
  <2>3. CASE EventContradicts(e) \/ EventRefundFailed(e) \/ EventIgnored(e)
    <3>1. reservation' = reservation
      BY <2>3 DEF EventContradicts, EventRefundFailed, EventIgnored
    <3>2. order'[o].status = order[o].status
      BY <1>1, <2>2, <2>3 DEF EventContradicts, EventRefundFailed, EventIgnored, OrderRecord
    <3> QED
      BY <3>1, <3>2 DEF RowsFate, SameRows
  <2>4. CASE EventRefunded(e) \/ EventFailed(e) \/ EventPaidLate(e)
    <3>1. reservation' = Released(e.order)
      BY <2>4 DEF EventRefunded, EventFailed, EventPaidLate
    <3>2. e.order = o => order'[o].status \in Closed
      BY <1>1, <2>4 DEF EventRefunded, EventFailed, EventPaidLate, OrderRecord, Closed
    <3> QED
      BY <2>1, <2>2, <3>1, <3>2, OthersKeepRows DEF RowsFate
  <2>5. CASE EventPaid(e)
    <3>1. reservation' = Confirmed(e.order)
      BY <2>5 DEF EventPaid
    <3> QED
      BY <1>6, <2>1, <2>2, <2>5, <3>1, OthersKeepRows DEF RowsFate
  <2> QED
    BY <1>6, <2>3, <2>4, <2>5 DEF ApplyEvent, EventEffect
<1>7. reservation' = reservation /\ order' = order => RowsFate(o)
  BY DEF RowsFate, SameRows
<1>8. ASSUME NEW g \in Guest, NEW lines \in Lines, NEW q \in Quote, RequestQuote(g, lines, q)
      PROVE  reservation' = reservation /\ order' = order
  BY <1>8 DEF RequestQuote, inventoryVars
<1>9. ASSUME NEW g \in Guest, NEW k \in CheckoutKey, NEW q \in Quote, NEW fresh \in Quote,
             CheckoutRequoted(g, k, q, fresh)
      PROVE  reservation' = reservation /\ order' = order
  BY <1>9 DEF CheckoutRequoted, inventoryVars
<1>10. ASSUME NEW p \in Order, PrepareSession(p) \/ SaveSession(p)
       PROVE  reservation' = reservation /\ order' = order
  BY <1>10 DEF PrepareSession, SaveSession, inventoryVars
<1>11. ASSUME NEW p \in Order, NEW r \in RefundId, SaveRefund(p, r)
       PROVE  reservation' = reservation /\ order' = order
  BY <1>11 DEF SaveRefund, inventoryVars
<1>12. OfficeNext => reservation' = reservation /\ order' = order
  BY DEF OfficeNext, SubmitOperation, ApplyInventoryOperation, EditTree, EditLocations,
     EditListing, PassTime, Tick, shopVars, inventoryVars
<1>13. UNCHANGED vars => reservation' = reservation /\ order' = order
  BY DEF vars, shopVars, inventoryVars
<1> QED
  BY <1>2, <1>3, <1>4, <1>5, <1>6, <1>7, <1>8, <1>9, <1>10, <1>11, <1>12, <1>13
     DEF Next, ShopNext, PaymentNext

(* Once goods of an order have left, the whole order has.                  *)
SoldWhole ==
  \A o \in Order :
    (\E i \in Item, l \in Location : reservation[<<o, i, l>>].status = "CONSUMED") =>
      \A i \in Item : Cardinality(RowUnits(o, i, "CONSUMED")) = order[o].lines[i]

AllocInv == ShopInv /\ OpenIsHeld /\ PaidIsAllocated /\ SoldWhole

(* Rows that stay keep their units.                                        *)
LEMMA SameRowUnits ==
  ASSUME NEW o \in Order, NEW i \in Item, SameRows(o), NEW status
  PROVE  RowUnits(o, i, status)' = RowUnits(o, i, status)
  BY DEF SameRows, RowUnits

(* A checkout makes an order whose lines are held to the last unit.        *)
LEMMA CheckoutIsHeld ==
  ASSUME ShopInv,
         NEW g \in Guest, NEW k \in CheckoutKey, NEW q \in Quote, NEW o \in Order,
         Checkout(g, k, q, o), NEW i \in Item
  PROVE  Cardinality(RowUnits(o, i, "HELD")') = order'[o].lines[i]
<1> DEFINE needed == quote[q].lines[i]
<1>1. needed \in Nat
  BY CommerceAssumption DEF ShopInv, RowsInv, TypeOK, QuoteRecord, Lines
<1>2. needed <= AvailableQuantity(i)
  <2>1. AvailableQuantity(i) \in Nat
    BY FreeUnitsAreFinite DEF AvailableQuantity
  <2>2. needed > 0 => AvailableQuantity(i) >= needed
    BY DEF Checkout, CheckoutAllowed, Purchasable
  <2> HIDE DEF needed
  <2> QED
    BY <1>1, <2>1, <2>2
<1>3. order'[o].lines[i] = needed
  BY DEF Checkout, ShopInv, RowsInv, TypeOK
<1>4. ASSUME NEW u \in Location \X (1..MaxStock)
      PROVE  /\ reservation'[<<o, i, u[1]>>].status = "HELD"
             /\ u[2] <= reservation'[<<o, i, u[1]>>].quantity
             <=> u[2] <= Share(i, u[1], needed)
  <2> DEFINE a == <<o, i, u[1]>>
  <2>1. a \in Allocation /\ u[2] \in Nat /\ u[2] >= 1 /\ u[1] \in Location
    BY InventoryAssumption DEF Allocation, Order
  <2>2. reservation[a].status = "NONE"
    <3>1. order[o].status = "NONE"
      BY DEF Checkout, NoOrder
    <3> QED
      BY <2>1, <3>1 DEF ShopInv, RowsInv, RowsFollow, RowOK
  <2>3. Share(i, u[1], needed) \in Nat
    BY <1>1, <2>1, ShareIsFree, InventoryAssumption DEF ShopInv
  <2>4. reservation'[a] =
          IF Share(i, u[1], needed) > 0
          THEN [status |-> "HELD", quantity |-> Share(i, u[1], needed),
                expiresAt |-> now + HoldTime]
          ELSE reservation[a]
    BY <2>1 DEF Checkout
  <2> HIDE DEF a, needed
  <2>5. CASE Share(i, u[1], needed) > 0
    BY <2>4, <2>5 DEF a
  <2>6. CASE Share(i, u[1], needed) = 0
    BY <2>1, <2>2, <2>4, <2>6 DEF a
  <2> QED
    BY <2>3, <2>5, <2>6
<1>5. RowUnits(o, i, "HELD")' = Taken(i, needed)
  BY <1>4 DEF RowUnits, Taken
<1> HIDE DEF needed
<1> QED
  BY <1>1, <1>2, <1>3, <1>5, TakenIsNeeded DEF ShopInv

(* Every step keeps the carts of open orders held.                         *)
LEMMA OpenIsHeldStep ==
  ASSUME AllocInv, [Next]_vars, NEW o \in Order, order'[o].status = "PENDING", NEW i \in Item
  PROVE  Cardinality(RowUnits(o, i, "HELD")') = order'[o].lines[i]
<1>1. Moves(o) /\ RowsFate(o) /\ order \in [Order -> OrderRecord]
  BY StepMoves, StepFate DEF AllocInv, ShopInv, RowsInv, TypeOK
<1>2. CASE \E g \in Guest, k \in CheckoutKey, q \in Quote : Checkout(g, k, q, o)
  BY <1>2, CheckoutIsHeld DEF AllocInv
<1>3. CASE SameRows(o) /\ order[o].status = "PENDING"
  <2>1. order'[o].lines = order[o].lines
    BY <1>1, <1>3 DEF Moves, SameTerms
  <2>2. RowUnits(o, i, "HELD")' = RowUnits(o, i, "HELD")
    BY <1>3, SameRowUnits
  <2>3. Cardinality(RowUnits(o, i, "HELD")) = order[o].lines[i]
    BY <1>3 DEF AllocInv, OpenIsHeld
  <2> QED
    BY <2>1, <2>2, <2>3
<1>4. ASSUME NEW e \in Event, EventPaid(e), e.order = o PROVE FALSE
  <2>1. order'[o].status = "PAID"
    BY <1>1, <1>4 DEF EventPaid, OrderRecord
  <2> QED
    BY <2>1
<1>5. ~Ship(o)
  <2>1. Ship(o) => order'[o].status = "SHIPPED"
    BY <1>1 DEF Ship, OrderRecord
  <2> QED
    BY <2>1
<1> QED
  BY <1>1, <1>2, <1>3, <1>4, <1>5 DEF RowsFate, Closed, Gone

(* Every step keeps paid orders allocated.                                 *)
LEMMA PaidIsAllocatedStep ==
  ASSUME AllocInv, [Next]_vars, NEW o \in Order,
         order'[o].status \in {"PAID", "PREPARING"}, NEW i \in Item
  PROVE  Cardinality(RowUnits(o, i, "CONFIRMED")') = order'[o].lines[i]
<1>1. Moves(o) /\ RowsFate(o) /\ order \in [Order -> OrderRecord]
  BY StepMoves, StepFate DEF AllocInv, ShopInv, RowsInv, TypeOK
<1>2. CASE SameRows(o) /\ order[o].status \in {"PAID", "PREPARING"}
  <2>1. order'[o].lines = order[o].lines
    BY <1>1, <1>2 DEF Moves, SameTerms
  <2>2. RowUnits(o, i, "CONFIRMED")' = RowUnits(o, i, "CONFIRMED")
    BY <1>2, SameRowUnits
  <2>3. Cardinality(RowUnits(o, i, "CONFIRMED")) = order[o].lines[i]
    BY <1>2 DEF AllocInv, PaidIsAllocated
  <2> QED
    BY <2>1, <2>2, <2>3
<1>3. ASSUME NEW e \in Event, ApplyEvent(e), EventPaid(e), e.order = o
      PROVE  Cardinality(RowUnits(o, i, "CONFIRMED")') = order'[o].lines[i]
  <2>1. order[o].status = "PENDING" /\ reservation' = Confirmed(o)
    BY <1>3 DEF EventPaid, Confirmable
  <2>2. order'[o].lines = order[o].lines
    BY <1>1, <2>1 DEF Moves, SameTerms
  <2>3. ASSUME NEW u \in Location \X (1..MaxStock)
        PROVE  u \in RowUnits(o, i, "CONFIRMED")' <=> u \in RowUnits(o, i, "HELD")
    <3> DEFINE a == <<o, i, u[1]>>
    <3>1. a \in Allocation
      BY DEF Allocation, Order
    <3>2. reservation[a].status \in {"NONE", "HELD"}
      BY <2>1, <3>1 DEF AllocInv, ShopInv, RowsInv, RowsFollow, RowOK
    <3>3. reservation'[a] = IF reservation[a].status = "HELD"
            THEN [status |-> "CONFIRMED", quantity |-> reservation[a].quantity, expiresAt |-> 0]
            ELSE reservation[a]
      BY <2>1, <3>1 DEF Confirmed
    <3> QED
      BY <3>2, <3>3 DEF RowUnits
  <2>4. RowUnits(o, i, "CONFIRMED")' = RowUnits(o, i, "HELD")
    BY <2>3 DEF RowUnits
  <2>5. Cardinality(RowUnits(o, i, "HELD")) = order[o].lines[i]
    BY <2>1 DEF AllocInv, OpenIsHeld
  <2> QED
    BY <2>2, <2>4, <2>5
<1>4. ~Ship(o)
  <2>1. Ship(o) => order'[o].status = "SHIPPED"
    BY <1>1 DEF Ship, OrderRecord
  <2> QED
    BY <2>1
<1>5. ASSUME NEW g \in Guest, NEW k \in CheckoutKey, NEW q \in Quote, Checkout(g, k, q, o)
      PROVE  FALSE
  <2>1. order'[o].status = "PENDING"
    BY <1>1, <1>5 DEF Checkout
  <2> QED
    BY <2>1
<1> QED
  BY <1>1, <1>2, <1>3, <1>4, <1>5 DEF RowsFate, Closed, Gone

(* Dispatch turns the whole allocation into sales.                         *)
LEMMA ShippedIsWhole ==
  ASSUME AllocInv, [Next]_vars, NEW o \in Order, Ship(o), NEW i \in Item
  PROVE  Cardinality(RowUnits(o, i, "CONSUMED")') = order'[o].lines[i]
<1>1. order[o].status \in {"PAID", "PREPARING"}
  BY DEF Ship
<1>2. order'[o].lines = order[o].lines
  BY <1>1, StepMoves DEF AllocInv, ShopInv, RowsInv, Moves, SameTerms
<1>3. ASSUME NEW u \in Location \X (1..MaxStock)
      PROVE  u \in RowUnits(o, i, "CONSUMED")' <=> u \in RowUnits(o, i, "CONFIRMED")
  <2> DEFINE a == <<o, i, u[1]>>
  <2>1. a \in Allocation /\ a[1] = o
    BY DEF Allocation, Order
  <2>2. reservation[a].status \in {"NONE", "CONFIRMED"} /\ reservation[a] \in Reservation
    BY <1>1, <2>1
       DEF AllocInv, ShopInv, RowsInv, RowsFollow, RowOK, TypeOK, InventoryTypeOK
  <2>3. reservation'[a] = IF a \in Outgoing(o)
                          THEN [reservation[a] EXCEPT !.status = "CONSUMED"]
                          ELSE reservation[a]
    BY <2>1 DEF Ship, Consume
  <2>4. a \in Outgoing(o) <=> reservation[a].status = "CONFIRMED"
    BY <2>1 DEF Outgoing
  <2> HIDE DEF a
  <2>5. /\ reservation'[a].status = "CONSUMED" <=> reservation[a].status = "CONFIRMED"
        /\ reservation'[a].quantity = reservation[a].quantity
    BY <2>2, <2>3, <2>4 DEF Reservation
  <2> QED
    BY <2>5 DEF RowUnits, a
<1>4. RowUnits(o, i, "CONSUMED")' = RowUnits(o, i, "CONFIRMED")
  BY <1>3 DEF RowUnits
<1>5. Cardinality(RowUnits(o, i, "CONFIRMED")) = order[o].lines[i]
  BY <1>1 DEF AllocInv, PaidIsAllocated
<1> QED
  BY <1>2, <1>4, <1>5

(* Every step keeps what has left whole.                                   *)
LEMMA SoldWholeStep ==
  ASSUME AllocInv, [Next]_vars, NEW o \in Order,
         NEW j \in Item, NEW l \in Location, reservation'[<<o, j, l>>].status = "CONSUMED",
         NEW i \in Item
  PROVE  Cardinality(RowUnits(o, i, "CONSUMED")') = order'[o].lines[i]
<1>1. Moves(o) /\ RowsFate(o)
  BY StepMoves, StepFate DEF AllocInv, ShopInv, RowsInv
<1>2. \A k \in Item, m \in Location :
        /\ <<o, k, m>> \in Allocation
        /\ RowOK(reservation[<<o, k, m>>], order[o])
        /\ reservation[<<o, k, m>>] \in Reservation
  BY DEF Allocation, Order, AllocInv, ShopInv, RowsInv, RowsFollow, TypeOK, InventoryTypeOK
<1>3. CASE Ship(o)
  BY <1>3, ShippedIsWhole
<1>4. ASSUME reservation[<<o, j, l>>].status = "CONSUMED",
             RowUnits(o, i, "CONSUMED")' = RowUnits(o, i, "CONSUMED")
      PROVE  Cardinality(RowUnits(o, i, "CONSUMED")') = order'[o].lines[i]
  <2>1. order[o].status # "NONE"
    BY <1>2, <1>4 DEF RowOK
  <2>2. order'[o].lines = order[o].lines
    BY <1>1, <2>1 DEF Moves, SameTerms
  <2>3. Cardinality(RowUnits(o, i, "CONSUMED")) = order[o].lines[i]
    BY <1>4 DEF AllocInv, SoldWhole
  <2> QED
    BY <1>4, <2>2, <2>3
<1>5. CASE SameRows(o)
  BY <1>4, <1>5, SameRowUnits DEF SameRows
<1>6. CASE reservation' = Released(o)
  <2>1. ASSUME NEW k \in Item, NEW m \in Location
        PROVE  /\ reservation'[<<o, k, m>>].status = "CONSUMED"
                    <=> reservation[<<o, k, m>>].status = "CONSUMED"
               /\ reservation'[<<o, k, m>>].quantity = reservation[<<o, k, m>>].quantity
    BY <1>2, <1>6 DEF Released, Reservation
  <2>2. RowUnits(o, i, "CONSUMED")' = RowUnits(o, i, "CONSUMED")
    BY <2>1 DEF RowUnits
  <2> QED
    BY <1>4, <2>1, <2>2
<1>7. ASSUME NEW e \in Event, EventPaid(e), e.order = o PROVE FALSE
  <2>1. order[o].status = "PENDING" /\ reservation' = Confirmed(o)
    BY <1>7 DEF EventPaid, Confirmable
  <2>2. reservation[<<o, j, l>>].status \in {"NONE", "HELD"}
    BY <1>2, <2>1 DEF RowOK
  <2> QED
    BY <1>2, <2>1, <2>2 DEF Confirmed
<1>8. ASSUME NEW g \in Guest, NEW k \in CheckoutKey, NEW q \in Quote, Checkout(g, k, q, o)
      PROVE  FALSE
  <2>1. order[o].status = "NONE"
    BY <1>8 DEF Checkout, NoOrder
  <2>2. reservation[<<o, j, l>>].status = "NONE"
    BY <1>2, <2>1 DEF RowOK
  <2> QED
    BY <1>2, <1>8, <2>2 DEF Checkout
<1> QED
  BY <1>1, <1>3, <1>5, <1>6, <1>7, <1>8 DEF RowsFate

(* The invariant holds in the empty shop.                                  *)
LEMMA AllocInvInit == Init => AllocInv
<1> SUFFICES ASSUME Init PROVE AllocInv
  OBVIOUS
<1>1. \A o \in Order : order[o].status = "NONE"
  BY DEF Init, NoOrder
<1>2. \A o \in Order, i \in Item, l \in Location : reservation[<<o, i, l>>].status = "NONE"
  BY DEF Init, InventoryInit, NoReservation, Allocation, Order
<1> QED
  BY <1>1, <1>2, ShopInvInit DEF AllocInv, OpenIsHeld, PaidIsAllocated, SoldWhole

(* Every step keeps the invariant.                                         *)
LEMMA AllocInvStep == AllocInv /\ [Next]_vars => AllocInv'
<1> SUFFICES ASSUME AllocInv, [Next]_vars PROVE AllocInv'
  OBVIOUS
<1>1. ShopInv'
  BY ShopInvStep DEF AllocInv
<1>2. OpenIsHeld'
  BY OpenIsHeldStep DEF OpenIsHeld
<1>3. PaidIsAllocated'
  BY PaidIsAllocatedStep DEF PaidIsAllocated
<1>4. SoldWhole'
  BY SoldWholeStep DEF SoldWhole
<1> QED
  BY <1>1, <1>2, <1>3, <1>4 DEF AllocInv

(* The whole cart of an open checkout is held, to the last unit.           *)
THEOREM OpenOrdersAreHeld == Spec => []OpenIsHeld
<1>1. AllocInv => OpenIsHeld
  BY DEF AllocInv
<1> QED
  BY <1>1, AllocInvInit, AllocInvStep, PTL DEF Spec

(* A paid order that has not left keeps its whole allocation.              *)
THEOREM PaidOrdersAreAllocated == Spec => []PaidIsAllocated
<1>1. AllocInv => PaidIsAllocated
  BY DEF AllocInv
<1> QED
  BY <1>1, AllocInvInit, AllocInvStep, PTL DEF Spec

(* Goods leave only for a paid order, all of it at once, and stay left.    *)
THEOREM OnlyPaidGoodsLeave == Spec => []GoodsLeavePaid
<1>1. AllocInv => GoodsLeavePaid
  <2> SUFFICES ASSUME AllocInv, NEW o \in Order, NEW i \in Item, NEW l \in Location,
                      reservation[<<o, i, l>>].status = "CONSUMED"
               PROVE  /\ order[o].paid
                      /\ fulfillment[o] \in {"SHIPPED", "DELIVERED"}
                      /\ order[o].status \in {"SHIPPED", "DELIVERED", "REFUNDED"}
                      /\ \A k \in Item :
                           Cardinality(RowUnits(o, k, "CONSUMED")) = order[o].lines[k]
    BY DEF GoodsLeavePaid
  <2>1. <<o, i, l>> \in Allocation
    BY DEF Allocation, Order
  <2>2. order[o].paid /\ fulfillment[o] \in Gone
    BY <2>1 DEF AllocInv, ShopInv, RowsInv, SoldRows, SoldRowOK
  <2>3. order[o].status \in Gone \cup {"REFUNDED"}
    BY <2>2 DEF AllocInv, ShopInv, RowsInv, RecordsOK, RecordOK
  <2> QED
    BY <2>2, <2>3 DEF AllocInv, SoldWhole, Gone
<1> QED
  BY <1>1, AllocInvInit, AllocInvStep, PTL DEF Spec
==============================================================================
