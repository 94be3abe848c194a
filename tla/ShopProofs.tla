----------------------------- MODULE ShopProofs -----------------------------
(***************************************************************************)
(* Proofs about module Commerce: types, the transactions of the shop stay  *)
(* within the contract of module Inventory, so that what is proved there of*)
(* stock and ledger holds of the shop, and the rows of an order follow the *)
(* order.                                                                  *)
(***************************************************************************)
EXTENDS Commerce, InventoryProofs

ShopTypeOK ==
  /\ eligible \subseteq receiving
  /\ listing \in [Item -> Price \cup {None}]
  /\ quote \in [Quote -> QuoteRecord]
  /\ order \in [Order -> OrderRecord]
  /\ fulfillment \in [Order -> FulfillmentStatus]
  /\ attempt \in [Order -> AttemptRecord]
  /\ processed \subseteq EventId
------------------------------------------------------------------------------
(***************************************************************************)
(* Types.                                                                  *)
(***************************************************************************)
(* A quote made of well-formed lines is well-formed.                       *)
LEMMA NewQuoteType ==
  ASSUME ShopTypeOK, now \in Nat, NEW g \in Guest, NEW lines \in Lines
  PROVE  NewQuote(g, lines) \in QuoteRecord
<1>1. now + QuoteTime \in Nat
  BY CommerceAssumption
<1>2. [i \in Item |-> IF lines[i] > 0 THEN listing[i] ELSE None]
        \in [Item -> Price \cup {None}]
  BY DEF ShopTypeOK
<1> QED
  BY <1>1, <1>2 DEF NewQuote, QuoteRecord

(* A new quote is well-formed.                                             *)
LEMMA ShopTypeQuote ==
  ASSUME ShopTypeOK, now \in Nat, NEW q \in Quote, NEW g \in Guest, NEW lines \in Lines,
         quote' = [quote EXCEPT ![q] = NewQuote(g, lines)],
         UNCHANGED <<receiving, eligible, listing, order, fulfillment, attempt, processed>>
  PROVE  ShopTypeOK'
<1>1. quote' \in [Quote -> QuoteRecord]
  BY NewQuoteType DEF ShopTypeOK
<1> QED
  BY <1>1 DEF ShopTypeOK

(* A new order is well-formed.                                             *)
LEMMA ShopTypeCheckout ==
  ASSUME ShopTypeOK, now \in Nat,
         NEW g \in Guest, NEW k \in CheckoutKey, NEW q \in Quote, NEW o \in Order,
         Checkout(g, k, q, o)
  PROVE  ShopTypeOK'
<1> DEFINE new == [status |-> "PENDING", paymentStatus |-> "UNPAID", guest |-> g,
                   key |-> <<g, k>>, quote |-> q, lines |-> quote[q].lines,
                   expiresAt |-> now + HoldTime, paid |-> FALSE, refunded |-> 0]
<1>1. now + HoldTime \in Nat /\ Total \in Nat /\ 0 \in 0..Total
  BY CommerceAssumption
<1>2. quote[q].lines \in Lines
  BY DEF ShopTypeOK, QuoteRecord
<1>3. new \in OrderRecord
  BY <1>1, <1>2 DEF OrderRecord, OrderStatus, PaymentStatus
<1>4. order' = [order EXCEPT ![o] = new]
  BY DEF Checkout
<1> HIDE DEF new
<1>5. order' \in [Order -> OrderRecord]
  BY <1>3, <1>4 DEF ShopTypeOK
<1> QED
  BY <1>5 DEF ShopTypeOK, Checkout

(* The steps that only move an order on.                                   *)
LEMMA ShopTypeOrder ==
  ASSUME ShopTypeOK, NEW o \in Order,
         Expire(o) \/ CancelByGuest(o) \/ CancelByStaff(o) \/ Prepare(o) \/ Ship(o) \/ Deliver(o)
  PROVE  ShopTypeOK'
<1>1. order[o] \in OrderRecord /\ fulfillment[o] \in FulfillmentStatus
  BY DEF ShopTypeOK
<1>2. order' \in [Order -> OrderRecord]
  BY <1>1 DEF ShopTypeOK, Expire, CancelByGuest, CancelByStaff, Prepare, Ship, Deliver,
     OrderRecord, OrderStatus, PaymentStatus
<1>3. fulfillment' \in [Order -> FulfillmentStatus]
  BY <1>1 DEF ShopTypeOK, Expire, CancelByGuest, CancelByStaff, Prepare, Ship, Deliver,
     FulfillmentStatus, inventoryVars
<1>4. UNCHANGED <<receiving, eligible, listing, quote, attempt, processed>>
  BY DEF Expire, CancelByGuest, CancelByStaff, Prepare, Ship, Consume, Deliver, inventoryVars
<1> QED
  BY <1>2, <1>3, <1>4 DEF ShopTypeOK

(* The transactions of an attempt keep the records well-formed.            *)
LEMMA ShopTypeAttempt ==
  ASSUME ShopTypeOK, NEW o \in Order,
         PrepareSession(o) \/ SaveSession(o) \/ RequestRefund(o)
  PROVE  ShopTypeOK'
<1>1. order[o] \in OrderRecord /\ attempt[o] \in AttemptRecord
  BY DEF ShopTypeOK
<1>2. CASE PrepareSession(o)
  <2>1. attempt' \in [Order -> AttemptRecord]
    BY <1>1, <1>2 DEF ShopTypeOK, PrepareSession, AttemptRecord, AttemptStatus
  <2> QED
    BY <1>2, <2>1 DEF ShopTypeOK, PrepareSession, inventoryVars
<1>3. CASE SaveSession(o)
  <2>1. attempt' \in [Order -> AttemptRecord]
    BY <1>1, <1>3 DEF ShopTypeOK, SaveSession, AttemptRecord, AttemptStatus
  <2> QED
    BY <1>3, <2>1 DEF ShopTypeOK, SaveSession, inventoryVars
<1>4. CASE RequestRefund(o)
  <2>1. attempt' \in [Order -> AttemptRecord]
    BY <1>1, <1>4 DEF ShopTypeOK, RequestRefund, AttemptRecord
  <2>2. Withdrawn(order[o].status) \in OrderStatus
    BY <1>1 DEF Withdrawn, OrderRecord, OrderStatus
  <2>3. order' \in [Order -> OrderRecord]
    BY <1>1, <1>4, <2>2 DEF ShopTypeOK, RequestRefund, OrderRecord, PaymentStatus
  <2>4. fulfillment' \in [Order -> FulfillmentStatus]
    BY <1>4 DEF ShopTypeOK, RequestRefund, WithdrawReady, FulfillmentStatus
  <2> QED
    BY <1>4, <2>1, <2>3, <2>4 DEF ShopTypeOK, RequestRefund
<1> QED
  BY <1>2, <1>3, <1>4

(* So does the transaction that saves a refund.                            *)
LEMMA ShopTypeSaveRefund ==
  ASSUME ShopTypeOK, NEW o \in Order, NEW r \in RefundId, SaveRefund(o, r)
  PROVE  ShopTypeOK'
<1>1. attempt' \in [Order -> AttemptRecord]
  BY DEF ShopTypeOK, SaveRefund, AttemptRecord
<1> QED
  BY <1>1 DEF ShopTypeOK, SaveRefund, inventoryVars

(* Events keep the records well-formed.                                    *)
LEMMA ShopTypeEvent ==
  ASSUME ShopTypeOK, NEW e \in Event, ApplyEvent(e)
  PROVE  ShopTypeOK'
<1> DEFINE o == e.order
<1>1. /\ o \in Order /\ order[o] \in OrderRecord /\ attempt[o] \in AttemptRecord
      /\ e.amount \in Nat /\ e.id \in EventId /\ e.intent \in BOOLEAN
  BY CommerceAssumption DEF ShopTypeOK, Event
<1>2. Total \in Nat /\ RefundedAfter(e) \in 0..Total
  BY <1>1, CommerceAssumption DEF RefundedAfter, OrderRecord
<1>3. ~Contradicts(e) => e.amount \in 0..Total
  BY <1>2 DEF Contradicts
<1>4. AttemptAfter(e, attempt[o].status) \in [Order -> AttemptRecord]
  BY <1>1 DEF ShopTypeOK, AttemptAfter, AttemptRecord
<1>5. \A status \in AttemptStatus : AttemptAfter(e, status) \in [Order -> AttemptRecord]
  BY <1>1 DEF ShopTypeOK, AttemptAfter, AttemptRecord
<1>6. WithdrawReady(o) \in [Order -> FulfillmentStatus]
  BY DEF ShopTypeOK, WithdrawReady, FulfillmentStatus
<1>7. CASE EventContradicts(e)
  <2>1. order' \in [Order -> OrderRecord]
    BY <1>1, <1>2, <1>7 DEF EventContradicts, ShopTypeOK, OrderRecord, PaymentStatus
  <2>2. attempt' \in [Order -> AttemptRecord]
    BY <1>1, <1>7 DEF EventContradicts, ShopTypeOK, AttemptRecord, AttemptStatus
  <2> QED
    BY <1>1, <1>7, <2>1, <2>2 DEF ShopTypeOK, ApplyEvent, EventContradicts
<1>8. CASE EventRefunded(e)
  <2>1. order' \in [Order -> OrderRecord]
    BY <1>1, <1>3, <1>8 DEF EventRefunded, ShopTypeOK, OrderRecord, OrderStatus, PaymentStatus
  <2> QED
    BY <1>1, <1>4, <1>6, <1>8, <2>1 DEF ShopTypeOK, ApplyEvent, EventRefunded
<1>9. CASE EventRefundFailed(e)
  <2>1. order' \in [Order -> OrderRecord]
    BY <1>1, <1>9 DEF EventRefundFailed, ShopTypeOK, OrderRecord, PaymentStatus
  <2> QED
    BY <1>1, <1>4, <1>9, <2>1 DEF ShopTypeOK, ApplyEvent, EventRefundFailed
<1>10. CASE EventFailed(e)
  <2>1. order' \in [Order -> OrderRecord]
    BY <1>1, <1>10 DEF EventFailed, ShopTypeOK, OrderRecord, OrderStatus, PaymentStatus
  <2> QED
    BY <1>1, <1>5, <1>10, <2>1 DEF ShopTypeOK, ApplyEvent, EventFailed, AttemptStatus
<1>11. CASE EventIgnored(e)
  BY <1>1, <1>4, <1>11 DEF ShopTypeOK, ApplyEvent, EventIgnored
<1>12. CASE EventPaid(e)
  <2>1. order' \in [Order -> OrderRecord]
    BY <1>1, <1>12 DEF EventPaid, ShopTypeOK, OrderRecord, OrderStatus, PaymentStatus
  <2>2. fulfillment' \in [Order -> FulfillmentStatus]
    BY <1>12 DEF EventPaid, ShopTypeOK, FulfillmentStatus
  <2> QED
    BY <1>1, <1>5, <1>12, <2>1, <2>2 DEF ShopTypeOK, ApplyEvent, EventPaid, AttemptStatus
<1>13. CASE EventPaidLate(e)
  <2>1. order' \in [Order -> OrderRecord]
    BY <1>1, <1>13 DEF EventPaidLate, ShopTypeOK, OrderRecord, OrderStatus, PaymentStatus
  <2> QED
    BY <1>1, <1>5, <1>13, <2>1 DEF ShopTypeOK, ApplyEvent, EventPaidLate, AttemptStatus
<1> QED
  BY <1>7, <1>8, <1>9, <1>10, <1>11, <1>12, <1>13 DEF ApplyEvent, EventEffect

(* Every step keeps the records of the shop well-formed.                   *)
LEMMA ShopTypeStep ==
  ASSUME TypeOK, InventoryTypeOK', [Next]_vars
  PROVE  TypeOK'
<1>1. ShopTypeOK /\ now \in Nat
  BY DEF TypeOK, ShopTypeOK, InventoryTypeOK
<1>2. SUFFICES ShopTypeOK'
  BY DEF TypeOK, ShopTypeOK
<1>3. ASSUME NEW g \in Guest, NEW lines \in Lines, NEW q \in Quote, RequestQuote(g, lines, q)
      PROVE  ShopTypeOK'
  BY <1>1, <1>3, ShopTypeQuote DEF RequestQuote, inventoryVars
<1>4. ASSUME NEW g \in Guest, NEW k \in CheckoutKey, NEW q \in Quote, NEW fresh \in Quote,
             CheckoutRequoted(g, k, q, fresh)
      PROVE  ShopTypeOK'
  <2>1. quote[q].lines \in Lines
    BY <1>1 DEF ShopTypeOK, QuoteRecord
  <2> QED
    BY <1>1, <1>4, <2>1, ShopTypeQuote DEF CheckoutRequoted, inventoryVars
<1>5. ASSUME NEW g \in Guest, NEW k \in CheckoutKey, NEW q \in Quote, NEW o \in Order,
             Checkout(g, k, q, o)
      PROVE  ShopTypeOK'
  BY <1>1, <1>5, ShopTypeCheckout
<1>6. ASSUME NEW o \in Order,
             \/ Expire(o) \/ CancelByGuest(o) \/ CancelByStaff(o)
             \/ Prepare(o) \/ Ship(o) \/ Deliver(o)
      PROVE  ShopTypeOK'
  BY <1>1, <1>6, ShopTypeOrder
<1>7. ASSUME NEW o \in Order, PrepareSession(o) \/ SaveSession(o) \/ RequestRefund(o)
      PROVE  ShopTypeOK'
  BY <1>1, <1>7, ShopTypeAttempt
<1>8. ASSUME NEW o \in Order, NEW r \in RefundId, SaveRefund(o, r) PROVE ShopTypeOK'
  BY <1>1, <1>8, ShopTypeSaveRefund
<1>9. ASSUME NEW e \in Event, ApplyEvent(e) PROVE ShopTypeOK'
  BY <1>1, <1>9, ShopTypeEvent
<1>10. ASSUME NEW op \in Operation, SubmitOperation(op) PROVE ShopTypeOK'
  BY <1>1, <1>10 DEF SubmitOperation, ApplyInventoryOperation, shopVars, ShopTypeOK
<1>11. CASE EditTree
  BY <1>1, <1>11 DEF EditTree, ShopTypeOK
<1>12. ASSUME NEW i \in Item, NEW p \in Price \cup {None}, EditListing(i, p) PROVE ShopTypeOK'
  BY <1>1, <1>12 DEF EditListing, inventoryVars, ShopTypeOK
<1>13. CASE PassTime
  BY <1>1, <1>13 DEF PassTime, Tick, shopVars, ShopTypeOK
<1>14. CASE UNCHANGED vars
  BY <1>1, <1>14 DEF vars, inventoryVars, shopVars, ShopTypeOK
<1> QED
  BY <1>3, <1>4, <1>5, <1>6, <1>7, <1>8, <1>9, <1>10, <1>11, <1>12, <1>13, <1>14
     DEF Next, ShopNext, PaymentNext, OfficeNext

(* The empty shop is well-formed.                                          *)
LEMMA ShopTypeInit == Init => TypeOK
<1> SUFFICES ASSUME Init PROVE TypeOK
  OBVIOUS
<1>1. InventoryTypeOK
  BY TypeInvInit DEF Init, TypeInv
<1>2. MaxLine \in Nat /\ Total \in Nat /\ 0 \in 0..MaxLine /\ 0 \in 0..Total
  BY CommerceAssumption
<1>3. NoQuote \in QuoteRecord
  BY <1>2 DEF NoQuote, QuoteRecord, Lines
<1>4. NoOrder \in OrderRecord
  BY <1>2 DEF NoOrder, OrderRecord, Lines, OrderStatus, PaymentStatus
<1>5. NoAttempt \in AttemptRecord
  BY DEF NoAttempt, AttemptRecord, AttemptStatus
<1> QED
  BY <1>1, <1>3, <1>4, <1>5 DEF Init, InventoryInit, TypeOK, FulfillmentStatus
------------------------------------------------------------------------------
(***************************************************************************)
(* What a step may do to an order and to its delivery request.             *)
(***************************************************************************)
Closed == {"CANCELLED", "REFUNDED"}
Bought == {"PAID", "PREPARING", "SHIPPED", "DELIVERED"}
Gone == {"SHIPPED", "DELIVERED"}

(* What an order's record says of itself and of its delivery request.      *)
RecordOK(r, f) ==
  /\ f = "READY" <=> r.status \in {"PAID", "PREPARING"}
  /\ r.status = "SHIPPED" => f = "SHIPPED"
  /\ r.status = "DELIVERED" => f = "DELIVERED"
  /\ f \in Gone => r.paid /\ r.status \in Gone \cup {"REFUNDED"}
  /\ r.status \in Bought => r.paid
  /\ r.paid => r.paymentStatus \notin {"UNPAID", "FAILED"}
  /\ r.refunded = Total =>
       /\ r.status \in Closed
       /\ r.paymentStatus \in {"REFUNDED", "REVIEW", "REFUND_PENDING"}

RecordsOK == \A o \in Order : RecordOK(order[o], fulfillment[o])

(* The terms of an order never change.                                     *)
SameTerms(r, s) ==
  r.guest = s.guest /\ r.key = s.key /\ r.quote = s.quote /\ r.lines = s.lines
    /\ r.expiresAt = s.expiresAt

Moves(o) ==
  /\ RecordOK(order'[o], fulfillment'[o])
  /\ order[o].status # "NONE" => SameTerms(order'[o], order[o])
  /\ order'[o].status \in {"NONE", "PENDING"} /\ order[o].status # "NONE"
       => order'[o].status = order[o].status
  /\ order[o].status \in Closed => order'[o].status \in Closed
  /\ order[o].paid => order'[o].paid
  /\ fulfillment[o] \in Gone => fulfillment'[o] \in Gone
  /\ order'[o].refunded >= order[o].refunded
  /\ order[o].refunded = Total /\ fulfillment'[o] = "SHIPPED" => fulfillment[o] = "SHIPPED"

(* An order that a step leaves alone moves as allowed.                     *)
LEMMA Stays ==
  ASSUME TypeOK, RecordsOK, NEW o \in Order,
         order'[o] = order[o], fulfillment'[o] = fulfillment[o]
  PROVE  Moves(o)
<1>1. order[o].refunded \in Nat
  BY CommerceAssumption DEF TypeOK, OrderRecord
<1> QED
  BY <1>1 DEF RecordsOK, Moves, SameTerms

(* A checkout moves every order as allowed.                                *)
LEMMA CheckoutMoves ==
  ASSUME TypeOK, RecordsOK,
         NEW g \in Guest, NEW k \in CheckoutKey, NEW q \in Quote, NEW p \in Order,
         Checkout(g, k, q, p), NEW o \in Order
  PROVE  Moves(o)
<1>1. CASE o = p
  <2>1. order[o] = NoOrder /\ fulfillment'[o] = fulfillment[o]
    BY <1>1 DEF Checkout
  <2>2. order'[o].status = "PENDING" /\ order'[o].paid = FALSE /\ order'[o].refunded = 0
    BY <1>1 DEF Checkout, TypeOK
  <2>3. RecordOK(order[o], fulfillment[o])
    BY DEF RecordsOK
  <2> QED
    BY <2>1, <2>2, <2>3, CommerceAssumption DEF Moves, RecordOK, NoOrder, Closed, Bought, Gone
<1>2. CASE o # p
  BY <1>2, Stays DEF Checkout, TypeOK
<1> QED
  BY <1>1, <1>2

(* So do expiry, cancellation, preparation and dispatch.                   *)
LEMMA LifeMoves ==
  ASSUME TypeOK, RecordsOK, NEW p \in Order, NEW o \in Order,
         \/ Expire(p) \/ CancelByGuest(p) \/ CancelByStaff(p)
         \/ Prepare(p) \/ Ship(p) \/ Deliver(p)
  PROVE  Moves(o)
<1>1. CASE o = p
  <2>1. /\ order[o] \in OrderRecord /\ fulfillment[o] \in FulfillmentStatus
        /\ RecordOK(order[o], fulfillment[o]) /\ order[o].refunded \in Nat
    BY CommerceAssumption DEF TypeOK, RecordsOK, OrderRecord
  <2>2. CASE Expire(o) \/ CancelByGuest(o)
    <3>1. /\ order'[o].status = "CANCELLED" /\ order[o].status = "PENDING"
          /\ order'[o].paymentStatus = order[o].paymentStatus
          /\ order'[o].paid = order[o].paid /\ order'[o].refunded = order[o].refunded
          /\ SameTerms(order'[o], order[o]) /\ fulfillment'[o] = fulfillment[o]
      BY <2>1, <2>2 DEF Expire, CancelByGuest, Overdue, TypeOK, OrderRecord, SameTerms
    <3> QED
      BY <2>1, <3>1 DEF Moves, RecordOK, Closed, Bought, Gone
  <2>3. CASE CancelByStaff(o)
    BY <2>1, <2>3 DEF CancelByStaff, TypeOK, OrderRecord, Moves, RecordOK,
       SameTerms, Closed, Bought, Gone
  <2>4. CASE Prepare(o)
    BY <2>1, <2>4 DEF Prepare, TypeOK, OrderRecord, Moves, RecordOK, SameTerms, Closed, Bought, Gone
  <2>5. CASE Ship(o)
    BY <2>1, <2>5 DEF Ship, TypeOK, OrderRecord, Moves, RecordOK, SameTerms, Closed, Bought, Gone
  <2>6. CASE Deliver(o)
    BY <2>1, <2>6 DEF Deliver, TypeOK, OrderRecord, Moves, RecordOK, SameTerms, Closed, Bought, Gone
  <2> QED
    BY <1>1, <2>2, <2>3, <2>4, <2>5, <2>6
<1>2. CASE o # p
  <2>1. order'[o] = order[o] /\ fulfillment'[o] = fulfillment[o]
    BY <1>2 DEF Expire, CancelByGuest, CancelByStaff, Prepare, Ship, Deliver, TypeOK
  <2> QED
    BY <2>1, Stays
<1> QED
  BY <1>1, <1>2

(* So does the request of a refund.                                        *)
LEMMA RefundMoves ==
  ASSUME TypeOK, RecordsOK, NEW p \in Order, NEW o \in Order, RequestRefund(p)
  PROVE  Moves(o)
<1>1. CASE o = p
  <2>1. /\ order[o] \in OrderRecord /\ fulfillment[o] \in FulfillmentStatus
        /\ RecordOK(order[o], fulfillment[o]) /\ order[o].refunded = 0
    BY <1>1 DEF RequestRefund, TypeOK, RecordsOK
  <2>2. /\ order'[o].status = Withdrawn(order[o].status)
        /\ order'[o].paymentStatus = "REFUND_PENDING"
        /\ order'[o].paid = order[o].paid /\ order'[o].refunded = order[o].refunded
        /\ SameTerms(order'[o], order[o])
    BY <1>1, <2>1 DEF RequestRefund, TypeOK, OrderRecord, SameTerms
  <2>3. fulfillment'[o] = IF fulfillment[o] = "READY" THEN "CANCELLED" ELSE fulfillment[o]
    BY <1>1 DEF RequestRefund, TypeOK, WithdrawReady
  <2> QED
    BY <2>1, <2>2, <2>3, CommerceAssumption
       DEF Moves, RecordOK, Withdrawn, Closed, Bought, Gone, OrderRecord, OrderStatus
<1>2. CASE o # p
  <2>1. order'[o] = order[o] /\ fulfillment'[o] = fulfillment[o]
    BY <1>2 DEF RequestRefund, TypeOK, WithdrawReady
  <2> QED
    BY <2>1, Stays
<1> QED
  BY <1>1, <1>2

(* So does every event of the provider.                                    *)
LEMMA EventMoves ==
  ASSUME TypeOK, RecordsOK, NEW e \in Event, ApplyEvent(e), NEW o \in Order
  PROVE  Moves(o)
<1>1. CASE o = e.order
  <2>1. /\ order[o] \in OrderRecord /\ fulfillment[o] \in FulfillmentStatus
        /\ RecordOK(order[o], fulfillment[o]) /\ order[o].refunded \in 0..Total
        /\ e.amount \in Nat /\ Total \in Nat /\ Total > 0
    BY CommerceAssumption DEF TypeOK, RecordsOK, Event, OrderRecord
  <2>2. CASE EventContradicts(e)
    <3>1. /\ RefundedAfter(e) >= order[o].refunded
          /\ RefundedAfter(e) = Total => order[o].refunded = Total
      BY <1>1, <2>1 DEF RefundedAfter
    <3>2. fulfillment'[o] = fulfillment[o]
      BY <2>2 DEF EventContradicts
    <3>3. CASE order'[o] = order[o]
      BY <3>2, <3>3, Stays
    <3>4. CASE order' = [order EXCEPT ![o].paymentStatus = "REVIEW",
                                      ![o].refunded = RefundedAfter(e)]
      <4>1. /\ order'[o].status = order[o].status /\ order'[o].paymentStatus = "REVIEW"
            /\ order'[o].paid = order[o].paid /\ order'[o].refunded = RefundedAfter(e)
            /\ SameTerms(order'[o], order[o])
        BY <2>1, <3>4 DEF TypeOK, OrderRecord, SameTerms
      <4> QED
        BY <2>1, <3>1, <3>2, <4>1 DEF Moves, RecordOK, Closed, Bought, Gone
    <3> QED
      BY <1>1, <2>2, <3>3, <3>4 DEF EventContradicts
  <2>3. CASE EventRefunded(e)
    <3>1. /\ order'[o].status = "REFUNDED" /\ order'[o].paymentStatus = "REFUNDED"
          /\ order'[o].paid = order[o].paid /\ order'[o].refunded = Total
          /\ SameTerms(order'[o], order[o])
      BY <1>1, <2>1, <2>3 DEF EventRefunded, Contradicts, TypeOK, OrderRecord, SameTerms
    <3>2. fulfillment'[o] = IF fulfillment[o] = "READY" THEN "CANCELLED" ELSE fulfillment[o]
      BY <1>1, <2>3 DEF EventRefunded, TypeOK, WithdrawReady
    <3> QED
      BY <2>1, <3>1, <3>2 DEF Moves, RecordOK, Closed, Bought, Gone
  <2>4. CASE EventRefundFailed(e)
    <3>1. /\ order'[o].status = order[o].status /\ order'[o].paymentStatus = "REVIEW"
          /\ order'[o].paid = order[o].paid /\ order'[o].refunded = order[o].refunded
          /\ SameTerms(order'[o], order[o]) /\ fulfillment'[o] = fulfillment[o]
      BY <1>1, <2>1, <2>4 DEF EventRefundFailed, TypeOK, OrderRecord, SameTerms
    <3> QED
      BY <2>1, <3>1 DEF Moves, RecordOK, Closed, Bought, Gone
  <2>5. CASE EventFailed(e)
    <3>1. /\ order'[o].status = "CANCELLED" /\ order'[o].paymentStatus = "FAILED"
          /\ order'[o].paid = order[o].paid /\ order'[o].refunded = order[o].refunded
          /\ SameTerms(order'[o], order[o]) /\ fulfillment'[o] = fulfillment[o]
      BY <1>1, <2>1, <2>5 DEF EventFailed, TypeOK, OrderRecord, SameTerms
    <3>2. order[o].paymentStatus = "UNPAID"
      BY <1>1, <2>5 DEF EventFailed
    <3> QED
      BY <2>1, <3>1, <3>2 DEF Moves, RecordOK, Closed, Bought, Gone
  <2>6. CASE EventIgnored(e)
    BY <2>6, Stays DEF EventIgnored
  <2>7. CASE EventPaid(e)
    <3>1. /\ order'[o].status = "PAID" /\ order'[o].paymentStatus = "PAID"
          /\ order'[o].paid = TRUE /\ order'[o].refunded = order[o].refunded
          /\ SameTerms(order'[o], order[o]) /\ fulfillment'[o] = "READY"
      BY <1>1, <2>1, <2>7 DEF EventPaid, TypeOK, OrderRecord, SameTerms
    <3>2. order[o].status = "PENDING"
      BY <1>1, <2>7 DEF EventPaid, Confirmable
    <3> QED
      BY <2>1, <3>1, <3>2 DEF Moves, RecordOK, Closed, Bought, Gone
  <2>8. CASE EventPaidLate(e)
    <3>1. /\ order'[o].status = "CANCELLED" /\ order'[o].paymentStatus = "REVIEW"
          /\ order'[o].paid = order[o].paid /\ order'[o].refunded = order[o].refunded
          /\ SameTerms(order'[o], order[o]) /\ fulfillment'[o] = fulfillment[o]
      BY <1>1, <2>1, <2>8 DEF EventPaidLate, TypeOK, OrderRecord, SameTerms
    <3>2. ~order[o].paid
      BY <1>1, <2>8 DEF EventPaidLate, PaymentKnown
    <3> QED
      BY <2>1, <3>1, <3>2 DEF Moves, RecordOK, Closed, Bought, Gone
  <2> QED
    BY <2>2, <2>3, <2>4, <2>5, <2>6, <2>7, <2>8 DEF ApplyEvent, EventEffect
<1>2. CASE o # e.order
  <2>1. order'[o] = order[o] /\ fulfillment'[o] = fulfillment[o]
    BY <1>2 DEF ApplyEvent, EventEffect, EventContradicts, EventRefunded, EventRefundFailed,
       EventFailed, EventIgnored, EventPaid, EventPaidLate, WithdrawReady, TypeOK
  <2> QED
    BY <2>1, Stays
<1> QED
  BY <1>1, <1>2
------------------------------------------------------------------------------
(***************************************************************************)
(* Every step moves every order as allowed, and the safety properties that *)
(* follow from that and from the contract of module Inventory.             *)
(***************************************************************************)
(* Every step moves every order as allowed.                                *)
LEMMA StepMoves ==
  ASSUME TypeOK, RecordsOK, [Next]_vars, NEW o \in Order
  PROVE  Moves(o)
<1>1. ASSUME NEW g \in Guest, NEW k \in CheckoutKey, NEW q \in Quote, NEW p \in Order,
             Checkout(g, k, q, p)
      PROVE  Moves(o)
  BY <1>1, CheckoutMoves
<1>2. ASSUME NEW p \in Order,
             \/ Expire(p) \/ CancelByGuest(p) \/ CancelByStaff(p)
             \/ Prepare(p) \/ Ship(p) \/ Deliver(p)
      PROVE  Moves(o)
  BY <1>2, LifeMoves
<1>3. ASSUME NEW p \in Order, RequestRefund(p) PROVE Moves(o)
  BY <1>3, RefundMoves
<1>4. ASSUME NEW e \in Event, ApplyEvent(e) PROVE Moves(o)
  BY <1>4, EventMoves
<1>5. CASE order' = order /\ fulfillment' = fulfillment
  BY <1>5, Stays
<1>6. ASSUME NEW g \in Guest, NEW lines \in Lines, NEW q \in Quote, RequestQuote(g, lines, q)
      PROVE  order' = order /\ fulfillment' = fulfillment
  BY <1>6 DEF RequestQuote
<1>7. ASSUME NEW g \in Guest, NEW k \in CheckoutKey, NEW q \in Quote, NEW fresh \in Quote,
             CheckoutRequoted(g, k, q, fresh)
      PROVE  order' = order /\ fulfillment' = fulfillment
  BY <1>7 DEF CheckoutRequoted
<1>8. ASSUME NEW p \in Order, PrepareSession(p) \/ SaveSession(p)
      PROVE  order' = order /\ fulfillment' = fulfillment
  BY <1>8 DEF PrepareSession, SaveSession
<1>9. ASSUME NEW p \in Order, NEW r \in RefundId, SaveRefund(p, r)
      PROVE  order' = order /\ fulfillment' = fulfillment
  BY <1>9 DEF SaveRefund
<1>10. OfficeNext => order' = order /\ fulfillment' = fulfillment
  BY DEF OfficeNext, SubmitOperation, EditTree, EditListing, PassTime, shopVars
<1>11. UNCHANGED vars => order' = order /\ fulfillment' = fulfillment
  BY DEF vars, shopVars
<1> QED
  BY <1>1, <1>2, <1>3, <1>4, <1>5, <1>6, <1>7, <1>8, <1>9, <1>10, <1>11
     DEF Next, ShopNext, PaymentNext

(* Orders and delivery requests keep agreeing.                             *)
LEMMA RecordsStep ==
  ASSUME TypeOK, RecordsOK, [Next]_vars
  PROVE  RecordsOK'
  BY StepMoves DEF RecordsOK, Moves

(* They agree in the empty shop.                                           *)
LEMMA RecordsInit ==
  ASSUME Init
  PROVE  RecordsOK
  BY CommerceAssumption DEF Init, RecordsOK, RecordOK, NoOrder, Closed, Bought, Gone
------------------------------------------------------------------------------
(***************************************************************************)
(* Orders come from checkouts.                                             *)
(***************************************************************************)

(* A payment is attempted only for an order that exists.                   *)
AttemptsFollow == \A o \in Order : attempt[o].status # "NONE" => order[o].status # "NONE"

(* Only a checkout makes an order.                                         *)
LEMMA StepBirth ==
  ASSUME TypeOK, AttemptsFollow, [Next]_vars,
         NEW o \in Order, order[o].status = "NONE", order'[o].status # "NONE"
  PROVE  \E g \in Guest, k \in CheckoutKey, q \in Quote : Checkout(g, k, q, o)
<1>1. order'[o] # order[o]
  OBVIOUS
<1>2. ASSUME NEW g \in Guest, NEW k \in CheckoutKey, NEW q \in Quote, NEW p \in Order,
             Checkout(g, k, q, p)
      PROVE  Checkout(g, k, q, o)
  <2>1. CASE p # o
    BY <1>1, <1>2, <2>1 DEF Checkout, TypeOK
  <2> QED
    BY <1>2, <2>1
<1>3. ASSUME NEW p \in Order,
             \/ Expire(p) \/ CancelByGuest(p) \/ CancelByStaff(p)
             \/ Prepare(p) \/ Ship(p) \/ Deliver(p)
      PROVE  FALSE
  <2>1. CASE p # o
    BY <1>1, <1>3, <2>1
       DEF Expire, CancelByGuest, CancelByStaff, Prepare, Ship, Deliver, TypeOK
  <2>2. CASE p = o
    BY <1>3, <2>2
       DEF Expire, Overdue, CancelByGuest, CancelByStaff, Prepare, Ship, Deliver, TypeOK
  <2> QED
    BY <2>1, <2>2
<1>4. ASSUME NEW p \in Order, RequestRefund(p) PROVE FALSE
  <2>1. CASE p # o
    BY <1>1, <1>4, <2>1 DEF RequestRefund, TypeOK
  <2>2. CASE p = o
    <3>1. order'[o].status = Withdrawn(order[o].status)
      BY <1>4, <2>2 DEF RequestRefund, TypeOK, OrderRecord
    <3> QED
      BY <3>1 DEF Withdrawn
  <2> QED
    BY <2>1, <2>2
<1>5. ASSUME NEW e \in Event, ApplyEvent(e) PROVE FALSE
  <2>1. e.order # o
    BY <1>5 DEF ApplyEvent, AttemptsFollow
  <2> QED
    BY <1>1, <1>5, <2>1
       DEF ApplyEvent, EventEffect, EventContradicts, EventRefunded, EventRefundFailed,
           EventFailed, EventIgnored, EventPaid, EventPaidLate, TypeOK
<1>6. ASSUME NEW g \in Guest, NEW lines \in Lines, NEW q \in Quote, RequestQuote(g, lines, q)
      PROVE  FALSE
  BY <1>1, <1>6 DEF RequestQuote
<1>7. ASSUME NEW g \in Guest, NEW k \in CheckoutKey, NEW q \in Quote, NEW fresh \in Quote,
             CheckoutRequoted(g, k, q, fresh)
      PROVE  FALSE
  BY <1>1, <1>7 DEF CheckoutRequoted
<1>8. ASSUME NEW p \in Order, PrepareSession(p) \/ SaveSession(p) PROVE FALSE
  BY <1>1, <1>8 DEF PrepareSession, SaveSession
<1>9. ASSUME NEW p \in Order, NEW r \in RefundId, SaveRefund(p, r) PROVE FALSE
  BY <1>1, <1>9 DEF SaveRefund
<1>10. ~OfficeNext /\ ~UNCHANGED vars
  BY <1>1 DEF OfficeNext, SubmitOperation, EditTree, EditListing, PassTime, shopVars, vars
<1> QED
  BY <1>2, <1>3, <1>4, <1>5, <1>6, <1>7, <1>8, <1>9, <1>10 DEF Next, ShopNext, PaymentNext

(* No step attempts a payment for an order that does not exist.            *)
LEMMA AttemptsStep ==
  ASSUME TypeOK, RecordsOK, AttemptsFollow, [Next]_vars
  PROVE  AttemptsFollow'
<1> SUFFICES ASSUME NEW o \in Order, attempt'[o].status # "NONE"
             PROVE  order'[o].status # "NONE"
  BY DEF AttemptsFollow
<1>1. SUFFICES order[o].status # "NONE"
  BY StepMoves DEF Moves
<1>2. SUFFICES ASSUME attempt[o].status = "NONE"
               PROVE  order[o].status # "NONE"
  BY DEF AttemptsFollow
<1>3. attempt'[o] # attempt[o]
  BY <1>2
<1>4. ASSUME NEW p \in Order, PrepareSession(p) PROVE order[o].status # "NONE"
  <2>1. p = o
    BY <1>3, <1>4 DEF PrepareSession, TypeOK
  <2> QED
    BY <1>4, <2>1 DEF PrepareSession
<1>5. ASSUME NEW p \in Order, SaveSession(p) PROVE FALSE
  <2>1. CASE p # o
    BY <1>3, <1>5, <2>1 DEF SaveSession, TypeOK
  <2>2. CASE p = o
    BY <1>2, <1>5, <2>2 DEF SaveSession
  <2> QED
    BY <2>1, <2>2
<1>6. ASSUME NEW p \in Order, RequestRefund(p) PROVE FALSE
  <2>1. attempt'[o].status = attempt[o].status
    BY <1>6 DEF RequestRefund, TypeOK, AttemptRecord
  <2> QED
    BY <1>2, <2>1
<1>7. ASSUME NEW p \in Order, NEW r \in RefundId, SaveRefund(p, r) PROVE FALSE
  <2>1. attempt'[o].status = attempt[o].status
    BY <1>7 DEF SaveRefund, TypeOK, AttemptRecord
  <2> QED
    BY <1>2, <2>1
<1>8. ASSUME NEW e \in Event, ApplyEvent(e) PROVE FALSE
  <2>1. e.order # o
    BY <1>2, <1>8 DEF ApplyEvent
  <2> QED
    BY <1>3, <1>8, <2>1
       DEF ApplyEvent, EventEffect, EventContradicts, EventRefunded, EventRefundFailed,
           EventFailed, EventIgnored, EventPaid, EventPaidLate, AttemptAfter, TypeOK
<1>9. ~ShopNext
  BY <1>3 DEF ShopNext, RequestQuote, CheckoutRequoted, Checkout, Expire, CancelByGuest,
     CancelByStaff, Prepare, Ship, Deliver
<1>10. ~OfficeNext /\ ~UNCHANGED vars
  BY <1>3 DEF OfficeNext, SubmitOperation, EditTree, EditListing, PassTime, shopVars, vars
<1> QED
  BY <1>4, <1>5, <1>6, <1>7, <1>8, <1>9, <1>10 DEF Next, PaymentNext

(* Nothing is attempted in the empty shop.                                 *)
LEMMA AttemptsInit ==
  ASSUME Init
  PROVE  AttemptsFollow
  BY DEF Init, AttemptsFollow, NoAttempt

(* A checkout joins the orders only when no order has its key or quote.    *)
LEMMA SubmissionsStep ==
  ASSUME TypeOK, RecordsOK, AttemptsFollow, OneOrderPerSubmission, [Next]_vars
  PROVE  OneOrderPerSubmission'
<1> SUFFICES ASSUME NEW o \in Order, NEW p \in Order, o # p,
                    order'[o].status # "NONE", order'[p].status # "NONE"
             PROVE  order'[o].key # order'[p].key /\ order'[o].quote # order'[p].quote
  BY DEF OneOrderPerSubmission
<1>1. ASSUME NEW n \in Order, NEW old \in Order, n # old,
             order[n].status = "NONE", order'[n].status # "NONE", order'[old].status # "NONE"
      PROVE  order'[n].key # order'[old].key /\ order'[n].quote # order'[old].quote
  <2>1. PICK g \in Guest, k \in CheckoutKey, q \in Quote : Checkout(g, k, q, n)
    BY <1>1, StepBirth
  <2>2. order'[n].key = <<g, k>> /\ order'[n].quote = q /\ order'[old] = order[old]
    BY <1>1, <2>1 DEF Checkout, TypeOK
  <2> QED
    BY <1>1, <2>1, <2>2 DEF Checkout, CheckoutAllowed, Submitted
<1>2. CASE order[o].status = "NONE"
  BY <1>1, <1>2
<1>3. CASE order[p].status = "NONE"
  BY <1>1, <1>3
<1>4. CASE order[o].status # "NONE" /\ order[p].status # "NONE"
  <2>1. SameTerms(order'[o], order[o]) /\ SameTerms(order'[p], order[p])
    BY <1>4, StepMoves DEF Moves
  <2> QED
    BY <1>4, <2>1 DEF OneOrderPerSubmission, SameTerms
<1> QED
  BY <1>2, <1>3, <1>4

(* The empty shop has no order twice.                                      *)
LEMMA SubmissionsInit ==
  ASSUME Init
  PROVE  OneOrderPerSubmission
  BY DEF Init, OneOrderPerSubmission, NoOrder

(* The clock never goes back.                                              *)
LEMMA TimePasses ==
  ASSUME TypeOK, [Next]_vars
  PROVE  now' \in Nat /\ now' >= now /\ now \in Nat
<1>1. now \in Nat
  BY SMTT(30) DEF TypeOK, InventoryTypeOK
<1>2. now' = now \/ now' = now + 1
  BY DEF Next, ShopNext, PaymentNext, OfficeNext, RequestQuote, CheckoutRequoted, Checkout,
     Expire, CancelByGuest, CancelByStaff, Prepare, Ship, Consume, Deliver, PrepareSession,
     SaveSession, RequestRefund, SaveRefund, ApplyEvent, SubmitOperation,
     ApplyInventoryOperation, EditTree, EditLocations, EditListing, PassTime, Tick,
     inventoryVars, vars
<1> QED
  BY <1>1, <1>2

(* An order that is open after a step was open before it, or was made by a *)
(* checkout of its guest with room left under the limit.                   *)
LEMMA OpenOrdersStep ==
  ASSUME TypeOK, RecordsOK, AttemptsFollow, OpenOrdersBounded, [Next]_vars
  PROVE  OpenOrdersBounded'
<1> SUFFICES ASSUME NEW g \in Guest
             PROVE  Cardinality(OpenOrders(g)') <= PendingLimit
  BY DEF OpenOrdersBounded
<1>1. ASSUME NEW S \in SUBSET Order
      PROVE  IsFiniteSet(S) /\ Cardinality(S) \in Nat
  BY InventoryAssumption, FS_Subset, FS_CardinalityType DEF Order
<1>2. OpenOrders(g) \in SUBSET Order /\ OpenOrders(g)' \in SUBSET Order
  BY DEF OpenOrders
<1>3. ASSUME NEW o \in OpenOrders(g)', order[o].status # "NONE"
      PROVE  o \in OpenOrders(g)
  <2>1. /\ o \in Order /\ order'[o].guest = g /\ order'[o].status = "PENDING"
        /\ order'[o].expiresAt > now'
    BY DEF OpenOrders
  <2>2. SameTerms(order'[o], order[o]) /\ order[o].status = "PENDING"
    BY <1>3, <2>1, StepMoves DEF Moves
  <2>3. order[o].expiresAt \in Nat
    BY <2>1 DEF TypeOK, OrderRecord
  <2> QED
    BY <2>1, <2>2, <2>3, TimePasses DEF OpenOrders, SameTerms
<1>4. CASE \E o \in OpenOrders(g)' : order[o].status = "NONE"
  <2>1. PICK o \in OpenOrders(g)' : order[o].status = "NONE"
    BY <1>4
  <2>2. o \in Order /\ order'[o].guest = g /\ order'[o].status = "PENDING"
    BY DEF OpenOrders
  <2>3. PICK h \in Guest, k \in CheckoutKey, q \in Quote : Checkout(h, k, q, o)
    BY <2>1, <2>2, StepBirth
  <2>4. order'[o].guest = h /\ \A p \in Order : p # o => order'[p] = order[p]
    BY <2>2, <2>3 DEF Checkout, TypeOK
  <2>5. Cardinality(OpenOrders(g)) < PendingLimit
    BY <2>2, <2>3, <2>4 DEF Checkout, CheckoutAllowed
  <2>6. OpenOrders(g)' \subseteq OpenOrders(g) \cup {o}
    <3> SUFFICES ASSUME NEW p \in OpenOrders(g)', p # o PROVE p \in OpenOrders(g)
      OBVIOUS
    <3>1. p \in Order /\ order'[p].status = "PENDING" /\ order'[p] = order[p]
      BY <2>4 DEF OpenOrders
    <3> QED
      BY <1>3, <3>1
  <2>7. /\ IsFiniteSet(OpenOrders(g) \cup {o})
        /\ Cardinality(OpenOrders(g) \cup {o}) <= Cardinality(OpenOrders(g)) + 1
    BY <1>1, <1>2, FS_AddElement
  <2>8. Cardinality(OpenOrders(g)') <= Cardinality(OpenOrders(g) \cup {o})
    BY <2>6, <2>7, FS_Subset
  <2>9. Cardinality(OpenOrders(g) \cup {o}) \in Nat
    BY <2>7, FS_CardinalityType
  <2> QED
    BY <1>1, <1>2, <2>5, <2>7, <2>8, <2>9, CommerceAssumption
<1>5. CASE \A o \in OpenOrders(g)' : order[o].status # "NONE"
  <2>1. OpenOrders(g)' \subseteq OpenOrders(g)
    BY <1>3, <1>5
  <2>2. Cardinality(OpenOrders(g)') <= Cardinality(OpenOrders(g))
    BY <1>1, <1>2, <2>1, FS_Subset
  <2>3. Cardinality(OpenOrders(g)) <= PendingLimit
    BY DEF OpenOrdersBounded
  <2> QED
    BY <1>1, <1>2, <2>2, <2>3, CommerceAssumption
<1> QED
  BY <1>4, <1>5

(* The empty shop has no open order.                                       *)
LEMMA OpenOrdersInit ==
  ASSUME Init
  PROVE  OpenOrdersBounded
<1> SUFFICES ASSUME NEW g \in Guest PROVE Cardinality(OpenOrders(g)) <= PendingLimit
  BY DEF OpenOrdersBounded
<1>1. OpenOrders(g) = {}
  BY DEF OpenOrders, Init, NoOrder
<1> QED
  BY <1>1, FS_EmptySet, CommerceAssumption
------------------------------------------------------------------------------
(***************************************************************************)
(* The rows of an order follow the order.                                  *)
(***************************************************************************)

(* The states a row may be in for each state of its order; a hold lapses   *)
(* with its order.                                                         *)
RowOK(w, r) ==
  /\ r.status = "NONE" => w.status = "NONE"
  /\ r.status = "PENDING" => w.status \in {"NONE", "HELD"}
  /\ r.status \in {"PAID", "PREPARING"} => w.status \in {"NONE", "CONFIRMED"}
  /\ r.status \in Gone => w.status \in {"NONE", "CONSUMED"}
  /\ r.status \in Closed => w.status \in {"NONE", "RELEASED", "CONSUMED"}
  /\ w.status = "HELD" => w.expiresAt = r.expiresAt

RowsFollow == \A a \in Allocation : RowOK(reservation[a], order[a[1]])

(* What leaves has been paid for, and the delivery request knows.          *)
SoldRowOK(w, r, f) == w.status = "CONSUMED" => r.paid /\ f \in Gone

SoldRows == \A a \in Allocation : SoldRowOK(reservation[a], order[a[1]], fulfillment[a[1]])

RowsInv == TypeOK /\ RecordsOK /\ AttemptsFollow /\ RowsFollow /\ SoldRows

RowMoves(a) ==
  /\ RowOK(reservation'[a], order'[a[1]])
  /\ SoldRowOK(reservation'[a], order'[a[1]], fulfillment'[a[1]])

(* Neither the row nor its order's place in life changes.                  *)
LEMMA RowStays ==
  ASSUME RowsInv, [Next]_vars, NEW a \in Allocation, reservation'[a] = reservation[a],
         \/ order'[a[1]].status = order[a[1]].status
         \/ {order[a[1]].status, order'[a[1]].status} \subseteq {"PAID", "PREPARING"}
         \/ {order[a[1]].status, order'[a[1]].status} \subseteq Gone
  PROVE  RowMoves(a)
<1>1. a[1] \in Order
  BY DEF Allocation, Order
<1>2. /\ RowOK(reservation[a], order[a[1]])
      /\ SoldRowOK(reservation[a], order[a[1]], fulfillment[a[1]])
  BY DEF RowsInv, RowsFollow, SoldRows
<1>3. Moves(a[1])
  BY <1>1, StepMoves DEF RowsInv
<1> QED
  BY <1>2, <1>3 DEF RowMoves, RowOK, SoldRowOK, Moves, SameTerms, Closed, Gone

(* The order is closed and gives up its rows.                              *)
LEMMA RowGivenUp ==
  ASSUME RowsInv, [Next]_vars, NEW o \in Order, reservation' = Released(o),
         \/ order'[o].status \in Closed
         \/ /\ order'[o].status = order[o].status
            /\ order[o].status \notin {"PENDING", "PAID", "PREPARING"},
         \A p \in Order : p # o => order'[p] = order[p],
         NEW a \in Allocation
  PROVE  RowMoves(a)
<1>1. a[1] \in Order /\ reservation[a] \in Reservation
  BY DEF Allocation, Order, RowsInv, TypeOK, InventoryTypeOK
<1>2. /\ RowOK(reservation[a], order[a[1]])
      /\ SoldRowOK(reservation[a], order[a[1]], fulfillment[a[1]])
  BY DEF RowsInv, RowsFollow, SoldRows
<1>3. Moves(a[1])
  BY <1>1, StepMoves DEF RowsInv
<1>4. reservation'[a] = Released(o)[a]
  OBVIOUS
<1>5. CASE a[1] # o \/ reservation[a].status \notin {"HELD", "CONFIRMED"}
  <2>1. reservation'[a] = reservation[a]
    BY <1>4, <1>5 DEF Released
  <2>2. CASE order'[a[1]].status = order[a[1]].status
    BY <2>1, <2>2, RowStays
  <2>3. CASE a[1] = o /\ order'[a[1]].status \in Closed
    BY <1>1, <1>2, <1>3, <1>5, <2>1, <2>3
       DEF RowMoves, RowOK, SoldRowOK, Moves, Closed, Gone, Reservation, ReservationStatus
  <2> QED
    BY <1>1, <2>2, <2>3
<1>6. CASE a[1] = o /\ reservation[a].status \in {"HELD", "CONFIRMED"}
  <2>1. reservation'[a].status = "RELEASED"
    BY <1>1, <1>4, <1>6 DEF Released, Reservation
  <2>2. order[a[1]].status \in OrderStatus
    BY <1>1 DEF RowsInv, TypeOK, OrderRecord
  <2>3. order'[o].status \in Closed
    BY <1>1, <1>2, <1>6, <2>2 DEF RowOK, OrderStatus, Closed, Gone
  <2> QED
    BY <1>6, <2>1, <2>3 DEF RowMoves, RowOK, SoldRowOK, Closed, Gone
<1> QED
  BY <1>5, <1>6

(* The rows of a checkout are holds of a pending order.                    *)
LEMMA RowsCheckout ==
  ASSUME RowsInv, [Next]_vars,
         NEW g \in Guest, NEW k \in CheckoutKey, NEW q \in Quote, NEW o \in Order,
         Checkout(g, k, q, o), NEW a \in Allocation
  PROVE  RowMoves(a)
<1>1. a[1] \in Order /\ reservation[a] \in Reservation
  BY DEF Allocation, Order, RowsInv, TypeOK, InventoryTypeOK
<1>2. CASE a[1] # o
  BY <1>1, <1>2, RowStays DEF Checkout, RowsInv, TypeOK
<1>3. CASE a[1] = o
  <2>1. order[o].status = "NONE"
    BY DEF Checkout, NoOrder
  <2>2. reservation[a].status = "NONE"
    BY <1>3, <2>1 DEF RowsInv, RowsFollow, RowOK
  <2>3. /\ order'[o].status = "PENDING" /\ order'[o].expiresAt = now + HoldTime
    BY DEF Checkout, RowsInv, TypeOK
  <2>4. \/ reservation'[a].status = "HELD" /\ reservation'[a].expiresAt = now + HoldTime
        \/ reservation'[a].status = "NONE"
    BY <2>2 DEF Checkout
  <2> QED
    BY <1>3, <2>3, <2>4 DEF RowMoves, RowOK, SoldRowOK, Closed, Gone
<1> QED
  BY <1>2, <1>3

(* Expiry, cancellation and refund requests give the rows up.              *)
LEMMA RowsLife ==
  ASSUME RowsInv, [Next]_vars, NEW o \in Order, NEW a \in Allocation,
         \/ Expire(o) \/ CancelByGuest(o) \/ CancelByStaff(o) \/ Prepare(o) \/ Deliver(o)
         \/ RequestRefund(o)
  PROVE  RowMoves(a)
<1>1. a[1] \in Order
  BY DEF Allocation, Order
<1>2. order \in [Order -> OrderRecord]
  BY DEF RowsInv, TypeOK
<1>3. CASE Expire(o) \/ CancelByGuest(o) \/ CancelByStaff(o)
  <2>1. /\ order'[o].status = "CANCELLED" /\ reservation' = Released(o)
        /\ \A p \in Order : p # o => order'[p] = order[p]
    BY <1>2, <1>3 DEF Expire, CancelByGuest, CancelByStaff, OrderRecord
  <2> QED
    BY <2>1, RowGivenUp DEF Closed
<1>4. CASE Prepare(o)
  <2>1. /\ order[o].status = "PAID" /\ order'[o].status = "PREPARING"
        /\ reservation' = reservation /\ \A p \in Order : p # o => order'[p] = order[p]
    BY <1>2, <1>4 DEF Prepare, OrderRecord, inventoryVars
  <2> QED
    BY <1>1, <2>1, RowStays
<1>5. CASE Deliver(o)
  <2>1. /\ order[o].status = "SHIPPED" /\ order'[o].status = "DELIVERED"
        /\ reservation' = reservation /\ \A p \in Order : p # o => order'[p] = order[p]
    BY <1>2, <1>5 DEF Deliver, OrderRecord, inventoryVars
  <2> QED
    BY <1>1, <2>1, RowStays DEF Gone
<1>6. CASE RequestRefund(o)
  <2>1. /\ order'[o].status = Withdrawn(order[o].status) /\ reservation' = Released(o)
        /\ \A p \in Order : p # o => order'[p] = order[p]
    BY <1>2, <1>6 DEF RequestRefund, OrderRecord
  <2> QED
    BY <2>1, RowGivenUp DEF Withdrawn, Closed
<1> QED
  BY <1>3, <1>4, <1>5, <1>6

(* Dispatch consumes the rows of a paid order.                             *)
LEMMA RowsShip ==
  ASSUME RowsInv, [Next]_vars, NEW o \in Order, NEW a \in Allocation, Ship(o)
  PROVE  RowMoves(a)
<1>1. a[1] \in Order /\ reservation[a] \in Reservation /\ order \in [Order -> OrderRecord]
  BY DEF Allocation, Order, RowsInv, TypeOK, InventoryTypeOK
<1>2. /\ order'[o].status = "SHIPPED" /\ order'[o].paid = order[o].paid
      /\ order[o].status \in {"PAID", "PREPARING"} /\ fulfillment'[o] = "SHIPPED"
      /\ \A p \in Order : p # o => order'[p] = order[p]
  BY <1>1 DEF Ship, OrderRecord, RowsInv, TypeOK
<1>3. reservation'[a] = IF a \in Outgoing(o) THEN [reservation[a] EXCEPT !.status = "CONSUMED"]
                        ELSE reservation[a]
  BY DEF Ship, Consume
<1>4. CASE a[1] # o
  BY <1>1, <1>2, <1>3, <1>4, RowStays DEF Outgoing
<1>5. CASE a[1] = o
  <2>1. reservation[a].status \in {"NONE", "CONFIRMED"}
    BY <1>2, <1>5 DEF RowsInv, RowsFollow, RowOK
  <2>2. reservation'[a].status \in {"NONE", "CONSUMED"}
    BY <1>1, <1>3, <1>5, <2>1 DEF Outgoing, Reservation
  <2>3. order[o].paid
    BY <1>2 DEF RowsInv, RecordsOK, RecordOK, Bought
  <2> QED
    BY <1>2, <1>5, <2>2, <2>3 DEF RowMoves, RowOK, SoldRowOK, Closed, Gone
<1> QED
  BY <1>4, <1>5

(* Events give up, confirm or leave alone the rows of their order.         *)
LEMMA RowsEvent ==
  ASSUME RowsInv, [Next]_vars, NEW e \in Event, ApplyEvent(e), NEW a \in Allocation
  PROVE  RowMoves(a)
<1> DEFINE o == e.order
<1>1. /\ a[1] \in Order /\ reservation[a] \in Reservation /\ order \in [Order -> OrderRecord]
      /\ o \in Order
  BY DEF Allocation, Order, RowsInv, TypeOK, InventoryTypeOK, Event
<1>2. \A p \in Order : p # o => order'[p] = order[p]
  BY <1>1 DEF ApplyEvent, EventEffect, EventContradicts, EventRefunded, EventRefundFailed,
     EventFailed, EventIgnored, EventPaid, EventPaidLate
<1>3. CASE EventContradicts(e) \/ EventRefundFailed(e) \/ EventIgnored(e)
  <2>1. reservation' = reservation
    BY <1>3 DEF EventContradicts, EventRefundFailed, EventIgnored
  <2>2. order'[o].status = order[o].status
    BY <1>1, <1>3 DEF EventContradicts, EventRefundFailed, EventIgnored, OrderRecord
  <2> QED
    BY <1>1, <1>2, <2>1, <2>2, RowStays
<1>4. CASE EventRefunded(e) \/ EventFailed(e) \/ EventPaidLate(e)
  <2>1. reservation' = Released(o) /\ order'[o].status \in Closed
    BY <1>1, <1>4 DEF EventRefunded, EventFailed, EventPaidLate, OrderRecord, Closed
  <2> QED
    BY <1>1, <1>2, <2>1, RowGivenUp
<1>5. CASE EventPaid(e)
  <2>1. /\ order'[o].status = "PAID" /\ reservation' = Confirmed(o)
        /\ order[o].status = "PENDING"
    BY <1>1, <1>5 DEF EventPaid, Confirmable, OrderRecord
  <2>2. CASE a[1] # o
    <3>1. reservation'[a] = reservation[a]
      BY <2>1, <2>2 DEF Confirmed
    <3> QED
      BY <1>1, <1>2, <2>2, <3>1, RowStays
  <2>3. CASE a[1] = o
    <3>1. reservation[a].status \in {"NONE", "HELD"}
      BY <2>1, <2>3 DEF RowsInv, RowsFollow, RowOK
    <3>2. reservation'[a].status \in {"NONE", "CONFIRMED"}
      BY <2>1, <2>3, <3>1 DEF Confirmed
    <3> QED
      BY <2>1, <2>3, <3>2 DEF RowMoves, RowOK, SoldRowOK, Closed, Gone
  <2> QED
    BY <2>2, <2>3
<1> QED
  BY <1>3, <1>4, <1>5 DEF ApplyEvent, EventEffect

(* In every step the rows of an order follow the order.                    *)
LEMMA RowsStep ==
  ASSUME RowsInv, [Next]_vars
  PROVE  RowsFollow' /\ SoldRows'
<1> SUFFICES ASSUME NEW a \in Allocation PROVE RowMoves(a)
  BY DEF RowsFollow, SoldRows, RowMoves
<1>1. ASSUME NEW g \in Guest, NEW k \in CheckoutKey, NEW q \in Quote, NEW o \in Order,
             Checkout(g, k, q, o)
      PROVE  RowMoves(a)
  BY <1>1, RowsCheckout
<1>2. ASSUME NEW o \in Order,
             \/ Expire(o) \/ CancelByGuest(o) \/ CancelByStaff(o) \/ Prepare(o) \/ Deliver(o)
             \/ RequestRefund(o)
      PROVE  RowMoves(a)
  BY <1>2, RowsLife
<1>3. ASSUME NEW o \in Order, Ship(o) PROVE RowMoves(a)
  BY <1>3, RowsShip
<1>4. ASSUME NEW e \in Event, ApplyEvent(e) PROVE RowMoves(a)
  BY <1>4, RowsEvent
<1>5. CASE reservation' = reservation /\ order' = order
  BY <1>5, RowStays
<1>6. ASSUME NEW g \in Guest, NEW lines \in Lines, NEW q \in Quote, RequestQuote(g, lines, q)
      PROVE  reservation' = reservation /\ order' = order
  BY <1>6 DEF RequestQuote, inventoryVars
<1>7. ASSUME NEW g \in Guest, NEW k \in CheckoutKey, NEW q \in Quote, NEW fresh \in Quote,
             CheckoutRequoted(g, k, q, fresh)
      PROVE  reservation' = reservation /\ order' = order
  BY <1>7 DEF CheckoutRequoted, inventoryVars
<1>8. ASSUME NEW o \in Order, PrepareSession(o) \/ SaveSession(o)
      PROVE  reservation' = reservation /\ order' = order
  BY <1>8 DEF PrepareSession, SaveSession, inventoryVars
<1>9. ASSUME NEW o \in Order, NEW r \in RefundId, SaveRefund(o, r)
      PROVE  reservation' = reservation /\ order' = order
  BY <1>9 DEF SaveRefund, inventoryVars
<1>10. OfficeNext => reservation' = reservation /\ order' = order
  BY DEF OfficeNext, SubmitOperation, ApplyInventoryOperation, EditTree, EditLocations,
     EditListing, PassTime, Tick, shopVars, inventoryVars
<1>11. UNCHANGED vars => reservation' = reservation /\ order' = order
  BY DEF vars, shopVars, inventoryVars
<1> QED
  BY <1>1, <1>2, <1>3, <1>4, <1>5, <1>6, <1>7, <1>8, <1>9, <1>10, <1>11
     DEF Next, ShopNext, PaymentNext

(* There are no rows in the empty shop.                                    *)
LEMMA RowsInit ==
  ASSUME Init
  PROVE  RowsFollow /\ SoldRows
<1>1. \A a \in Allocation : a[1] \in Order
  BY DEF Allocation, Order
<1> QED
  BY <1>1 DEF Init, InventoryInit, RowsFollow, RowOK, SoldRows, SoldRowOK, NoOrder,
     NoReservation, Closed, Gone
------------------------------------------------------------------------------
(***************************************************************************)
(* The shop stays within the contract of the inventory.                    *)
(***************************************************************************)
ShopInv == RowsInv /\ StockInv

(* Free units are finitely many.                                           *)
LEMMA FreeUnitsAreFinite ==
  ASSUME NEW i, NEW S \in SUBSET Location
  PROVE  IsFiniteSet(FreeUnits(i, S)) /\ Cardinality(FreeUnits(i, S)) \in Nat
<1>1. IsFiniteSet(1..MaxStock)
  BY FS_Interval, InventoryAssumption
<1>2. IsFiniteSet(Location \X (1..MaxStock))
  BY <1>1, FS_Product, InventoryAssumption
<1>3. FreeUnits(i, S) \subseteq Location \X (1..MaxStock)
  BY DEF FreeUnits
<1> QED
  BY <1>2, <1>3, FS_Subset, FS_CardinalityType

(* What is free at a location is a number of the column.                   *)
LEMMA FreeAtIsInt ==
  ASSUME StockInv, NEW i \in Item, NEW l \in Location
  PROVE  FreeAt(i, l) \in 0..MaxStock
<1>1. balance[<<i, l>>] \in 0..MaxStock
  BY DEF StockInv, TypeInv, InventoryTypeOK, Slot
<1>2. ReservedAt(i, l) \in Nat /\ ReservedAt(i, l) <= balance[<<i, l>>]
  BY ReservedAtIsNat DEF StockInv, StockBacked
<1> QED
  BY <1>1, <1>2, InventoryAssumption DEF FreeAt

(* Checkout takes of a location at most what is free there.                *)
LEMMA ShareIsFree ==
  ASSUME StockInv, NEW i \in Item, NEW l \in Location, NEW needed \in Nat
  PROVE  /\ Share(i, l, needed) \in 0..MaxStock
         /\ Share(i, l, needed) <= FreeAt(i, l)
<1> DEFINE before == Cardinality(FreeUnits(i, {k \in Location : k < l}))
           free == FreeAt(i, l)
<1>1. before \in Nat
  BY FreeUnitsAreFinite
<1>2. free \in 0..MaxStock
  BY FreeAtIsInt
<1>3. Share(i, l, needed) =
        IF l \notin eligible \/ needed - before <= 0 \/ free <= 0 THEN 0
        ELSE Lesser(needed - before, free)
  BY DEF Share
<1> HIDE DEF before, free
<1>4. Share(i, l, needed) \in 0..MaxStock /\ Share(i, l, needed) <= free
  BY <1>1, <1>2, <1>3, InventoryAssumption DEF Lesser
<1> QED
  BY <1>4 DEF free

(* A checkout is a Hold of the inventory.                                  *)
LEMMA CheckoutHolds ==
  ASSUME ShopInv,
         NEW g \in Guest, NEW k \in CheckoutKey, NEW q \in Quote, NEW o \in Order,
         Checkout(g, k, q, o)
  PROVE  Hold(o)
<1> DEFINE lines == quote[q].lines
           take == [s \in Slot |-> Share(s[1], s[2], lines[s[1]])]
           until == now + HoldTime
<1>1. \A i \in Item : lines[i] \in Nat
  BY CommerceAssumption DEF ShopInv, RowsInv, TypeOK, QuoteRecord, Lines
<1>2. ASSUME NEW s \in Slot
      PROVE  take[s] \in 0..MaxStock /\ take[s] <= FreeAt(s[1], s[2])
  BY <1>1, ShareIsFree DEF ShopInv, Slot
<1>3. take \in [Slot -> 0..MaxStock]
  BY <1>2
<1>4. until \in now+1..MaxTime+1
  BY CommerceAssumption, InventoryAssumption DEF Checkout, ShopInv, RowsInv, TypeOK,
     InventoryTypeOK
<1>5. ASSUME NEW s \in Slot
      PROVE  reservation[<<o, s[1], s[2]>>].status = "NONE"
  <2>1. <<o, s[1], s[2]>> \in Allocation
    BY DEF Allocation, Slot, Order
  <2>2. order[o].status = "NONE"
    BY DEF Checkout, NoOrder
  <2> QED
    BY <2>1, <2>2 DEF ShopInv, RowsInv, RowsFollow, RowOK
<1>6. ASSUME NEW a \in Allocation
      PROVE  take[<<a[2], a[3]>>] = Share(a[2], a[3], lines[a[2]])
  <2>1. <<a[2], a[3]>> \in Slot
    BY DEF Allocation, Slot
  <2> QED
    BY <2>1
<1>7. reservation' = [a \in Allocation |->
         IF a[1] = o /\ take[<<a[2], a[3]>>] > 0
         THEN [status |-> "HELD", quantity |-> take[<<a[2], a[3]>>],
               expiresAt |-> IF "HELD" = "HELD" THEN until ELSE 0]
         ELSE reservation[a]]
  <2>1. reservation' = [a \in Allocation |->
         IF a[1] = o /\ Share(a[2], a[3], lines[a[2]]) > 0
         THEN [status |-> "HELD", quantity |-> Share(a[2], a[3], lines[a[2]]),
               expiresAt |-> until]
         ELSE reservation[a]]
    BY DEF Checkout
  <2> HIDE DEF take, lines, until
  <2> QED
    BY <1>6, <2>1
<1>8. UNCHANGED <<now, balance, movement, receiving>>
  BY DEF Checkout
<1> HIDE DEF take, until
<1> QED
  BY <1>2, <1>3, <1>4, <1>5, <1>7, <1>8 DEF Hold

(* A payment in time confirms holds that still count against the stock.    *)
LEMMA PaidConfirms ==
  ASSUME ShopInv, NEW e \in Event, ApplyEvent(e), EventPaid(e)
  PROVE  Confirm(e.order)
<1> DEFINE o == e.order
<1>1. o \in Order /\ o \in Holder
  BY DEF Event, Order
<1>2. /\ order[o].expiresAt > now /\ order[o].expiresAt \in Nat /\ now \in Nat
  BY <1>1 DEF EventPaid, Confirmable, ShopInv, RowsInv, TypeOK, InventoryTypeOK, OrderRecord
<1>3. ASSUME NEW i \in Item, NEW l \in Location, reservation[<<o, i, l>>].status = "HELD"
      PROVE  reservation[<<o, i, l>>].quantity + OthersReservedAt(o, i, l)
               <= balance[<<i, l>>]
  <2> DEFINE row == reservation[<<o, i, l>>]
  <2>1. <<o, i, l>> \in Allocation
    BY <1>1 DEF Allocation
  <2>2. row.expiresAt = order[o].expiresAt
    BY <1>3, <2>1 DEF ShopInv, RowsInv, RowsFollow, RowOK
  <2>3. Active(row)
    BY <1>2, <1>3, <2>2 DEF Active
  <2>4. row.quantity \in 1..MaxStock
    BY <1>3, <2>1, InventoryAssumption
       DEF ShopInv, StockInv, TypeInv, RowsReserve, InventoryTypeOK, Reservation
  <2>5. /\ ReservedUnits(Holder \ {o}, i, l) \in SUBSET (Holder \X (1..MaxStock))
        /\ ReservedUnits(Holder, i, l) \in SUBSET (Holder \X (1..MaxStock))
        /\ \A u \in ReservedUnits(Holder \ {o}, i, l) : u[1] # o
    BY DEF ReservedUnits
  <2>6. ReservedUnits(Holder \ {o}, i, l) \cup ({o} \X (1..row.quantity))
          \subseteq ReservedUnits(Holder, i, l)
    <3> SUFFICES ASSUME NEW u \in ReservedUnits(Holder \ {o}, i, l)
                                    \cup ({o} \X (1..row.quantity))
                 PROVE  u \in ReservedUnits(Holder, i, l)
      OBVIOUS
    <3>1. CASE u \in ReservedUnits(Holder \ {o}, i, l)
      BY <3>1 DEF ReservedUnits
    <3>2. CASE u \in {o} \X (1..row.quantity)
      <4>1. u = <<o, u[2]>> /\ u[2] \in 1..row.quantity
        BY <3>2
      <4>2. u[2] \in 1..MaxStock /\ u[2] <= row.quantity
        BY <2>4, <4>1, InventoryAssumption
      <4> QED
        BY <1>1, <2>3, <4>1, <4>2 DEF ReservedUnits
    <3> QED
      BY <3>1, <3>2
  <2> HIDE DEF row
  <2>7. Cardinality(ReservedUnits(Holder \ {o}, i, l) \cup ({o} \X (1..row.quantity)))
          = Cardinality(ReservedUnits(Holder \ {o}, i, l)) + row.quantity
    BY <2>4, <2>5, UnitsAreFinite, MovementAdds
  <2>8. Cardinality(ReservedUnits(Holder \ {o}, i, l)) + row.quantity
          <= Cardinality(ReservedUnits(Holder, i, l))
    BY <2>5, <2>6, <2>7, FewerUnits
  <2>9. /\ ReservedAt(i, l) <= balance[<<i, l>>] /\ ReservedAt(i, l) \in Nat
        /\ OthersReservedAt(o, i, l) \in Nat
        /\ balance[<<i, l>>] \in Nat
    BY ReservedAtIsNat, InventoryAssumption
       DEF ShopInv, StockInv, StockBacked, TypeInv, InventoryTypeOK, Slot
  <2>10. row.quantity \in Nat
    BY <2>4, InventoryAssumption
  <2> QED
    BY <2>8, <2>9, <2>10 DEF ReservedAt, OthersReservedAt, row
<1>4. /\ reservation' = Confirmed(o) /\ UNCHANGED <<now, balance, movement, receiving>>
  BY DEF ApplyEvent, EventPaid
<1> QED
  BY <1>3, <1>4 DEF Confirm, Slot

(* Every step of the shop is a step of the inventory, or none.             *)
LEMMA ContractStep ==
  ASSUME ShopInv, [Next]_vars
  PROVE  [InventoryNext]_inventoryVars
<1>1. ASSUME NEW g \in Guest, NEW k \in CheckoutKey, NEW q \in Quote, NEW o \in Order,
             Checkout(g, k, q, o)
      PROVE  InventoryNext
  BY <1>1, CheckoutHolds DEF InventoryNext, Order
<1>2. ASSUME NEW o \in Order,
             Expire(o) \/ CancelByGuest(o) \/ CancelByStaff(o) \/ RequestRefund(o)
      PROVE  InventoryNext
  <2>1. Release(o)
    BY <1>2 DEF Expire, CancelByGuest, CancelByStaff, RequestRefund, Release
  <2> QED
    BY <2>1 DEF InventoryNext, Order
<1>3. ASSUME NEW o \in Order, Ship(o) PROVE InventoryNext
  BY <1>3 DEF Ship, InventoryNext, Order
<1>4. ASSUME NEW e \in Event, ApplyEvent(e) PROVE [InventoryNext]_inventoryVars
  <2>1. e.order \in Holder
    BY DEF Event, Order
  <2>2. CASE EventPaid(e)
    BY <1>4, <2>1, <2>2, PaidConfirms DEF InventoryNext
  <2>3. CASE EventRefunded(e) \/ EventFailed(e) \/ EventPaidLate(e)
    <3>1. Release(e.order)
      BY <1>4, <2>3 DEF ApplyEvent, EventRefunded, EventFailed, EventPaidLate, Release
    <3> QED
      BY <2>1, <3>1 DEF InventoryNext
  <2>4. CASE EventContradicts(e) \/ EventRefundFailed(e) \/ EventIgnored(e)
    BY <1>4, <2>4
       DEF ApplyEvent, EventContradicts, EventRefundFailed, EventIgnored, inventoryVars
  <2> QED
    BY <1>4, <2>2, <2>3, <2>4 DEF ApplyEvent, EventEffect
<1>5. ASSUME NEW op \in Operation, SubmitOperation(op) PROVE InventoryNext
  BY <1>5 DEF SubmitOperation, InventoryNext
<1>6. EditTree \/ PassTime => InventoryNext
  BY DEF EditTree, PassTime, InventoryNext
<1>7. ASSUME NEW o \in Order,
             Prepare(o) \/ Deliver(o) \/ PrepareSession(o) \/ SaveSession(o)
      PROVE  UNCHANGED inventoryVars
  BY <1>7 DEF Prepare, Deliver, PrepareSession, SaveSession
<1>8. ASSUME NEW o \in Order, NEW r \in RefundId, SaveRefund(o, r)
      PROVE  UNCHANGED inventoryVars
  BY <1>8 DEF SaveRefund
<1>9. ASSUME NEW g \in Guest, NEW lines \in Lines, NEW q \in Quote, RequestQuote(g, lines, q)
      PROVE  UNCHANGED inventoryVars
  BY <1>9 DEF RequestQuote
<1>10. ASSUME NEW g \in Guest, NEW k \in CheckoutKey, NEW q \in Quote, NEW fresh \in Quote,
              CheckoutRequoted(g, k, q, fresh)
       PROVE  UNCHANGED inventoryVars
  BY <1>10 DEF CheckoutRequoted
<1>11. ASSUME NEW i \in Item, NEW p \in Price \cup {None}, EditListing(i, p)
       PROVE  UNCHANGED inventoryVars
  BY <1>11 DEF EditListing
<1>12. UNCHANGED vars => UNCHANGED inventoryVars
  BY DEF vars, inventoryVars
<1> QED
  BY <1>1, <1>2, <1>3, <1>4, <1>5, <1>6, <1>7, <1>8, <1>9, <1>10, <1>11, <1>12
     DEF Next, ShopNext, PaymentNext, OfficeNext

(* The invariant holds in the empty shop.                                  *)
LEMMA ShopInvInit == Init => ShopInv
<1> SUFFICES ASSUME Init PROVE ShopInv
  OBVIOUS
<1>1. StockInv
  BY StockInvInit DEF Init
<1> QED
  BY <1>1, ShopTypeInit, RecordsInit, AttemptsInit, RowsInit DEF ShopInv, RowsInv

(* Every step of the shop keeps the invariant.                             *)
LEMMA ShopInvStep == ShopInv /\ [Next]_vars => ShopInv'
<1> SUFFICES ASSUME ShopInv, [Next]_vars PROVE ShopInv'
  OBVIOUS
<1>1. StockInv'
  BY ContractStep, StockInvStep DEF ShopInv
<1>2. InventoryTypeOK'
  BY <1>1 DEF StockInv, TypeInv
<1>3. TypeOK'
  BY <1>2, ShopTypeStep DEF ShopInv, RowsInv
<1>4. RecordsOK' /\ AttemptsFollow'
  BY RecordsStep, AttemptsStep DEF ShopInv, RowsInv
<1>5. RowsFollow' /\ SoldRows'
  BY RowsStep DEF ShopInv
<1> QED
  BY <1>1, <1>3, <1>4, <1>5 DEF ShopInv, RowsInv

(* The records of the shop are always well-formed.                         *)
THEOREM ShopTypes == Spec => []TypeOK
<1>1. ShopInv => TypeOK
  BY DEF ShopInv, RowsInv
<1> QED
  BY <1>1, ShopInvInit, ShopInvStep, PTL DEF Spec

(* The shop implements the contract of the inventory: whatever the order   *)
(* of checkouts, payments, refunds, dispatches, stock operations and edits *)
(* of locations, no transaction runs into a guard of the database.         *)
THEOREM ShopImplementsInventory == Spec => StockContract
<1>1. Init => InventoryInit
  BY DEF Init
<1>2. ShopInv /\ [Next]_vars => [InventoryNext]_inventoryVars
  BY ContractStep
<1> QED
  BY <1>1, <1>2, ShopInvInit, ShopInvStep, PTL DEF Spec, StockContract, InventorySpec

(* In the shop, too, no unit is promised twice.                            *)
THEOREM ShopBacksReservations == Spec => []StockBacked
  BY ShopImplementsInventory, StockBacksReservations, PTL DEF StockContract
------------------------------------------------------------------------------
(***************************************************************************)
(* Properties of orders.                                                   *)
(***************************************************************************)

(* Cancelled and refunded orders hold no stock, however they were closed.  *)
THEOREM ClosedOrdersHoldNothing == Spec => []ClosedHoldsNothing
<1>1. ShopInv => ClosedHoldsNothing
  BY DEF ShopInv, RowsInv, RowsFollow, RowOK, ClosedHoldsNothing, Closed
<1> QED
  BY <1>1, ShopInvInit, ShopInvStep, PTL DEF Spec

(* The delivery request waits for dispatch exactly while its order does.   *)
THEOREM FulfillmentAgrees == Spec => []FulfillmentFollows
<1>1. ShopInv => FulfillmentFollows
  BY DEF ShopInv, RowsInv, RecordsOK, RecordOK, FulfillmentFollows
<1> QED
  BY <1>1, ShopInvInit, ShopInvStep, PTL DEF Spec

(* Retried and concurrent submissions of one checkout make one order.      *)
THEOREM SubmittedOnce == Spec => []OneOrderPerSubmission
<1>1. Init => OneOrderPerSubmission
  BY SubmissionsInit
<1>2. ShopInv /\ OneOrderPerSubmission /\ [Next]_vars => OneOrderPerSubmission'
  BY SubmissionsStep DEF ShopInv, RowsInv
<1> QED
  BY <1>1, <1>2, ShopInvInit, ShopInvStep, PTL DEF Spec

(* A guest's open checkouts never exceed the limit.                        *)
THEOREM OpenOrdersLimited == Spec => []OpenOrdersBounded
<1>1. Init => OpenOrdersBounded
  BY OpenOrdersInit
<1>2. ShopInv /\ OpenOrdersBounded /\ [Next]_vars => OpenOrdersBounded'
  BY OpenOrdersStep DEF ShopInv, RowsInv
<1> QED
  BY <1>1, <1>2, ShopInvInit, ShopInvStep, PTL DEF Spec

(* No event, retry or staff action revives a cancelled or refunded order.  *)
THEOREM ClosedStaysClosed == Spec => ClosedIsFinal
<1>1. ShopInv /\ [Next]_vars
        => [\A o \in Order : order[o].status \in {"CANCELLED", "REFUNDED"} =>
              order'[o].status \in {"CANCELLED", "REFUNDED"}]_vars
  BY StepMoves DEF ShopInv, RowsInv, Moves, Closed
<1> QED
  BY <1>1, ShopInvInit, ShopInvStep, PTL DEF Spec, ClosedIsFinal

(* The refunded amount never decreases, and an order refunded in full is   *)
(* never paid or shipped again.                                            *)
THEOREM RefundIsKept == Spec => RefundKept
<1>1. ASSUME ShopInv, [Next]_vars, NEW o \in Order
      PROVE  /\ order'[o].refunded >= order[o].refunded
             /\ order[o].refunded = Total =>
                  /\ order'[o].paymentStatus \notin {"PAID", "UNPAID", "FAILED"}
                  /\ fulfillment'[o] = "SHIPPED" => fulfillment[o] = "SHIPPED"
  <2>1. Moves(o) /\ TypeOK'
    BY <1>1, StepMoves, ShopInvStep DEF ShopInv, RowsInv
  <2>2. order'[o].refunded \in 0..Total
    BY <2>1 DEF TypeOK, OrderRecord
  <2>3. order[o].refunded = Total => order'[o].refunded = Total
    BY <2>1, <2>2, CommerceAssumption DEF Moves
  <2> QED
    BY <2>1, <2>3 DEF Moves, RecordOK
<1>2. ShopInv /\ [Next]_vars
        => [\A o \in Order :
              /\ order'[o].refunded >= order[o].refunded
              /\ order[o].refunded = Total =>
                   /\ order'[o].paymentStatus \notin {"PAID", "UNPAID", "FAILED"}
                   /\ fulfillment'[o] = "SHIPPED" => fulfillment[o] = "SHIPPED"]_vars
  BY <1>1
<1> QED
  BY <1>2, ShopInvInit, ShopInvStep, PTL DEF Spec, RefundKept

(* An order is made only from a quote of its guest, at prices that were    *)
(* quoted and are still in force.                                          *)
THEOREM TermsAreAccepted == Spec => AcceptedTerms
<1> DEFINE Accepted(o) ==
      LET q == order'[o].quote
      IN /\ quote[q].guest = order'[o].guest
         /\ \A i \in Item : order'[o].lines[i] > 0 =>
              listing[i] # None /\ quote[q].prices[i] = listing[i]
<1>1. ASSUME ShopInv, [Next]_vars,
             NEW o \in Order, order[o].status = "NONE", order'[o].status # "NONE"
      PROVE  Accepted(o)
  <2>1. PICK g \in Guest, k \in CheckoutKey, q \in Quote : Checkout(g, k, q, o)
    BY <1>1, StepBirth DEF ShopInv, RowsInv
  <2>2. /\ order'[o].quote = q /\ order'[o].guest = g /\ order'[o].lines = quote[q].lines
    BY <1>1, <2>1 DEF Checkout, ShopInv, RowsInv, TypeOK
  <2> QED
    BY <2>1, <2>2 DEF Checkout, CheckoutAllowed, Purchasable, SamePrices
<1>2. ShopInv /\ [Next]_vars
        => [\A o \in Order : order[o].status = "NONE" /\ order'[o].status # "NONE" =>
              LET q == order'[o].quote
              IN /\ quote[q].guest = order'[o].guest
                 /\ \A i \in Item : order'[o].lines[i] > 0 =>
                      listing[i] # None /\ quote[q].prices[i] = listing[i]]_vars
  BY <1>1
<1> QED
  BY <1>2, ShopInvInit, ShopInvStep, PTL DEF Spec, AcceptedTerms
==============================================================================
