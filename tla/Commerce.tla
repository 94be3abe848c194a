------------------------------- MODULE Commerce -------------------------------
(***************************************************************************)
(* The database transactions of the shop: quotes, checkout, the life of an *)
(* order, the facts a payment provider reports about it, refunds and       *)
(* dispatch (src/modules/commerce/service.ts and payments.ts).             *)
(*                                                                         *)
(* Each transaction locks the order row, then the item rows, so that it is *)
(* one action here; a handler made of several transactions is several      *)
(* actions, and anything may happen between them.  The provider is the     *)
(* environment: ApplyEvent accepts any verified event about an order that  *)
(* has a payment attempt, in any order and any number of times.  Module    *)
(* Payments composes these transactions with the provider.                 *)
(***************************************************************************)
EXTENDS Inventory

CONSTANTS
  None,          \* the null value
  Guest,         \* owners of carts, quotes and orders
  CheckoutKey,   \* operation keys submitted with a checkout
  Quote,         \* ids of checkout quotes
  Price,         \* price and policy in force for an item
  MaxLine,       \* largest quantity of an order line
  PendingLimit,  \* open checkouts a guest may have (3 in the code)
  QuoteTime,     \* lifetime of a quote (10 minutes)
  HoldTime,      \* policy.reservationMinutes (35 minutes or more)
  Total,         \* what an order costs; every order costs the same here
  Amount,        \* amounts that events may carry
  EventId,       \* ids of provider events
  RefundId       \* ids of provider refunds

(* Reservations are held by orders. *)
Order == Holder

ASSUME CommerceAssumption ==
  /\ None \notin Guest \cup Quote \cup Price \cup RefundId \cup (Guest \X CheckoutKey)
  /\ MaxLine \in Nat /\ PendingLimit \in Nat
  /\ QuoteTime \in Nat \ {0} /\ HoldTime \in Nat \ {0}
  /\ Total \in Nat \ {0} /\ Amount \subseteq Nat

VARIABLES
  eligible,     \* fulfillableLocationIds(FRANCE)
  listing,      \* price of each published item, None when not public
  quote,        \* checkout_quotes
  order,        \* orders, with the lines of order_items
  fulfillment,  \* fulfillment_requests, one per paid order
  attempt,      \* payment_attempts, one per order
  processed     \* payment_events: the event ids already applied

shopVars == <<eligible, listing, quote, order, fulfillment, attempt, processed>>
vars == <<inventoryVars, shopVars>>

Lines == [Item -> 0..MaxLine]

OrderStatus ==
  {"NONE", "PENDING", "PAID", "PREPARING", "SHIPPED", "DELIVERED", "CANCELLED",
   "REFUNDED"}
PaymentStatus ==
  {"UNPAID", "PAID", "FAILED", "REVIEW", "REFUND_PENDING", "REFUNDED"}
AttemptStatus == {"NONE", "CREATED", "OPEN", "SUCCEEDED", "FAILED", "REVIEW"}
FulfillmentStatus == {"NONE", "READY", "SHIPPED", "DELIVERED", "CANCELLED"}
EventType == {"PAID", "FAILED", "REFUNDED", "REFUND_FAILED"}

NoQuote ==
  [guest |-> None, lines |-> [i \in Item |-> 0], prices |-> [i \in Item |-> None],
   expiresAt |-> 0]
NoOrder ==
  [status |-> "NONE", paymentStatus |-> "UNPAID", guest |-> None, key |-> None,
   quote |-> None, lines |-> [i \in Item |-> 0], expiresAt |-> 0,
   paid |-> FALSE, refunded |-> 0]
NoAttempt ==
  [status |-> "NONE", session |-> FALSE, intent |-> FALSE,
   refundRequested |-> FALSE, refund |-> None]

QuoteRecord ==
  [guest : Guest \cup {None}, lines : Lines, prices : [Item -> Price \cup {None}],
   expiresAt : Nat]
OrderRecord ==
  [status : OrderStatus, paymentStatus : PaymentStatus, guest : Guest \cup {None},
   key : (Guest \X CheckoutKey) \cup {None}, quote : Quote \cup {None},
   lines : Lines, expiresAt : Nat, paid : BOOLEAN, refunded : 0..Total]
AttemptRecord ==
  [status : AttemptStatus, session : BOOLEAN, intent : BOOLEAN,
   refundRequested : BOOLEAN, refund : RefundId \cup {None}]

(* A verified event.  It is foreign when its currency, session or payment  *)
(* intent contradicts what the order and the attempt record.               *)
Event ==
  [id : EventId, order : Order, type : EventType, amount : Amount,
   foreign : BOOLEAN, intent : BOOLEAN]

TypeOK ==
  /\ InventoryTypeOK
  /\ eligible \subseteq receiving
  /\ listing \in [Item -> Price \cup {None}]
  /\ quote \in [Quote -> QuoteRecord]
  /\ order \in [Order -> OrderRecord]
  /\ fulfillment \in [Order -> FulfillmentStatus]
  /\ attempt \in [Order -> AttemptRecord]
  /\ processed \subseteq EventId
------------------------------------------------------------------------------
(***************************************************************************)
(* Reading the state.                                                      *)
(***************************************************************************)
Lesser(m, n) == IF m <= n THEN m ELSE n

(* Free units of an item at the eligible locations of a set.               *)
FreeUnits(i, locations) ==
  {u \in (locations \cap eligible) \X (1..MaxStock) : u[2] <= FreeAt(i, u[1])}

AvailableQuantity(i) == Cardinality(FreeUnits(i, Location))

(* Mutant of Share: what earlier locations gave is forgotten.              *)
ShareOfAll(i, l, needed) ==
  IF l \notin eligible \/ FreeAt(i, l) <= 0 THEN 0 ELSE Lesser(needed, FreeAt(i, l))

(* What checkout takes of a location: it goes through the locations in the *)
(* order of their ids and takes what is free until the line is served.     *)
Share(i, l, needed) ==
  LET left == needed - Cardinality(FreeUnits(i, {k \in Location : k < l}))
      free == FreeAt(i, l)
  IN IF l \notin eligible \/ left <= 0 \/ free <= 0 THEN 0 ELSE Lesser(left, free)

(* Units of an order's line in rows of one status.                         *)
RowUnits(o, i, status) ==
  {u \in Location \X (1..MaxStock) :
     /\ reservation[<<o, i, u[1]>>].status = status
     /\ u[2] <= reservation[<<o, i, u[1]>>].quantity}

(* The rows that can still be confirmed or dispatched: at an eligible      *)
(* location, and for a hold not lapsed.                                    *)
UsableUnits(o, i, status) ==
  {u \in RowUnits(o, i, status) :
     u[1] \in eligible /\ Active(reservation[<<o, i, u[1]>>])}

(* The checks of snapshot: every line public and in stock.                 *)
Purchasable(lines) ==
  \A i \in Item : lines[i] > 0 =>
    listing[i] # None /\ AvailableQuantity(i) >= lines[i]

(* The fingerprint of the accepted quote is that of today's snapshot.      *)
SamePrices(q) ==
  \A i \in Item : quote[q].lines[i] > 0 => quote[q].prices[i] = listing[i]

NewQuote(g, lines) ==
  [guest |-> g, lines |-> lines,
   prices |-> [i \in Item |-> IF lines[i] > 0 THEN listing[i] ELSE None],
   expiresAt |-> now + QuoteTime]

OpenOrders(g) ==
  {o \in Order : order[o].guest = g /\ order[o].status = "PENDING"
                 /\ order[o].expiresAt > now}

(* Mutant of WithdrawReady: the request stays with the packers.            *)
WithdrawNothing(o) == fulfillment

WithdrawReady(o) ==
  [fulfillment EXCEPT ![o] = IF @ = "READY" THEN "CANCELLED" ELSE @]
------------------------------------------------------------------------------
Init ==
  /\ InventoryInit
  /\ eligible = Location
  /\ listing = [i \in Item |-> None]
  /\ quote = [q \in Quote |-> NoQuote]
  /\ order = [o \in Order |-> NoOrder]
  /\ fulfillment = [o \in Order |-> "NONE"]
  /\ attempt = [o \in Order |-> NoAttempt]
  /\ processed = {}
------------------------------------------------------------------------------
(***************************************************************************)
(* The back office and the clock.                                          *)
(***************************************************************************)
SubmitOperation(op) == ApplyInventoryOperation(op) /\ UNCHANGED shopVars

(* An edit of the location tree decides where stock may be received and    *)
(* where orders may be fulfilled.                                          *)
EditTree ==
  /\ EditLocations
  /\ eligible' \in SUBSET receiving'
  /\ UNCHANGED <<listing, quote, order, fulfillment, attempt, processed>>

(* Publication: a listing is priced, repriced or taken off the shop.       *)
EditListing(i, p) ==
  /\ listing' = [listing EXCEPT ![i] = p]
  /\ UNCHANGED <<inventoryVars, eligible, quote, order, fulfillment, attempt, processed>>

PassTime == Tick /\ UNCHANGED shopVars
------------------------------------------------------------------------------
(***************************************************************************)
(* Quotes and checkout.                                                    *)
(***************************************************************************)
RequestQuote(g, lines, q) ==
  /\ \E i \in Item : lines[i] > 0
  /\ quote[q] = NoQuote
  /\ Purchasable(lines)
  /\ quote' = [quote EXCEPT ![q] = NewQuote(g, lines)]
  /\ UNCHANGED <<inventoryVars, eligible, listing, order, fulfillment, attempt, processed>>

(* Mutant of Submitted: a quote is spent by any number of keys.            *)
SubmittedKey(g, k, q) == \E o \in Order : order[o].status # "NONE" /\ order[o].key = <<g, k>>

(* The order this submission already made: same key, or same quote.  The   *)
(* submission is then answered with it, or refused; nothing changes.       *)
Submitted(g, k, q) ==
  \E o \in Order :
    order[o].status # "NONE" /\ (order[o].key = <<g, k>> \/ order[o].quote = q)

CheckoutAllowed(g, k, q) ==
  /\ ~Submitted(g, k, q)
  /\ quote[q].guest = g
  /\ quote[q].expiresAt > now
  /\ Cardinality(OpenOrders(g)) < PendingLimit
  /\ Purchasable(quote[q].lines)

(* Prices changed since the quote: the guest gets a fresh one to accept.   *)
CheckoutRequoted(g, k, q, fresh) ==
  /\ CheckoutAllowed(g, k, q)
  /\ ~SamePrices(q)
  /\ quote[fresh] = NoQuote
  /\ quote' = [quote EXCEPT ![fresh] = NewQuote(g, quote[q].lines)]
  /\ UNCHANGED <<inventoryVars, eligible, listing, order, fulfillment, attempt, processed>>

(* The order and all of its holds are made together, or not at all.  The   *)
(* model does not start a checkout that would outlive its clock.           *)
Checkout(g, k, q, o) ==
  LET lines == quote[q].lines
  IN /\ CheckoutAllowed(g, k, q)
     /\ SamePrices(q)
     /\ now + HoldTime <= MaxTime
     /\ order[o] = NoOrder
     /\ order' = [order EXCEPT ![o] =
          [status |-> "PENDING", paymentStatus |-> "UNPAID", guest |-> g, key |-> <<g, k>>,
           quote |-> q, lines |-> lines, expiresAt |-> now + HoldTime,
           paid |-> FALSE, refunded |-> 0]]
     /\ reservation' = [a \in Allocation |->
          IF a[1] = o /\ Share(a[2], a[3], lines[a[2]]) > 0
          THEN [status |-> "HELD", quantity |-> Share(a[2], a[3], lines[a[2]]),
                expiresAt |-> now + HoldTime]
          ELSE reservation[a]]
     /\ UNCHANGED <<now, balance, movement, receiving, eligible, listing, quote,
                    fulfillment, attempt, processed>>
------------------------------------------------------------------------------
(***************************************************************************)
(* The life of an order.                                                   *)
(***************************************************************************)

(* Mutant of Overdue: once a payment is started only the provider ends it. *)
OverdueIdle(o) ==
  /\ order[o].status = "PENDING"
  /\ attempt[o].status = "NONE"
  /\ order[o].expiresAt <= now

Overdue(o) == order[o].status = "PENDING" /\ order[o].expiresAt <= now

(* expireLockedOrder: run by every read of the order, by the start of a    *)
(* payment and by the maintenance job.                                     *)
Expire(o) ==
  /\ Overdue(o)
  /\ reservation' = Released(o)
  /\ order' = [order EXCEPT ![o].status = "CANCELLED"]
  /\ UNCHANGED <<now, balance, movement, receiving, eligible, listing, quote,
                 fulfillment, attempt, processed>>

CancelByGuest(o) ==
  /\ order[o].status = "PENDING"
  /\ order[o].paymentStatus = "UNPAID"
  /\ reservation' = Released(o)
  /\ order' = [order EXCEPT ![o].status = "CANCELLED"]
  /\ UNCHANGED <<now, balance, movement, receiving, eligible, listing, quote,
                 fulfillment, attempt, processed>>

CancelByStaff(o) ==
  /\ order[o].status \in {"PENDING", "PAID", "PREPARING"}
  /\ reservation' = Released(o)
  /\ fulfillment' = [fulfillment EXCEPT ![o] = IF @ = "NONE" THEN @ ELSE "CANCELLED"]
  /\ order' = [order EXCEPT
       ![o].status = "CANCELLED",
       ![o].paymentStatus = IF @ = "PAID" THEN "REFUND_PENDING" ELSE @]
  /\ UNCHANGED <<now, balance, movement, receiving, eligible, listing, quote,
                 attempt, processed>>

Prepare(o) ==
  /\ order[o].paymentStatus = "PAID"
  /\ order[o].status = "PAID"
  /\ order' = [order EXCEPT ![o].status = "PREPARING"]
  /\ UNCHANGED <<inventoryVars, eligible, listing, quote, fulfillment, attempt, processed>>

(* Dispatch: the whole order from eligible locations, each allocation      *)
(* through one SALE movement under its own operation key.                  *)
Ship(o) ==
  /\ order[o].paymentStatus = "PAID"
  /\ order[o].status \in {"PAID", "PREPARING"}
  /\ \A i \in Item :
       Cardinality(UsableUnits(o, i, "CONFIRMED")) = order[o].lines[i]
  /\ Consume(o)
  /\ fulfillment[o] = "READY"
  /\ fulfillment' = [fulfillment EXCEPT ![o] = "SHIPPED"]
  /\ order' = [order EXCEPT ![o].status = "SHIPPED"]
  /\ UNCHANGED <<eligible, listing, quote, attempt, processed>>

Deliver(o) ==
  /\ order[o].paymentStatus = "PAID"
  /\ order[o].status = "SHIPPED"
  /\ fulfillment[o] = "SHIPPED"
  /\ fulfillment' = [fulfillment EXCEPT ![o] = "DELIVERED"]
  /\ order' = [order EXCEPT ![o].status = "DELIVERED"]
  /\ UNCHANGED <<inventoryVars, eligible, listing, quote, attempt, processed>>
------------------------------------------------------------------------------
(***************************************************************************)
(* The transactions of a payment attempt and of a refund.                  *)
(***************************************************************************)

(* ensureSession, first transaction: the durable attempt comes before the  *)
(* call to the provider.                                                   *)
PrepareSession(o) ==
  /\ order[o].status = "PENDING"
  /\ order[o].paymentStatus = "UNPAID"
  /\ order[o].expiresAt > now
  /\ attempt[o].status = "NONE"
  /\ attempt' = [attempt EXCEPT ![o].status = "CREATED"]
  /\ UNCHANGED <<inventoryVars, eligible, listing, quote, order, fulfillment, processed>>

(* Mutant of SaveSession: the session itself is not recorded.              *)
SaveSessionStatus(o) ==
  /\ attempt[o].status # "NONE"
  /\ attempt' = [attempt EXCEPT ![o].status = IF @ = "CREATED" THEN "OPEN" ELSE @]
  /\ UNCHANGED <<inventoryVars, eligible, listing, quote, order, fulfillment, processed>>

(* ensureSession, second transaction: the session the provider returned is *)
(* recorded even when the order has meanwhile been closed or paid.         *)
SaveSession(o) ==
  /\ attempt[o].status # "NONE"
  /\ attempt' = [attempt EXCEPT
       ![o].session = TRUE,
       ![o].status = IF @ = "CREATED" THEN "OPEN" ELSE @]
  /\ UNCHANGED <<inventoryVars, eligible, listing, quote, order, fulfillment, processed>>

(* Mutant of Withdrawn: an order being prepared goes on.                   *)
WithdrawnEarly(status) == IF status \in {"PENDING", "PAID"} THEN "CANCELLED" ELSE status

(* A refund cancels an order whose goods are still here.                   *)
Withdrawn(status) ==
  IF status \in {"PENDING", "PAID", "PREPARING"} THEN "CANCELLED" ELSE status

(* refundOrder, first transaction.                                         *)
RequestRefund(o) ==
  /\ attempt[o].intent
  /\ order[o].paymentStatus \in {"PAID", "REVIEW", "REFUND_PENDING"}
  /\ order[o].refunded = 0
  /\ reservation' = Released(o)
  /\ fulfillment' = WithdrawReady(o)
  /\ order' = [order EXCEPT
       ![o].paymentStatus = "REFUND_PENDING",
       ![o].status = Withdrawn(@)]
  /\ attempt' = [attempt EXCEPT ![o].refundRequested = TRUE]
  /\ UNCHANGED <<now, balance, movement, receiving, eligible, listing, quote, processed>>

(* The id of the refund the provider made; written outside any lock.       *)
SaveRefund(o, r) ==
  /\ attempt[o].refundRequested
  /\ attempt' = [attempt EXCEPT ![o].refund = r]
  /\ UNCHANGED <<inventoryVars, eligible, listing, quote, order, fulfillment, processed>>
------------------------------------------------------------------------------
(***************************************************************************)
(* applyEvent: one verified fact of the provider, applied once.            *)
(***************************************************************************)
Contradicts(e) == e.foreign \/ e.amount # Total

(* Mutant of RefundedAfter: amounts that are cumulative are added up.     *)
RefundedSum(e) ==
  LET known == order[e.order].refunded
  IN IF ~e.foreign /\ e.type = "REFUNDED" /\ e.amount < Total
     THEN known + e.amount ELSE known

(* What is known to be refunded after an event that contradicts the order: *)
(* partial refunds count, an older event cannot reduce the amount.         *)
RefundedAfter(e) ==
  LET known == order[e.order].refunded
  IN IF ~e.foreign /\ e.type = "REFUNDED" /\ e.amount < Total /\ e.amount > known
     THEN e.amount ELSE known

(* A contradiction is for a person to review, unless the order is already  *)
(* refunded in full and the event only repeats part of that.               *)
EventContradicts(e) ==
  LET o == e.order
      settled == /\ order[o].paymentStatus = "REFUNDED"
                 /\ RefundedAfter(e) = Total
                 /\ ~e.foreign
  IN /\ Contradicts(e)
     /\ order' = IF settled THEN order
                 ELSE [order EXCEPT ![o].paymentStatus = "REVIEW",
                                    ![o].refunded = RefundedAfter(e)]
     /\ attempt' = IF settled THEN attempt
                   ELSE [attempt EXCEPT ![o].status = "REVIEW"]
     /\ UNCHANGED <<reservation, fulfillment>>

(* The payment intent the event names becomes the attempt's; `status` is   *)
(* what the handler then makes of the attempt.                             *)
AttemptAfter(e, status) ==
  [attempt EXCEPT ![e.order].intent = @ \/ e.intent,
                  ![e.order].status = status]

EventRefunded(e) ==
  /\ ~Contradicts(e)
  /\ e.type = "REFUNDED"
  /\ reservation' = Released(e.order)
  /\ fulfillment' = WithdrawReady(e.order)
  /\ order' = [order EXCEPT ![e.order].status = "REFUNDED",
                            ![e.order].paymentStatus = "REFUNDED",
                            ![e.order].refunded = e.amount]
  /\ attempt' = AttemptAfter(e, attempt[e.order].status)

EventRefundFailed(e) ==
  /\ ~Contradicts(e)
  /\ e.type = "REFUND_FAILED"
  /\ order' = [order EXCEPT ![e.order].paymentStatus = "REVIEW"]
  /\ attempt' = AttemptAfter(e, attempt[e.order].status)
  /\ UNCHANGED <<reservation, fulfillment>>

(* A failure counts only while nothing else is known about the payment.    *)
EventFailed(e) ==
  /\ ~Contradicts(e)
  /\ e.type = "FAILED"
  /\ order[e.order].paymentStatus = "UNPAID"
  /\ reservation' = Released(e.order)
  /\ order' = [order EXCEPT ![e.order].status = "CANCELLED",
                            ![e.order].paymentStatus = "FAILED"]
  /\ attempt' = AttemptAfter(e, "FAILED")
  /\ UNCHANGED fulfillment

(* Mutant of PaymentKnown: the status alone decides.                       *)
PaymentKnownByStatus(o) ==
  order[o].paymentStatus \in {"PAID", "REFUNDED", "REFUND_PENDING"}

PaymentKnown(o) ==
  order[o].paid \/ order[o].paymentStatus \in {"PAID", "REFUNDED", "REFUND_PENDING"}

(* An old failure, or a payment already known: only the event is kept.     *)
EventIgnored(e) ==
  /\ ~Contradicts(e)
  /\ \/ e.type = "FAILED" /\ order[e.order].paymentStatus # "UNPAID"
     \/ e.type = "PAID" /\ PaymentKnown(e.order)
  /\ attempt' = AttemptAfter(e, attempt[e.order].status)
  /\ UNCHANGED <<reservation, order, fulfillment>>

(* Mutants of Confirmable: lapsed holds count; only the time counts.       *)
ConfirmableLapsed(o) ==
  /\ order[o].status = "PENDING"
  /\ \A i \in Item : Cardinality(RowUnits(o, i, "HELD")) = order[o].lines[i]

ConfirmableInTime(o) == order[o].expiresAt > now

(* The payment arrived in time and the whole order is still held where it  *)
(* can be fulfilled.                                                       *)
Confirmable(o) ==
  /\ order[o].status = "PENDING"
  /\ order[o].expiresAt > now
  /\ \A i \in Item : Cardinality(UsableUnits(o, i, "HELD")) = order[o].lines[i]

EventPaid(e) ==
  LET o == e.order
  IN /\ ~Contradicts(e)
     /\ e.type = "PAID"
     /\ ~PaymentKnown(o)
     /\ Confirmable(o)
     /\ reservation' = Confirmed(o)
     /\ order' = [order EXCEPT ![o].status = "PAID", ![o].paymentStatus = "PAID",
                               ![o].paid = TRUE]
     /\ attempt' = AttemptAfter(e, "SUCCEEDED")
     /\ fulfillment' = [fulfillment EXCEPT ![o] = "READY"]

(* A payment that came too late: the money is for a person to return.      *)
EventPaidLate(e) ==
  /\ ~Contradicts(e)
  /\ e.type = "PAID"
  /\ ~PaymentKnown(e.order)
  /\ ~Confirmable(e.order)
  /\ reservation' = Released(e.order)
  /\ order' = [order EXCEPT ![e.order].status = "CANCELLED",
                            ![e.order].paymentStatus = "REVIEW"]
  /\ attempt' = AttemptAfter(e, "REVIEW")
  /\ UNCHANGED fulfillment

EventEffect(e) ==
  \/ EventContradicts(e)
  \/ EventRefunded(e)
  \/ EventRefundFailed(e)
  \/ EventFailed(e)
  \/ EventIgnored(e)
  \/ EventPaid(e)
  \/ EventPaidLate(e)

(* A redelivered event id is answered without effect.                      *)
ApplyEvent(e) ==
  /\ attempt[e.order].status # "NONE"
  /\ e.id \notin processed
  /\ processed' = processed \cup {e.id}
  /\ EventEffect(e)
  /\ UNCHANGED <<now, balance, movement, receiving, eligible, listing, quote>>
------------------------------------------------------------------------------
ShopNext ==
  \/ \E g \in Guest, lines \in Lines, q \in Quote : RequestQuote(g, lines, q)
  \/ \E g \in Guest, k \in CheckoutKey, q, fresh \in Quote :
       CheckoutRequoted(g, k, q, fresh)
  \/ \E g \in Guest, k \in CheckoutKey, q \in Quote, o \in Order :
       Checkout(g, k, q, o)
  \/ \E o \in Order :
       \/ Expire(o) \/ CancelByGuest(o) \/ CancelByStaff(o)
       \/ Prepare(o) \/ Ship(o) \/ Deliver(o)

PaymentNext ==
  \/ \E o \in Order : PrepareSession(o) \/ SaveSession(o) \/ RequestRefund(o)
  \/ \E o \in Order, r \in RefundId : SaveRefund(o, r)
  \/ \E e \in Event : ApplyEvent(e)

OfficeNext ==
  \/ \E op \in Operation : SubmitOperation(op)
  \/ EditTree
  \/ \E i \in Item, p \in Price \cup {None} : EditListing(i, p)
  \/ PassTime

Next == ShopNext \/ PaymentNext \/ OfficeNext

Spec == Init /\ [][Next]_vars
------------------------------------------------------------------------------
(***************************************************************************)
(* Properties.                                                             *)
(***************************************************************************)

(* A paid order that has not left keeps its whole allocation, whatever     *)
(* other orders, stock operations, edits of locations and later events do. *)
PaidIsAllocated ==
  \A o \in Order : order[o].status \in {"PAID", "PREPARING"} =>
    \A i \in Item : Cardinality(RowUnits(o, i, "CONFIRMED")) = order[o].lines[i]

(* As long as a checkout is open and in time its whole cart is held.       *)
OpenIsHeld ==
  \A o \in Order : order[o].status = "PENDING" =>
    \A i \in Item : Cardinality(RowUnits(o, i, "HELD")) = order[o].lines[i]

(* A cancelled or refunded order holds no stock, so nothing keeps units    *)
(* out of the shop that nobody is going to ship.                           *)
ClosedHoldsNothing ==
  \A a \in Allocation :
    order[a[1]].status \in {"CANCELLED", "REFUNDED"} =>
      reservation[a].status \notin {"HELD", "CONFIRMED"}

(* Goods leave only for an order whose payment was confirmed in time, with *)
(* the whole order at once, and stay left: a refund restores no stock.     *)
GoodsLeavePaid ==
  \A o \in Order :
    (\E i \in Item, l \in Location : reservation[<<o, i, l>>].status = "CONSUMED") =>
      /\ order[o].paid
      /\ fulfillment[o] \in {"SHIPPED", "DELIVERED"}
      /\ order[o].status \in {"SHIPPED", "DELIVERED", "REFUNDED"}
      /\ \A i \in Item : Cardinality(RowUnits(o, i, "CONSUMED")) = order[o].lines[i]

(* The delivery request agrees with the order it was made for: it waits    *)
(* for dispatch exactly while the order does.                              *)
FulfillmentFollows ==
  \A o \in Order :
    /\ fulfillment[o] = "READY" <=> order[o].status \in {"PAID", "PREPARING"}
    /\ order[o].status = "SHIPPED" => fulfillment[o] = "SHIPPED"
    /\ order[o].status = "DELIVERED" => fulfillment[o] = "DELIVERED"

(* Retried and concurrent submissions of one checkout make one order.      *)
OneOrderPerSubmission ==
  \A o, p \in Order :
    o # p /\ order[o].status # "NONE" /\ order[p].status # "NONE" =>
      order[o].key # order[p].key /\ order[o].quote # order[p].quote

(* A guest never holds stock through more open checkouts than allowed.     *)
OpenOrdersBounded ==
  \A g \in Guest : Cardinality(OpenOrders(g)) <= PendingLimit

(* Money back is never forgotten: the refunded amount never decreases and  *)
(* an order that was refunded in full is never paid or shipped again.      *)
RefundKept ==
  [][\A o \in Order :
       /\ order'[o].refunded >= order[o].refunded
       /\ order[o].refunded = Total =>
            /\ order'[o].paymentStatus \notin {"PAID", "UNPAID", "FAILED"}
            /\ fulfillment'[o] = "SHIPPED" => fulfillment[o] = "SHIPPED"]_vars

(* A closed checkout is never revived: no event, retry or staff action     *)
(* makes a cancelled or refunded order pending, paid or shipped again.     *)
ClosedIsFinal ==
  [][\A o \in Order : order[o].status \in {"CANCELLED", "REFUNDED"} =>
       order'[o].status \in {"CANCELLED", "REFUNDED"}]_vars

(* Nobody is charged what they did not accept: an order is made from a     *)
(* quote of its own guest, at prices both quoted and still in force.       *)
AcceptedTerms ==
  [][\A o \in Order : order[o].status = "NONE" /\ order'[o].status # "NONE" =>
       LET q == order'[o].quote
       IN /\ quote[q].guest = order'[o].guest
          /\ \A i \in Item : order'[o].lines[i] > 0 =>
               listing[i] # None /\ quote[q].prices[i] = listing[i]]_vars

(* The transactions never run into a database guard: the shop implements   *)
(* the contract that module Inventory states for every holder of stock.    *)
StockContract == InventorySpec

(* A checkout that is neither paid nor cancelled does not hold its stock   *)
(* for ever: the maintenance job closes it.                                *)
AbandonedIsClosed ==
  \A o \in Order : order[o].status = "PENDING" ~> order[o].status # "PENDING"
==============================================================================
