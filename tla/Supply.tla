-------------------------------- MODULE Supply --------------------------------
(***************************************************************************)
(* Purchases and international shipments, the two sources of stock in the  *)
(* shops: a purchase line is received into a location once, a shipment     *)
(* moves its goods from Japan to France through a location of its own.     *)
(*                                                                         *)
(* A transaction locks the row of its purchase or shipment before it reads *)
(* it, and the hierarchy of locations before the merchandise: one          *)
(* transaction is one action.  A repeated request (same creation id, same  *)
(* dispatch, same receipt) changes nothing and is not a step.              *)
(***************************************************************************)
EXTENDS Places, Sequences

CONSTANTS
  StaffKey,     \* operation keys of the inventory forms
  Purchase,     \* purchases
  MaxLines,     \* bound of the model on the lines of a purchase
  Shipment,     \* shipments
  Box,          \* the dedicated transit location of each shipment
  MaxWork       \* bound of the model on the work of others (Surroundings)

VARIABLES
  purchase,     \* purchases with their lines
  shipment,     \* shipments with their lines
  work          \* how much of the work of others is done

supplyVars == <<inventoryVars, tree, purchase, shipment, work>>

PurchaseStatus ==
  {"NONE", "DRAFT", "ORDERED", "PAID", "RECEIVED_JAPAN", "CANCELLED", "REFUNDED", "OTHER"}

(* What purchases/validation.ts allows setStatus to do.                    *)
transitions ==
  [s \in PurchaseStatus |->
     CASE s = "DRAFT" -> {"ORDERED", "PAID", "CANCELLED", "OTHER"}
       [] s = "ORDERED" -> {"PAID", "CANCELLED", "OTHER"}
       [] s = "PAID" -> {"CANCELLED", "REFUNDED", "OTHER"}
       [] s = "RECEIVED_JAPAN" -> {"REFUNDED", "OTHER"}
       [] s = "OTHER" -> {"ORDERED", "PAID", "CANCELLED", "REFUNDED"}
       [] OTHER -> {}]

ShipmentStatus ==
  {"NONE", "DRAFT", "PACKING", "READY", "SHIPPED", "IN_TRANSIT", "CUSTOMS",
   "DELIVERED", "CANCELLED"}

preparationStatuses == {"DRAFT", "PACKING", "READY"}
Afloat == {"SHIPPED", "IN_TRANSIT", "CUSTOMS"}

(* What shipments/validation.ts allows setStatus to do.                    *)
statusTransitions ==
  [s \in ShipmentStatus |->
     CASE s = "DRAFT" -> {"PACKING", "READY", "CANCELLED"}
       [] s = "PACKING" -> {"DRAFT", "READY", "CANCELLED"}
       [] s = "READY" -> {"PACKING", "CANCELLED"}
       [] s = "SHIPPED" -> {"IN_TRANSIT", "CUSTOMS"}
       [] s = "IN_TRANSIT" -> {"CUSTOMS"}
       [] s = "CUSTOMS" -> {"IN_TRANSIT"}
       [] OTHER -> {}]

(* A line remembers where it was received and the country of that place.   *)
NewLine(i, q) == [item |-> i, quantity |-> q, at |-> NoLocation, country |-> NoCountry]

Line ==
  [item : Item, quantity : 1..MaxStock, at : Location \cup {NoLocation},
   country : Country \cup {NoCountry}]

Lines == UNION {[1..n -> {NewLine(i, q) : i \in Item, q \in Quantity}] : n \in 1..MaxLines}

Cargo == [Item -> 0..MaxStock]
Empty == [i \in Item |-> 0]

NoPurchase == [status |-> "NONE", lines |-> <<>>]
NoShipment ==
  [status |-> "NONE", origin |-> NoLocation, destination |-> NoLocation,
   group |-> NoLocation, cargo |-> Empty]

(* The operation key derived from a line.                                  *)
ReceiveKey(p, n) == <<"receive", p, n>>

SupplyKeys ==
  ({"receive"} \X Purchase \X (1..MaxLines)) \cup ({"ship", "deliver"} \X Shipment \X Item)

SupplyAssumption ==
  /\ StaffKey \cup SupplyKeys \subseteq Key
  /\ StaffKey \cap SupplyKeys = {}
  /\ {MaxLines, MaxWork} \subseteq Nat
  /\ Box \in [Shipment -> Location]
  /\ \A s, r \in Shipment : Box[s] = Box[r] => s = r
  /\ \A s \in Shipment : ~Layout[Box[s]].known
  /\ {"JP", "FR"} \subseteq Country

ASSUME SupplyAssumption

Received(line) == line.at # NoLocation

Receipt(p, n) ==
  [key |-> ReceiveKey(p, n), item |-> purchase[p].lines[n].item,
   route |-> <<NoLocation, purchase[p].lines[n].at>>,
   quantity |-> purchase[p].lines[n].quantity]

SupplyTypeOK ==
  /\ PlacesTypeOK
  /\ \A p \in Purchase :
       /\ purchase[p].status \in PurchaseStatus
       /\ \A n \in DOMAIN purchase[p].lines : purchase[p].lines[n] \in Line
  /\ shipment \in
       [Shipment -> [status : ShipmentStatus, origin : Location \cup {NoLocation},
                     destination : Location \cup {NoLocation},
                     group : Location \cup {NoLocation}, cargo : Cargo]]
------------------------------------------------------------------------------
(***************************************************************************)
(* Several operations of one transaction, each under its own key.  All     *)
(* have the same source and the same destination.                          *)
(***************************************************************************)
Entering(ops, i, l) ==
  Cardinality({u \in ops \X (1..MaxStock) :
                 u[1].item = i /\ u[1].route[2] = l /\ u[2] <= u[1].quantity})

Leaving(ops, i, l) ==
  Cardinality({u \in ops \X (1..MaxStock) :
                 u[1].item = i /\ u[1].route[1] = l /\ u[2] <= u[1].quantity})

(* Mutant of Covered: what is reserved at the source is not counted.       *)
CoveredByBalance(ops) ==
  \A i \in Item, l \in Location : balance[<<i, l>>] >= Leaving(ops, i, l)

Covered(ops) ==
  \A i \in Item, l \in Location : Leaving(ops, i, l) > 0 =>
    balance[<<i, l>>] >= Leaving(ops, i, l) + ReservedAt(i, l)

ApplyAll(ops, open) ==
  /\ \A op \in ops : ~Replayed(op)
  /\ \A op \in ops : op.route[2] \in Location => op.route[2] \in open
  /\ \A i \in Item, l \in Location : balance[<<i, l>>] + Entering(ops, i, l) <= MaxStock
  /\ Covered(ops)
  /\ balance' = [s \in Slot |->
       balance[s] + Entering(ops, s[1], s[2]) - Leaving(ops, s[1], s[2])]
  /\ movement' = movement \cup ops
------------------------------------------------------------------------------
(***************************************************************************)
(* Purchases.                                                              *)
(***************************************************************************)
CreatePurchase(p) ==
  /\ purchase[p].status = "NONE"
  /\ \E lines \in Lines, status \in {"DRAFT", "ORDERED", "PAID", "OTHER"} :
       purchase' = [purchase EXCEPT ![p] = [status |-> status, lines |-> lines]]
  /\ UNCHANGED <<inventoryVars, tree, shipment, work>>

UpdateDraft(p) ==
  /\ purchase[p].status = "DRAFT"
  /\ \A n \in DOMAIN purchase[p].lines : ~Received(purchase[p].lines[n])
  /\ \E lines \in Lines, status \in {"DRAFT", "ORDERED", "PAID", "OTHER"} :
       purchase' = [purchase EXCEPT ![p] = [status |-> status, lines |-> lines]]
  /\ UNCHANGED <<inventoryVars, tree, shipment, work>>

(* Mutant of SetPurchaseStatus: a received purchase may be cancelled.      *)
SetAnyPurchaseStatus(p, status) ==
  /\ status \in transitions[purchase[p].status]
  /\ purchase' = [purchase EXCEPT ![p].status = status]
  /\ UNCHANGED <<inventoryVars, tree, shipment, work>>

SetPurchaseStatus(p, status) ==
  /\ status \in transitions[purchase[p].status]
  /\ status = "CANCELLED" =>
       \A n \in DOMAIN purchase[p].lines : ~Received(purchase[p].lines[n])
  /\ purchase' = [purchase EXCEPT ![p].status = status]
  /\ UNCHANGED <<inventoryVars, tree, shipment, work>>

(* Mutant of StatusAfterReceipt: lines received elsewhere are forgotten.   *)
StatusAfterAnyReceipt(status, lines) ==
  IF \A n \in DOMAIN lines : Received(lines[n]) THEN "RECEIVED_JAPAN" ELSE status

StatusAfterReceipt(status, lines) ==
  IF \A n \in DOMAIN lines : Received(lines[n]) /\ lines[n].country = "JP"
  THEN "RECEIVED_JAPAN" ELSE status

(* receive: the selected lines that are still expected go to destination;  *)
(* one that was received elsewhere refuses the whole receipt.              *)
Receive(p, selected, destination) ==
  LET lines == purchase[p].lines
      new == {n \in selected : ~Received(lines[n])}
      received == [n \in DOMAIN lines |->
        IF n \in new
        THEN [lines[n] EXCEPT !.at = destination, !.country = CountryOf(tree, destination)]
        ELSE lines[n]]
      ops == {[key |-> ReceiveKey(p, n), item |-> lines[n].item,
               route |-> <<NoLocation, destination>>, quantity |-> lines[n].quantity] :
                 n \in new}
  IN /\ purchase[p].status \notin {"NONE", "DRAFT", "CANCELLED", "REFUNDED"}
     /\ tree[destination].known
     /\ new # {}
     /\ \A n \in selected \ new : lines[n].at = destination
     /\ ApplyAll(ops, receiving)
     /\ purchase' = [purchase EXCEPT ![p] =
          [status |-> StatusAfterReceipt(purchase[p].status, received), lines |-> received]]
     /\ UNCHANGED <<now, reservation, receiving, tree, shipment, work>>
------------------------------------------------------------------------------
(***************************************************************************)
(* Shipments.                                                              *)
(***************************************************************************)

(* validateRoute: from an open place in Japan over an open transit group   *)
(* to an open place in France.  A place in transit has no country.         *)
Origins == {l \in receiving : CountryOf(tree, l) = "JP"}
Destinations == {l \in receiving : CountryOf(tree, l) = "FR"}
Groups == {l \in receiving : Transit(tree, l)}

ValidRoute(s) ==
  /\ shipment[s].origin \in Origins
  /\ shipment[s].destination \in Destinations
  /\ shipment[s].group \in Groups

(* validateStock: the balance of the origin covers it, reserved or not.    *)
ValidStock(origin, cargo) == \A i \in Item : balance[<<i, origin>>] >= cargo[i]

(* create, and update before dispatch; afterwards update may only change   *)
(* what is no part of the route or the contents.                           *)
SaveShipment(s) ==
  /\ shipment[s].status \in {"NONE"} \cup preparationStatuses
  /\ \E origin \in Origins, destination \in Destinations, group \in Groups,
        cargo \in Cargo \ {Empty} :
       /\ ValidStock(origin, cargo)
       /\ shipment' = [shipment EXCEPT ![s] =
            [status |-> IF shipment[s].status = "NONE" THEN "DRAFT" ELSE shipment[s].status,
             origin |-> origin, destination |-> destination, group |-> group,
             cargo |-> cargo]]
  /\ UNCHANGED <<inventoryVars, tree, purchase, work>>

SetShipmentStatus(s, status) ==
  /\ status \in statusTransitions[shipment[s].status]
  /\ shipment' = [shipment EXCEPT ![s].status = status]
  /\ UNCHANGED <<inventoryVars, tree, purchase, work>>

(* The transfers of one leg of a shipment.                                 *)
Legs(s, leg, source, destination) ==
  {[key |-> <<leg, s, i>>, item |-> i, route |-> <<source, destination>>,
    quantity |-> shipment[s].cargo[i]] : i \in {j \in Item : shipment[s].cargo[j] > 0}}

(* Mutant of DispatchLegs: the first item only.                            *)
DispatchOneLeg(s) ==
  {CHOOSE op \in Legs(s, "ship", shipment[s].origin, Box[s]) : TRUE}

DispatchLegs(s) == Legs(s, "ship", shipment[s].origin, Box[s])

(* ship: a dedicated location is made below the transit group.             *)
ShipShipment(s) ==
  /\ shipment[s].status \in preparationStatuses
  /\ ValidRoute(s)
  /\ ~tree[Box[s]].known
  /\ SavePlace(Box[s], shipment[s].group,
               [transit |-> TRUE, country |-> NoCountry, open |-> TRUE])
  /\ ApplyAll(DispatchLegs(s), receiving')
  /\ shipment' = [shipment EXCEPT ![s].status = "SHIPPED"]
  /\ UNCHANGED <<now, reservation, purchase, work>>

(* deliver: to an open place in France, which the route did not use before *)
(* (shipment_values_valid).                                                *)
DeliverShipment(s, destination) ==
  /\ shipment[s].status \in Afloat
  /\ destination \in Destinations \ {shipment[s].origin, shipment[s].group}
  /\ Transit(tree, Box[s])
  /\ ApplyAll(Legs(s, "deliver", Box[s], destination), receiving)
  /\ shipment' = [shipment EXCEPT ![s].status = "DELIVERED", ![s].destination = destination]
  /\ UNCHANGED <<now, reservation, receiving, tree, purchase, work>>
------------------------------------------------------------------------------
(* The rest of the application: staff work on stock, holders of stock, the *)
(* clock, or one edit of the tree instead.  A dedicated location is only   *)
(* made by ShipShipment.                                                   *)
Surroundings ==
  /\ \/ /\ work < MaxWork
        /\ work' = work + 1
        /\ \/ \E op \in Operation : op.key \in StaffKey /\ ApplyInventoryOperation(op)
           \/ Tick
           \/ \E h \in Holder : Hold(h) \/ Confirm(h) \/ Release(h) \/ Consume(h)
        /\ UNCHANGED tree
     \/ /\ work = 0
        /\ work' = MaxWork
        /\ \E l \in Location, parent \in Location \cup {NoLocation} :
             /\ l \in {Box[s] : s \in Shipment} => tree[l].known
             /\ EditPlace(l, parent)
  /\ UNCHANGED <<purchase, shipment>>

SupplyInit ==
  /\ PlacesInit
  /\ purchase = [p \in Purchase |-> NoPurchase]
  /\ shipment = [s \in Shipment |-> NoShipment]
  /\ work = 0

SupplyNext ==
  \/ Surroundings
  \/ \E p \in Purchase :
       \/ CreatePurchase(p)
       \/ UpdateDraft(p)
       \/ \E status \in PurchaseStatus : SetPurchaseStatus(p, status)
       \/ \E selected \in SUBSET (DOMAIN purchase[p].lines), destination \in Location :
            Receive(p, selected, destination)
  \/ \E s \in Shipment :
       \/ SaveShipment(s)
       \/ \E status \in ShipmentStatus : SetShipmentStatus(s, status)
       \/ ShipShipment(s)
       \/ \E destination \in Location : DeliverShipment(s, destination)

SupplySpec == SupplyInit /\ [][SupplyNext]_supplyVars
------------------------------------------------------------------------------
(***************************************************************************)
(* Properties.                                                             *)
(***************************************************************************)

(* What a purchase says of its receipts is what the ledger says: a line is *)
(* received exactly when its one movement is there, with the same item,    *)
(* quantity and place; nothing received is a draft or cancelled, and a     *)
(* purchase is received in Japan only when every line of it was (receive,  *)
(* setStatus, protect_purchase_receipt).                                   *)
ReceiptsAreBooked ==
  \A p \in Purchase :
    LET lines == purchase[p].lines
    IN /\ {m \in movement : m.key \in {"receive"} \X {p} \X (1..MaxLines)}
            = {Receipt(p, n) : n \in {k \in DOMAIN lines : Received(lines[k])}}
       /\ purchase[p].status \in {"DRAFT", "CANCELLED"} =>
            \A n \in DOMAIN lines : ~Received(lines[n])
       /\ purchase[p].status = "RECEIVED_JAPAN" =>
            \A n \in DOMAIN lines : lines[n].country = "JP"

(* What the ledger has booked for a leg of a shipment, item by item.       *)
Carried(leg) ==
  [s \in Shipment |-> [i \in Item |->
     Cardinality({u \in movement \X (1..MaxStock) :
                    u[1].key = <<leg, s, i>> /\ u[1].item = i /\ u[2] <= u[1].quantity})]]

Stage ==
  [s \in Shipment |->
     CASE shipment[s].status = "NONE" -> "none"
       [] shipment[s].status \in preparationStatuses -> "packing"
       [] shipment[s].status \in Afloat -> "away"
       [] shipment[s].status = "DELIVERED" -> "home"
       [] OTHER -> "abandoned"]

Promise == INSTANCE Consignment WITH
  stage <- Stage,
  cargo <- [s \in Shipment |-> shipment[s].cargo],
  sent <- Carried("ship"),
  arrived <- Carried("deliver")

(* A shipment keeps its promise, read from the ledger: its goods leave and *)
(* arrive together, whole and once, and never after it was cancelled.      *)
ConsignmentContract == Promise!ConsignmentSpec
==============================================================================
