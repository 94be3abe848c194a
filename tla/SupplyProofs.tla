----------------------------- MODULE SupplyProofs -----------------------------
(***************************************************************************)
(* Theorems about what comes into stock: the tree of locations (module     *)
(* Places), purchases and shipments (module Supply) with the promise of a  *)
(* shipment (module Consignment), the pages that show staff what they      *)
(* moved (modules BulkStock and StockForms), and the lists they page       *)
(* through (module Browse).                                                *)
(***************************************************************************)
EXTENDS Supply, StockForms, Entry, Browse, InventoryProofs, SequenceTheorems

------------------------------------------------------------------------------
(***************************************************************************)
(* The tree of locations, for any tree t.                                  *)
(***************************************************************************)
Tree == [Location -> Place]

(* What is above a location is closed under parents and the least such set.*)
LEMMA AboveIsLeast ==
  ASSUME NEW t \in Tree, NEW l \in Location
  PROVE  /\ Above(t, l) \subseteq Location
         /\ (\A m \in Location : t[m].parent \in Location \cup {NoLocation})
         /\ l \in Above(t, l)
         /\ \A m \in Above(t, l) : t[m].parent \in Location => t[m].parent \in Above(t, l)
         /\ \A S \in SUBSET Location :
              l \in S /\ (\A m \in S : t[m].parent \in Location => t[m].parent \in S)
                => Above(t, l) \subseteq S
<1> DEFINE closed == {S \in SUBSET Location :
                        l \in S /\ \A m \in S : t[m].parent = NoLocation \/ t[m].parent \in S}
<1>1. Above(t, l) = {a \in Location : \A S \in closed : a \in S}
  BY DEF Above
<1>2. \A m \in Location : t[m].parent \in Location \cup {NoLocation}
  BY DEF Tree, Place
<1>3. \A S \in SUBSET Location :
        S \in closed <=>
          l \in S /\ \A m \in S : t[m].parent \in Location => t[m].parent \in S
  BY <1>2, InventoryAssumption
<1> HIDE DEF closed
<1>4. ASSUME NEW m \in Above(t, l), t[m].parent \in Location
      PROVE  t[m].parent \in Above(t, l)
  <2>1. ASSUME NEW S \in closed PROVE t[m].parent \in S
    BY <1>1, <1>3, <1>4, <2>1 DEF closed
  <2> QED
    BY <1>1, <1>4, <2>1
<1>5. l \in Above(t, l)
  BY <1>1 DEF closed
<1> QED
  BY <1>1, <1>2, <1>3, <1>4, <1>5

(* A location is above itself, and so is what is above its parent.         *)
LEMMA AboveByParent ==
  ASSUME NEW t \in Tree, NEW l \in Location
  PROVE  /\ t[l].parent = NoLocation => Above(t, l) = {l}
         /\ t[l].parent \in Location => Above(t, l) = {l} \cup Above(t, t[l].parent)
<1>1. CASE t[l].parent = NoLocation
  <2> DEFINE S == {l}
  <2>1. S \in SUBSET Location /\ l \in S /\ \A m \in S : t[m].parent \notin Location
    BY <1>1, InventoryAssumption
  <2>2. Above(t, l) \subseteq S
    <3> HIDE DEF S
    <3> QED
      BY <2>1, AboveIsLeast
  <2> QED
    BY <1>1, <2>2, AboveIsLeast, InventoryAssumption
<1>2. CASE t[l].parent \in Location
  <2> DEFINE p == t[l].parent
             up == {l} \cup Above(t, p)
  <2>1. /\ Above(t, p) \subseteq Location /\ p \in Above(t, p)
        /\ \A m \in Above(t, p) : t[m].parent \in Location => t[m].parent \in Above(t, p)
    BY <1>2, AboveIsLeast
  <2>2. Above(t, l) \subseteq up
    <3>1. up \in SUBSET Location /\ l \in up
      BY <2>1
    <3>2. \A m \in up : t[m].parent \in Location => t[m].parent \in up
      BY <2>1
    <3> HIDE DEF up
    <3> QED
      BY <3>1, <3>2, AboveIsLeast
  <2>3. p \in Above(t, l) /\ l \in Above(t, l) /\ Above(t, l) \in SUBSET Location
    BY <1>2, AboveIsLeast
  <2>4. Above(t, p) \subseteq Above(t, l)
    <3>1. \A m \in Above(t, l) : t[m].parent \in Location => t[m].parent \in Above(t, l)
      BY AboveIsLeast
    <3> HIDE DEF p
    <3> QED
      BY <1>2, <2>3, <3>1, AboveIsLeast DEF p
  <2> QED
    BY <1>2, <2>2, <2>3, <2>4, InventoryAssumption
<1> QED
  BY <1>1, <1>2

(* The nearest ancestor with a property: below it none of them, so that    *)
(* all of them are above it.                                               *)
LEMMA NearestAbove ==
  ASSUME NEW t \in Tree, Acyclic(t), NEW l \in Location,
         NEW named \in SUBSET Above(t, l), named # {}
  PROVE  \E a \in named : named \subseteq Above(t, a)
<1> SUFFICES ASSUME \A a \in named : ~(named \subseteq Above(t, a))
             PROVE  FALSE
  OBVIOUS
<1> DEFINE below == {x \in Location : named \subseteq Above(t, x)}
<1>1. l \in below
  OBVIOUS
<1>2. ASSUME NEW x \in below PROVE t[x].parent \in below
  <2>1. x \in Location /\ named \subseteq Above(t, x) /\ x \notin named
    OBVIOUS
  <2>2. t[x].parent \in Location \cup {NoLocation}
    BY <2>1, AboveIsLeast
  <2>3. CASE t[x].parent = NoLocation
    BY <2>1, <2>3, AboveByParent
  <2>4. CASE t[x].parent \in Location
    BY <2>1, <2>4, AboveByParent
  <2> QED
    BY <2>2, <2>3, <2>4
<1>3. below \in SUBSET Location
  OBVIOUS
<1> HIDE DEF below
<1> QED
  BY <1>1, <1>2, <1>3 DEF Acyclic

(* The country of a location in a forest is a country or none.             *)
LEMMA CountryTyped ==
  ASSUME NEW t \in Tree, Acyclic(t), NEW l \in Location
  PROVE  CountryOf(t, l) \in Country \cup {NoCountry}
<1> DEFINE above == Above(t, l)
           named == {a \in above : t[a].setting.country # NoCountry}
           nearest == CHOOSE a \in named : named \subseteq Above(t, a)
<1>1. above \subseteq Location
  BY AboveIsLeast
<1>2. \A a \in above : t[a].setting.country \in Country \cup {NoCountry}
  BY <1>1 DEF Tree, Place, Setting
<1>3. ASSUME named # {} PROVE nearest \in named
  <2>1. named \in SUBSET Above(t, l)
    OBVIOUS
  <2> HIDE DEF named
  <2>2. \E a \in named : named \subseteq Above(t, a)
    BY <1>3, <2>1, NearestAbove
  <2> QED
    BY <2>2
<1>4. CountryOf(t, l) = IF named = {} \/ \E a \in above : t[a].setting.transit THEN NoCountry
                        ELSE t[nearest].setting.country
  BY DEF CountryOf
<1> HIDE DEF nearest
<1> QED
  BY <1>2, <1>3, <1>4

(* Giving a location a parent that is not below it keeps the forest.       *)
LEMMA MovedBelow ==
  ASSUME NEW t \in Tree, Acyclic(t), NEW l \in Location,
         NEW parent \in Location \cup {NoLocation},
         parent \in Location => l \notin Above(t, parent),
         NEW u \in Tree, u[l].parent = parent,
         \A m \in Location \ {l} : u[m].parent = t[m].parent
  PROVE  Acyclic(u)
<1> SUFFICES ASSUME NEW S \in SUBSET Location, S # {}, \A m \in S : u[m].parent \in S
             PROVE  FALSE
  BY DEF Acyclic
<1>1. CASE l \notin S
  <2>1. \A m \in S : t[m].parent \in S
    BY <1>1
  <2> QED
    BY <2>1 DEF Acyclic
<1>2. CASE l \in S
  <2> DEFINE T == Above(t, parent) \cap S
  <2>1. parent \in S /\ parent \in Location
    BY <1>2
  <2>2. /\ parent \in Above(t, parent)
        /\ \A m \in Above(t, parent) : t[m].parent \in Location => t[m].parent \in Above(t, parent)
    BY <2>1, AboveIsLeast
  <2>3. \A m \in T : t[m].parent \in T
    BY <2>1, <2>2
  <2>4. T # {} /\ T \in SUBSET Location
    BY <2>1, <2>2
  <2> HIDE DEF T
  <2> QED
    BY <2>3, <2>4 DEF Acyclic
<1> QED
  BY <1>1, <1>2

Forest == tree \in Tree /\ TreeIsAcyclic

(* Saving and moving a location keeps the forest.                          *)
LEMMA PlaceSaved ==
  ASSUME Forest, NEW l \in Location, NEW parent \in Location \cup {NoLocation},
         NEW place \in Place, place.parent = parent, ValidParent(l, parent), Rewrite(l, place)
  PROVE  Forest' /\ receiving' \subseteq Location
<1>1. tree' = [tree EXCEPT ![l] = place] /\ tree' \in Tree
  BY DEF Forest, Rewrite, Tree
<1>2. tree'[l].parent = parent /\ \A m \in Location \ {l} : tree'[m].parent = tree[m].parent
  BY <1>1 DEF Forest, Tree
<1>3. Acyclic(tree')
  <2>1. tree \in Tree /\ Acyclic(tree)
    BY DEF Forest, TreeIsAcyclic
  <2>2. parent \in Location => l \notin Above(tree, parent)
    BY DEF ValidParent
  <2> QED
    BY <1>1, <1>2, <2>1, <2>2, MovedBelow, ZenonT(40)
<1> QED
  BY <1>1, <1>3 DEF Forest, TreeIsAcyclic, Rewrite, Open

(* An edit of the tree keeps the forest and is an edit of the places that  *)
(* receive stock.                                                          *)
LEMMA PlaceEdited ==
  ASSUME Forest, NEW l \in Location, NEW parent \in Location \cup {NoLocation},
         EditPlace(l, parent)
  PROVE  Forest' /\ EditLocations
<1>1. CASE Reparent(l, parent)
  <2>1. tree[l] \in Place
    BY DEF Forest, Tree
  <2>2. /\ [tree[l] EXCEPT !.parent = parent] \in Place
        /\ [tree[l] EXCEPT !.parent = parent].parent = parent
    BY <2>1 DEF Place
  <2> QED
    BY <1>1, <2>2, PlaceSaved DEF Reparent, EditPlace, EditLocations
<1>2. ASSUME NEW setting \in Settings, SavePlace(l, parent, setting)
      PROVE  Forest' /\ EditLocations
  <2>1. [known |-> TRUE, parent |-> parent, setting |-> setting] \in Place
    BY PlacesAssumption DEF PlacesAssumption, Place
  <2> QED
    BY <1>2, <2>1, PlaceSaved DEF SavePlace, EditPlace, EditLocations
<1> QED
  BY <1>1, <1>2 DEF EditPlace
------------------------------------------------------------------------------
(***************************************************************************)
(* The ledger under several operations of one transaction.                 *)
(***************************************************************************)

(* The operations of a transaction, one per key and none under the key of  *)
(* an allocation.                                                          *)
Batch(ops) ==
  /\ IsFiniteSet(ops)
  /\ ops \subseteq Movement
  /\ \A op \in ops : op.key \notin Allocation
  /\ \A op, other \in ops : op.key = other.key => op = other

StoreInv == LedgerInv /\ StockBacked

(* What they bring and take is counted.                                    *)
LEMMA BatchCounts ==
  ASSUME NEW ops, Batch(ops), NEW i \in Item, NEW l \in Location
  PROVE  Entering(ops, i, l) \in Nat /\ Leaving(ops, i, l) \in Nat
<1> DEFINE enter == {u \in ops \X (1..MaxStock) :
                       u[1].item = i /\ u[1].route[2] = l /\ u[2] <= u[1].quantity}
           leave == {u \in ops \X (1..MaxStock) :
                       u[1].item = i /\ u[1].route[1] = l /\ u[2] <= u[1].quantity}
<1>1. enter \in SUBSET (ops \X (1..MaxStock)) /\ leave \in SUBSET (ops \X (1..MaxStock))
  OBVIOUS
<1>2. Entering(ops, i, l) = Cardinality(enter) /\ Leaving(ops, i, l) = Cardinality(leave)
  BY DEF Entering, Leaving
<1> HIDE DEF enter, leave
<1> QED
  BY <1>1, <1>2, MovedUnitsAreFinite DEF Batch

(* The balances after a transaction are numbers of the column.             *)
LEMMA BatchBalances ==
  ASSUME StoreInv, NEW ops, Batch(ops), NEW open, ApplyAll(ops, open),
         NEW i \in Item, NEW l \in Location
  PROVE  /\ balance'[<<i, l>>] = balance[<<i, l>>] + Entering(ops, i, l) - Leaving(ops, i, l)
         /\ balance'[<<i, l>>] \in 0..MaxStock
         /\ ReservedAt(i, l) <= balance'[<<i, l>>]
<1>1. <<i, l>> \in Slot
  BY DEF Slot
<1>2. balance[<<i, l>>] \in 0..MaxStock /\ MaxStock \in Nat
  BY <1>1, InventoryAssumption DEF StoreInv, LedgerInv, RecordInv, TypeInv, InventoryTypeOK
<1>3. balance'[<<i, l>>] = balance[<<i, l>>] + Entering(ops, i, l) - Leaving(ops, i, l)
  BY <1>1 DEF ApplyAll
<1>4. Entering(ops, i, l) \in Nat /\ Leaving(ops, i, l) \in Nat /\ ReservedAt(i, l) \in Nat
  BY BatchCounts, ReservedAtIsNat
<1>5. /\ balance[<<i, l>>] + Entering(ops, i, l) <= MaxStock
      /\ Leaving(ops, i, l) > 0 => balance[<<i, l>>] >= Leaving(ops, i, l) + ReservedAt(i, l)
  BY DEF ApplyAll, Covered
<1>6. ReservedAt(i, l) <= balance[<<i, l>>]
  BY DEF StoreInv, StockBacked
<1> QED
  BY <1>2, <1>3, <1>4, <1>5, <1>6

(* A transaction of several operations keeps everything that is true of    *)
(* the ledger, the balances and the reservations.                          *)
LEMMA BatchApplied ==
  ASSUME StoreInv, NEW ops, Batch(ops), NEW open, ApplyAll(ops, open),
         now' = now, reservation' = reservation, receiving' \subseteq Location
  PROVE  StoreInv'
<1>1. movement' = movement \cup ops /\ \A op \in ops, m \in movement : m.key # op.key
  BY DEF ApplyAll, Replayed
<1>2. TypeInv'
  <2>1. balance' \in [Slot -> 0..MaxStock]
    <3>1. \A s \in Slot : s = <<s[1], s[2]>> /\ s[1] \in Item /\ s[2] \in Location
      BY DEF Slot
    <3>2. balance' = [s \in Slot |-> balance'[s]]
      BY DEF ApplyAll
    <3>3. \A s \in Slot : balance'[s] \in 0..MaxStock
      BY <3>1, BatchBalances
    <3> QED
      BY <3>2, <3>3
  <2> QED
    BY <1>1, <2>1 DEF StoreInv, LedgerInv, RecordInv, TypeInv, InventoryTypeOK, RowsReserve, Batch
<1>3. RecordInv'
  <2>1. IsFiniteSet(movement')
    BY <1>1, FS_Union DEF StoreInv, LedgerInv, RecordInv, Batch
  <2>2. OneMovementPerKey'
    BY <1>1 DEF StoreInv, LedgerInv, RecordInv, OneMovementPerKey, Batch
  <2>3. \A a : Sale(a)' = Sale(a)
    BY DEF Sale
  <2>4. ConsumedHasSale' /\ SalesOnRecord'
    BY <1>1, <2>3 DEF StoreInv, LedgerInv, RecordInv, ConsumedHasSale, SalesOnRecord, Batch
  <2> QED
    BY <1>2, <2>1, <2>2, <2>4 DEF RecordInv
<1>4. ASSUME NEW i \in Item, NEW l \in Location
      PROVE  /\ ReservedAt(i, l)' <= balance'[<<i, l>>]
             /\ balance'[<<i, l>>] + Cardinality(UnitsOut(i, l)') = Cardinality(UnitsIn(i, l)')
  <2> DEFINE enter == {u \in ops \X (1..MaxStock) :
                         u[1].item = i /\ u[1].route[2] = l /\ u[2] <= u[1].quantity}
             leave == {u \in ops \X (1..MaxStock) :
                         u[1].item = i /\ u[1].route[1] = l /\ u[2] <= u[1].quantity}
             ins == UnitsIn(i, l)
             outs == UnitsOut(i, l)
  <2>1. /\ balance'[<<i, l>>] = balance[<<i, l>>] + Entering(ops, i, l) - Leaving(ops, i, l)
        /\ ReservedAt(i, l) <= balance'[<<i, l>>]
    BY BatchBalances
  <2>2. ReservedAt(i, l)' = ReservedAt(i, l)
    BY DEF ReservedAt, ReservedUnits, Active
  <2>3. ins' = ins \cup enter /\ outs' = outs \cup leave
    BY <1>1 DEF UnitsIn, UnitsOut
  <2>4. ins \cap enter = {} /\ outs \cap leave = {}
    BY <1>1 DEF UnitsIn, UnitsOut
  <2>5. Entering(ops, i, l) = Cardinality(enter) /\ Leaving(ops, i, l) = Cardinality(leave)
    BY DEF Entering, Leaving
  <2>6. /\ enter \in SUBSET (ops \X (1..MaxStock)) /\ leave \in SUBSET (ops \X (1..MaxStock))
        /\ ins \in SUBSET (movement \X (1..MaxStock)) /\ outs \in SUBSET (movement \X (1..MaxStock))
    BY DEF UnitsIn, UnitsOut
  <2>7. <<i, l>> \in Slot /\ balance[<<i, l>>] \in Nat
        /\ balance[<<i, l>>] + Cardinality(outs) = Cardinality(ins)
    BY InventoryAssumption
       DEF StoreInv, LedgerInv, LedgerReconciles, RecordInv, TypeInv, InventoryTypeOK, Slot
  <2> HIDE DEF enter, leave, ins, outs
  <2>8. /\ IsFiniteSet(enter) /\ Cardinality(enter) \in Nat
        /\ IsFiniteSet(leave) /\ Cardinality(leave) \in Nat
    BY <2>6, MovedUnitsAreFinite DEF Batch
  <2>9. /\ IsFiniteSet(ins) /\ Cardinality(ins) \in Nat
        /\ IsFiniteSet(outs) /\ Cardinality(outs) \in Nat
    BY <2>6, MovedUnitsAreFinite DEF StoreInv, LedgerInv, RecordInv
  <2>a. Cardinality(ins \cap enter) = 0 /\ Cardinality(outs \cap leave) = 0
    BY <2>4, FS_EmptySet
  <2>10. Cardinality(ins \cup enter) = Cardinality(ins) + Cardinality(enter)
    <3>1. Cardinality(ins \cup enter)
            = Cardinality(ins) + Cardinality(enter) - Cardinality(ins \cap enter)
      BY <2>8, <2>9, FS_Union
    <3> QED
      BY <2>a, <2>8, <2>9, <3>1
  <2>11. Cardinality(outs \cup leave) = Cardinality(outs) + Cardinality(leave)
    <3>1. Cardinality(outs \cup leave)
            = Cardinality(outs) + Cardinality(leave) - Cardinality(outs \cap leave)
      BY <2>8, <2>9, FS_Union
    <3> QED
      BY <2>a, <2>8, <2>9, <3>1
  <2>12. balance'[<<i, l>>] + Cardinality(outs') = Cardinality(ins')
    BY <2>1, <2>3, <2>5, <2>7, <2>8, <2>9, <2>10, <2>11
  <2> QED
    BY <2>1, <2>2, <2>12 DEF ins, outs
<1> QED
  BY <1>3, <1>4 DEF StoreInv, LedgerInv, LedgerReconciles, StockBacked

(* A step of the inventory keeps it too.                                   *)
LEMMA StoreStep == StoreInv /\ [InventoryNext]_inventoryVars => StoreInv'
<1>1. StoreInv => StockInv
  BY DEF StoreInv, LedgerInv, RecordInv, StockInv
<1> QED
  BY <1>1, LedgerInvStep, StockInvStep DEF StoreInv, StockInv

(* A database with no stock is in order, wherever it may receive.          *)
LEMMA StoreStart ==
  ASSUME now = 0, balance = [s \in Slot |-> 0], movement = {},
         reservation = [a \in Allocation |-> NoReservation], receiving \subseteq Location
  PROVE  StoreInv
<1>1. TypeInv
  BY InventoryAssumption DEF TypeInv, InventoryTypeOK, RowsReserve, Reservation,
     ReservationStatus, NoReservation
<1>2. RecordInv
  BY <1>1, FS_EmptySet
     DEF RecordInv, OneMovementPerKey, ConsumedHasSale, SalesOnRecord, NoReservation
<1>3. ASSUME NEW i \in Item, NEW l \in Location
      PROVE  /\ balance[<<i, l>>] + Cardinality(UnitsOut(i, l)) = Cardinality(UnitsIn(i, l))
             /\ ReservedAt(i, l) <= balance[<<i, l>>]
  <2>1. UnitsIn(i, l) = {} /\ UnitsOut(i, l) = {}
    BY DEF UnitsIn, UnitsOut
  <2>2. balance[<<i, l>>] = 0
    BY DEF Slot
  <2>3. ReservedUnits(Holder, i, l) = {}
    BY DEF ReservedUnits, Active, NoReservation, Allocation
  <2>4. /\ Cardinality(UnitsIn(i, l)) = 0 /\ Cardinality(UnitsOut(i, l)) = 0
        /\ ReservedAt(i, l) = 0
    BY <2>1, <2>3, FS_EmptySet DEF ReservedAt
  <2> QED
    BY <2>2, <2>4
<1> QED
  BY <1>2, <1>3 DEF StoreInv, LedgerInv, LedgerReconciles, StockBacked
------------------------------------------------------------------------------
(***************************************************************************)
(* Purchases and shipments.                                                *)
(***************************************************************************)
LineList == UNION {[1..n -> Line] : n \in 0..MaxLines}

PurchaseRow == [status : PurchaseStatus, lines : LineList]

ShipmentRow ==
  [status : ShipmentStatus, origin : Location \cup {NoLocation},
   destination : Location \cup {NoLocation}, group : Location \cup {NoLocation}, cargo : Cargo]

RowsTyped == purchase \in [Purchase -> PurchaseRow] /\ shipment \in [Shipment -> ShipmentRow]

(* Nothing is known of a line before it is received, and a purchase that   *)
(* was not made has no lines.                                              *)
Expected ==
  \A p \in Purchase :
    /\ purchase[p].status = "NONE" => purchase[p].lines = <<>>
    /\ \A n \in DOMAIN purchase[p].lines :
         ~Received(purchase[p].lines[n]) => purchase[p].lines[n].country = NoCountry

Unbooked(leg, s) == \A m \in movement, i \in Item : m.key # <<leg, s, i>>

Booked(leg, s) ==
  \A i \in Item :
    IF shipment[s].cargo[i] = 0 THEN \A m \in movement : m.key # <<leg, s, i>>
    ELSE \E m \in movement :
           m.key = <<leg, s, i>> /\ m.item = i /\ m.quantity = shipment[s].cargo[i]

(* The ledger has the legs of a shipment that it has made.                 *)
LegsBooked ==
  \A s \in Shipment :
    /\ IF shipment[s].status \in Afloat \cup {"DELIVERED"}
       THEN Booked("ship", s) ELSE Unbooked("ship", s)
    /\ IF shipment[s].status = "DELIVERED" THEN Booked("deliver", s) ELSE Unbooked("deliver", s)

SupplyInv ==
  /\ StoreInv
  /\ Forest
  /\ receiving = Open(tree)
  /\ RowsTyped
  /\ Expected
  /\ ReceiptsAreBooked
  /\ LegsBooked

ReceiptKeys == {"receive"} \X Purchase \X (1..MaxLines)
LegKeys == {"ship", "deliver"} \X Shipment \X Item

(* The keys of supply are submitted keys of their own.                     *)
LEMMA SupplyKeysApart ==
  /\ ReceiptKeys \subseteq SupplyKeys /\ LegKeys \subseteq SupplyKeys
  /\ ReceiptKeys \cap LegKeys = {}
  /\ SupplyKeys \subseteq Key /\ SupplyKeys \cap Allocation = {}
  /\ SupplyKeys \cap StaffKey = {}
<1>1. SupplyKeys = ReceiptKeys \cup LegKeys
  BY DEF SupplyKeys, ReceiptKeys, LegKeys
<1>2. ReceiptKeys \cap LegKeys = {}
  BY DEF ReceiptKeys, LegKeys
<1>3. SupplyKeys \subseteq Key /\ SupplyKeys \cap StaffKey = {}
  BY SupplyAssumption DEF SupplyAssumption
<1>4. SupplyKeys \cap Allocation = {}
  BY <1>3, InventoryAssumption DEF Allocation
<1> QED
  BY <1>1, <1>2, <1>3, <1>4

(* The image of a finite set is finite.                                    *)
LEMMA FiniteImage ==
  ASSUME NEW S, IsFiniteSet(S), NEW f, DOMAIN f = S
  PROVE  IsFiniteSet({f[x] : x \in S})
<1> DEFINE T == {f[x] : x \in S}
           g == [x \in S |-> f[x]]
<1>1. g \in [S -> T] /\ \A y \in T : \E x \in S : g[x] = y
  OBVIOUS
<1>2. g \in Surjection(S, T)
  BY <1>1 DEF Surjection
<1> HIDE DEF g, T
<1>3. IsFiniteSet(T)
  BY <1>2, FS_Surjection
<1> QED
  BY <1>3 DEF T

(* Lines that are submitted are lines.                                     *)
LEMMA LinesTyped ==
  /\ <<>> \in LineList
  /\ Lines \subseteq LineList
  /\ \A lines \in Lines : \A n \in DOMAIN lines :
       lines[n].at = NoLocation /\ lines[n].country = NoCountry
  /\ \A lines \in LineList :
       /\ DOMAIN lines \subseteq 1..MaxLines
       /\ \A n \in DOMAIN lines : lines[n] \in Line
<1>1. MaxLines \in Nat
  BY SupplyAssumption DEF SupplyAssumption
<1>2. <<>> \in LineList
  <2>1. <<>> \in [1..0 -> Line]
    OBVIOUS
  <2>2. 0 \in 0..MaxLines
    BY <1>1
  <2> QED
    BY <2>1, <2>2 DEF LineList
<1>3. \A i \in Item, q \in Quantity :
        /\ NewLine(i, q) \in Line
        /\ NewLine(i, q).at = NoLocation /\ NewLine(i, q).country = NoCountry
  BY InventoryAssumption DEF NewLine, Line
<1>4. ASSUME NEW lines \in Lines
      PROVE  /\ lines \in LineList
             /\ \A n \in DOMAIN lines : lines[n].at = NoLocation /\ lines[n].country = NoCountry
  <2>1. PICK n \in 1..MaxLines : lines \in [1..n -> {NewLine(i, q) : i \in Item, q \in Quantity}]
    BY DEF Lines
  <2>2. lines \in [1..n -> Line] /\ n \in 0..MaxLines
    BY <1>1, <1>3, <2>1
  <2> QED
    BY <1>3, <2>1, <2>2 DEF LineList
<1>5. ASSUME NEW lines \in LineList
      PROVE  /\ DOMAIN lines \subseteq 1..MaxLines
             /\ \A n \in DOMAIN lines : lines[n] \in Line
  <2>1. PICK n \in 0..MaxLines : lines \in [1..n -> Line]
    BY DEF LineList
  <2> QED
    BY <1>1, <2>1
<1> QED
  BY <1>2, <1>4, <1>5

(* What is booked under other keys, while purchases stay, changes no       *)
(* receipt.                                                                *)
LEMMA ReceiptsAside ==
  ASSUME SupplyInv, purchase' = purchase,
         \A m : m.key \in ReceiptKeys => (m \in movement' <=> m \in movement)
  PROVE  ReceiptsAreBooked' /\ Expected'
<1> SUFFICES ASSUME NEW p \in Purchase
             PROVE  {m \in movement' : m.key \in {"receive"} \X {p} \X (1..MaxLines)}
                      = {m \in movement : m.key \in {"receive"} \X {p} \X (1..MaxLines)}
  BY DEF SupplyInv, ReceiptsAreBooked, Receipt, Expected
<1>1. {"receive"} \X {p} \X (1..MaxLines) \subseteq ReceiptKeys
  BY DEF ReceiptKeys
<1> QED
  BY <1>1

(* What is booked under other keys, while shipments stay, changes no leg.  *)
LEMMA LegsAside ==
  ASSUME SupplyInv, shipment' = shipment,
         \A m : m.key \in LegKeys => (m \in movement' <=> m \in movement)
  PROVE  LegsBooked'
<1> SUFFICES ASSUME NEW s \in Shipment, NEW leg \in {"ship", "deliver"}
             PROVE  (Booked(leg, s) => Booked(leg, s)') /\ (Unbooked(leg, s) => Unbooked(leg, s)')
  BY DEF SupplyInv, LegsBooked
<1>1. \A i \in Item : <<leg, s, i>> \in LegKeys
  BY DEF LegKeys
<1> QED
  BY <1>1 DEF Booked, Unbooked

(* What others do beside supply is a step of the inventory under keys of   *)
(* their own.                                                              *)
LEMMA SurroundingsAside ==
  ASSUME SupplyInv, Surroundings
  PROVE  /\ InventoryNext
         /\ \A m : m.key \in SupplyKeys => (m \in movement' <=> m \in movement)
         /\ Forest' /\ receiving' = Open(tree') /\ UNCHANGED <<purchase, shipment>>
<1>1. UNCHANGED <<purchase, shipment>>
  BY DEF Surroundings
<1>2. ASSUME NEW op \in Operation, op.key \in StaffKey, ApplyInventoryOperation(op), UNCHANGED tree
      PROVE  /\ InventoryNext
             /\ \A m : m.key \in SupplyKeys => (m \in movement' <=> m \in movement)
             /\ Forest' /\ receiving' = Open(tree')
  <2>1. movement' = movement \cup {op} /\ receiving' = receiving
    BY <1>2 DEF ApplyInventoryOperation
  <2> QED
    BY <1>2, <2>1, SupplyKeysApart DEF InventoryNext, SupplyInv, Forest, TreeIsAcyclic
<1>3. ASSUME Tick, UNCHANGED tree
      PROVE  /\ InventoryNext
             /\ \A m : m.key \in SupplyKeys => (m \in movement' <=> m \in movement)
             /\ Forest' /\ receiving' = Open(tree')
  BY <1>3 DEF InventoryNext, Tick, SupplyInv, Forest, TreeIsAcyclic
<1>4. ASSUME NEW h \in Holder, Hold(h) \/ Confirm(h) \/ Release(h) \/ Consume(h), UNCHANGED tree
      PROVE  /\ InventoryNext
             /\ \A m : m.key \in SupplyKeys => (m \in movement' <=> m \in movement)
             /\ Forest' /\ receiving' = Open(tree')
  <2>1. receiving' = receiving
    BY <1>4 DEF Hold, Confirm, Release, Consume
  <2>2. movement' = movement \/ movement' = movement \cup {Sale(a) : a \in Outgoing(h)}
    BY <1>4 DEF Hold, Confirm, Release, Consume
  <2>3. \A a \in Outgoing(h) : Sale(a).key \in Allocation
    BY DEF Outgoing, Sale
  <2>4. \A m : m.key \in SupplyKeys => (m \in movement' <=> m \in movement)
    BY <2>2, <2>3, SupplyKeysApart
  <2>5. InventoryNext
    BY <1>4 DEF InventoryNext
  <2> QED
    BY <1>4, <2>1, <2>4, <2>5 DEF SupplyInv, Forest, TreeIsAcyclic
<1>5. ASSUME NEW l \in Location, NEW parent \in Location \cup {NoLocation}, EditPlace(l, parent)
      PROVE  /\ InventoryNext
             /\ \A m : m.key \in SupplyKeys => (m \in movement' <=> m \in movement)
             /\ Forest' /\ receiving' = Open(tree')
  <2>1. Forest' /\ EditLocations
    BY <1>5, PlaceEdited DEF SupplyInv
  <2>2. receiving' = Open(tree')
    BY <1>5 DEF EditPlace, Reparent, SavePlace, Rewrite
  <2> QED
    BY <2>1, <2>2 DEF InventoryNext, EditLocations
<1> QED
  BY <1>1, <1>2, <1>3, <1>4, <1>5 DEF Surroundings

(* Stock work, holds, the clock and an edit of the tree keep the invariant. *)
LEMMA SurroundingsKeep ==
  ASSUME SupplyInv, Surroundings
  PROVE  SupplyInv'
<1>1. /\ InventoryNext
      /\ \A m : m.key \in SupplyKeys => (m \in movement' <=> m \in movement)
      /\ Forest' /\ receiving' = Open(tree') /\ UNCHANGED <<purchase, shipment>>
  BY SurroundingsAside
<1>2. StoreInv'
  BY <1>1, StoreStep DEF SupplyInv
<1>3. ReceiptsAreBooked' /\ Expected' /\ LegsBooked'
  BY <1>1, SupplyKeysApart, ReceiptsAside, LegsAside
<1> QED
  BY <1>1, <1>2, <1>3 DEF SupplyInv, RowsTyped

(* The store is as it was.                                                 *)
LEMMA StoreAside ==
  ASSUME SupplyInv, UNCHANGED <<inventoryVars, tree>>
  PROVE  /\ StoreInv' /\ Forest' /\ receiving' = Open(tree') /\ movement' = movement
         /\ receiving' \subseteq Location
<1>1. StoreInv'
  BY StoreStep DEF SupplyInv
<1>2. receiving \subseteq Location
  BY DEF SupplyInv, Open
<1> QED
  BY <1>1, <1>2 DEF SupplyInv, inventoryVars, Forest, TreeIsAcyclic

(* A purchase is written before anything of it was received.               *)
LEMMA PurchaseWritten ==
  ASSUME SupplyInv, NEW p \in Purchase,
         \A n \in DOMAIN purchase[p].lines : ~Received(purchase[p].lines[n]),
         NEW lines \in Lines, NEW status \in {"DRAFT", "ORDERED", "PAID", "OTHER"},
         purchase' = [purchase EXCEPT ![p] = [status |-> status, lines |-> lines]],
         UNCHANGED <<inventoryVars, tree, shipment>>
  PROVE  SupplyInv'
<1>1. /\ StoreInv' /\ Forest' /\ receiving' = Open(tree') /\ movement' = movement
  BY StoreAside
<1>2. LegsBooked'
  BY <1>1, LegsAside
<1>3. [status |-> status, lines |-> lines] \in PurchaseRow
  BY LinesTyped DEF PurchaseRow, PurchaseStatus
<1>4. RowsTyped'
  BY <1>3 DEF SupplyInv, RowsTyped
<1>5. ASSUME NEW q \in Purchase
      PROVE  purchase'[q] = IF q = p THEN [status |-> status, lines |-> lines] ELSE purchase[q]
  BY DEF SupplyInv, RowsTyped
<1>6. \A n \in DOMAIN lines : ~Received(lines[n]) /\ lines[n].country = NoCountry
  BY LinesTyped DEF Received
<1>7. Expected'
  BY <1>5, <1>6 DEF SupplyInv, Expected
<1>8. ReceiptsAreBooked'
  <2> SUFFICES ASSUME NEW q \in Purchase
               PROVE  /\ {m \in movement' : m.key \in {"receive"} \X {q} \X (1..MaxLines)}
                           = {Receipt(q, n)' : n \in {k \in DOMAIN purchase'[q].lines :
                                                       Received(purchase'[q].lines[k])}}
                      /\ purchase'[q].status \in {"DRAFT", "CANCELLED"} =>
                           \A n \in DOMAIN purchase'[q].lines : ~Received(purchase'[q].lines[n])
                      /\ purchase'[q].status = "RECEIVED_JAPAN" =>
                           \A n \in DOMAIN purchase'[q].lines :
                             purchase'[q].lines[n].country = "JP"
    BY DEF ReceiptsAreBooked
  <2>1. CASE q # p
    BY <1>1, <1>5, <2>1 DEF SupplyInv, ReceiptsAreBooked, Receipt
  <2>2. CASE q = p
    <3>1. {m \in movement : m.key \in {"receive"} \X {p} \X (1..MaxLines)} = {}
      BY DEF SupplyInv, ReceiptsAreBooked
    <3> QED
      BY <1>1, <1>5, <1>6, <2>2, <3>1
  <2> QED
    BY <2>1, <2>2
<1> QED
  BY <1>1, <1>2, <1>4, <1>7, <1>8 DEF SupplyInv

(* Making and editing a purchase.                                          *)
LEMMA PurchaseSaved ==
  ASSUME SupplyInv, NEW p \in Purchase, CreatePurchase(p) \/ UpdateDraft(p)
  PROVE  SupplyInv'
<1>1. CASE CreatePurchase(p)
  <2>1. \A n \in DOMAIN purchase[p].lines : ~Received(purchase[p].lines[n])
    BY <1>1 DEF CreatePurchase, SupplyInv, Expected
  <2> QED
    BY <1>1, <2>1, PurchaseWritten DEF CreatePurchase
<1>2. CASE UpdateDraft(p)
  BY <1>2, PurchaseWritten DEF UpdateDraft
<1> QED
  BY <1>1, <1>2

(* Setting the status of a purchase.                                       *)
LEMMA PurchaseStatusSet ==
  ASSUME SupplyInv, NEW p \in Purchase, NEW status \in PurchaseStatus, SetPurchaseStatus(p, status)
  PROVE  SupplyInv'
<1>1. /\ StoreInv' /\ Forest' /\ receiving' = Open(tree') /\ movement' = movement
  BY StoreAside DEF SetPurchaseStatus
<1>2. LegsBooked'
  BY <1>1, LegsAside DEF SetPurchaseStatus
<1>3. purchase[p] \in PurchaseRow /\ purchase' = [purchase EXCEPT ![p].status = status]
  BY DEF SupplyInv, RowsTyped, SetPurchaseStatus
<1>4. ASSUME NEW q \in Purchase
      PROVE  /\ purchase'[q].lines = purchase[q].lines
             /\ purchase'[q].status = IF q = p THEN status ELSE purchase[q].status
  BY <1>3 DEF SupplyInv, RowsTyped, PurchaseRow
<1>5. RowsTyped'
  <2>1. [purchase[p] EXCEPT !.status = status] \in PurchaseRow
    BY <1>3 DEF PurchaseRow
  <2> QED
    BY <1>3, <2>1 DEF SupplyInv, RowsTyped, SetPurchaseStatus
<1>6. status \notin {"NONE", "DRAFT", "RECEIVED_JAPAN"}
  BY <1>3 DEF SetPurchaseStatus, transitions, PurchaseRow, PurchaseStatus
<1>7. Expected'
  BY <1>4, <1>6 DEF SupplyInv, Expected
<1>8. ReceiptsAreBooked'
  BY <1>1, <1>4, <1>6 DEF SupplyInv, ReceiptsAreBooked, Receipt, SetPurchaseStatus
<1> QED
  BY <1>1, <1>2, <1>5, <1>7, <1>8 DEF SupplyInv, SetPurchaseStatus

(* Receiving lines of a purchase.                                          *)
LEMMA LinesReceived ==
  ASSUME SupplyInv, NEW p \in Purchase, NEW selected \in SUBSET (DOMAIN purchase[p].lines),
         NEW destination \in Location, Receive(p, selected, destination)
  PROVE  SupplyInv'
<1> DEFINE lines == purchase[p].lines
           new == {n \in selected : ~Received(lines[n])}
           country == CountryOf(tree, destination)
           received == [n \in DOMAIN lines |->
             IF n \in new THEN [lines[n] EXCEPT !.at = destination, !.country = country]
             ELSE lines[n]]
           op == [n \in new |->
             [key |-> ReceiveKey(p, n), item |-> lines[n].item,
              route |-> <<NoLocation, destination>>, quantity |-> lines[n].quantity]]
           ops == {op[n] : n \in new}
           status == StatusAfterReceipt(purchase[p].status, received)
<1>1. /\ purchase[p].status \notin {"NONE", "DRAFT", "CANCELLED", "REFUNDED"}
      /\ new # {} /\ new \subseteq DOMAIN lines
      /\ ApplyAll(ops, receiving)
      /\ purchase' = [purchase EXCEPT ![p] = [status |-> status, lines |-> received]]
      /\ UNCHANGED <<now, reservation, receiving, tree, shipment>>
  <2>1. ops = {[key |-> ReceiveKey(p, n), item |-> lines[n].item,
                route |-> <<NoLocation, destination>>, quantity |-> lines[n].quantity] : n \in new}
    OBVIOUS
  <2> HIDE DEF ops
  <2> QED
    BY <2>1 DEF Receive
<1>2. purchase[p] \in PurchaseRow /\ lines \in LineList
  BY DEF SupplyInv, RowsTyped, PurchaseRow
<1>3. DOMAIN lines \subseteq 1..MaxLines /\ \A n \in DOMAIN lines : lines[n] \in Line
  BY <1>2, LinesTyped
<1>4. country \in Country \cup {NoCountry}
  BY CountryTyped DEF SupplyInv, Forest, TreeIsAcyclic
<1>5. \A n \in new : op[n].key = <<"receive", p, n>> /\ op[n].key \in ReceiptKeys
  BY <1>1, <1>3 DEF ReceiveKey, ReceiptKeys
<1>6. Batch(ops)
  <2>1. MaxLines \in Nat
    BY SupplyAssumption DEF SupplyAssumption
  <2>2. IsFiniteSet(new)
    <3>1. IsFiniteSet(1..MaxLines)
      BY <2>1, FS_Interval
    <3> HIDE DEF new
    <3> QED
      BY <1>1, <1>3, <3>1, FS_Subset
  <2>3. DOMAIN op = new
    OBVIOUS
  <2>4. IsFiniteSet(ops)
    <3> HIDE DEF op, new
    <3> QED
      BY <2>2, <2>3, FiniteImage
  <2>5. <<NoLocation, destination>> \in Route
    BY InventoryAssumption, SMTT(30) DEF Route
  <2>6. \A n \in new : op[n] \in Movement
    BY <1>1, <1>3, <1>5, <2>5, SupplyKeysApart DEF Line, Movement
  <2>7. \A n, k \in new : op[n].key = op[k].key => n = k
    BY <1>5
  <2>8. \A n \in new : op[n].key \notin Allocation
    BY <1>5, SupplyKeysApart
  <2> HIDE DEF op, new
  <2> QED
    BY <2>4, <2>6, <2>7, <2>8 DEF Batch
<1>7. StoreInv' /\ Forest' /\ receiving' = Open(tree')
  <2>1. receiving' \subseteq Location
    BY <1>1 DEF SupplyInv, Open
  <2> HIDE DEF ops
  <2> QED
    BY <1>1, <1>6, <2>1, BatchApplied DEF SupplyInv, Forest, TreeIsAcyclic
<1>8. movement' = movement \cup ops
  BY <1>1 DEF ApplyAll
<1>9. ASSUME NEW n \in DOMAIN lines
      PROVE  /\ received[n] \in Line
             /\ received[n].item = lines[n].item /\ received[n].quantity = lines[n].quantity
             /\ received[n].at = IF n \in new THEN destination ELSE lines[n].at
             /\ received[n].country = IF n \in new THEN country ELSE lines[n].country
  <2>1. lines[n] \in Line
    BY <1>3
  <2>2. received[n] = IF n \in new THEN [lines[n] EXCEPT !.at = destination, !.country = country]
                      ELSE lines[n]
    OBVIOUS
  <2> HIDE DEF received, new, country, lines
  <2> QED
    BY <1>4, <2>1, <2>2 DEF Line
<1>10. received \in LineList
  <2>1. PICK k \in 0..MaxLines : lines \in [1..k -> Line]
    BY <1>2 DEF LineList
  <2>2. DOMAIN lines = 1..k
    BY <2>1
  <2>3. received \in [DOMAIN lines -> Line]
    <3>1. received = [n \in DOMAIN lines |-> received[n]]
      OBVIOUS
    <3> HIDE DEF received
    <3> QED
      BY <1>9, <3>1, SMTT(30)
  <2> HIDE DEF received, lines
  <2> QED
    BY <2>2, <2>3 DEF LineList
<1>11. DOMAIN received = DOMAIN lines
  BY Zenon
<1>12. status \in {purchase[p].status, "RECEIVED_JAPAN"} /\ status \notin {"NONE", "DRAFT", "CANCELLED"}
  BY <1>1, Zenon DEF StatusAfterReceipt
<1>13. ASSUME status = "RECEIVED_JAPAN" PROVE \A n \in DOMAIN lines : received[n].country = "JP"
  <2>1. PICK n \in new : TRUE
    BY <1>1
  <2>2. n \in DOMAIN lines /\ ~Received(lines[n])
    BY <1>1
  <2>3. lines[n].country = NoCountry
    BY <2>2 DEF SupplyInv, Expected
  <2>4. NoCountry # "JP"
    BY PlacesAssumption, SupplyAssumption DEF PlacesAssumption, SupplyAssumption
  <2>5. purchase[p].status # "RECEIVED_JAPAN"
    BY <2>2, <2>3, <2>4 DEF SupplyInv, ReceiptsAreBooked
  <2> HIDE DEF received, lines
  <2> QED
    BY <1>11, <1>13, <2>5 DEF StatusAfterReceipt
<1>14. LegsBooked'
  <2>1. \A m : m.key \in LegKeys => (m \in movement' <=> m \in movement)
    BY <1>5, <1>8, SupplyKeysApart
  <2> QED
    BY <1>1, <2>1, LegsAside
<1>15. [status |-> status, lines |-> received] \in PurchaseRow
  BY <1>2, <1>10, <1>12 DEF PurchaseRow, PurchaseStatus
<1>16. \A q \in Purchase :
         purchase'[q] = IF q = p THEN [status |-> status, lines |-> received] ELSE purchase[q]
  BY <1>1 DEF SupplyInv, RowsTyped
<1>17. RowsTyped'
  <2> HIDE DEF status, received
  <2> QED
    BY <1>1, <1>15 DEF SupplyInv, RowsTyped
<1>18. \A n \in DOMAIN lines : lines[n] \in Line /\ (n \in new => ~Received(lines[n]))
  BY <1>3
<1>19. NoLocation # destination
  BY InventoryAssumption
<1>20. \A n \in DOMAIN lines : Received(received[n]) <=> n \in new \/ Received(lines[n])
  <2> HIDE DEF received, new
  <2> QED
    BY <1>9, <1>19 DEF Received
<1>21. Expected'
  <2>1. \A n \in DOMAIN lines : ~Received(received[n]) => received[n].country = NoCountry
    <3>1. \A n \in DOMAIN lines : ~Received(lines[n]) => lines[n].country = NoCountry
      BY DEF SupplyInv, Expected
    <3> HIDE DEF received, new
    <3> QED
      BY <1>9, <1>20, <3>1
  <2> HIDE DEF received, status
  <2> QED
    BY <1>11, <1>12, <1>16, <2>1 DEF SupplyInv, Expected
<1>22. ASSUME NEW q \in Purchase, q # p
       PROVE  {m \in movement' : m.key \in {"receive"} \X {q} \X (1..MaxLines)}
                = {m \in movement : m.key \in {"receive"} \X {q} \X (1..MaxLines)}
  BY <1>5, <1>8, <1>22
<1>23. \A n \in DOMAIN lines :
         Receipt(p, n)' = IF n \in new THEN op[n] ELSE Receipt(p, n)
  <2>1. purchase'[p].lines = received
    <3> HIDE DEF received, status
    <3> QED
      BY <1>16
  <2>2. \A n \in new : op[n] = [key |-> ReceiveKey(p, n), item |-> lines[n].item,
                                route |-> <<NoLocation, destination>>,
                                quantity |-> lines[n].quantity]
    OBVIOUS
  <2> HIDE DEF received, op, new
  <2> QED
    BY <1>9, <2>1, <2>2, SMTT(30) DEF Receipt
<1>24. {m \in movement' : m.key \in {"receive"} \X {p} \X (1..MaxLines)}
         = {Receipt(p, n)' : n \in {k \in DOMAIN lines : Received(received[k])}}
  <2>1. {m \in movement : m.key \in {"receive"} \X {p} \X (1..MaxLines)}
          = {Receipt(p, n) : n \in {k \in DOMAIN lines : Received(lines[k])}}
    BY DEF SupplyInv, ReceiptsAreBooked
  <2>2. {m \in ops : m.key \in {"receive"} \X {p} \X (1..MaxLines)} = {op[n] : n \in new}
    <3>1. \A n \in new : <<"receive", p, n>> \in {"receive"} \X {p} \X (1..MaxLines)
      BY <1>1, <1>3
    <3> HIDE DEF op, new
    <3>2. \A n \in new : op[n].key \in {"receive"} \X {p} \X (1..MaxLines)
      BY <1>5, <3>1
    <3> QED
      BY <3>2
  <2>3. {m \in movement' : m.key \in {"receive"} \X {p} \X (1..MaxLines)}
          = {Receipt(p, n) : n \in {k \in DOMAIN lines : Received(lines[k])}} \cup {op[n] : n \in new}
    <3> HIDE DEF op, new, ops, lines
    <3> QED
      BY <1>8, <2>1, <2>2
  <2>4. {Receipt(p, n)' : n \in {k \in DOMAIN lines : Received(received[k])}}
          = {Receipt(p, n) : n \in {k \in DOMAIN lines : Received(lines[k])}} \cup {op[n] : n \in new}
    <3> HIDE DEF op, new, ops, lines, received
    <3> QED
      BY <1>1, <1>18, <1>20, <1>23
  <2> QED
    BY <2>3, <2>4
<1>25. ReceiptsAreBooked'
  <2> SUFFICES ASSUME NEW q \in Purchase
               PROVE  /\ {m \in movement' : m.key \in {"receive"} \X {q} \X (1..MaxLines)}
                           = {Receipt(q, n)' : n \in {k \in DOMAIN purchase'[q].lines :
                                                       Received(purchase'[q].lines[k])}}
                      /\ purchase'[q].status \in {"DRAFT", "CANCELLED"} =>
                           \A n \in DOMAIN purchase'[q].lines : ~Received(purchase'[q].lines[n])
                      /\ purchase'[q].status = "RECEIVED_JAPAN" =>
                           \A n \in DOMAIN purchase'[q].lines :
                             purchase'[q].lines[n].country = "JP"
    BY DEF ReceiptsAreBooked
  <2>1. CASE q # p
    <3> HIDE DEF op, new, ops, lines, received, status
    <3>1. purchase'[q] = purchase[q]
      BY <1>16, <2>1
    <3>2. \A n : Receipt(q, n)' = Receipt(q, n)
      BY <3>1 DEF Receipt
    <3> QED
      BY <1>22, <2>1, <3>1, <3>2 DEF SupplyInv, ReceiptsAreBooked
  <2>2. CASE q = p
    <3> HIDE DEF op, new, ops, lines, received, status
    <3>1. purchase'[p].status = status /\ purchase'[p].lines = received
      BY <1>16
    <3> QED
      BY <1>11, <1>12, <1>13, <1>24, <2>2, <3>1
  <2> QED
    BY <2>1, <2>2
<1> QED
  BY <1>1, <1>7, <1>14, <1>17, <1>21, <1>25 DEF SupplyInv

(* A shipment is written without making or undoing a leg.                  *)
LEMMA ShipmentWritten ==
  ASSUME SupplyInv, NEW s \in Shipment, NEW row \in ShipmentRow,
         shipment' = [shipment EXCEPT ![s] = row],
         UNCHANGED <<inventoryVars, tree, purchase>>,
         shipment[s].status \in Afloat \cup {"DELIVERED"} <=> row.status \in Afloat \cup {"DELIVERED"},
         shipment[s].status = "DELIVERED" <=> row.status = "DELIVERED",
         row.status \in Afloat \cup {"DELIVERED"} => row.cargo = shipment[s].cargo
  PROVE  SupplyInv'
<1>1. /\ StoreInv' /\ Forest' /\ receiving' = Open(tree') /\ movement' = movement
  BY StoreAside
<1>2. ReceiptsAreBooked' /\ Expected'
  BY <1>1, ReceiptsAside
<1>3. RowsTyped'
  BY DEF SupplyInv, RowsTyped
<1>4. \A r \in Shipment : shipment'[r] = IF r = s THEN row ELSE shipment[r]
  BY DEF SupplyInv, RowsTyped
<1>5. ASSUME NEW r \in Shipment, NEW leg \in {"ship", "deliver"}
      PROVE  /\ Unbooked(leg, r) => Unbooked(leg, r)'
             /\ shipment'[r].cargo = shipment[r].cargo /\ Booked(leg, r) => Booked(leg, r)'
  BY <1>1 DEF Unbooked, Booked
<1>6. LegsBooked'
  <2> SUFFICES ASSUME NEW r \in Shipment
               PROVE  /\ IF shipment'[r].status \in Afloat \cup {"DELIVERED"}
                         THEN Booked("ship", r)' ELSE Unbooked("ship", r)'
                      /\ IF shipment'[r].status = "DELIVERED"
                         THEN Booked("deliver", r)' ELSE Unbooked("deliver", r)'
    BY DEF LegsBooked
  <2>1. /\ IF shipment[r].status \in Afloat \cup {"DELIVERED"}
           THEN Booked("ship", r) ELSE Unbooked("ship", r)
        /\ IF shipment[r].status = "DELIVERED"
           THEN Booked("deliver", r) ELSE Unbooked("deliver", r)
    BY DEF SupplyInv, LegsBooked
  <2>2. /\ shipment'[r].status \in Afloat \cup {"DELIVERED"}
             <=> shipment[r].status \in Afloat \cup {"DELIVERED"}
        /\ shipment'[r].status = "DELIVERED" <=> shipment[r].status = "DELIVERED"
        /\ shipment'[r].status \in Afloat \cup {"DELIVERED"}
             => shipment'[r].cargo = shipment[r].cargo
    BY <1>4
  <2> QED
    BY <1>5, <2>1, <2>2
<1> QED
  BY <1>1, <1>2, <1>3, <1>6 DEF SupplyInv

(* Making a shipment and editing one before dispatch.                      *)
LEMMA ShipmentSaved ==
  ASSUME SupplyInv, NEW s \in Shipment, SaveShipment(s)
  PROVE  SupplyInv'
<1>1. PICK origin \in Origins, destination \in Destinations, group \in Groups,
           cargo \in Cargo \ {Empty} :
        shipment' = [shipment EXCEPT ![s] =
            [status |-> IF shipment[s].status = "NONE" THEN "DRAFT" ELSE shipment[s].status,
             origin |-> origin, destination |-> destination, group |-> group,
             cargo |-> cargo]]
  BY DEF SaveShipment
<1> DEFINE row == [status |-> IF shipment[s].status = "NONE" THEN "DRAFT" ELSE shipment[s].status,
                   origin |-> origin, destination |-> destination, group |-> group,
                   cargo |-> cargo]
<1>2. shipment[s].status \in {"NONE", "DRAFT", "PACKING", "READY"}
  BY DEF SaveShipment, preparationStatuses
<1>3. receiving \subseteq Location
  BY DEF SupplyInv, Open
<1>4. row \in ShipmentRow /\ row.status \in {"DRAFT", "PACKING", "READY"}
  BY <1>2, <1>3 DEF ShipmentRow, ShipmentStatus, Origins, Destinations, Groups
<1>5. shipment' = [shipment EXCEPT ![s] = row]
  BY <1>1
<1> HIDE DEF row
<1> QED
  BY <1>2, <1>4, <1>5, ShipmentWritten DEF SaveShipment, Afloat

(* Setting the status of a shipment.                                       *)
LEMMA ShipmentStatusSet ==
  ASSUME SupplyInv, NEW s \in Shipment, NEW status \in ShipmentStatus, SetShipmentStatus(s, status)
  PROVE  SupplyInv'
<1> DEFINE row == [shipment[s] EXCEPT !.status = status]
<1>1. shipment[s] \in ShipmentRow
  BY DEF SupplyInv, RowsTyped
<1>2. row \in ShipmentRow /\ row.status = status /\ row.cargo = shipment[s].cargo
  BY <1>1 DEF ShipmentRow
<1>3. shipment' = [shipment EXCEPT ![s] = row]
  BY DEF SetShipmentStatus
<1>4. /\ shipment[s].status \in Afloat \cup {"DELIVERED"} <=> status \in Afloat \cup {"DELIVERED"}
      /\ shipment[s].status # "DELIVERED" /\ status # "DELIVERED"
  BY <1>1 DEF SetShipmentStatus, statusTransitions, ShipmentRow, ShipmentStatus, Afloat
<1> HIDE DEF row
<1> QED
  BY <1>2, <1>3, <1>4, ShipmentWritten DEF SetShipmentStatus

(* The transfers of a leg are operations of one transaction.               *)
LEMMA LegsBatch ==
  ASSUME SupplyInv, NEW s \in Shipment, NEW leg \in {"ship", "deliver"},
         NEW source \in Location, NEW destination \in Location, source # destination
  PROVE  /\ Batch(Legs(s, leg, source, destination))
         /\ \A op \in Legs(s, leg, source, destination) : op.key \in LegKeys
<1> DEFINE carried == {j \in Item : shipment[s].cargo[j] > 0}
           op == [i \in carried |-> [key |-> <<leg, s, i>>, item |-> i,
                  route |-> <<source, destination>>, quantity |-> shipment[s].cargo[i]]]
<1>1. Legs(s, leg, source, destination) = {op[i] : i \in carried}
  BY DEF Legs
<1>2. IsFiniteSet(carried)
  BY InventoryAssumption, FS_Subset
<1>3. DOMAIN op = carried
  OBVIOUS
<1>4. shipment[s].cargo \in Cargo /\ MaxStock \in Nat
  BY InventoryAssumption DEF SupplyInv, RowsTyped, ShipmentRow
<1>5. <<source, destination>> \in Route
  BY InventoryAssumption DEF Route
<1>6. \A i \in carried : op[i].key = <<leg, s, i>> /\ op[i].key \in LegKeys
  BY DEF LegKeys
<1>7. ASSUME NEW i \in carried PROVE shipment[s].cargo[i] \in 1..MaxStock
  BY <1>4, <1>7 DEF Cargo
<1>8. \A i \in carried : op[i] \in Movement
  BY <1>5, <1>6, <1>7, SupplyKeysApart DEF Movement
<1>9. \A i \in carried : op[i].key \notin Allocation
  BY <1>6, SupplyKeysApart
<1>10. \A i, j \in carried : op[i].key = op[j].key => i = j
  BY <1>6
<1> HIDE DEF op, carried
<1>11. IsFiniteSet({op[i] : i \in carried})
  BY <1>2, <1>3, FiniteImage
<1> QED
  BY <1>1, <1>6, <1>8, <1>9, <1>10, <1>11 DEF Batch

(* A leg is made: it is booked, and nothing else is.                       *)
LEMMA LegMade ==
  ASSUME SupplyInv, NEW s \in Shipment, NEW leg \in {"ship", "deliver"}, NEW status,
         NEW source, NEW destination,
         movement' = movement \cup Legs(s, leg, source, destination),
         \A r \in Shipment : /\ shipment'[r].cargo = shipment[r].cargo
                             /\ shipment'[r].status = IF r = s THEN status ELSE shipment[r].status,
         Unbooked(leg, s),
         IF leg = "ship" THEN status = "SHIPPED" /\ shipment[s].status \in preparationStatuses
         ELSE status = "DELIVERED" /\ shipment[s].status \in Afloat
  PROVE  LegsBooked'
<1> SUFFICES ASSUME NEW r \in Shipment
             PROVE  /\ IF shipment'[r].status \in Afloat \cup {"DELIVERED"}
                       THEN Booked("ship", r)' ELSE Unbooked("ship", r)'
                    /\ IF shipment'[r].status = "DELIVERED"
                       THEN Booked("deliver", r)' ELSE Unbooked("deliver", r)'
  BY DEF LegsBooked
<1>1. /\ IF shipment[r].status \in Afloat \cup {"DELIVERED"}
         THEN Booked("ship", r) ELSE Unbooked("ship", r)
      /\ IF shipment[r].status = "DELIVERED"
         THEN Booked("deliver", r) ELSE Unbooked("deliver", r)
  BY DEF SupplyInv, LegsBooked
<1>2. \A m \in Legs(s, leg, source, destination) :
        \E i \in Item : /\ shipment[s].cargo[i] > 0
                        /\ m.key = <<leg, s, i>> /\ m.item = i /\ m.quantity = shipment[s].cargo[i]
  BY DEF Legs
<1>3. ASSUME NEW other \in {"ship", "deliver"}, other # leg \/ r # s
      PROVE  (Booked(other, r) => Booked(other, r)') /\ (Unbooked(other, r) => Unbooked(other, r)')
  <2>1. \A i \in Item : \A m : m.key = <<other, r, i>> => (m \in movement' <=> m \in movement)
    BY <1>2, <1>3
  <2> QED
    BY <2>1, SMTT(30) DEF Booked, Unbooked
<1>4. ASSUME r = s PROVE Booked(leg, r)'
  <2>1. shipment'[s].cargo = shipment[s].cargo
    OBVIOUS
  <2>2. ASSUME NEW i \in Item, shipment[s].cargo[i] = 0
        PROVE  \A m \in movement' : m.key # <<leg, s, i>>
    BY <1>2, <2>2 DEF Unbooked
  <2>3. ASSUME NEW i \in Item, shipment[s].cargo[i] # 0
        PROVE  \E m \in movement' :
                 m.key = <<leg, s, i>> /\ m.item = i /\ m.quantity = shipment[s].cargo[i]
    <3>1. shipment[s].cargo[i] > 0
      BY <2>3, InventoryAssumption DEF SupplyInv, RowsTyped, ShipmentRow, Cargo
    <3>2. [key |-> <<leg, s, i>>, item |-> i, route |-> <<source, destination>>,
           quantity |-> shipment[s].cargo[i]] \in movement'
      BY <3>1 DEF Legs
    <3> QED
      BY <3>2
  <2> QED
    BY <1>4, <2>1, <2>2, <2>3 DEF Booked
<1>5. preparationStatuses \cap (Afloat \cup {"DELIVERED"}) = {} /\ "SHIPPED" \in Afloat
      /\ "DELIVERED" \notin Afloat
  BY DEF preparationStatuses, Afloat
<1>6. CASE r # s
  BY <1>1, <1>3, <1>6
<1>7. CASE r = s /\ leg = "ship"
  BY <1>1, <1>3, <1>4, <1>5, <1>7
<1>8. CASE r = s /\ leg = "deliver"
  BY <1>1, <1>3, <1>4, <1>5, <1>8
<1> QED
  BY <1>6, <1>7, <1>8

(* Dispatch.                                                               *)
LEMMA ShipmentShipped ==
  ASSUME SupplyInv, NEW s \in Shipment, ShipShipment(s)
  PROVE  SupplyInv'
<1> DEFINE origin == shipment[s].origin
           group == shipment[s].group
           setting == [transit |-> TRUE, country |-> NoCountry, open |-> TRUE]
           row == [shipment[s] EXCEPT !.status = "SHIPPED"]
           ops == Legs(s, "ship", origin, Box[s])
<1>1. /\ shipment[s].status \in preparationStatuses
      /\ origin \in receiving /\ group \in receiving /\ ~tree[Box[s]].known
      /\ SavePlace(Box[s], group, setting)
      /\ ApplyAll(ops, receiving')
      /\ shipment' = [shipment EXCEPT ![s] = row]
      /\ UNCHANGED <<now, reservation, purchase>>
  BY DEF ShipShipment, ValidRoute, Origins, Groups, DispatchLegs
<1>2. Box[s] \in Location /\ origin \in Location /\ group \in Location /\ origin # Box[s]
  <2>1. Box[s] \in Location
    BY SupplyAssumption DEF SupplyAssumption
  <2>2. receiving \subseteq Location /\ Box[s] \notin receiving
    BY <1>1 DEF SupplyInv, Open, Receives
  <2> QED
    BY <1>1, <2>1, <2>2
<1>3. Forest' /\ receiving' = Open(tree') /\ receiving' \subseteq Location
  <2>1. [known |-> TRUE, parent |-> group, setting |-> setting] \in Place
    BY <1>2 DEF Place, Setting
  <2>2. /\ ValidParent(Box[s], group)
        /\ Rewrite(Box[s], [known |-> TRUE, parent |-> group, setting |-> setting])
    BY <1>1 DEF SavePlace
  <2>3. [known |-> TRUE, parent |-> group, setting |-> setting].parent = group
    OBVIOUS
  <2> HIDE DEF setting
  <2> QED
    BY <1>2, <2>1, <2>2, <2>3, PlaceSaved DEF SupplyInv, Rewrite
<1>4. Batch(ops) /\ \A op \in ops : op.key \in LegKeys
  BY <1>2, LegsBatch
<1> HIDE DEF ops
<1>5. StoreInv'
  BY <1>1, <1>3, <1>4, BatchApplied DEF SupplyInv
<1>6. movement' = movement \cup ops
  BY <1>1 DEF ApplyAll
<1>7. shipment[s] \in ShipmentRow
  BY DEF SupplyInv, RowsTyped
<1>8. row \in ShipmentRow /\ row.status = "SHIPPED" /\ row.cargo = shipment[s].cargo
  BY <1>7 DEF ShipmentRow, ShipmentStatus
<1> HIDE DEF row
<1>9. RowsTyped'
  BY <1>1, <1>8 DEF SupplyInv, RowsTyped
<1>10. \A r \in Shipment :
         /\ shipment'[r].cargo = shipment[r].cargo
         /\ shipment'[r].status = IF r = s THEN "SHIPPED" ELSE shipment[r].status
  BY <1>1, <1>8 DEF SupplyInv, RowsTyped
<1>11. Unbooked("ship", s)
  BY <1>1 DEF SupplyInv, LegsBooked, Afloat, preparationStatuses
<1>12. LegsBooked'
  BY <1>1, <1>6, <1>10, <1>11, LegMade DEF ops
<1>13. ReceiptsAreBooked' /\ Expected'
  <2>1. \A m : m.key \in ReceiptKeys => (m \in movement' <=> m \in movement)
    BY <1>4, <1>6, SupplyKeysApart
  <2> QED
    BY <1>1, <2>1, ReceiptsAside
<1> QED
  BY <1>3, <1>5, <1>9, <1>12, <1>13 DEF SupplyInv

(* Delivery.                                                               *)
LEMMA ShipmentDelivered ==
  ASSUME SupplyInv, NEW s \in Shipment, NEW destination \in Location,
         DeliverShipment(s, destination)
  PROVE  SupplyInv'
<1> DEFINE row == [shipment[s] EXCEPT !.status = "DELIVERED", !.destination = destination]
           ops == Legs(s, "deliver", Box[s], destination)
<1>1. /\ shipment[s].status \in Afloat
      /\ destination \in Destinations
      /\ Transit(tree, Box[s])
      /\ ApplyAll(ops, receiving)
      /\ shipment' = [shipment EXCEPT ![s] = row]
      /\ UNCHANGED <<now, reservation, receiving, tree, purchase>>
  BY DEF DeliverShipment
<1>2. Box[s] \in Location /\ Box[s] # destination
  <2>1. Box[s] \in Location /\ "FR" # NoCountry
    BY SupplyAssumption, PlacesAssumption DEF SupplyAssumption, PlacesAssumption
  <2>2. CountryOf(tree, Box[s]) = NoCountry
    BY <1>1 DEF CountryOf, Transit
  <2>3. CountryOf(tree, destination) = "FR"
    BY <1>1 DEF Destinations
  <2> QED
    BY <2>1, <2>2, <2>3
<1>3. Forest' /\ receiving' = Open(tree') /\ receiving' \subseteq Location
  BY <1>1 DEF SupplyInv, Forest, TreeIsAcyclic, Open
<1>4. Batch(ops) /\ \A op \in ops : op.key \in LegKeys
  BY <1>2, LegsBatch
<1> HIDE DEF ops
<1>5. StoreInv'
  BY <1>1, <1>3, <1>4, BatchApplied DEF SupplyInv
<1>6. movement' = movement \cup ops
  BY <1>1 DEF ApplyAll
<1>7. shipment[s] \in ShipmentRow
  BY DEF SupplyInv, RowsTyped
<1>8. row \in ShipmentRow /\ row.status = "DELIVERED" /\ row.cargo = shipment[s].cargo
  BY <1>7 DEF ShipmentRow, ShipmentStatus
<1> HIDE DEF row
<1>9. RowsTyped'
  BY <1>1, <1>8 DEF SupplyInv, RowsTyped
<1>10. \A r \in Shipment :
         /\ shipment'[r].cargo = shipment[r].cargo
         /\ shipment'[r].status = IF r = s THEN "DELIVERED" ELSE shipment[r].status
  BY <1>1, <1>8 DEF SupplyInv, RowsTyped
<1>11. Unbooked("deliver", s)
  BY <1>1 DEF SupplyInv, LegsBooked, Afloat
<1>12. LegsBooked'
  BY <1>1, <1>6, <1>10, <1>11, LegMade DEF ops
<1>13. ReceiptsAreBooked' /\ Expected'
  <2>1. \A m : m.key \in ReceiptKeys => (m \in movement' <=> m \in movement)
    BY <1>4, <1>6, SupplyKeysApart
  <2> QED
    BY <1>1, <2>1, ReceiptsAside
<1> QED
  BY <1>3, <1>5, <1>9, <1>12, <1>13 DEF SupplyInv

(* The start of the model is in order.                                     *)
LEMMA SupplyInvInit == SupplyInit => SupplyInv
<1> SUFFICES ASSUME SupplyInit PROVE SupplyInv
  OBVIOUS
<1>1. StoreInv
  BY StoreStart DEF SupplyInit, PlacesInit, Open
<1>2. Forest /\ receiving = Open(tree)
  BY PlacesAssumption DEF SupplyInit, PlacesInit, PlacesAssumption, Forest, Tree, TreeIsAcyclic
<1>3. NoPurchase \in PurchaseRow /\ NoShipment \in ShipmentRow
  BY LinesTyped, InventoryAssumption
     DEF NoPurchase, NoShipment, PurchaseRow, ShipmentRow, PurchaseStatus, ShipmentStatus, Cargo, Empty
<1>4. RowsTyped
  BY <1>3 DEF SupplyInit, RowsTyped
<1>5. Expected /\ ReceiptsAreBooked
  BY DEF SupplyInit, PlacesInit, NoPurchase, Expected, ReceiptsAreBooked
<1>6. LegsBooked
  BY DEF SupplyInit, PlacesInit, NoShipment, LegsBooked, Unbooked, Afloat
<1> QED
  BY <1>1, <1>2, <1>4, <1>5, <1>6 DEF SupplyInv

(* Every step keeps the invariant.                                         *)
LEMMA SupplyInvStep == SupplyInv /\ [SupplyNext]_supplyVars => SupplyInv'
<1> SUFFICES ASSUME SupplyInv, [SupplyNext]_supplyVars PROVE SupplyInv'
  OBVIOUS
<1>1. CASE Surroundings
  BY <1>1, SurroundingsKeep
<1>2. ASSUME NEW p \in Purchase, CreatePurchase(p) \/ UpdateDraft(p) PROVE SupplyInv'
  BY <1>2, PurchaseSaved
<1>3. ASSUME NEW p \in Purchase, NEW status \in PurchaseStatus, SetPurchaseStatus(p, status)
      PROVE  SupplyInv'
  BY <1>3, PurchaseStatusSet
<1>4. ASSUME NEW p \in Purchase, NEW selected \in SUBSET (DOMAIN purchase[p].lines),
             NEW destination \in Location, Receive(p, selected, destination)
      PROVE  SupplyInv'
  BY <1>4, LinesReceived
<1>5. ASSUME NEW s \in Shipment, SaveShipment(s) PROVE SupplyInv'
  BY <1>5, ShipmentSaved
<1>6. ASSUME NEW s \in Shipment, NEW status \in ShipmentStatus, SetShipmentStatus(s, status)
      PROVE  SupplyInv'
  BY <1>6, ShipmentStatusSet
<1>7. ASSUME NEW s \in Shipment, ShipShipment(s) PROVE SupplyInv'
  BY <1>7, ShipmentShipped
<1>8. ASSUME NEW s \in Shipment, NEW destination \in Location, DeliverShipment(s, destination)
      PROVE  SupplyInv'
  BY <1>8, ShipmentDelivered
<1>9. CASE UNCHANGED supplyVars
  <2>1. /\ StoreInv' /\ Forest' /\ receiving' = Open(tree') /\ movement' = movement
    BY <1>9, StoreAside DEF supplyVars
  <2>2. ReceiptsAreBooked' /\ Expected' /\ LegsBooked'
    BY <1>9, <2>1, ReceiptsAside, LegsAside DEF supplyVars
  <2> QED
    BY <1>9, <2>1, <2>2 DEF SupplyInv, supplyVars, RowsTyped
<1> QED
  BY <1>1, <1>2, <1>3, <1>4, <1>5, <1>6, <1>7, <1>8, <1>9 DEF SupplyNext

(* Purchases, shipments and locations are well-formed.                     *)
THEOREM SupplyTypes == SupplySpec => []SupplyTypeOK
<1>1. SupplyInv => SupplyTypeOK
  <2> SUFFICES ASSUME SupplyInv PROVE SupplyTypeOK
    OBVIOUS
  <2>1. PlacesTypeOK
    BY DEF SupplyInv, StoreInv, LedgerInv, RecordInv, TypeInv, PlacesTypeOK, Forest, Tree
  <2>2. \A p \in Purchase : purchase[p] \in PurchaseRow
    BY DEF SupplyInv, RowsTyped
  <2>3. \A p \in Purchase :
          /\ purchase[p].status \in PurchaseStatus
          /\ \A n \in DOMAIN purchase[p].lines : purchase[p].lines[n] \in Line
    BY <2>2, LinesTyped DEF PurchaseRow
  <2> QED
    BY <2>1, <2>3 DEF SupplyInv, RowsTyped, ShipmentRow, SupplyTypeOK
<1> QED
  BY <1>1, SupplyInvInit, SupplyInvStep, PTL DEF SupplySpec

(* Whoever moves which location below which other at the same time, no     *)
(* path of parents comes back to where it started (validateParent).        *)
THEOREM PlacesAcyclic == SupplySpec => []TreeIsAcyclic
<1>1. SupplyInv => TreeIsAcyclic
  BY DEF SupplyInv, Forest
<1> QED
  BY <1>1, SupplyInvInit, SupplyInvStep, PTL DEF SupplySpec

(* What a purchase says was received is what the ledger has of it, for any *)
(* number of lines and purchases and whatever staff and the shop do beside *)
(* it (receive, setStatus).                                                *)
THEOREM ReceiptsBooked == SupplySpec => []ReceiptsAreBooked
<1>1. SupplyInv => ReceiptsAreBooked
  BY DEF SupplyInv
<1> QED
  BY <1>1, SupplyInvInit, SupplyInvStep, PTL DEF SupplySpec

(* Receipts, dispatches and deliveries never take stock that is promised   *)
(* (the guards of applyInventoryOperation under a batch of transfers).     *)
THEOREM SupplyIsBacked == SupplySpec => []StockBacked
<1>1. SupplyInv => StockBacked
  BY DEF SupplyInv, StoreInv
<1> QED
  BY <1>1, SupplyInvInit, SupplyInvStep, PTL DEF SupplySpec

(* After receipts, dispatches and deliveries of several lines at once the  *)
(* balances are still what the ledger adds up to (reconcileInventory).     *)
THEOREM SupplyReconciles == SupplySpec => []LedgerReconciles
<1>1. SupplyInv => LedgerReconciles
  BY DEF SupplyInv, StoreInv, LedgerInv
<1> QED
  BY <1>1, SupplyInvInit, SupplyInvStep, PTL DEF SupplySpec
------------------------------------------------------------------------------
(***************************************************************************)
(* The promise of a shipment.                                              *)
(***************************************************************************)
StageOf(status) ==
  CASE status = "NONE" -> "none"
    [] status \in preparationStatuses -> "packing"
    [] status \in Afloat -> "away"
    [] status = "DELIVERED" -> "home"
    [] OTHER -> "abandoned"

(* What has left and what has arrived, read from the row of a shipment.    *)
Departed(row) == IF row.status \in Afloat \cup {"DELIVERED"} THEN row.cargo ELSE Empty
Landed(row) == IF row.status = "DELIVERED" THEN row.cargo ELSE Empty

Packed == [s \in Shipment |-> shipment[s].cargo]

LedgerCarries ==
  /\ Carried("ship") = [s \in Shipment |-> Departed(shipment[s])]
  /\ Carried("deliver") = [s \in Shipment |-> Landed(shipment[s])]

(* A leg that is booked has carried the goods, one that is not has carried *)
(* nothing: there is one movement per key.                                 *)
LEMMA LegUnits ==
  ASSUME SupplyInv, NEW s \in Shipment, NEW leg \in {"ship", "deliver"}
  PROVE  /\ Booked(leg, s) => Carried(leg)[s] = shipment[s].cargo
         /\ Unbooked(leg, s) => Carried(leg)[s] = Empty
<1> DEFINE units(i) == {u \in movement \X (1..MaxStock) :
                          u[1].key = <<leg, s, i>> /\ u[1].item = i /\ u[2] <= u[1].quantity}
<1>1. Carried(leg)[s] = [i \in Item |-> Cardinality(units(i))]
  BY DEF Carried
<1>2. shipment[s].cargo \in [Item -> 0..MaxStock]
  BY DEF SupplyInv, RowsTyped, ShipmentRow, Cargo
<1>3. ASSUME NEW i \in Item, \A m \in movement : m.key # <<leg, s, i>>
      PROVE  Cardinality(units(i)) = 0
  <2>1. units(i) = {}
    BY <1>3
  <2> QED
    BY <2>1, FS_EmptySet
<1>4. ASSUME NEW i \in Item, shipment[s].cargo[i] # 0,
             NEW m \in movement, m.key = <<leg, s, i>>, m.item = i,
             m.quantity = shipment[s].cargo[i]
      PROVE  Cardinality(units(i)) = shipment[s].cargo[i]
  <2> DEFINE q == shipment[s].cargo[i]
  <2>1. q \in 1..MaxStock /\ MaxStock \in Nat
    BY <1>2, <1>4, InventoryAssumption
  <2>2. \A n \in movement : n.key = <<leg, s, i>> => n = m
    BY <1>4 DEF SupplyInv, StoreInv, LedgerInv, RecordInv, OneMovementPerKey
  <2>3. units(i) = {} \cup ({m} \X (1..q))
    <3>1. ASSUME NEW u \in units(i) PROVE u \in {m} \X (1..q)
      <4>1. u = <<u[1], u[2]>> /\ u[1] = m /\ u[2] \in 1..MaxStock /\ u[2] <= q
        BY <1>4, <2>2
      <4> QED
        BY <2>1, <4>1
    <3>2. ASSUME NEW n \in 1..q PROVE <<m, n>> \in units(i)
      BY <1>4, <2>1
    <3> HIDE DEF units, q
    <3> QED
      BY <3>1, <3>2
  <2>4. IsFiniteSet({}) /\ Cardinality({}) = 0
    BY FS_EmptySet
  <2> HIDE DEF units, q
  <2>5. Cardinality({} \cup ({m} \X (1..q))) = Cardinality({}) + q
    BY <2>1, <2>4, MovementAdds
  <2>6. Cardinality(units(i)) = q
    BY <2>1, <2>3, <2>4, <2>5
  <2> QED
    BY <2>6 DEF q
<1> HIDE DEF units
<1>5. ASSUME Booked(leg, s) PROVE Carried(leg)[s] = shipment[s].cargo
  <2>1. ASSUME NEW i \in Item PROVE Cardinality(units(i)) = shipment[s].cargo[i]
    BY <1>3, <1>4, <1>5 DEF Booked
  <2> QED
    BY <1>1, <1>2, <2>1
<1>6. ASSUME Unbooked(leg, s) PROVE Carried(leg)[s] = Empty
  <2>1. ASSUME NEW i \in Item PROVE Cardinality(units(i)) = 0
    BY <1>3, <1>6 DEF Unbooked
  <2> QED
    BY <1>1, <2>1 DEF Empty
<1> QED
  BY <1>5, <1>6

(* The ledger says of every shipment what its row says.                    *)
LEMMA LedgerFollowsRows == SupplyInv => LedgerCarries
<1> SUFFICES ASSUME SupplyInv PROVE LedgerCarries
  OBVIOUS
<1>1. ASSUME NEW s \in Shipment
      PROVE  /\ Carried("ship")[s] = Departed(shipment[s])
             /\ Carried("deliver")[s] = Landed(shipment[s])
  <2>1. /\ IF shipment[s].status \in Afloat \cup {"DELIVERED"}
           THEN Booked("ship", s) ELSE Unbooked("ship", s)
        /\ IF shipment[s].status = "DELIVERED" THEN Booked("deliver", s) ELSE Unbooked("deliver", s)
    BY DEF SupplyInv, LegsBooked
  <2>2. Carried("ship")[s] = Departed(shipment[s])
    BY <2>1, LegUnits DEF Departed
  <2>3. Carried("deliver")[s] = Landed(shipment[s])
    BY <2>1, LegUnits DEF Landed
  <2> QED
    BY <2>2, <2>3
<1>2. \A leg \in {"ship", "deliver"} : Carried(leg) = [s \in Shipment |-> Carried(leg)[s]]
  BY DEF Carried
<1> QED
  BY <1>1, <1>2 DEF LedgerCarries

(* What the promise sees of a shipment, in functions.                      *)
LEMMA SeenOfRow ==
  ASSUME LedgerCarries
  PROVE  /\ Stage = [r \in Shipment |-> Stage[r]]
         /\ Packed = [r \in Shipment |-> Packed[r]]
         /\ Carried("ship") = [r \in Shipment |-> Carried("ship")[r]]
         /\ Carried("deliver") = [r \in Shipment |-> Carried("deliver")[r]]
         /\ \A s \in Shipment : Stage[s] = StageOf(shipment[s].status)
         /\ \A s \in Shipment : Packed[s] = shipment[s].cargo
         /\ \A s \in Shipment : Carried("ship")[s] = Departed(shipment[s])
         /\ \A s \in Shipment : Carried("deliver")[s] = Landed(shipment[s])
<1>1. Stage = [r \in Shipment |-> StageOf(shipment[r].status)]
  BY DEF Stage, StageOf
<1>2. /\ Stage = [r \in Shipment |-> Stage[r]]
      /\ \A s \in Shipment : Stage[s] = StageOf(shipment[s].status)
  BY <1>1
<1>3. /\ Packed = [r \in Shipment |-> Packed[r]]
      /\ \A s \in Shipment : Packed[s] = shipment[s].cargo
  BY DEF Packed
<1>4. /\ Carried("ship") = [r \in Shipment |-> Carried("ship")[r]]
      /\ \A s \in Shipment : Carried("ship")[s] = Departed(shipment[s])
  BY DEF LedgerCarries
<1>5. /\ Carried("deliver") = [r \in Shipment |-> Carried("deliver")[r]]
      /\ \A s \in Shipment : Carried("deliver")[s] = Landed(shipment[s])
  BY DEF LedgerCarries
<1> QED
  BY <1>2, <1>3, <1>4, <1>5

(* What the promise sees of a change of one row.                           *)
LEMMA RowSeen ==
  ASSUME LedgerCarries, LedgerCarries', NEW s \in Shipment, NEW row,
         shipment \in [Shipment -> ShipmentRow], shipment' = [shipment EXCEPT ![s] = row]
  PROVE  /\ Stage' = [Stage EXCEPT ![s] = StageOf(row.status)]
         /\ Packed' = [Packed EXCEPT ![s] = row.cargo]
         /\ Carried("ship")' = [Carried("ship") EXCEPT ![s] = Departed(row)]
         /\ Carried("deliver")' = [Carried("deliver") EXCEPT ![s] = Landed(row)]
<1>1. Stage = [r \in Shipment |-> StageOf(shipment[r].status)]
  BY DEF Stage, StageOf
<1>2. Stage' = [r \in Shipment |-> StageOf(shipment'[r].status)]
  BY DEF Stage, StageOf
<1>3. \A r \in Shipment : shipment'[r] = IF r = s THEN row ELSE shipment[r]
  OBVIOUS
<1>4. /\ Carried("ship")' = [r \in Shipment |-> Departed(shipment'[r])]
      /\ Carried("deliver")' = [r \in Shipment |-> Landed(shipment'[r])]
      /\ Carried("ship") = [r \in Shipment |-> Departed(shipment[r])]
      /\ Carried("deliver") = [r \in Shipment |-> Landed(shipment[r])]
  BY DEF LedgerCarries, Departed, Landed
<1>5. Stage' = [Stage EXCEPT ![s] = StageOf(row.status)]
  BY <1>1, <1>2, <1>3
<1>6. Packed' = [Packed EXCEPT ![s] = row.cargo]
  BY <1>3 DEF Packed
<1> QED
  BY <1>3, <1>4, <1>5, <1>6

(* A step of supply is a step of the promise or none.                      *)
LEMMA PromiseStep ==
  ASSUME SupplyInv, LedgerCarries, LedgerCarries', [SupplyNext]_supplyVars
  PROVE  [Promise!ConsignmentNext]_(Promise!consignmentVars)
<1> DEFINE seen == <<Stage, Packed, Carried("ship"), Carried("deliver")>>
<1>1. UNCHANGED seen => [Promise!ConsignmentNext]_(Promise!consignmentVars)
  BY DEF Promise!consignmentVars, Packed
<1>2. CASE UNCHANGED shipment
  BY <1>1, <1>2 DEF LedgerCarries, Departed, Landed, Stage, Packed
<1>3. shipment \in [Shipment -> ShipmentRow]
  BY DEF SupplyInv, RowsTyped
<1>4. ASSUME NEW s \in Shipment, SaveShipment(s)
      PROVE  Promise!Pack(s)
  <2>1. PICK origin \in Origins, destination \in Destinations, group \in Groups,
             cargo \in Cargo \ {Empty} :
          shipment' = [shipment EXCEPT ![s] =
              [status |-> IF shipment[s].status = "NONE" THEN "DRAFT" ELSE shipment[s].status,
               origin |-> origin, destination |-> destination, group |-> group,
               cargo |-> cargo]]
    BY <1>4 DEF SaveShipment
  <2> DEFINE row == [status |-> IF shipment[s].status = "NONE" THEN "DRAFT" ELSE shipment[s].status,
                     origin |-> origin, destination |-> destination, group |-> group,
                     cargo |-> cargo]
  <2>2. shipment[s].status \in {"NONE"} \cup preparationStatuses
    BY <1>4 DEF SaveShipment
  <2>3. row.status \in preparationStatuses /\ row.cargo = cargo
    BY <2>2 DEF preparationStatuses
  <2>4. shipment' = [shipment EXCEPT ![s] = row]
    BY <2>1
  <2> HIDE DEF row
  <2>5. StageOf(row.status) = "packing" /\ Departed(row) = Empty /\ Landed(row) = Empty
    BY <2>3 DEF StageOf, Departed, Landed, preparationStatuses, Afloat
  <2>6. Stage[s] \in {"none", "packing"}
    BY <2>2, SeenOfRow DEF StageOf, Afloat, preparationStatuses
  <2>7. Carried("ship")[s] = Empty /\ Carried("deliver")[s] = Empty
    BY <2>2, SeenOfRow DEF Departed, Landed, preparationStatuses, Afloat
  <2>8. /\ Stage' = [Stage EXCEPT ![s] = "packing"]
        /\ Packed' = [Packed EXCEPT ![s] = cargo]
        /\ Carried("ship")' = [Carried("ship") EXCEPT ![s] = Empty]
        /\ Carried("deliver")' = [Carried("deliver") EXCEPT ![s] = Empty]
    <3>1. /\ Stage' = [Stage EXCEPT ![s] = StageOf(row.status)]
          /\ Packed' = [Packed EXCEPT ![s] = row.cargo]
      BY <1>3, <2>4, RowSeen
    <3>2. Carried("ship")' = [Carried("ship") EXCEPT ![s] = Departed(row)]
      BY <1>3, <2>4, RowSeen
    <3>3. Carried("deliver")' = [Carried("deliver") EXCEPT ![s] = Landed(row)]
      BY <1>3, <2>4, RowSeen
    <3> QED
      BY <2>3, <2>5, <3>1, <3>2, <3>3
  <2>9. Carried("ship")' = Carried("ship") /\ Carried("deliver")' = Carried("deliver")
    BY <2>7, <2>8 DEF LedgerCarries
  <2>10. Packed'[s] = cargo
    BY <2>8 DEF Packed
  <2>11. cargo \in [Item -> Nat] \ {Promise!Nothing}
    BY InventoryAssumption DEF Cargo, Empty, Promise!Nothing
  <2> QED
    BY <2>6, <2>8, <2>9, <2>10, <2>11 DEF Promise!Pack, Packed
<1>5. ASSUME NEW s \in Shipment, NEW status \in ShipmentStatus, SetShipmentStatus(s, status)
      PROVE  Promise!Abandon(s) \/ UNCHANGED seen
  <2> DEFINE row == [shipment[s] EXCEPT !.status = status]
  <2>1. shipment[s] \in ShipmentRow
    BY <1>3
  <2>2. row.status = status /\ row.cargo = shipment[s].cargo
    BY <2>1 DEF ShipmentRow
  <2>3. shipment' = [shipment EXCEPT ![s] = row]
    BY <1>5 DEF SetShipmentStatus
  <2> HIDE DEF row
  <2>4. \/ StageOf(status) = StageOf(shipment[s].status)
        \/ StageOf(shipment[s].status) = "packing" /\ StageOf(status) = "abandoned"
    BY <1>5, <2>1
       DEF SetShipmentStatus, statusTransitions, ShipmentRow, ShipmentStatus, StageOf,
           preparationStatuses, Afloat
  <2>5. /\ shipment[s].status \in Afloat \cup {"DELIVERED"} <=> status \in Afloat \cup {"DELIVERED"}
        /\ shipment[s].status # "DELIVERED" /\ status # "DELIVERED"
    BY <1>5, <2>1 DEF SetShipmentStatus, statusTransitions, ShipmentRow, ShipmentStatus, Afloat
  <2>6. Departed(row) = Departed(shipment[s]) /\ Landed(row) = Landed(shipment[s])
    BY <2>2, <2>5 DEF Departed, Landed
  <2>7. /\ Stage' = [Stage EXCEPT ![s] = StageOf(status)]
        /\ Packed' = [Packed EXCEPT ![s] = shipment[s].cargo]
        /\ Carried("ship")' = [Carried("ship") EXCEPT ![s] = Departed(shipment[s])]
        /\ Carried("deliver")' = [Carried("deliver") EXCEPT ![s] = Landed(shipment[s])]
    <3>1. /\ Stage' = [Stage EXCEPT ![s] = StageOf(row.status)]
          /\ Packed' = [Packed EXCEPT ![s] = row.cargo]
      BY <1>3, <2>3, RowSeen
    <3>2. Carried("ship")' = [Carried("ship") EXCEPT ![s] = Departed(row)]
      BY <1>3, <2>3, RowSeen
    <3>3. Carried("deliver")' = [Carried("deliver") EXCEPT ![s] = Landed(row)]
      BY <1>3, <2>3, RowSeen
    <3> QED
      BY <2>2, <2>6, <3>1, <3>2, <3>3
  <2>8. /\ Packed' = Packed
        /\ Carried("ship")' = Carried("ship") /\ Carried("deliver")' = Carried("deliver")
    BY <2>7, SeenOfRow
  <2>9. Stage[s] = StageOf(shipment[s].status) /\ Stage = [r \in Shipment |-> Stage[r]]
    BY SeenOfRow
  <2>10. CASE StageOf(status) = StageOf(shipment[s].status)
    <3>1. Stage' = Stage
      BY <2>7, <2>9, <2>10
    <3> QED
      BY <2>8, <3>1
  <2>11. CASE StageOf(shipment[s].status) = "packing" /\ StageOf(status) = "abandoned"
    BY <2>7, <2>8, <2>9, <2>11 DEF Promise!Abandon, Packed
  <2> QED
    BY <2>4, <2>10, <2>11
<1>6. ASSUME NEW s \in Shipment, ShipShipment(s)
      PROVE  Promise!Depart(s)
  <2> DEFINE row == [shipment[s] EXCEPT !.status = "SHIPPED"]
  <2>1. shipment[s] \in ShipmentRow
    BY <1>3
  <2>2. row.status = "SHIPPED" /\ row.cargo = shipment[s].cargo
    BY <2>1 DEF ShipmentRow
  <2>3. shipment' = [shipment EXCEPT ![s] = row] /\ shipment[s].status \in preparationStatuses
    BY <1>6 DEF ShipShipment
  <2> HIDE DEF row
  <2>4. Departed(row) = shipment[s].cargo /\ Landed(row) = Landed(shipment[s])
    BY <2>2, <2>3 DEF Departed, Landed, Afloat, preparationStatuses
  <2>5. StageOf(row.status) = "away"
    BY <2>2 DEF StageOf, Afloat, preparationStatuses
  <2>6. /\ Stage' = [Stage EXCEPT ![s] = "away"]
        /\ Packed' = [Packed EXCEPT ![s] = shipment[s].cargo]
        /\ Carried("ship")' = [Carried("ship") EXCEPT ![s] = shipment[s].cargo]
        /\ Carried("deliver")' = [Carried("deliver") EXCEPT ![s] = Landed(shipment[s])]
    <3>1. /\ Stage' = [Stage EXCEPT ![s] = StageOf(row.status)]
          /\ Packed' = [Packed EXCEPT ![s] = row.cargo]
      BY <1>3, <2>3, RowSeen
    <3>2. Carried("ship")' = [Carried("ship") EXCEPT ![s] = Departed(row)]
      BY <1>3, <2>3, RowSeen
    <3>3. Carried("deliver")' = [Carried("deliver") EXCEPT ![s] = Landed(row)]
      BY <1>3, <2>3, RowSeen
    <3> QED
      BY <2>2, <2>4, <2>5, <3>1, <3>2, <3>3
  <2>7. Packed' = Packed /\ Carried("deliver")' = Carried("deliver")
    BY <2>6, SeenOfRow
  <2>8. Stage[s] = "packing" /\ Packed[s] = shipment[s].cargo
    BY <2>3, SeenOfRow DEF StageOf, Afloat, preparationStatuses
  <2> QED
    BY <2>6, <2>7, <2>8 DEF Promise!Depart, Packed
<1>7. ASSUME NEW s \in Shipment, NEW destination \in Location, DeliverShipment(s, destination)
      PROVE  Promise!Arrive(s)
  <2> DEFINE row == [shipment[s] EXCEPT !.status = "DELIVERED", !.destination = destination]
  <2>1. shipment[s] \in ShipmentRow
    BY <1>3
  <2>2. row.status = "DELIVERED" /\ row.cargo = shipment[s].cargo
    BY <2>1 DEF ShipmentRow
  <2>3. shipment' = [shipment EXCEPT ![s] = row] /\ shipment[s].status \in Afloat
    BY <1>7 DEF DeliverShipment
  <2> HIDE DEF row
  <2>4. Departed(row) = Departed(shipment[s]) /\ Landed(row) = shipment[s].cargo
    BY <2>2, <2>3 DEF Departed, Landed, Afloat
  <2>5. StageOf(row.status) = "home"
    BY <2>2 DEF StageOf, Afloat, preparationStatuses
  <2>6. /\ Stage' = [Stage EXCEPT ![s] = "home"]
        /\ Packed' = [Packed EXCEPT ![s] = shipment[s].cargo]
        /\ Carried("ship")' = [Carried("ship") EXCEPT ![s] = Departed(shipment[s])]
        /\ Carried("deliver")' = [Carried("deliver") EXCEPT ![s] = shipment[s].cargo]
    <3>1. /\ Stage' = [Stage EXCEPT ![s] = StageOf(row.status)]
          /\ Packed' = [Packed EXCEPT ![s] = row.cargo]
      BY <1>3, <2>3, RowSeen
    <3>2. Carried("ship")' = [Carried("ship") EXCEPT ![s] = Departed(row)]
      BY <1>3, <2>3, RowSeen
    <3>3. Carried("deliver")' = [Carried("deliver") EXCEPT ![s] = Landed(row)]
      BY <1>3, <2>3, RowSeen
    <3> QED
      BY <2>2, <2>4, <2>5, <3>1, <3>2, <3>3
  <2>7. Packed' = Packed /\ Carried("ship")' = Carried("ship")
    BY <2>6, SeenOfRow
  <2>8. Stage[s] = "away" /\ Packed[s] = shipment[s].cargo
    BY <2>3, SeenOfRow DEF StageOf, Afloat, preparationStatuses
  <2> QED
    BY <2>6, <2>7, <2>8 DEF Promise!Arrive, Packed
<1>8. ASSUME NEW p \in Purchase, ~UNCHANGED shipment
      PROVE  /\ ~CreatePurchase(p) /\ ~UpdateDraft(p)
             /\ \A status \in PurchaseStatus : ~SetPurchaseStatus(p, status)
             /\ \A selected \in SUBSET (DOMAIN purchase[p].lines), destination \in Location :
                  ~Receive(p, selected, destination)
  BY <1>8 DEF CreatePurchase, UpdateDraft, SetPurchaseStatus, Receive
<1>9. ~UNCHANGED shipment => ~Surroundings /\ ~UNCHANGED supplyVars
  BY DEF Surroundings, supplyVars
<1>10. CASE ~UNCHANGED shipment
  BY <1>1, <1>4, <1>5, <1>6, <1>7, <1>8, <1>9, <1>10 DEF SupplyNext, Promise!ConsignmentNext
<1> QED
  BY <1>2, <1>10

(* Every behaviour of supply is one that the shipments promised: the goods *)
(* of a shipment leave and arrive together, as packed and once (ship,      *)
(* deliver, the operation keys of their legs).                             *)
THEOREM ConsignmentKept == SupplySpec => ConsignmentContract
<1>1. SupplyInit => Promise!ConsignmentInit
  <2> SUFFICES ASSUME SupplyInit PROVE Promise!ConsignmentInit
    OBVIOUS
  <2>1. LedgerCarries
    BY SupplyInvInit, LedgerFollowsRows
  <2>2. \A s \in Shipment : shipment[s].status = "NONE" /\ shipment[s].cargo = Empty
    BY DEF SupplyInit, NoShipment
  <2>3. /\ Carried("ship") = [s \in Shipment |-> Empty]
        /\ Carried("deliver") = [s \in Shipment |-> Empty]
    BY <2>1, <2>2 DEF LedgerCarries, Departed, Landed, Afloat
  <2>4. Stage = [s \in Shipment |-> "none"]
    <3>1. \A s \in Shipment : Stage[s] = "none"
      BY <2>1, <2>2, SeenOfRow DEF StageOf, Afloat, preparationStatuses
    <3> QED
      BY <2>1, <3>1, SeenOfRow
  <2>5. Empty = Promise!Nothing
    BY DEF Empty, Promise!Nothing
  <2> QED
    BY <2>2, <2>3, <2>4, <2>5 DEF Promise!ConsignmentInit
<1>2. SupplyInv /\ LedgerCarries /\ LedgerCarries' /\ [SupplyNext]_supplyVars
        => [Promise!ConsignmentNext]_(Promise!consignmentVars)
  BY PromiseStep
<1> QED
  BY <1>1, <1>2, SupplyInvInit, SupplyInvStep, LedgerFollowsRows, PTL
     DEF SupplySpec, ConsignmentContract, Promise!ConsignmentSpec
------------------------------------------------------------------------------
(***************************************************************************)
(* The pages that show staff what they moved.                              *)
(***************************************************************************)
DialogRow ==
  [status : {"NONE", "OPEN", "CLOSED"}, action : BulkAction \cup {"none"},
   amount : [Item -> Amount], result : [Item -> Outcome], answer : [Item -> Outcome],
   tries : 0..MaxTries, waits : 0..MaxTries]

RequestRow == [left : SUBSET Item, amount : [Item -> Amount], places : Defaults]

OpOf(action, r, i, amount, places) ==
  [key |-> BulkKey(r, i), item |-> i, route |-> RouteOf(action, amount, places),
   quantity |-> IF amount < 0 THEN -amount ELSE amount]

(* The row of a dialog was moved as it is shown.                           *)
Moved(d, ledger, r, i) ==
  \E places \in Defaults : OpOf(d.action, r, i, d.amount[i], places) \in ledger

(* A dialog knows nothing that is not so; what it waits for is what it     *)
(* shows, less the rows that are done.                                     *)
ReviewTrue(d, requests, ledger, r) ==
  /\ d.waits = 0 => d.answer = NoOutcome
  /\ \A i \in Item :
       /\ d.result[i] \in {"UPDATED", "APPLIED"} => Moved(d, ledger, r, i)
       /\ d.answer[i] \in {"UPDATED", "APPLIED"} => Moved(d, ledger, r, i)
       /\ d.waits # 0 /\ i \in requests[<<r, d.waits>>].left =>
            requests[<<r, d.waits>>].amount[i] = IF Locked(d, i) THEN 0 ELSE d.amount[i]

ReviewsTrue == \A r \in Review : ReviewTrue(dialog[r], request, movement, r)

ReviewsInv ==
  /\ dialog \in [Review -> DialogRow]
  /\ request \in [Review \X Try -> RequestRow]
  /\ ReviewsTrue

(* The rows of a dialog that was not opened.                               *)
LEMMA EmptyRows == NoDialog \in DialogRow /\ NoRequest \in RequestRow /\ NoRequest.left = {}
<1>1. \E q \in Defaults : TRUE
  BY BulkAssumption DEF BulkAssumption
<1>2. (CHOOSE p \in Defaults : TRUE) \in Defaults
  BY <1>1
<1> QED
  BY <1>2, BulkAssumption
     DEF NoDialog, NoRequest, NoOutcome, DialogRow, RequestRow, Amount, Outcome, BulkAssumption

(* An operation of a review is one the forms can submit.                   *)
LEMMA ReviewOperation ==
  ASSUME NEW action, NEW r \in Review, NEW i \in Item, NEW amount \in Amount, amount # 0,
         NEW places \in Defaults
  PROVE  OpOf(action, r, i, amount, places) \in Operation
<1>1. BulkKey(r, i) \in Key
  BY BulkAssumption DEF BulkAssumption, BulkKeys
<1>2. /\ places \in Location \X Location /\ places[1] # places[2]
      /\ places[1] \in Location /\ places[2] \in Location
  BY BulkAssumption DEF BulkAssumption
<1>3. /\ places \in Route /\ <<places[2], NoLocation>> \in Route
      /\ <<NoLocation, places[2]>> \in Route
  BY <1>2, InventoryAssumption DEF Route
<1>4. RouteOf(action, amount, places) \in Route
  BY <1>3 DEF RouteOf
<1>5. (IF amount < 0 THEN -amount ELSE amount) \in Quantity
  <2>1. \A q \in Quantity : q \in Nat /\ q > 0
    BY InventoryAssumption
  <2>2. CASE amount \in Quantity
    BY <2>1, <2>2
  <2>3. ASSUME NEW q \in Quantity, amount = -q
        PROVE  (IF amount < 0 THEN -amount ELSE amount) \in Quantity
    <3>1. q \in Nat /\ q > 0
      BY <2>1
    <3>2. amount < 0 /\ -amount = q
      BY <2>3, <3>1
    <3> QED
      BY <3>2
  <2> QED
    BY <2>2, <2>3 DEF Amount
<1> QED
  BY <1>1, <1>4, <1>5 DEF OpOf, Operation

(* A dialog stays true while the ledger grows and requests are worked off. *)
LEMMA ReviewStaysTrue ==
  ASSUME NEW d, NEW r \in Review, NEW requests, NEW later, NEW ledger, NEW grown,
         d.waits \in 0..MaxTries,
         ReviewTrue(d, requests, ledger, r), ledger \subseteq grown,
         \A n \in Try :
           /\ later[<<r, n>>].left \subseteq requests[<<r, n>>].left
           /\ \A i \in later[<<r, n>>].left :
                later[<<r, n>>].amount[i] = requests[<<r, n>>].amount[i]
  PROVE  ReviewTrue(d, later, grown, r)
<1>1. d.waits # 0 => d.waits \in Try
  BY BulkAssumption DEF BulkAssumption, Try
<1>2. \A i \in Item : Moved(d, ledger, r, i) => Moved(d, grown, r, i)
  BY DEF Moved
<1> QED
  BY <1>1, <1>2 DEF ReviewTrue

(* What others do to stock touches no dialog.                              *)
LEMMA ReviewsAside ==
  ASSUME ReviewsInv, movement \subseteq movement', UNCHANGED <<dialog, request>>
  PROVE  ReviewsInv'
<1>1. ASSUME NEW r \in Review PROVE ReviewTrue(dialog[r], request, movement', r)
  <2>1. dialog[r].waits \in 0..MaxTries /\ ReviewTrue(dialog[r], request, movement, r)
    BY DEF ReviewsInv, DialogRow, ReviewsTrue
  <2> QED
    BY <2>1, ReviewStaysTrue
<1> QED
  BY <1>1 DEF ReviewsInv, ReviewsTrue

(* One dialog changes and stays true, requests are only worked off.        *)
LEMMA OneReview ==
  ASSUME ReviewsInv, NEW r \in Review, NEW d \in DialogRow,
         dialog' = [dialog EXCEPT ![r] = d],
         request' \in [Review \X Try -> RequestRow],
         \A s \in Review \ {r}, n \in Try : request'[<<s, n>>] = request[<<s, n>>],
         movement \subseteq movement',
         ReviewTrue(d, request', movement', r)
  PROVE  ReviewsInv'
<1>1. dialog' \in [Review -> DialogRow]
  BY DEF ReviewsInv
<1>2. \A s \in Review : dialog'[s] = IF s = r THEN d ELSE dialog[s]
  BY DEF ReviewsInv
<1>3. ASSUME NEW s \in Review \ {r} PROVE ReviewTrue(dialog[s], request', movement', s)
  <2>1. dialog[s].waits \in 0..MaxTries /\ ReviewTrue(dialog[s], request, movement, s)
    BY DEF ReviewsInv, DialogRow, ReviewsTrue
  <2>2. \A n \in Try :
          /\ request'[<<s, n>>].left \subseteq request[<<s, n>>].left
          /\ \A i \in request'[<<s, n>>].left :
               request'[<<s, n>>].amount[i] = request[<<s, n>>].amount[i]
    OBVIOUS
  <2> QED
    BY <2>1, <2>2, ReviewStaysTrue
<1>4. \A s \in Review : ReviewTrue(dialog'[s], request', movement', s)
  BY <1>2, <1>3
<1> QED
  BY <1>1, <1>4 DEF ReviewsInv, ReviewsTrue

(* Opening, submitting and closing a dialog.                               *)
LEMMA DialogUsed ==
  ASSUME ReviewsInv, NEW r \in Review,
         \/ \E action \in BulkAction : Prepare(r, action)
         \/ Submit(r) \/ CloseDialog(r)
  PROVE  ReviewsInv'
<1> DEFINE d == dialog[r]
<1>1. d \in DialogRow /\ ReviewTrue(d, request, movement, r)
  BY DEF ReviewsInv, ReviewsTrue
<1>2. ASSUME NEW action \in BulkAction, Prepare(r, action) PROVE ReviewsInv'
  <2> DEFINE row == [NoDialog EXCEPT !.status = "OPEN", !.action = action]
  <2>1. /\ row \in DialogRow /\ row.waits = 0 /\ row.answer = NoOutcome /\ row.result = NoOutcome
    BY EmptyRows DEF DialogRow, NoDialog
  <2>2. dialog' = [dialog EXCEPT ![r] = row] /\ UNCHANGED <<movement, request>>
    BY <1>2 DEF Prepare, inventoryVars
  <2> HIDE DEF row
  <2>3. ReviewTrue(row, request, movement, r)
    BY <2>1 DEF ReviewTrue, NoOutcome
  <2> QED
    BY <2>1, <2>2, <2>3, OneReview DEF ReviewsInv
<1>3. CASE CloseDialog(r)
  <2> DEFINE row == [d EXCEPT !.status = "CLOSED"]
  <2>1. /\ row \in DialogRow /\ row.waits = d.waits /\ row.answer = d.answer
        /\ row.result = d.result /\ row.amount = d.amount /\ row.action = d.action
    BY <1>1 DEF DialogRow
  <2>2. dialog' = [dialog EXCEPT ![r] = row] /\ UNCHANGED <<movement, request>>
    BY <1>3 DEF CloseDialog, inventoryVars
  <2> HIDE DEF row
  <2>3. ReviewTrue(row, request, movement, r)
    BY <1>1, <2>1 DEF ReviewTrue, Moved, Locked
  <2> QED
    BY <2>1, <2>2, <2>3, OneReview DEF ReviewsInv
<1>4. CASE Submit(r)
  <2> DEFINE n == d.tries + 1
  <2>1. PICK amount \in [Item -> Amount], places \in Defaults :
          /\ \A i \in Item : Locked(d, i) => amount[i] = d.amount[i]
          /\ dialog' = [dialog EXCEPT ![r] = [d EXCEPT !.amount = amount, !.tries = n, !.waits = n]]
          /\ request' = [request EXCEPT ![<<r, n>>] =
               [left |-> Item, places |-> places,
                amount |-> [i \in Item |-> IF Locked(d, i) THEN 0 ELSE amount[i]]]]
    BY <1>4 DEF Submit
  <2> DEFINE row == [d EXCEPT !.amount = amount, !.tries = n, !.waits = n]
             asked == [left |-> Item, places |-> places,
                       amount |-> [i \in Item |-> IF Locked(d, i) THEN 0 ELSE amount[i]]]
  <2>2. n \in Try /\ n \in 0..MaxTries /\ n # 0 /\ d.waits = 0 /\ movement' = movement
    <3>1. n <= MaxTries /\ d.waits = 0 /\ movement' = movement
      BY <1>4 DEF Submit, Editable, inventoryVars
    <3>2. d.tries \in 0..MaxTries /\ MaxTries \in Nat
      BY <1>1, BulkAssumption DEF DialogRow, BulkAssumption
    <3> QED
      BY <3>1, <3>2 DEF Try
  <2> HIDE DEF n
  <2>3. /\ row \in DialogRow /\ row.waits = n /\ row.answer = d.answer
        /\ row.result = d.result /\ row.amount = amount /\ row.action = d.action
    BY <1>1, <2>2 DEF DialogRow
  <2>4. asked \in RequestRow /\ \A i \in Item : asked.amount[i] = IF Locked(d, i) THEN 0 ELSE amount[i]
    BY DEF RequestRow, Amount
  <2>5. dialog' = [dialog EXCEPT ![r] = row] /\ request' = [request EXCEPT ![<<r, n>>] = asked]
    BY <2>1
  <2> HIDE DEF row, asked
  <2>6. /\ request' \in [Review \X Try -> RequestRow] /\ request'[<<r, n>>] = asked
        /\ \A s \in Review \ {r}, k \in Try : request'[<<s, k>>] = request[<<s, k>>]
    BY <2>2, <2>4, <2>5 DEF ReviewsInv
  <2>7. ReviewTrue(row, request', movement, r)
    <3>1. \A i \in Item : row.answer[i] = "NONE" /\ (Locked(row, i) <=> Locked(d, i))
      BY <1>1, <2>2, <2>3 DEF ReviewTrue, NoOutcome, Locked
    <3>2. ASSUME NEW i \in Item, row.result[i] \in {"UPDATED", "APPLIED"}
          PROVE  Moved(row, movement, r, i)
      <4>1. Moved(d, movement, r, i) /\ Locked(d, i)
        BY <1>1, <2>3, <3>2 DEF ReviewTrue, Locked, Done
      <4>2. row.amount[i] = d.amount[i] /\ row.action = d.action
        BY <2>1, <2>3, <4>1
      <4> QED
        BY <4>1, <4>2 DEF Moved
    <3>3. \A i \in Item :
            request'[<<r, n>>].amount[i] = IF Locked(row, i) THEN 0 ELSE row.amount[i]
      BY <2>3, <2>4, <2>6, <3>1
    <3> QED
      BY <2>2, <2>3, <3>1, <3>2, <3>3 DEF ReviewTrue
  <2> QED
    BY <2>2, <2>3, <2>5, <2>6, <2>7, OneReview
<1> QED
  BY <1>2, <1>3, <1>4

(* The answer arrives or is lost, or the account is disabled.              *)
LEMMA DialogAnswered ==
  ASSUME ReviewsInv, NEW r \in Review,
         ReceiveAnswer(r) \/ Interrupt(r) \/ \E n \in Try : Revoke(r, n)
  PROVE  ReviewsInv'
<1> DEFINE d == dialog[r]
<1>1. d \in DialogRow /\ ReviewTrue(d, request, movement, r)
  BY DEF ReviewsInv, ReviewsTrue
<1>2. CASE ReceiveAnswer(r)
  <2> DEFINE result == [i \in Item |-> IF Locked(d, i) THEN d.result[i] ELSE d.answer[i]]
             row == [d EXCEPT !.waits = 0, !.answer = NoOutcome, !.result = result]
  <2>1. result \in [Item -> Outcome] /\ NoOutcome \in [Item -> Outcome] /\ 0 \in 0..MaxTries
    BY <1>1, BulkAssumption DEF DialogRow, NoOutcome, Outcome, BulkAssumption
  <2>2. \A i \in Item : result[i] \in {d.result[i], d.answer[i]}
    OBVIOUS
  <2>3. dialog' = [dialog EXCEPT ![r] = row] /\ UNCHANGED <<movement, request>>
    BY <1>2 DEF ReceiveAnswer, inventoryVars
  <2> HIDE DEF result
  <2>4. /\ row \in DialogRow /\ row.waits = 0 /\ row.answer = NoOutcome
        /\ row.result = result /\ row.amount = d.amount /\ row.action = d.action
    BY <1>1, <2>1 DEF DialogRow
  <2> HIDE DEF row
  <2>5. ReviewTrue(row, request, movement, r)
    <3>1. \A i \in Item : result[i] \in {"UPDATED", "APPLIED"} => Moved(d, movement, r, i)
      BY <1>1, <2>2 DEF ReviewTrue
    <3> QED
      BY <2>4, <3>1 DEF ReviewTrue, NoOutcome, Moved
  <2> QED
    BY <2>3, <2>4, <2>5, OneReview DEF ReviewsInv
<1>3. CASE Interrupt(r)
  <2> DEFINE row == [d EXCEPT !.waits = 0, !.answer = NoOutcome]
  <2>1. NoOutcome \in [Item -> Outcome] /\ 0 \in 0..MaxTries
    BY BulkAssumption DEF NoOutcome, Outcome, BulkAssumption
  <2>2. dialog' = [dialog EXCEPT ![r] = row] /\ UNCHANGED movement /\ d.waits # 0
    BY <1>3 DEF Interrupt, inventoryVars
  <2>3. request' = request \/ request' = [request EXCEPT ![<<r, d.waits>>] = NoRequest]
    BY <1>3 DEF Interrupt
  <2>4. /\ row \in DialogRow /\ row.waits = 0 /\ row.answer = NoOutcome
        /\ row.result = d.result /\ row.amount = d.amount /\ row.action = d.action
    BY <1>1, <2>1 DEF DialogRow
  <2> HIDE DEF row
  <2>5. d.waits \in Try
    BY <1>1, <2>2, BulkAssumption DEF DialogRow, Try, BulkAssumption
  <2>6. /\ request' \in [Review \X Try -> RequestRow]
        /\ \A s \in Review \ {r}, k \in Try : request'[<<s, k>>] = request[<<s, k>>]
    <3> HIDE DEF d
    <3> QED
      BY <2>3, <2>5, EmptyRows DEF ReviewsInv
  <2>7. ReviewTrue(row, request', movement, r)
    BY <1>1, <2>4 DEF ReviewTrue, NoOutcome, Moved
  <2> QED
    BY <2>2, <2>4, <2>6, <2>7, OneReview
<1>4. ASSUME NEW n \in Try, Revoke(r, n) PROVE ReviewsInv'
  <2> DEFINE failed == [i \in Item |-> IF d.answer[i] = "NONE" THEN "FAILED" ELSE d.answer[i]]
             row == IF d.waits = n THEN [d EXCEPT !.answer = failed] ELSE d
  <2>1. request' = [request EXCEPT ![<<r, n>>] = NoRequest] /\ UNCHANGED movement
    BY <1>4 DEF Revoke, inventoryVars
  <2>2. dialog' = [dialog EXCEPT ![r] = row]
    BY <1>4 DEF Revoke, ReviewsInv
  <2>3. failed \in [Item -> Outcome] /\ \A i \in Item : failed[i] \in {"FAILED", d.answer[i]}
    BY <1>1 DEF DialogRow, Outcome
  <2>4. /\ request' \in [Review \X Try -> RequestRow]
        /\ request'[<<r, n>>].left = {}
        /\ \A k \in Try \ {n} : request'[<<r, k>>] = request[<<r, k>>]
        /\ \A s \in Review \ {r}, k \in Try : request'[<<s, k>>] = request[<<s, k>>]
    BY <2>1, EmptyRows DEF ReviewsInv
  <2> HIDE DEF failed
  <2>5. CASE d.waits = n
    <3>1. /\ row \in DialogRow /\ row.waits = n /\ row.answer = failed
          /\ row.result = d.result /\ row.amount = d.amount /\ row.action = d.action
      BY <1>1, <2>3, <2>5 DEF DialogRow
    <3>2. n # 0
      BY BulkAssumption DEF Try, BulkAssumption
    <3> HIDE DEF row
    <3>3. ReviewTrue(row, request', movement, r)
      <4>1. \A i \in Item : failed[i] \in {"UPDATED", "APPLIED"} => Moved(d, movement, r, i)
        BY <1>1, <2>3 DEF ReviewTrue
      <4> QED
        BY <1>1, <2>4, <3>1, <3>2, <4>1 DEF ReviewTrue, Moved
    <3> QED
      BY <2>1, <2>2, <2>4, <3>1, <3>3, OneReview
  <2>6. CASE d.waits # n
    <3>1. row = d
      BY <2>6
    <3>2. d.waits # 0 => d.waits \in Try \ {n}
      BY <1>1, <2>6, BulkAssumption DEF DialogRow, Try, BulkAssumption
    <3>3. ReviewTrue(d, request', movement, r)
      BY <1>1, <2>4, <3>2 DEF ReviewTrue
    <3> HIDE DEF row
    <3> QED
      BY <1>1, <2>1, <2>2, <2>4, <3>1, <3>3, OneReview
  <2> QED
    BY <2>5, <2>6
<1> QED
  BY <1>2, <1>3, <1>4

(* The outcome of a row goes into the answer that is awaited.              *)
LEMMA RowReported ==
  ASSUME ReviewsInv, NEW r \in Review, NEW n \in Try, NEW i \in request[<<r, n>>].left,
         NEW outcome \in {"UPDATED", "APPLIED", "EXCLUDED", "FAILED"},
         Report(r, n, i, outcome), movement \subseteq movement',
         outcome \in {"UPDATED", "APPLIED"} =>
           /\ request[<<r, n>>].amount[i] # 0
           /\ Op(r, i, request[<<r, n>>].amount[i], request[<<r, n>>].places) \in movement'
  PROVE  ReviewsInv'
<1> DEFINE d == dialog[r]
           asked == request[<<r, n>>]
           rest == IF asked.left = {i} THEN NoRequest ELSE [asked EXCEPT !.left = asked.left \ {i}]
           row == IF d.waits = n THEN [d EXCEPT !.answer[i] = outcome] ELSE d
<1>1. d \in DialogRow /\ ReviewTrue(d, request, movement, r) /\ asked \in RequestRow /\ i \in Item
  BY DEF ReviewsInv, ReviewsTrue, RequestRow
<1>2. request' = [request EXCEPT ![<<r, n>>] = rest]
  BY DEF Report
<1>3. dialog' = [dialog EXCEPT ![r] = row]
  BY DEF Report, ReviewsInv
<1>4. /\ rest \in RequestRow /\ rest.left \subseteq asked.left
      /\ \A j \in rest.left : rest.amount[j] = asked.amount[j]
  BY <1>1, EmptyRows DEF RequestRow
<1> HIDE DEF rest, asked
<1>5. /\ request' \in [Review \X Try -> RequestRow]
      /\ request'[<<r, n>>] = rest
      /\ \A k \in Try \ {n} : request'[<<r, k>>] = request[<<r, k>>]
      /\ \A s \in Review \ {r}, k \in Try : request'[<<s, k>>] = request[<<s, k>>]
  BY <1>2, <1>4 DEF ReviewsInv
<1>6. ReviewTrue(d, request', movement', r)
  <2>1. \A k \in Try :
          /\ request'[<<r, k>>].left \subseteq request[<<r, k>>].left
          /\ \A j \in request'[<<r, k>>].left :
               request'[<<r, k>>].amount[j] = request[<<r, k>>].amount[j]
    BY <1>4, <1>5 DEF asked
  <2>2. d.waits \in 0..MaxTries
    BY <1>1 DEF DialogRow
  <2> QED
    BY <1>1, <2>1, <2>2, ReviewStaysTrue
<1>7. n # 0
  BY BulkAssumption DEF Try, BulkAssumption
<1>8. CASE d.waits = n
  <2>1. /\ row \in DialogRow /\ row.waits = n /\ row.result = d.result
        /\ row.amount = d.amount /\ row.action = d.action
        /\ \A j \in Item : row.answer[j] = IF j = i THEN outcome ELSE d.answer[j]
    BY <1>1, <1>8 DEF DialogRow, Outcome
  <2>2. ASSUME outcome \in {"UPDATED", "APPLIED"} PROVE Moved(d, movement', r, i)
    <3>1. asked.amount[i] = IF Locked(d, i) THEN 0 ELSE d.amount[i]
      BY <1>1, <1>7, <1>8 DEF ReviewTrue, asked
    <3>2. asked.amount[i] = d.amount[i]
      BY <2>2, <3>1 DEF asked
    <3>3. OpOf(d.action, r, i, d.amount[i], asked.places) \in movement'
      BY <2>2, <3>2 DEF OpOf, Op, asked
    <3> QED
      BY <1>1, <3>3 DEF Moved, RequestRow
  <2> HIDE DEF row
  <2>3. ReviewTrue(row, request', movement', r)
    <3>1. row.waits # 0
      BY <1>7, <2>1
    <3>2. ASSUME NEW j \in Item
          PROVE  /\ row.result[j] \in {"UPDATED", "APPLIED"} => Moved(row, movement', r, j)
                 /\ row.answer[j] \in {"UPDATED", "APPLIED"} => Moved(row, movement', r, j)
      <4>1. Moved(row, movement', r, j) <=> Moved(d, movement', r, j)
        BY <2>1 DEF Moved
      <4>2. /\ d.result[j] \in {"UPDATED", "APPLIED"} => Moved(d, movement', r, j)
            /\ d.answer[j] \in {"UPDATED", "APPLIED"} => Moved(d, movement', r, j)
        BY <1>6 DEF ReviewTrue
      <4> QED
        BY <2>1, <2>2, <4>1, <4>2
    <3>3. ASSUME NEW j \in Item, j \in request'[<<r, row.waits>>].left
          PROVE  request'[<<r, row.waits>>].amount[j] = IF Locked(row, j) THEN 0 ELSE row.amount[j]
      BY <1>6, <1>7, <1>8, <2>1, <3>3 DEF ReviewTrue, Locked
    <3> QED
      BY <3>1, <3>2, <3>3 DEF ReviewTrue
  <2> QED
    BY <1>3, <1>5, <2>1, <2>3, OneReview
<1>9. CASE d.waits # n
  <2>1. row = d
    BY <1>9
  <2> HIDE DEF row
  <2> QED
    BY <1>1, <1>3, <1>5, <1>6, <2>1, OneReview
<1> QED
  BY <1>8, <1>9

(* A row is reached.                                                       *)
LEMMA RowExecuted ==
  ASSUME ReviewsInv, NEW r \in Review, NEW n \in Try, NEW i \in Item, ExecuteRow(r, n, i)
  PROVE  ReviewsInv' /\ [InventoryNext]_inventoryVars
<1> DEFINE amount == request[<<r, n>>].amount[i]
           op == Op(r, i, amount, request[<<r, n>>].places)
<1>1. i \in request[<<r, n>>].left
  BY DEF ExecuteRow
<1>2. request[<<r, n>>] \in RequestRow
  BY DEF ReviewsInv
<1>3. amount # 0 => op \in Operation
  <2>1. op = OpOf(dialog[r].action, r, i, amount, request[<<r, n>>].places)
    BY DEF Op, OpOf
  <2>2. amount \in Amount /\ request[<<r, n>>].places \in Defaults
    BY <1>2 DEF RequestRow
  <2> HIDE DEF op, amount
  <2> QED
    BY <2>1, <2>2, ReviewOperation
<1>4. \/ amount = 0 /\ Report(r, n, i, "EXCLUDED") /\ UNCHANGED inventoryVars
      \/ /\ amount # 0
         /\ ApplyInventoryOperation(op)
         /\ \E outcome \in {"UPDATED", "FAILED"} : Report(r, n, i, outcome)
      \/ /\ amount # 0
         /\ SameContent(op)
         /\ Report(r, n, i, "APPLIED")
         /\ UNCHANGED inventoryVars
      \/ amount # 0 /\ Report(r, n, i, "FAILED") /\ UNCHANGED inventoryVars
  BY DEF ExecuteRow
<1>5. CASE \E outcome \in {"EXCLUDED", "FAILED"} :
             Report(r, n, i, outcome) /\ UNCHANGED inventoryVars
  <2>1. UNCHANGED inventoryVars /\ movement \subseteq movement'
    BY <1>5 DEF inventoryVars
  <2>2. ReviewsInv'
    BY <1>1, <1>5, <2>1, RowReported
  <2> QED
    BY <2>1, <2>2
<1>6. CASE /\ amount # 0 /\ ApplyInventoryOperation(op)
           /\ \E outcome \in {"UPDATED", "FAILED"} : Report(r, n, i, outcome)
  <2>1. InventoryNext
    BY <1>3, <1>6 DEF InventoryNext
  <2>2. movement' = movement \cup {op}
    BY <1>6 DEF ApplyInventoryOperation
  <2>3. ReviewsInv'
    BY <1>1, <1>6, <2>2, RowReported
  <2> QED
    BY <2>1, <2>3
<1>7. CASE amount # 0 /\ SameContent(op) /\ Report(r, n, i, "APPLIED") /\ UNCHANGED inventoryVars
  <2>1. UNCHANGED inventoryVars /\ movement' = movement
    BY <1>7 DEF inventoryVars
  <2>2. op \in movement'
    BY <1>7, <2>1 DEF SameContent
  <2>3. ReviewsInv'
    BY <1>1, <1>7, <2>1, <2>2, RowReported
  <2> QED
    BY <2>1, <2>3
<1> HIDE DEF op, amount
<1> QED
  BY <1>4, <1>5, <1>6, <1>7

(* The steps of reviews.                                                   *)
LEMMA ReviewsStep ==
  ASSUME ReviewsInv, BulkNext
  PROVE  ReviewsInv' /\ [InventoryNext]_inventoryVars
<1>1. ASSUME NEW r \in Review,
             \/ \E action \in BulkAction : Prepare(r, action)
             \/ Submit(r) \/ CloseDialog(r)
      PROVE  ReviewsInv' /\ [InventoryNext]_inventoryVars
  BY <1>1, DialogUsed DEF Prepare, Submit, CloseDialog
<1>2. ASSUME NEW r \in Review, ReceiveAnswer(r) \/ Interrupt(r) \/ \E n \in Try : Revoke(r, n)
      PROVE  ReviewsInv' /\ [InventoryNext]_inventoryVars
  BY <1>2, DialogAnswered DEF ReceiveAnswer, Interrupt, Revoke
<1>3. ASSUME NEW r \in Review, NEW n \in Try, NEW i \in Item, ExecuteRow(r, n, i)
      PROVE  ReviewsInv' /\ [InventoryNext]_inventoryVars
  BY <1>3, RowExecuted
<1> QED
  BY <1>1, <1>2, <1>3 DEF BulkNext

(* What a form says a command does is what the command is parsed into.     *)
LEMMA ParsedAsLabelled ==
  ASSUME NEW key, NEW i, NEW c \in Command
  PROVE  Parsed(key, i, c) =
           [key |-> key, item |-> i, quantity |-> Size(c), route |-> Labelled(c)]
<1>1. c.amount \in Int /\ c.amount # 0 /\ c.type \in MovementType /\ c.direction \in {"in", "out"}
  <2>1. \A q \in Quantity : q \in Nat /\ q > 0
    BY InventoryAssumption
  <2>2. c.amount \in Int /\ c.amount # 0
    BY <2>1 DEF Command
  <2> QED
    BY <2>2 DEF Command
<1>2. /\ c.type # "ADJUSTMENT" => c.amount > 0
      /\ c.type # "OTHER" => c.direction = "out"
  BY DEF Command
<1>3. CASE c.type = "TRANSFER"
  <2>1. ~(Delta(c) < 0)
    BY <1>1, <1>2, <1>3 DEF Delta
  <2> QED
    BY <1>3, <2>1 DEF Parsed, Labelled
<1>4. CASE c.type # "TRANSFER"
  <2>1. Delta(c) < 0 <=> ~Incoming(c)
    BY <1>1, <1>2, <1>4 DEF Delta, Incoming, MovementType
  <2> QED
    BY <1>4, <2>1 DEF Parsed, Labelled
<1> QED
  BY <1>3, <1>4

(* A command of the form is an operation.                                  *)
LEMMA FormOperation ==
  ASSUME NEW key \in FormKey, NEW i \in Item, NEW c \in Command
  PROVE  Parsed(key, i, c) \in Operation
<1>1. Size(c) \in Quantity
  <2>1. \A q \in Quantity : q \in Nat /\ q > 0
    BY InventoryAssumption
  <2>2. CASE c.amount \in Quantity
    BY <2>1, <2>2 DEF Size
  <2>3. ASSUME NEW q \in Quantity, c.amount = -q
        PROVE  Size(c) \in Quantity
    <3>1. q \in Nat /\ q > 0
      BY <2>1
    <3>2. c.amount < 0 /\ -c.amount = q
      BY <2>3, <3>1
    <3> QED
      BY <3>2 DEF Size
  <2> QED
    BY <2>2, <2>3 DEF Command
<1>2. /\ c.place \in Offered \X Offered /\ Offered \subseteq Location
      /\ c.type = "TRANSFER" => c.place[1] # c.place[2]
  BY FormAssumption DEF Command, FormAssumption
<1>3. Labelled(c) \in Route
  <2>1. CASE c.type = "TRANSFER"
    BY <1>2, <2>1 DEF Labelled, Route
  <2>2. CASE c.type # "TRANSFER"
    BY <1>2, <2>2, InventoryAssumption DEF Labelled, Route
  <2> QED
    BY <2>1, <2>2
<1>4. key \in Key
  BY FormAssumption DEF FormAssumption
<1> QED
  BY <1>1, <1>3, <1>4, ParsedAsLabelled DEF Operation

(* A form shows as recorded only what was; it waits for what was typed.    *)
FormTrue(view, ledger) ==
  /\ view.status # "NONE" =>
       view.item \in Item /\ view.key \in FormKey /\ view.offered \in FormKey
  /\ view.status \in {"WAITS", "DONE"} => view.typed \in Command
  /\ view.status # "WAITS" => view.answer = "NONE"
  /\ view.status = "DONE" \/ view.answer = "RECORDED" =>
       Parsed(view.key, view.item, view.typed) \in ledger

FormsInv ==
  /\ FormsTypeOK
  /\ \A f \in Form : FormTrue(form[f], movement)

(* What others do touches no form.                                         *)
LEMMA FormsAside ==
  ASSUME FormsInv, movement \subseteq movement', UNCHANGED formVars
  PROVE  FormsInv'
  BY DEF FormsInv, FormsTypeOK, formVars, FormTrue

(* One form changes and stays true.                                        *)
LEMMA OneForm ==
  ASSUME FormsInv, NEW f \in Form, NEW view \in FormPage, form' = [form EXCEPT ![f] = view],
         post' \in [Form -> SUBSET Operation], drawn' \subseteq FormKey,
         movement \subseteq movement', FormTrue(view, movement')
  PROVE  FormsInv'
<1>1. \A g \in Form : form'[g] = IF g = f THEN view ELSE form[g]
  BY DEF FormsInv, FormsTypeOK
<1>2. \A g \in Form : FormTrue(form[g], movement) => FormTrue(form[g], movement')
  BY DEF FormTrue
<1>3. \A g \in Form : FormTrue(form'[g], movement')
  BY <1>1, <1>2 DEF FormsInv
<1>4. FormsTypeOK'
  BY DEF FormsInv, FormsTypeOK
<1> QED
  BY <1>3, <1>4 DEF FormsInv

(* What staff do in a form.                                                *)
LEMMA FormUsed ==
  ASSUME FormsInv, NEW f \in Form,
         \/ \E i \in Item : OpenForm(f, i)
         \/ \E c \in Command : SubmitForm(f, c)
         \/ ReceiveReply(f) \/ StartNew(f) \/ Remount(f)
  PROVE  FormsInv' /\ UNCHANGED bulkVars
<1> DEFINE view == form[f]
<1>1. view \in FormPage /\ FormTrue(view, movement) /\ post[f] \subseteq Operation
  BY DEF FormsInv, FormsTypeOK
<1>2. drawn # FormKey => Fresh \in FormKey /\ drawn \cup {Fresh} \subseteq FormKey
  BY DEF FormsInv, FormsTypeOK, Fresh
<1>3. ASSUME NEW i \in Item, OpenForm(f, i) PROVE FormsInv' /\ UNCHANGED bulkVars
  <2> DEFINE row == [view EXCEPT !.status = "OPEN", !.item = i, !.offered = Fresh, !.key = Fresh]
  <2>1. /\ form' = [form EXCEPT ![f] = row] /\ drawn' = drawn \cup {Fresh} /\ drawn # FormKey
        /\ view.status = "NONE" /\ UNCHANGED <<bulkVars, post>>
    BY <1>3 DEF OpenForm
  <2>2. /\ row \in FormPage /\ row.status = "OPEN" /\ row.item = i /\ row.offered = Fresh
        /\ row.key = Fresh /\ row.answer = view.answer
    BY <1>1, <1>2, <2>1 DEF FormPage
  <2> HIDE DEF row
  <2>3. movement' = movement /\ FormTrue(row, movement)
    BY <1>1, <1>2, <2>1, <2>2 DEF FormTrue, bulkVars, inventoryVars
  <2> QED
    BY <1>2, <2>1, <2>2, <2>3, OneForm DEF FormsInv, FormsTypeOK
<1>4. ASSUME NEW c \in Command, SubmitForm(f, c) PROVE FormsInv' /\ UNCHANGED bulkVars
  <2> DEFINE row == [view EXCEPT !.status = "WAITS", !.typed = c]
             op == Parsed(view.key, view.item, c)
  <2>1. /\ form' = [form EXCEPT ![f] = row] /\ post' = [post EXCEPT ![f] = post[f] \cup {op}]
        /\ view.status = "OPEN" /\ UNCHANGED <<bulkVars, drawn>>
    BY <1>4 DEF SubmitForm
  <2>2. /\ row \in FormPage /\ row.status = "WAITS" /\ row.item = view.item
        /\ row.offered = view.offered /\ row.key = view.key /\ row.answer = view.answer
        /\ row.typed = c
    BY <1>1 DEF FormPage
  <2> HIDE DEF row
  <2>3. movement' = movement /\ FormTrue(row, movement)
    BY <1>1, <2>1, <2>2 DEF FormTrue, bulkVars, inventoryVars
  <2>4. op \in Operation
    BY <1>1, <2>1, FormOperation DEF FormTrue
  <2> HIDE DEF op
  <2>5. post' \in [Form -> SUBSET Operation] /\ drawn' \subseteq FormKey
    BY <2>1, <2>4 DEF FormsInv, FormsTypeOK
  <2> QED
    BY <2>1, <2>2, <2>3, <2>5, OneForm
<1>5. CASE ReceiveReply(f)
  <2>1. UNCHANGED <<bulkVars, post>> /\ view.status = "WAITS" /\ movement' = movement
    BY <1>5 DEF ReceiveReply, bulkVars, inventoryVars
  <2>2. CASE /\ view.answer = "RECORDED" /\ drawn # FormKey
             /\ form' = [form EXCEPT ![f] = [view EXCEPT !.status = "DONE", !.answer = "NONE",
                                                          !.offered = Fresh]]
             /\ drawn' = drawn \cup {Fresh}
    <3> DEFINE row == [view EXCEPT !.status = "DONE", !.answer = "NONE", !.offered = Fresh]
    <3>1. /\ row \in FormPage /\ row.status = "DONE" /\ row.item = view.item
          /\ row.offered = Fresh /\ row.key = view.key /\ row.answer = "NONE"
          /\ row.typed = view.typed
      BY <1>1, <1>2, <2>2 DEF FormPage
    <3>2. form' = [form EXCEPT ![f] = row]
      BY <2>2
    <3> HIDE DEF row
    <3>3. FormTrue(row, movement)
      BY <1>1, <1>2, <2>1, <2>2, <3>1 DEF FormTrue
    <3> QED
      BY <1>2, <2>1, <2>2, <3>1, <3>2, <3>3, OneForm DEF FormsInv, FormsTypeOK
  <2>3. CASE /\ view.answer = "REFUSED" /\ drawn' = drawn
             /\ form' = [form EXCEPT ![f] = [view EXCEPT !.status = "OPEN", !.answer = "NONE"]]
    <3> DEFINE row == [view EXCEPT !.status = "OPEN", !.answer = "NONE"]
    <3>1. /\ row \in FormPage /\ row.status = "OPEN" /\ row.item = view.item
          /\ row.offered = view.offered /\ row.key = view.key /\ row.answer = "NONE"
      BY <1>1 DEF FormPage
    <3>2. form' = [form EXCEPT ![f] = row]
      BY <2>3
    <3> HIDE DEF row
    <3>3. FormTrue(row, movement)
      BY <1>1, <2>1, <3>1 DEF FormTrue
    <3> QED
      BY <2>1, <2>3, <3>1, <3>2, <3>3, OneForm DEF FormsInv, FormsTypeOK
  <2> QED
    BY <1>5, <2>2, <2>3 DEF ReceiveReply
<1>6. CASE StartNew(f)
  <2> DEFINE row == [view EXCEPT !.status = "OPEN", !.typed = NoCommand, !.key = Fresh]
  <2>1. /\ form' = [form EXCEPT ![f] = row] /\ drawn' = drawn \cup {Fresh} /\ drawn # FormKey
        /\ view.status = "DONE" /\ UNCHANGED <<bulkVars, post>>
    BY <1>6 DEF StartNew
  <2>2. /\ row \in FormPage /\ row.status = "OPEN" /\ row.item = view.item
        /\ row.offered = view.offered /\ row.key = Fresh /\ row.answer = view.answer
    BY <1>1, <1>2, <2>1 DEF FormPage
  <2> HIDE DEF row
  <2>3. movement' = movement /\ FormTrue(row, movement)
    BY <1>1, <1>2, <2>1, <2>2 DEF FormTrue, bulkVars, inventoryVars
  <2> QED
    BY <1>2, <2>1, <2>2, <2>3, OneForm DEF FormsInv, FormsTypeOK
<1>7. CASE Remount(f)
  <2> DEFINE row == [view EXCEPT !.status = "OPEN", !.key = view.offered,
                                 !.typed = NoCommand, !.answer = "NONE"]
  <2>1. /\ form' = [form EXCEPT ![f] = row] /\ view.status # "NONE"
        /\ post' = post \/ post' = [post EXCEPT ![f] = {}]
        /\ UNCHANGED <<bulkVars, drawn>>
    BY <1>7 DEF Remount
  <2>2. /\ row \in FormPage /\ row.status = "OPEN" /\ row.item = view.item
        /\ row.offered = view.offered /\ row.key = view.offered /\ row.answer = "NONE"
    BY <1>1 DEF FormPage
  <2> HIDE DEF row
  <2>3. movement' = movement /\ FormTrue(row, movement)
    BY <1>1, <2>1, <2>2 DEF FormTrue, bulkVars, inventoryVars
  <2>4. post' \in [Form -> SUBSET Operation] /\ drawn' \subseteq FormKey
    BY <2>1 DEF FormsInv, FormsTypeOK
  <2> QED
    BY <2>1, <2>2, <2>3, <2>4, OneForm
<1> QED
  BY <1>3, <1>4, <1>5, <1>6, <1>7

(* A command of a form is executed on the server.                          *)
LEMMA CommandRecorded ==
  ASSUME FormsInv, NEW f \in Form, NEW op \in post[f], RecordInventory(f, op)
  PROVE  FormsInv' /\ [InventoryNext]_inventoryVars /\ UNCHANGED <<dialog, request>>
<1>1. op \in Operation
  BY DEF FormsInv, FormsTypeOK
<1>2. UNCHANGED <<dialog, request, drawn>>
  BY DEF RecordInventory
<1>3. ASSUME NEW answer \in {"RECORDED", "REFUSED"}, Reply(f, op, answer),
             movement \subseteq movement', answer = "RECORDED" => op \in movement'
      PROVE  FormsInv'
  <2> DEFINE view == form[f]
             row == IF Awaits(f, op) THEN [view EXCEPT !.answer = answer] ELSE view
  <2>1. view \in FormPage /\ FormTrue(view, movement)
    BY DEF FormsInv, FormsTypeOK
  <2>2. form' = [form EXCEPT ![f] = row] /\ post' = [post EXCEPT ![f] = post[f] \ {op}]
    BY <1>3 DEF Reply, FormsInv, FormsTypeOK
  <2>3. post' \in [Form -> SUBSET Operation] /\ drawn' \subseteq FormKey
    BY <1>2, <2>2 DEF FormsInv, FormsTypeOK
  <2>4. CASE Awaits(f, op)
    <3>1. /\ row \in FormPage /\ row.status = "WAITS" /\ row.item = view.item
          /\ row.offered = view.offered /\ row.key = view.key /\ row.answer = answer
          /\ row.typed = view.typed /\ op = Parsed(view.key, view.item, view.typed)
      BY <1>3, <2>1, <2>4 DEF FormPage, Awaits
    <3> HIDE DEF row
    <3>2. FormTrue(row, movement')
      BY <1>3, <2>1, <2>4, <3>1 DEF FormTrue, Awaits
    <3> QED
      BY <1>3, <2>2, <2>3, <3>1, <3>2, OneForm
  <2>5. CASE ~Awaits(f, op)
    <3>1. row = view /\ FormTrue(view, movement')
      BY <1>3, <2>1, <2>5 DEF FormTrue
    <3> HIDE DEF row
    <3> QED
      BY <1>3, <2>1, <2>2, <2>3, <3>1, OneForm
  <2> QED
    BY <2>4, <2>5
<1>4. CASE /\ ApplyInventoryOperation(op)
           /\ \E answer \in {"RECORDED", "REFUSED"} : Reply(f, op, answer)
  <2>1. movement' = movement \cup {op} /\ InventoryNext
    BY <1>1, <1>4 DEF ApplyInventoryOperation, InventoryNext
  <2> QED
    BY <1>2, <1>3, <1>4, <2>1
<1>5. CASE SameContent(op) /\ Reply(f, op, "RECORDED") /\ UNCHANGED inventoryVars
  <2>1. movement' = movement /\ op \in movement
    BY <1>5 DEF inventoryVars, SameContent
  <2> QED
    BY <1>2, <1>3, <1>5, <2>1
<1>6. CASE Reply(f, op, "REFUSED") /\ UNCHANGED inventoryVars
  <2>1. movement' = movement
    BY <1>6 DEF inventoryVars
  <2> QED
    BY <1>2, <1>3, <1>6, <2>1
<1> QED
  BY <1>4, <1>5, <1>6 DEF RecordInventory

PagesInv == RecordInv /\ ReviewsInv /\ FormsInv

(* The pages at the start.                                                 *)
LEMMA PagesInvInit == InventoryInit /\ BulkInit /\ FormsInit => PagesInv
<1> SUFFICES ASSUME InventoryInit, BulkInit, FormsInit PROVE PagesInv
  OBVIOUS
<1>1. RecordInv
  BY RecordInvInit
<1>2. ReviewsInv
  <2>1. dialog \in [Review -> DialogRow] /\ request \in [Review \X Try -> RequestRow]
    BY EmptyRows DEF BulkInit
  <2>2. /\ NoDialog.waits = 0 /\ NoDialog.answer = NoOutcome /\ NoDialog.result = NoOutcome
        /\ \A i \in Item : NoOutcome[i] = "NONE"
    BY DEF NoDialog, NoOutcome
  <2>3. \A r \in Review : dialog[r] = NoDialog
    BY DEF BulkInit
  <2>4. ReviewsTrue
    BY <2>2, <2>3 DEF ReviewsTrue, ReviewTrue
  <2> QED
    BY <2>1, <2>4 DEF ReviewsInv
<1>3. FormsInv
  BY DEF FormsInit, FormsInv, FormsTypeOK, FormPage, FormTrue
<1> QED
  BY <1>1, <1>2, <1>3 DEF PagesInv

(* Every step of a page, or of what happens beside it.                     *)
LEMMA PagesInvStep == PagesInv /\ [PagesNext]_<<bulkVars, formVars>> => PagesInv'
<1> SUFFICES ASSUME PagesInv, [PagesNext]_<<bulkVars, formVars>> PROVE PagesInv'
  OBVIOUS
<1>1. ASSUME [InventoryNext]_inventoryVars PROVE RecordInv' /\ movement \subseteq movement'
  <2>1. RecordInv'
    BY <1>1, RecordInvStep DEF PagesInv
  <2>2. movement \subseteq movement'
    BY <1>1 DEF InventoryNext, ApplyInventoryOperation, EditLocations, Tick, Hold, Confirm,
               Release, Consume, inventoryVars
  <2> QED
    BY <2>1, <2>2
<1>2. CASE BulkNext /\ UNCHANGED formVars
  <2>1. ReviewsInv' /\ [InventoryNext]_inventoryVars
    BY <1>2, ReviewsStep DEF PagesInv
  <2> QED
    BY <1>1, <1>2, <2>1, FormsAside DEF PagesInv
<1>3. ASSUME NEW f \in Form,
             \/ \E i \in Item : OpenForm(f, i)
             \/ \E c \in Command : SubmitForm(f, c)
             \/ ReceiveReply(f) \/ StartNew(f) \/ Remount(f)
      PROVE  PagesInv'
  <2>1. FormsInv' /\ UNCHANGED <<inventoryVars, dialog, request>>
    BY <1>3, FormUsed DEF PagesInv, bulkVars
  <2> QED
    BY <1>1, <2>1, ReviewsAside DEF PagesInv
<1>4. ASSUME NEW f \in Form, NEW op \in post[f], RecordInventory(f, op)
      PROVE  PagesInv'
  <2>1. FormsInv' /\ [InventoryNext]_inventoryVars /\ UNCHANGED <<dialog, request>>
    BY <1>4, CommandRecorded DEF PagesInv
  <2> QED
    BY <1>1, <2>1, ReviewsAside DEF PagesInv
<1>5. CASE FormsNext
  BY <1>3, <1>4, <1>5 DEF FormsNext
<1>6. CASE [InventoryNext]_inventoryVars /\ UNCHANGED <<dialog, request, formVars>>
  BY <1>1, <1>6, ReviewsAside, FormsAside DEF PagesInv
<1> QED
  BY <1>2, <1>5, <1>6 DEF PagesNext, bulkVars

(* What staff are shown as moved is in the ledger as shown, for any number *)
(* of reviews, forms, retries and rows and whatever else moves stock in    *)
(* between: answers lost, requests that go on after they were given up,    *)
(* rows and fields edited before the next submission (execute, the         *)
(* operation keys of reviews and forms, parseInventoryCommand).            *)
THEOREM ShownBooked == PagesSpec => []ShownIsBooked
<1>1. PagesInv => ShownIsBooked
  <2> SUFFICES ASSUME PagesInv PROVE ShownIsBooked
    OBVIOUS
  <2>1. OneMovementPerKey
    BY DEF PagesInv, RecordInv
  <2>2. ASSUME NEW r \in Review, NEW i \in Item, dialog[r].result[i] \in {"UPDATED", "APPLIED"}
        PROVE  \E places \in Defaults :
                 {m \in movement : m.key = BulkKey(r, i)} = {Op(r, i, dialog[r].amount[i], places)}
    <3>1. PICK places \in Defaults :
            OpOf(dialog[r].action, r, i, dialog[r].amount[i], places) \in movement
      BY <2>2 DEF PagesInv, ReviewsInv, ReviewsTrue, ReviewTrue, Moved
    <3>2. /\ Op(r, i, dialog[r].amount[i], places) \in movement
          /\ Op(r, i, dialog[r].amount[i], places).key = BulkKey(r, i)
      BY <3>1 DEF OpOf, Op
    <3> QED
      BY <2>1, <3>2 DEF OneMovementPerKey
  <2>3. ASSUME NEW f \in Form, form[f].status = "DONE"
        PROVE  {m \in movement : m.key = form[f].key} =
                 {[key |-> form[f].key, item |-> form[f].item, quantity |-> Size(form[f].typed),
                   route |-> Labelled(form[f].typed)]}
    <3> DEFINE shown == [key |-> form[f].key, item |-> form[f].item,
                         quantity |-> Size(form[f].typed), route |-> Labelled(form[f].typed)]
    <3>1. /\ form[f].typed \in Command
          /\ Parsed(form[f].key, form[f].item, form[f].typed) \in movement
      BY <2>3 DEF PagesInv, FormsInv, FormTrue
    <3>2. shown \in movement /\ shown.key = form[f].key
      BY <3>1, ParsedAsLabelled
    <3> QED
      BY <2>1, <3>2 DEF OneMovementPerKey
  <2> QED
    BY <2>2, <2>3 DEF ShownIsBooked, BatchesAreBooked, FormsAreBooked
<1> QED
  BY <1>1, PagesInvInit, PagesInvStep, PTL DEF PagesSpec
------------------------------------------------------------------------------
(***************************************************************************)
(* The pages for new items.                                                *)
(***************************************************************************)
NonBlank(rows) == Restrict(rows, {k \in DOMAIN rows : rows[k] # "BLANK"})

(* The pages, from what they keep.                                         *)
Grid(rows, ticked, agreed, shown, sent, making) ==
  [kind |-> "GRID", rows |-> rows, ticked |-> ticked, agreed |-> agreed, shown |-> shown,
   sent |-> sent, making |-> making]

Import(rows, selected, review, ticked) ==
  [kind |-> "IMPORT", rows |-> rows, selected |-> selected, review |-> review,
   ticked |-> ticked]

Csv(rows, found, selected, picked, agreed, left, late) ==
  [kind |-> "CSV", rows |-> rows, found |-> found, selected |-> selected, picked |-> picked,
   agreed |-> agreed, left |-> left, late |-> late]

(* The changes of two fields or more.                                      *)
GridConfirmed(p, x, y) == [p EXCEPT !.ticked = x, !.agreed = y]
GridMade(p, x, y) == [p EXCEPT !.making = x, !.rows = y]
GridSent(p, x, y) == [p EXCEPT !.rows = x, !.sent = y]
GridAnswered(p, x, y) == [p EXCEPT !.shown = x, !.sent = y]
ImportReviewed(p, x, y) == [p EXCEPT !.review = x, !.ticked = y]
CsvDecided(p, x, y) == [p EXCEPT !.selected = x, !.picked = y]
CsvSubmitted(p, x, y) == [p EXCEPT !.left = x, !.agreed = y]
CsvInterrupted(p, x, y) == [p EXCEPT !.left = x, !.late = y]
ImportEdited(p, x, y) ==
  [p EXCEPT !.rows = x, !.selected = y, !.review = NoReview, !.ticked = FALSE]

(* A record that is such a page.                                           *)
IsGrid(p) == p = Grid(p.rows, p.ticked, p.agreed, p.shown, p.sent, p.making)
IsImport(p) == p = Import(p.rows, p.selected, p.review, p.ticked)
IsCsv(p) == p = Csv(p.rows, p.found, p.selected, p.picked, p.agreed, p.left, p.late)

(* A grid: what was confirmed is what the page has, and what is sent as    *)
(* confirmed is what was confirmed.                                        *)
GridFine(p) ==
  /\ IsGrid(p)
  /\ p.ticked \in BOOLEAN
  /\ p.ticked = TRUE => p.agreed = NonBlank(p.rows)
  /\ p.sent.kind = "SAVE" /\ p.sent.acknowledge = TRUE => p.sent.agreed = p.sent.rows

(* An import: what was validated is what is chosen.                        *)
ImportFine(p) ==
  /\ IsImport(p)
  /\ p.review.rows # <<>> => p.review.rows = Restrict(p.rows, p.selected)

(* A CSV file: what was found is selected only by a decision, and only     *)
(* what was decided on is asked for.                                       *)
CsvFine(p) ==
  /\ IsCsv(p)
  /\ p.selected \cap p.found \subseteq p.picked
  /\ (p.left \cup p.late) \cap p.found \subseteq p.agreed

PageFine(p) == p = Closed \/ GridFine(p) \/ ImportFine(p) \/ CsvFine(p)

(* The kind of a page tells what holds for it.                             *)
LEMMA PageKinds ==
  ASSUME NEW p, PageFine(p)
  PROVE  /\ p.kind = "GRID" => GridFine(p)
         /\ p.kind = "IMPORT" => ImportFine(p)
         /\ p.kind = "CSV" => CsvFine(p)
<1>1. ~GridFine(p) \/ p.kind = "GRID"
  BY DEF GridFine, IsGrid, Grid
<1>2. ~ImportFine(p) \/ p.kind = "IMPORT"
  BY DEF ImportFine, IsImport, Import
<1>3. ~CsvFine(p) \/ p.kind = "CSV"
  BY DEF CsvFine, IsCsv, Csv
<1>4. Closed.kind = "CLOSED"
  BY DEF Closed
<1> QED
  BY <1>1, <1>2, <1>3, <1>4 DEF PageFine

(* Two fields of a grid replaced.                                          *)
LEMMA GridPairs ==
  ASSUME NEW p, IsGrid(p),
         NEW x, NEW y
  PROVE  /\ GridConfirmed(p, x, y) =
              Grid(p.rows, x, y, p.shown, p.sent, p.making)
         /\ GridMade(p, x, y) =
              Grid(y, p.ticked, p.agreed, p.shown, p.sent, x)
         /\ GridSent(p, x, y) =
              Grid(x, p.ticked, p.agreed, p.shown, y, p.making)
         /\ GridAnswered(p, x, y) =
              Grid(p.rows, p.ticked, p.agreed, x, y, p.making)
<1> DEFINE tickedSet == [p EXCEPT !.ticked = x]
<1> DEFINE makingSet == [p EXCEPT !.making = x]
<1> DEFINE rowsSet == [p EXCEPT !.rows = x]
<1> DEFINE shownSet == [p EXCEPT !.shown = x]
<1>1. tickedSet = Grid(p.rows, x, p.agreed, p.shown, p.sent, p.making)
  BY DEF IsGrid, Grid
<1>2. makingSet = Grid(p.rows, p.ticked, p.agreed, p.shown, p.sent, x)
  BY DEF IsGrid, Grid
<1>3. rowsSet = Grid(x, p.ticked, p.agreed, p.shown, p.sent, p.making)
  BY DEF IsGrid, Grid
<1>4. shownSet = Grid(p.rows, p.ticked, p.agreed, x, p.sent, p.making)
  BY DEF IsGrid, Grid
<1>5. GridConfirmed(p, x, y) = [tickedSet EXCEPT !.agreed = y]
  BY Zenon DEF GridConfirmed
<1>6. GridMade(p, x, y) = [makingSet EXCEPT !.rows = y]
  BY Zenon DEF GridMade
<1>7. GridSent(p, x, y) = [rowsSet EXCEPT !.sent = y]
  BY Zenon DEF GridSent
<1>8. GridAnswered(p, x, y) = [shownSet EXCEPT !.sent = y]
  BY Zenon DEF GridAnswered
<1> HIDE DEF tickedSet, makingSet, rowsSet, shownSet
<1>9. [tickedSet EXCEPT !.agreed = y] = Grid(p.rows, x, y, p.shown, p.sent, p.making)
  BY <1>1 DEF Grid
<1>10. [makingSet EXCEPT !.rows = y] = Grid(y, p.ticked, p.agreed, p.shown, p.sent, x)
  BY <1>2 DEF Grid
<1>11. [rowsSet EXCEPT !.sent = y] = Grid(x, p.ticked, p.agreed, p.shown, y, p.making)
  BY <1>3 DEF Grid
<1>12. [shownSet EXCEPT !.sent = y] = Grid(p.rows, p.ticked, p.agreed, x, y, p.making)
  BY <1>4 DEF Grid
<1> QED
  BY Zenon, <1>5, <1>6, <1>7, <1>8, <1>9, <1>10, <1>11, <1>12

(* Two fields of an import replaced.                                       *)
LEMMA ImportPairs ==
  ASSUME NEW p, IsImport(p),
         NEW x, NEW y
  PROVE  /\ ImportReviewed(p, x, y) =
              Import(p.rows, p.selected, x, y)
<1> DEFINE reviewSet == [p EXCEPT !.review = x]
<1>1. reviewSet = Import(p.rows, p.selected, x, p.ticked)
  BY DEF IsImport, Import
<1>2. ImportReviewed(p, x, y) = [reviewSet EXCEPT !.ticked = y]
  BY Zenon DEF ImportReviewed
<1> HIDE DEF reviewSet
<1>3. [reviewSet EXCEPT !.ticked = y] = Import(p.rows, p.selected, x, y)
  BY <1>1 DEF Import
<1> QED
  BY Zenon, <1>2, <1>3

(* Two fields of a CSV page replaced.                                      *)
LEMMA CsvPairs ==
  ASSUME NEW p, IsCsv(p),
         NEW x, NEW y
  PROVE  /\ CsvDecided(p, x, y) =
              Csv(p.rows, p.found, x, y, p.agreed, p.left, p.late)
         /\ CsvSubmitted(p, x, y) =
              Csv(p.rows, p.found, p.selected, p.picked, y, x, p.late)
         /\ CsvInterrupted(p, x, y) =
              Csv(p.rows, p.found, p.selected, p.picked, p.agreed, x, y)
<1> DEFINE selectedSet == [p EXCEPT !.selected = x]
<1> DEFINE leftSet == [p EXCEPT !.left = x]
<1>1. selectedSet = Csv(p.rows, p.found, x, p.picked, p.agreed, p.left, p.late)
  BY DEF IsCsv, Csv
<1>2. leftSet = Csv(p.rows, p.found, p.selected, p.picked, p.agreed, x, p.late)
  BY DEF IsCsv, Csv
<1>3. CsvDecided(p, x, y) = [selectedSet EXCEPT !.picked = y]
  BY Zenon DEF CsvDecided
<1>4. CsvSubmitted(p, x, y) = [leftSet EXCEPT !.agreed = y]
  BY Zenon DEF CsvSubmitted
<1>5. CsvInterrupted(p, x, y) = [leftSet EXCEPT !.late = y]
  BY Zenon DEF CsvInterrupted
<1> HIDE DEF selectedSet, leftSet
<1>6. [selectedSet EXCEPT !.picked = y] = Csv(p.rows, p.found, x, y, p.agreed, p.left, p.late)
  BY <1>1 DEF Csv
<1>7. [leftSet EXCEPT !.agreed = y] = Csv(p.rows, p.found, p.selected, p.picked, y, x, p.late)
  BY <1>2 DEF Csv
<1>8. [leftSet EXCEPT !.late = y] = Csv(p.rows, p.found, p.selected, p.picked, p.agreed, x, y)
  BY <1>2 DEF Csv
<1> QED
  BY Zenon, <1>3, <1>4, <1>5, <1>6, <1>7, <1>8

(* An import whose rows or selection changed.                              *)
LEMMA ImportAll ==
  ASSUME NEW p, IsImport(p), NEW x, NEW y
  PROVE  ImportEdited(p, x, y) = Import(x, y, NoReview, FALSE)
<1> DEFINE one == [p EXCEPT !.rows = x]
           two == [one EXCEPT !.selected = y]
           three == [two EXCEPT !.review = NoReview]
<1>1. one = Import(x, p.selected, p.review, p.ticked)
  BY DEF IsImport, Import
<1>2. ImportEdited(p, x, y) = [three EXCEPT !.ticked = FALSE]
  BY Zenon DEF ImportEdited
<1> HIDE DEF one
<1>3. two = Import(x, y, p.review, p.ticked)
  BY <1>1 DEF Import
<1> HIDE DEF two
<1>4. three = Import(x, y, NoReview, p.ticked)
  BY <1>3 DEF Import
<1> HIDE DEF three
<1>5. ASSUME NEW b PROVE [three EXCEPT !.ticked = b] = Import(x, y, NoReview, b)
  BY <1>4 DEF Import
<1>6. [three EXCEPT !.ticked = FALSE] = Import(x, y, NoReview, FALSE)
  BY <1>5
<1> QED
  BY <1>2, <1>6, Zenon

(* A grid on which nothing is confirmed, after the same requests.          *)
LEMMA GridTouched ==
  ASSUME NEW p, GridFine(p), NEW rows, NEW making
  PROVE  GridFine(Grid(rows, FALSE, <<>>, p.shown, p.sent, making))
  BY DEF GridFine, IsGrid, Grid

(* The steps of the grid.                                                  *)
LEMMA GridStep ==
  ASSUME PageFine(page),
         \/ OpenGrid \/ EditRow \/ AddRow \/ RemoveRow \/ BeginMaking \/ EndMaking \/ TickGrid
         \/ \E kind \in {"CHECK", "SAVE"} : Send(kind)
         \/ Answer \/ CheckRows \/ SaveRows
  PROVE  PageFine(page')
<1>1. CASE OpenGrid
  <2>1. PICK k \in RowKey : page' = NewGrid(k)
    BY <1>1 DEF OpenGrid
  <2>2. GridFine(NewGrid(k))
    BY DEF NewGrid, GridFine, NotSent, IsGrid, Grid
  <2> QED
    BY <2>1, <2>2 DEF PageFine
<1>2. CASE CheckRows \/ SaveRows
  BY <1>2 DEF CheckRows, SaveRows, PageFine
<1>3. CASE page.kind = "GRID" /\ ~CheckRows
  <2>1. GridFine(page)
    BY <1>3, PageKinds
  <2>2. IsGrid(page)
    BY <2>1 DEF GridFine
  <2>3. Touched = Grid(page.rows, FALSE, <<>>, page.shown, page.sent, page.making)
    <3>1. Touched = GridConfirmed(page, FALSE, <<>>)
      BY Zenon DEF Touched, GridConfirmed
    <3> QED
      BY <2>2, <3>1, GridPairs
  <2>4. IsGrid(Touched)
    BY <2>3 DEF IsGrid, Grid
  <2>5. GridFine(Touched)
    BY <2>1, <2>3, GridTouched
  <2>6. ASSUME NEW rows, page' = [Touched EXCEPT !.rows = rows] PROVE PageFine(page')
    <3>1. page' = Grid(rows, FALSE, <<>>, page.shown, page.sent, page.making)
      BY <2>3, <2>6 DEF Grid
    <3> QED
      BY <2>1, <3>1, GridTouched DEF PageFine
  <2>16. CASE EditRow
    <3>1. PICK k \in DOMAIN page.rows, c \in Content : page' = [Touched EXCEPT !.rows[k] = c]
      BY <2>16 DEF EditRow
    <3> DEFINE rows == [Touched.rows EXCEPT ![k] = c]
    <3>2. page' = [Touched EXCEPT !.rows = rows]
      BY <2>3, <3>1 DEF Grid
    <3> HIDE DEF rows
    <3> QED
      BY <2>6, <3>2
  <2>7. CASE AddRow
    <3>1. CASE page' = Touched
      BY <2>5, <3>1 DEF PageFine
    <3>2. CASE \E k \in RowKey \ DOMAIN page.rows, c \in {"BLANK", "INVALID"} :
            page' = [Touched EXCEPT !.rows = [j \in DOMAIN @ \cup {k} |-> IF j = k THEN c ELSE @[j]]]
      <4>1. PICK k \in RowKey \ DOMAIN page.rows, c \in {"BLANK", "INVALID"} :
              page' = [Touched EXCEPT !.rows =
                         [j \in DOMAIN @ \cup {k} |-> IF j = k THEN c ELSE @[j]]]
        BY <3>2
      <4> DEFINE rows == [j \in DOMAIN Touched.rows \cup {k} |->
                            IF j = k THEN c ELSE Touched.rows[j]]
      <4>2. page' = [Touched EXCEPT !.rows = rows]
        BY <4>1
      <4> HIDE DEF rows
      <4> QED
        BY <2>6, <4>2
    <3> QED
      BY <2>7, <3>1, <3>2 DEF AddRow
  <2>8. CASE RemoveRow
    <3>1. PICK k \in DOMAIN page.rows :
            page' = [Touched EXCEPT !.rows = Restrict(@, DOMAIN @ \ {k})]
      BY <2>8 DEF RemoveRow
    <3> DEFINE rows == Restrict(Touched.rows, DOMAIN Touched.rows \ {k})
    <3>2. page' = [Touched EXCEPT !.rows = rows]
      BY <3>1
    <3> HIDE DEF rows
    <3> QED
      BY <2>6, <3>2
  <2>9. ASSUME NEW making, page' = [page EXCEPT !.making = making] PROVE PageFine(page')
    <3>1. page' = Grid(page.rows, page.ticked, page.agreed, page.shown, page.sent, making)
      BY <2>2, <2>9 DEF IsGrid, Grid
    <3>2. GridFine(page')
      BY <2>1, <3>1 DEF GridFine, IsGrid, Grid
    <3> QED
      BY <3>2 DEF PageFine
  <2>10. CASE BeginMaking
    <3>1. PICK k \in DOMAIN page.rows \ page.making : page' = [page EXCEPT !.making = @ \cup {k}]
      BY <2>10 DEF BeginMaking
    <3> QED
      BY <2>9, <3>1
  <2>17. ASSUME NEW rows, NEW making, page' = [Touched EXCEPT !.making = making, !.rows = rows]
         PROVE  PageFine(page')
    <3>4. page' = GridMade(Touched, making, rows)
      BY <2>17, Zenon DEF GridMade
    <3>1. page' = Grid(rows, Touched.ticked, Touched.agreed, Touched.shown, Touched.sent, making)
      BY <2>4, <3>4, GridPairs
    <3>2. /\ Touched.ticked = FALSE /\ Touched.agreed = <<>>
          /\ Touched.shown = page.shown /\ Touched.sent = page.sent
      BY <2>3 DEF Grid
    <3>3. page' = Grid(rows, FALSE, <<>>, page.shown, page.sent, making)
      BY <3>1, <3>2
    <3> QED
      BY <2>1, <3>3, GridTouched DEF PageFine
  <2>11. CASE EndMaking
    <3>1. PICK k \in page.making :
            \/ page' = [page EXCEPT !.making = @ \ {k}]
            \/ \E c \in Content \ {"BLANK"} : page' = Completed(k, c)
      BY <2>11 DEF EndMaking
    <3>2. ASSUME NEW c \in Content \ {"BLANK"}, page' = Completed(k, c) PROVE PageFine(page')
      <4> DEFINE rows == [j \in DOMAIN Touched.rows |-> IF j = k THEN c ELSE Touched.rows[j]]
                 making == Touched.making \ {k}
      <4>1. page' = [Touched EXCEPT !.making = making, !.rows = rows]
        BY <3>2, Zenon DEF Completed
      <4> HIDE DEF rows, making
      <4> QED
        BY <2>17, <4>1
    <3> QED
      BY <2>9, <3>1, <3>2
  <2>12. CASE TickGrid
    <3>1. CASE page' = Touched
      BY <2>5, <3>1 DEF PageFine
    <3>2. CASE page' = [page EXCEPT !.ticked = TRUE, !.agreed = NonBlank(page.rows)]
      <4>1. page' = Grid(page.rows, TRUE, NonBlank(page.rows), page.shown, page.sent, page.making)
        <5>1. page' = GridConfirmed(page, TRUE, NonBlank(page.rows))
          BY <3>2, Zenon DEF GridConfirmed
        <5> QED
          BY <2>2, <5>1, GridPairs
      <4>2. GridFine(page')
        BY <2>1, <4>1 DEF GridFine, IsGrid, Grid
      <4> QED
        BY <4>2 DEF PageFine
    <3> QED
      BY <2>12, <3>1, <3>2 DEF TickGrid, NonBlank
  <2>13. ASSUME NEW kind \in {"CHECK", "SAVE"}, Send(kind) PROVE PageFine(page')
    <3> DEFINE kept == NonBlank(page.rows)
               sent == [kind |-> kind, rows |-> kept, agreed |-> page.agreed,
                        acknowledge |-> kind = "SAVE" /\ page.ticked]
    <3>1. page' = [page EXCEPT !.rows = kept, !.sent = sent]
      BY <2>13 DEF Send, NonBlank
    <3>2. NonBlank(kept) = kept
      BY DEF NonBlank, Restrict
    <3>3. sent.acknowledge = TRUE => page.ticked = TRUE
      BY <2>1 DEF GridFine
    <3>4. sent.agreed = page.agreed /\ sent.rows = kept
      OBVIOUS
    <3> HIDE DEF sent, kept
    <3>8. page' = GridSent(page, kept, sent)
      BY <3>1, Zenon DEF GridSent
    <3>5. page' = Grid(kept, page.ticked, page.agreed, page.shown, sent, page.making)
      BY <2>2, <3>8, GridPairs
    <3>6. page.ticked = TRUE => page.agreed = kept
      BY <2>1 DEF GridFine, kept
    <3>7. GridFine(page')
      BY <2>1, <3>2, <3>3, <3>4, <3>5, <3>6 DEF GridFine, IsGrid, Grid
    <3> QED
      BY <3>7 DEF PageFine
  <2>14. CASE Answer
    <3>1. \/ page' = [page EXCEPT !.shown = Warnings(page.sent.rows) # {}, !.sent = NotSent]
          \/ page' = [page EXCEPT !.shown = FALSE, !.sent = NotSent]
      BY <2>14 DEF Answer
    <3>5. PICK shown : page' = [page EXCEPT !.shown = shown, !.sent = NotSent]
      BY <3>1
    <3>4. page' = GridAnswered(page, shown, NotSent)
      BY <3>5, Zenon DEF GridAnswered
    <3>2. page' = Grid(page.rows, page.ticked, page.agreed, shown, NotSent, page.making)
      BY <2>2, <3>4, GridPairs
    <3>3. GridFine(page')
      BY <2>1, <3>2 DEF GridFine, NotSent, IsGrid, Grid
    <3> QED
      BY <3>3 DEF PageFine
  <2>15. ~OpenGrid /\ ~CheckRows /\ ~SaveRows =>
           \/ EditRow \/ AddRow \/ RemoveRow \/ BeginMaking \/ EndMaking \/ TickGrid
           \/ \E kind \in {"CHECK", "SAVE"} : Send(kind)
           \/ Answer
    OBVIOUS
  <2> QED
    BY <1>1, <1>2, <1>3, <2>7, <2>8, <2>16, <2>10, <2>11, <2>12, <2>13, <2>14, <2>15
<1> QED
  BY <1>1, <1>2, <1>3 DEF EditRow, AddRow, RemoveRow, BeginMaking, EndMaking, TickGrid, Send,
     Answer, OnGrid

(* The steps of an import.                                                 *)
LEMMA ImportStep ==
  ASSUME PageFine(page),
         \/ Extract \/ ChangeCandidate \/ Select \/ Validate \/ TickImport
         \/ CheckChosen \/ ImportChosen \/ InterruptImport
  PROVE  PageFine(page')
<1>1. CASE Extract
  <2>1. PICK rows : page' = [kind |-> "IMPORT", rows |-> rows, selected |-> {},
                             review |-> NoReview, ticked |-> FALSE]
    BY <1>1 DEF Extract
  <2>2. ImportFine(page')
    BY <2>1 DEF ImportFine, NoReview, IsImport, Import
  <2> QED
    BY <2>2 DEF PageFine
<1>2. CASE CheckChosen \/ ImportChosen \/ InterruptImport
  BY <1>2 DEF CheckChosen, ImportChosen, InterruptImport, PageFine
<1>3. CASE OnImport
  <2>1. ImportFine(page)
    BY <1>3, PageKinds DEF OnImport
  <2>2. IsImport(page)
    BY <2>1 DEF ImportFine
  <2>3. ASSUME NEW rows, NEW selected, page' = Changed(rows, selected) PROVE PageFine(page')
    <3>3. page' = ImportEdited(page, rows, selected)
      BY <2>3, Zenon DEF Changed, ImportEdited
    <3>1. page' = Import(rows, selected, NoReview, FALSE)
      BY <2>2, <3>3, ImportAll
    <3>2. ImportFine(page')
      BY <3>1 DEF ImportFine, NoReview, IsImport, Import
    <3> QED
      BY <3>2 DEF PageFine
  <2>4. CASE ChangeCandidate
    <3>1. PICK k, c : page' = Changed([page.rows EXCEPT ![k] = c], page.selected)
      BY <2>4 DEF ChangeCandidate
    <3> DEFINE rows == [page.rows EXCEPT ![k] = c]
    <3>2. page' = Changed(rows, page.selected)
      BY <3>1
    <3> HIDE DEF rows
    <3> QED
      BY <2>3, <3>2
  <2>5. CASE Select
    BY <2>3, <2>5 DEF Select
  <2>9. ASSUME NEW review, NEW ticked,
               page' = Import(page.rows, page.selected, review, ticked),
               review.rows # <<>> => review.rows = Restrict(page.rows, page.selected)
        PROVE  PageFine(page')
    <3>1. ImportFine(page')
      BY <2>9 DEF ImportFine, IsImport, Import
    <3> QED
      BY <3>1 DEF PageFine
  <2>6. ASSUME NEW review, NEW ticked, page' = [page EXCEPT !.review = review, !.ticked = ticked],
               review.rows # <<>> => review.rows = Restrict(page.rows, page.selected)
        PROVE  PageFine(page')
    <3>1. page' = Import(page.rows, page.selected, review, ticked)
      <4>1. page' = ImportReviewed(page, review, ticked)
        BY <2>6, Zenon DEF ImportReviewed
      <4> QED
        BY <2>2, <4>1, ImportPairs
    <3> QED
      BY <2>9, <2>6, <3>1
  <2>7. CASE Validate
    <3> DEFINE review == [rows |-> Chosen, found |-> Warnings(Chosen)]
               ticked == page.ticked /\ page.review.found # {} /\ Warnings(Chosen) # {}
    <3>1. CASE page' = Changed(page.rows, page.selected)
      BY <2>3, <3>1
    <3>2. CASE page' = [page EXCEPT !.review = review, !.ticked = ticked]
      <4>1. review.rows = Restrict(page.rows, page.selected)
        BY DEF Chosen
      <4> HIDE DEF review, ticked
      <4> QED
        BY <2>6, <3>2, <4>1
    <3> QED
      BY <2>7, <3>1, <3>2 DEF Validate
  <2>8. CASE TickImport
    <3> DEFINE ticked == ~page.ticked
    <3>1. page' = [page EXCEPT !.ticked = ticked]
      BY <2>8 DEF TickImport
    <3> HIDE DEF ticked
    <3>2. page' = Import(page.rows, page.selected, page.review, ticked)
      BY <2>2, <3>1 DEF IsImport, Import
    <3>3. page.review.rows # <<>> => page.review.rows = Restrict(page.rows, page.selected)
      BY <2>1, SMTT(30) DEF ImportFine
    <3> QED
      BY <2>9, <3>2, <3>3
  <2> QED
    BY <1>1, <1>2, <2>4, <2>5, <2>7, <2>8
<1> QED
  BY <1>1, <1>2, <1>3 DEF ChangeCandidate, Select, Validate, TickImport

(* The steps of a CSV file.                                                *)
LEMMA CsvStep ==
  ASSUME PageFine(page),
         PreviewCsv \/ Decide \/ SubmitCsv \/ InterruptCsv \/ \E k \in Candidate : ExecuteCsvRow(k)
  PROVE  PageFine(page')
<1>1. CASE PreviewCsv
  <2>1. PICK rows, first : LET found == CsvFound(rows, first)
          IN page' = [kind |-> "CSV", rows |-> rows, found |-> found,
                      selected |-> Proposed(rows, found), picked |-> {}, agreed |-> {},
                      left |-> {}, late |-> {}]
    BY <1>1 DEF PreviewCsv
  <2> DEFINE found == CsvFound(rows, first)
  <2>2. Proposed(rows, found) \cap found = {}
    BY DEF Proposed
  <2> HIDE DEF found
  <2>3. CsvFine(page')
    BY <2>1, <2>2 DEF CsvFine, found, IsCsv, Csv
  <2> QED
    BY <2>3 DEF PageFine
<1>2. CASE page.kind = "CSV"
  <2>1. CsvFine(page)
    BY <1>2, PageKinds
  <2>2. IsCsv(page)
    BY <2>1 DEF CsvFine
  <2>3. /\ page.selected \cap page.found \subseteq page.picked
        /\ (page.left \cup page.late) \cap page.found \subseteq page.agreed
    BY <2>1 DEF CsvFine
  <2>4. ASSUME NEW selected, NEW picked, NEW agreed, NEW left, NEW late,
               page' = Csv(page.rows, page.found, selected, picked, agreed, left, late),
               selected \cap page.found \subseteq picked,
               (left \cup late) \cap page.found \subseteq agreed
        PROVE  PageFine(page')
    <3>1. CsvFine(page')
      BY <2>4 DEF CsvFine, IsCsv, Csv
    <3> QED
      BY <3>1 DEF PageFine
  <2>5. CASE Decide
    <3>1. PICK k : page' = IF k \in page.selected
                           THEN [page EXCEPT !.selected = @ \ {k}, !.picked = @ \ {k}]
                           ELSE [page EXCEPT !.selected = @ \cup {k}, !.picked = @ \cup {k}]
      BY <2>5 DEF Decide
    <3>2. CASE page' = [page EXCEPT !.selected = page.selected \ {k}, !.picked = page.picked \ {k}]
      <4>1. page' = Csv(page.rows, page.found, page.selected \ {k}, page.picked \ {k},
                        page.agreed, page.left, page.late)
        <5>1. page' = CsvDecided(page, page.selected \ {k}, page.picked \ {k})
          BY <3>2, Zenon DEF CsvDecided
        <5> QED
          BY <2>2, <5>1, CsvPairs
      <4>2. (page.selected \ {k}) \cap page.found \subseteq page.picked \ {k}
        BY <2>3
      <4> QED
        BY <2>3, <2>4, <4>1, <4>2
    <3>3. CASE page' = [page EXCEPT !.selected = page.selected \cup {k},
                                    !.picked = page.picked \cup {k}]
      <4>1. page' = Csv(page.rows, page.found, page.selected \cup {k}, page.picked \cup {k},
                        page.agreed, page.left, page.late)
        <5>1. page' = CsvDecided(page, page.selected \cup {k}, page.picked \cup {k})
          BY <3>3, Zenon DEF CsvDecided
        <5> QED
          BY <2>2, <5>1, CsvPairs
      <4>2. (page.selected \cup {k}) \cap page.found \subseteq page.picked \cup {k}
        BY <2>3
      <4> QED
        BY <2>3, <2>4, <4>1, <4>2
    <3> QED
      BY <3>1, <3>2, <3>3
  <2>6. CASE SubmitCsv
    <3>1. page' = [page EXCEPT !.left = page.selected, !.agreed = page.agreed \cup page.picked]
      BY <2>6 DEF SubmitCsv
    <3>4. page.left = {}
      BY <2>6 DEF SubmitCsv, OnCsv
    <3>5. page' = CsvSubmitted(page, page.selected, page.agreed \cup page.picked)
      BY <3>1, Zenon DEF CsvSubmitted
    <3>2. page' = Csv(page.rows, page.found, page.selected, page.picked,
                      page.agreed \cup page.picked, page.selected, page.late)
      BY <2>2, <3>5, CsvPairs
    <3>3. (page.selected \cup page.late) \cap page.found \subseteq page.agreed \cup page.picked
      BY <2>3
    <3> QED
      BY <2>3, <2>4, <3>2, <3>3
  <2>7. CASE InterruptCsv
    <3>1. page' = [page EXCEPT !.left = {}, !.late = page.late \cup page.left]
      BY <2>7 DEF InterruptCsv
    <3>2. page' = Csv(page.rows, page.found, page.selected, page.picked, page.agreed,
                      {}, page.late \cup page.left)
      <4>1. page' = CsvInterrupted(page, {}, page.late \cup page.left)
        BY <3>1, Zenon DEF CsvInterrupted
      <4> QED
        BY <2>2, <4>1, CsvPairs
    <3>3. ({} \cup (page.late \cup page.left)) \cap page.found \subseteq page.agreed
      BY <2>3
    <3> QED
      BY <2>3, <2>4, <3>2, <3>3
  <2>8. ASSUME NEW k \in Candidate, ExecuteCsvRow(k) PROVE PageFine(page')
    <3>1. \/ page' = Closed
          \/ page' = [page EXCEPT !.left = page.left \ {k}]
          \/ page' = [page EXCEPT !.late = page.late \ {k}]
      BY <2>8 DEF ExecuteCsvRow
    <3>2. CASE page' = Closed
      BY <3>2 DEF PageFine
    <3>3. CASE page' = [page EXCEPT !.left = page.left \ {k}]
      <4>1. page' = Csv(page.rows, page.found, page.selected, page.picked, page.agreed,
                        page.left \ {k}, page.late)
        BY <2>2, <3>3 DEF IsCsv, Csv
      <4>2. ((page.left \ {k}) \cup page.late) \cap page.found \subseteq page.agreed
        BY <2>3
      <4> QED
        BY <2>3, <2>4, <4>1, <4>2
    <3>4. CASE page' = [page EXCEPT !.late = page.late \ {k}]
      <4>1. page' = Csv(page.rows, page.found, page.selected, page.picked, page.agreed,
                        page.left, page.late \ {k})
        BY <2>2, <3>4 DEF IsCsv, Csv
      <4>2. (page.left \cup (page.late \ {k})) \cap page.found \subseteq page.agreed
        BY <2>3
      <4> QED
        BY <2>3, <2>4, <4>1, <4>2
    <3> QED
      BY <3>1, <3>2, <3>3, <3>4
  <2> QED
    BY <1>1, <2>5, <2>6, <2>7, <2>8
<1> QED
  BY <1>1, <1>2 DEF Decide, OnCsv, SubmitCsv, InterruptCsv, ExecuteCsvRow

(* Every step keeps the page in order.                                     *)
LEMMA PageStep == PageFine(page) /\ [EntryNext]_entryVars => PageFine(page')
<1> SUFFICES ASSUME PageFine(page), [EntryNext]_entryVars PROVE PageFine(page')
  OBVIOUS
<1>1. CASE Rollback \/ Leave \/ Elsewhere \/ UNCHANGED entryVars
  BY <1>1 DEF Rollback, Leave, Elsewhere, entryVars, PageFine
<1> QED
  BY <1>1, GridStep, ImportStep, CsvStep DEF EntryNext

(* Warnings, of a catalogue that has these designs.                        *)
WarningsOf(rows, designs) ==
  LET valid == {k \in DOMAIN rows : rows[k] \in Design}
  IN {<<k, "CATALOGUE">> : k \in {j \in valid : rows[j] \in designs}}
       \cup {<<k, "BATCH">> : k \in {j \in valid : \E i \in valid \ {j} : rows[i] = rows[j]}}

(* A new warning is about a design that is new in the catalogue.           *)
LEMMA WarningsGrow ==
  ASSUME NEW rows, NEW before, NEW after,
         NEW w \in WarningsOf(rows, after) \ WarningsOf(rows, before)
  PROVE  rows[w[1]] \in after \ before
<1> DEFINE valid == {k \in DOMAIN rows : rows[k] \in Design}
           Twice == {<<k, "BATCH">> :
                       k \in {j \in valid : \E i \in valid \ {j} : rows[i] = rows[j]}}
           Once(designs) == {<<k, "CATALOGUE">> : k \in {j \in valid : rows[j] \in designs}}
<1>1. WarningsOf(rows, after) = Once(after) \cup Twice
  BY Zenon DEF WarningsOf
<1>2. WarningsOf(rows, before) = Once(before) \cup Twice
  BY Zenon DEF WarningsOf
<1>3. w \in Once(after) /\ w \notin Once(before)
  BY <1>1, <1>2
<1>4. PICK k \in valid : w = <<k, "CATALOGUE">> /\ rows[k] \in after
  BY <1>3
<1>5. rows[k] \notin before
  BY <1>3, <1>4
<1> QED
  BY <1>4, <1>5

(* A transaction under way: what its rows look like by now is what its     *)
(* check found, or came in beside the lock.                                *)
Underway(kind, rows, found, awaited) ==
  [kind |-> kind, rows |-> rows, found |-> found, awaited |-> awaited]

SavingFine ==
  /\ saving = Underway(saving.kind, saving.rows, saving.found, saving.awaited)
  /\ saving # Idle =>
       \A w \in WarningsOf(saving.rows, known) \ saving.found : saving.rows[w[1]] \in Wide

(* A transaction whose page does not wait any more.                        *)
Left(p, awaited) == [p EXCEPT !.awaited = awaited]

LEMMA LeftUnderway ==
  ASSUME NEW kind, NEW rows, NEW found, NEW a, NEW b
  PROVE  Left(Underway(kind, rows, found, a), b) = Underway(kind, rows, found, b)
<1>1. ASSUME NEW p, p = Underway(kind, rows, found, a)
      PROVE  [p EXCEPT !.awaited = b] = Underway(kind, rows, found, b)
  BY <1>1 DEF Underway
<1> QED
  BY <1>1, Zenon DEF Left

(* Nothing but a Wide design comes in while a lineup is locked.            *)
LEMMA LockHolds ==
  ASSUME SavingFine, [EntryNext]_entryVars, saving' # Idle, saving # Idle
  PROVE  /\ saving' = saving \/ saving' = [saving EXCEPT !.awaited = FALSE]
         /\ \A d \in known' \ known : d \in Wide
<1>1. CASE Elsewhere
  BY <1>1 DEF Elsewhere, MayEnter
<1>2. ASSUME NEW k \in Candidate, ExecuteCsvRow(k) PROVE saving' = saving /\ \A d \in known' \ known : d \in Wide
  <2>1. saving' = saving
    BY <1>2 DEF ExecuteCsvRow
  <2>2. CASE UNCHANGED known
    BY <2>1, <2>2
  <2>3. CASE MayEnter(page.rows[k]) /\ Add([j \in {k} |-> page.rows[k]])
    <3>1. known' = known \cup {page.rows[k]}
      BY <2>3 DEF Add
    <3> QED
      BY <2>1, <2>3, <3>1 DEF MayEnter
  <2> QED
    BY <1>2, <2>2, <2>3 DEF ExecuteCsvRow
<1>3. CASE Answer \/ Leave \/ InterruptImport
  BY <1>3 DEF Answer, Leave, InterruptImport
<1>4. CASE CheckRows \/ SaveRows \/ Rollback \/ CheckChosen \/ ImportChosen
  BY <1>4 DEF CheckRows, SaveRows, Rollback, CheckChosen, ImportChosen
<1>5. CASE \/ OpenGrid \/ EditRow \/ AddRow \/ RemoveRow \/ BeginMaking \/ EndMaking \/ TickGrid
           \/ \E kind \in {"CHECK", "SAVE"} : Send(kind)
           \/ Extract \/ ChangeCandidate \/ Select \/ Validate \/ TickImport
           \/ PreviewCsv \/ Decide \/ SubmitCsv \/ InterruptCsv \/ UNCHANGED entryVars
  BY <1>5 DEF OpenGrid, EditRow, AddRow, RemoveRow, BeginMaking, EndMaking, TickGrid, Send,
     OnGrid, Extract, ChangeCandidate, Select, Validate, TickImport, OnImport, PreviewCsv, Decide,
     SubmitCsv, InterruptCsv, entryVars
<1> QED
  BY <1>1, <1>2, <1>3, <1>4, <1>5 DEF EntryNext

(* A transaction begins with what its check found.                         *)
LEMMA LockTaken ==
  ASSUME [EntryNext]_entryVars, saving = Idle, saving' # Idle
  PROVE  \E kind, rows : saving' = Saving(kind, rows, Warnings(rows)) /\ known' = known
<1>1. Idle.awaited = FALSE /\ Idle.kind \notin {"GRID", "IMPORT"}
  BY DEF Idle
<1>6. ~Leave
  <2>1. ASSUME Leave PROVE saving' = Left(Idle, FALSE)
    BY <2>1, Zenon DEF Leave, Left
  <2>2. Idle = Underway("NONE", <<>>, {}, FALSE)
    BY Zenon DEF Idle, Underway
  <2>3. Left(Idle, FALSE) = Underway("NONE", <<>>, {}, FALSE)
    BY <2>2, LeftUnderway, Zenon
  <2> QED
    BY <2>1, <2>2, <2>3
<1>2. CASE CheckRows
  BY <1>2 DEF CheckRows
<1>3. CASE CheckChosen
  BY <1>3 DEF CheckChosen
<1>4. ~(Answer \/ InterruptImport \/ SaveRows \/ Rollback \/ ImportChosen)
  BY <1>1 DEF Answer, InterruptImport, SaveRows, Rollback, ImportChosen
<1>5. CASE \/ OpenGrid \/ EditRow \/ AddRow \/ RemoveRow \/ BeginMaking \/ EndMaking \/ TickGrid
           \/ \E kind \in {"CHECK", "SAVE"} : Send(kind)
           \/ Extract \/ ChangeCandidate \/ Select \/ Validate \/ TickImport
           \/ PreviewCsv \/ Decide \/ SubmitCsv \/ InterruptCsv \/ Elsewhere
           \/ (\E k \in Candidate : ExecuteCsvRow(k)) \/ UNCHANGED entryVars
  BY <1>5 DEF OpenGrid, EditRow, AddRow, RemoveRow, BeginMaking, EndMaking, TickGrid, Send,
     OnGrid, Extract, ChangeCandidate, Select, Validate, TickImport, OnImport, PreviewCsv, Decide,
     SubmitCsv, InterruptCsv, Elsewhere, ExecuteCsvRow, entryVars
<1> QED
  BY <1>2, <1>3, <1>4, <1>5, <1>6 DEF EntryNext

(* Every step keeps the transaction in order.                              *)
LEMMA SavingStep == SavingFine /\ [EntryNext]_entryVars => SavingFine'
<1> SUFFICES ASSUME SavingFine, [EntryNext]_entryVars PROVE SavingFine'
  OBVIOUS
<1>1. CASE saving' = Idle
  BY <1>1 DEF SavingFine, Underway, Idle
<1>2. CASE saving = Idle /\ saving' # Idle
  <2>1. PICK kind, rows : saving' = Saving(kind, rows, Warnings(rows)) /\ known' = known
    BY <1>2, LockTaken
  <2>2. saving' = Underway(kind, rows, WarningsOf(rows, known'), TRUE)
    BY <2>1 DEF Saving, Underway, Warnings, WarningsOf
  <2> QED
    BY <2>2 DEF SavingFine, Underway
<1>3. CASE saving # Idle /\ saving' # Idle
  <2>1. saving = Underway(saving.kind, saving.rows, saving.found, saving.awaited)
    BY DEF SavingFine
  <2>2. /\ saving' = saving \/ saving' = [saving EXCEPT !.awaited = FALSE]
        /\ \A d \in known' \ known : d \in Wide
    BY <1>3, LockHolds
  <2>3. PICK awaited : saving' = Underway(saving.kind, saving.rows, saving.found, awaited)
    BY <2>1, <2>2 DEF Underway
  <2>4. /\ saving' = Underway(saving'.kind, saving'.rows, saving'.found, saving'.awaited)
        /\ saving'.rows = saving.rows /\ saving'.found = saving.found
    BY <2>3 DEF Underway
  <2>5. ASSUME NEW w \in WarningsOf(saving.rows, known') \ saving.found
        PROVE  saving.rows[w[1]] \in Wide
    <3>1. CASE w \in WarningsOf(saving.rows, known)
      BY <1>3, <2>5, <3>1 DEF SavingFine
    <3>2. CASE w \notin WarningsOf(saving.rows, known)
      BY <2>2, <2>5, <3>2, WarningsGrow
    <3> QED
      BY <3>1, <3>2
  <2> QED
    BY <2>4, <2>5 DEF SavingFine
<1> QED
  BY <1>1, <1>2, <1>3

(* What looks like the catalogue or like another row is created only as    *)
(* confirmed, but for what the lock of the lineup does not keep out, for   *)
(* any number of rows, items and candidates, any order of edits, answers,  *)
(* interruptions and late completions, and whatever others add meanwhile   *)
(* (save, touch, commit, execute).                                         *)
THEOREM DuplicatesConfirmed == EntrySpec => DuplicatesAreConfirmed
<1> DEFINE A ==
      /\ CheckRows /\ Warnings(page.sent.rows) # {} => page.sent.agreed = page.sent.rows
      /\ CheckChosen => /\ page.review.rows = Chosen
                        /\ Warnings(Chosen) = page.review.found
      /\ SaveRows \/ ImportChosen =>
           \A w \in Warnings(saving.rows) \ saving.found : saving.rows[w[1]] \in Wide
      /\ \A k \in imported' \ imported :
           ExecuteCsvRow(k) /\ k \in page.found => k \in page.agreed
    Inv == PageFine(page) /\ SavingFine
<1>1. EntryInit => Inv
  BY DEF EntryInit, PageFine, SavingFine, Idle, Underway
<1>2. Inv /\ [EntryNext]_entryVars => [A]_entryVars
  <2> SUFFICES ASSUME Inv, EntryNext PROVE A
    OBVIOUS
  <2>1. ASSUME CheckRows, Warnings(page.sent.rows) # {} PROVE page.sent.agreed = page.sent.rows
    <3>1. GridFine(page) /\ page.sent.kind = "SAVE"
      BY <2>1, PageKinds DEF CheckRows
    <3>2. page.sent.acknowledge = TRUE
      BY <2>1 DEF CheckRows, Refused
    <3> QED
      BY <3>1, <3>2 DEF GridFine
  <2>2. ASSUME CheckChosen
        PROVE  page.review.rows = Chosen /\ Warnings(Chosen) = page.review.found
    <3>1. ImportFine(page) /\ page.review.rows # <<>>
      BY <2>2, PageKinds DEF CheckChosen
    <3>2. page.review.rows = Chosen
      BY <3>1 DEF ImportFine, Chosen
    <3> QED
      BY <2>2, <3>2 DEF CheckChosen, SameFindings
  <2>3. ASSUME SaveRows \/ ImportChosen,
               NEW w \in Warnings(saving.rows) \ saving.found
        PROVE  saving.rows[w[1]] \in Wide
    <3>1. saving # Idle
      BY <2>3 DEF SaveRows, ImportChosen, Idle
    <3>2. Warnings(saving.rows) = WarningsOf(saving.rows, known)
      BY Zenon DEF Warnings, WarningsOf
    <3> QED
      BY <2>3, <3>1, <3>2 DEF SavingFine
  <2>4. ASSUME NEW k \in imported' \ imported, ExecuteCsvRow(k), k \in page.found
        PROVE  k \in page.agreed
    <3>1. CsvFine(page)
      BY <2>4, PageKinds DEF ExecuteCsvRow
    <3>2. k \in page.left \cup page.late
      BY <2>4 DEF ExecuteCsvRow
    <3> QED
      BY <2>4, <3>1, <3>2 DEF CsvFine
  <2> QED
    BY <2>1, <2>2, <2>3, <2>4
<1>3. DuplicatesAreConfirmed <=> [][A]_entryVars
  BY DEF DuplicatesAreConfirmed
<1>4. Inv /\ [EntryNext]_entryVars => Inv'
  BY PageStep, SavingStep
<1> HIDE DEF A, Inv
<1> QED
  BY <1>1, <1>2, <1>3, <1>4, PTL DEF EntrySpec
------------------------------------------------------------------------------
(***************************************************************************)
(* The lists (module Browse): the places of rows in any catalog.           *)
(***************************************************************************)
Catalogs == [Card -> CardRow]

LEMMA RowsFinite ==
  ASSUME NEW c \in Catalogs, NEW v \in View
  PROVE  /\ IsFiniteSet(Rows(c, v)) /\ Rows(c, v) \in SUBSET Nat
         /\ Cardinality(Rows(c, v)) \in Nat
         /\ v.list # "HISTORY" => Rows(c, v) \subseteq Card
<1>1. v \in AnyView
  BY BrowseAssumption
<1>2. v.card \in Card /\ c[v.card].moves \in Nat
  BY <1>1 DEF AnyView, Catalogs, CardRow
<1>3. CASE v.list = "HISTORY"
  <2>1. Rows(c, v) = 1..c[v.card].moves
    BY <1>3 DEF Rows
  <2>2. IsFiniteSet(1..c[v.card].moves)
    BY <1>2, FS_Interval
  <2> QED
    BY <1>3, <2>1, <2>2, <1>2, FS_CardinalityType
<1>4. CASE v.list # "HISTORY"
  <2>1. Rows(c, v) \in SUBSET Card
    BY <1>4 DEF Rows
  <2>2. IsFiniteSet(Rows(c, v))
    BY <2>1, FS_Subset, BrowseAssumption
  <2> QED
    BY <1>4, <2>1, <2>2, FS_CardinalityType, BrowseAssumption
<1> QED
  BY <1>3, <1>4

LEMMA HeldCounts ==
  ASSUME NEW row \in CardRow
  PROVE  /\ row.held["STORE"] \in Nat /\ row.held["FULFILLABLE"] \in Nat
         /\ Owned(row.held) \in Nat /\ Wanted(row, row.held) \in Nat
         /\ row.release \in Nat /\ row.watch \in Nat /\ row.target \in Nat
<1>1. row.held \in [Shelf -> 0..MaxHeld] /\ MaxHeld \in Nat /\ MaxTarget \in Nat
  BY BrowseAssumption DEF CardRow
<1>2. row.held["STORE"] \in Nat /\ row.held["FULFILLABLE"] \in Nat
  BY <1>1 DEF Shelf
<1>3. row.release \in Nat /\ row.watch \in Nat /\ row.target \in Nat
  BY BrowseAssumption DEF CardRow, Priority
<1> QED
  BY <1>2, <1>3 DEF Owned, Wanted

LEMMA SortsTyped ==
  ASSUME NEW c \in Catalogs, NEW v \in View, NEW x \in Rows(c, v)
  PROVE  x \in Nat /\ SortsAt(c, x, v) \in Int
<1>1. x \in Nat
  BY RowsFinite
<1>2. CASE v.list = "HISTORY"
  BY <1>1, <1>2 DEF SortsAt
<1>3. CASE v.list # "HISTORY"
  <2>1. x \in Card /\ c[x] \in CardRow
    BY <1>3, RowsFinite DEF Catalogs
  <2>2. /\ c[x].held["STORE"] \in Nat /\ c[x].held["FULFILLABLE"] \in Nat
        /\ Owned(c[x].held) \in Nat /\ Wanted(c[x], c[x].held) \in Nat
        /\ c[x].release \in Nat /\ c[x].watch \in Nat /\ c[x].target \in Nat
    BY <2>1, HeldCounts
  <2>3. MaxRelease \in Nat
    BY BrowseAssumption
  <2> QED
    BY <1>1, <1>3, <2>2, <2>3 DEF SortsAt, SortKey
<1> QED
  BY <1>1, <1>2, <1>3

(* The rows of a list are in a strict total order.                         *)
LEMMA RowsInOrder ==
  ASSUME NEW c \in Catalogs, NEW v \in View, NEW x \in Rows(c, v), NEW y \in Rows(c, v)
  PROVE  /\ x # y => Precedes(c, x, y, v) \/ Precedes(c, y, x, v)
         /\ ~(Precedes(c, x, y, v) /\ Precedes(c, y, x, v))
         /\ ~Precedes(c, x, x, v)
  BY SortsTyped DEF Precedes

AheadOf(c, x, v) == {y \in Rows(c, v) : Precedes(c, y, x, v)}

LEMMA AheadTyped ==
  ASSUME NEW c \in Catalogs, NEW v \in View, NEW x \in Rows(c, v)
  PROVE  /\ IsFiniteSet(AheadOf(c, x, v)) /\ AheadOf(c, x, v) \in SUBSET Rows(c, v)
         /\ Ahead(c, x, v) = Cardinality(AheadOf(c, x, v))
         /\ Ahead(c, x, v) \in Nat /\ Ahead(c, x, v) < Cardinality(Rows(c, v))
<1>1. AheadOf(c, x, v) \in SUBSET Rows(c, v)
  BY DEF AheadOf
<1>2. IsFiniteSet(AheadOf(c, x, v)) /\ Cardinality(AheadOf(c, x, v)) <= Cardinality(Rows(c, v))
      /\ (Cardinality(Rows(c, v)) = Cardinality(AheadOf(c, x, v)) => Rows(c, v) = AheadOf(c, x, v))
  BY <1>1, RowsFinite, FS_Subset
<1>3. x \notin AheadOf(c, x, v)
  BY RowsInOrder DEF AheadOf
<1>4. Ahead(c, x, v) = Cardinality(AheadOf(c, x, v))
  BY DEF Ahead, AheadOf
<1>5. Cardinality(AheadOf(c, x, v)) \in Nat /\ Cardinality(Rows(c, v)) \in Nat
  BY <1>2, RowsFinite, FS_CardinalityType
<1> QED
  BY <1>1, <1>2, <1>3, <1>4, <1>5

(* Rows are numbered one by one, in their order.                           *)
LEMMA NumbersOnto ==
  ASSUME NEW c \in Catalogs, NEW v \in View, NEW o \in RowNumbers(c, v),
         NEW n \in 1..Cardinality(Rows(c, v))
  PROVE  \E x \in Rows(c, v) : o[x] = n
<1> DEFINE M == Rows(c, v)
           N == Cardinality(M)
<1>1. IsFiniteSet(M) /\ N \in Nat
  BY RowsFinite
<1>2. o \in Injection(M, 1..N)
  BY DEF RowNumbers, Injection, IsInjective
<1>3. IsFiniteSet(1..N) /\ Cardinality(1..N) = N
  BY <1>1, FS_Interval
<1>4. o \in Surjection(M, 1..N)
  <2> HIDE DEF M
  <2>1. Cardinality(M) = Cardinality(1..N)
    BY <1>3
  <2> HIDE DEF N
  <2> QED
    BY <1>2, <1>3, <2>1, FS_Injection
<1> QED
  BY <1>4 DEF Surjection

LEMMA NumberIsPlace ==
  ASSUME NEW c \in Catalogs, NEW v \in View, NEW o \in RowNumbers(c, v), NEW x \in Rows(c, v)
  PROVE  o[x] \in Nat /\ o[x] = Ahead(c, x, v) + 1
<1> DEFINE M == Rows(c, v)
           N == Cardinality(M)
           B == AheadOf(c, x, v)
           g == [y \in B |-> o[y]]
<1>1. N \in Nat /\ o \in [M -> 1..N] /\ o[x] \in 1..N
  BY RowsFinite DEF RowNumbers
<1>2. \A y \in M : y \in B <=> o[y] < o[x]
  <2>1. \A y \in M : Precedes(c, y, x, v) => o[y] < o[x]
    BY DEF RowNumbers
  <2>2. \A y \in M : Precedes(c, x, y, v) => o[x] < o[y]
    BY DEF RowNumbers
  <2>3. \A y \in M : o[y] \in Int /\ o[x] \in Int
    BY <1>1
  <2>4. \A y \in M : y # x => Precedes(c, y, x, v) \/ Precedes(c, x, y, v)
    BY RowsInOrder
  <2>5. ~Precedes(c, x, x, v)
    BY RowsInOrder
  <2>6. ASSUME NEW y \in M PROVE o[y] < o[x] => Precedes(c, y, x, v)
    BY <2>2, <2>3, <2>4, <2>6
  <2> QED
    BY <2>1, <2>6 DEF AheadOf
<1>3. IsFiniteSet(B) /\ B \in SUBSET M /\ Ahead(c, x, v) = Cardinality(B)
  BY AheadTyped
<1>4. g \in Bijection(B, 1..(o[x] - 1))
  <2>1. g \in [B -> 1..(o[x] - 1)]
    BY <1>1, <1>2, <1>3
  <2>2. \A y, z \in B : g[y] = g[z] => y = z
    BY <1>3 DEF RowNumbers
  <2>3. ASSUME NEW n \in 1..(o[x] - 1) PROVE \E y \in B : g[y] = n
    <3>1. n \in 1..N
      BY <1>1
    <3>2. PICK y \in M : o[y] = n
      BY <3>1, NumbersOnto
    <3>3. y \in B
      BY <1>1, <1>2, <3>2
    <3> QED
      BY <3>2, <3>3
  <2> QED
    BY <2>1, <2>2, <2>3 DEF Bijection, Injection, Surjection, IsInjective
<1>5. Cardinality(1..(o[x] - 1)) = o[x] - 1
  <2>1. 1 \in Int /\ o[x] - 1 \in Int /\ (~(1 > o[x] - 1) \/ o[x] = 1)
    BY <1>1
  <2> QED
    BY <1>1, <2>1, FS_Interval
<1>6. Cardinality(1..(o[x] - 1)) = Cardinality(B)
  <2> HIDE DEF B, g
  <2>1. ExistsBijection(B, 1..(o[x] - 1))
    BY <1>4 DEF ExistsBijection
  <2> QED
    BY <1>3, <2>1, FS_Bijection
<1> QED
  BY <1>1, <1>3, <1>5, <1>6

(* A row falls back only behind rows that were added or sorted elsewhere.  *)
LEMMA AheadGrows ==
  ASSUME NEW c \in Catalogs, NEW d \in Catalogs, NEW v \in View,
         Rows(c, v) \subseteq Rows(d, v),
         \A y \in Rows(c, v) : SortsAt(c, y, v) = SortsAt(d, y, v),
         NEW x \in Rows(c, v)
  PROVE  Ahead(c, x, v) <= Ahead(d, x, v)
<1>1. AheadOf(c, x, v) \in SUBSET AheadOf(d, x, v)
  BY DEF AheadOf, Precedes
<1>2. IsFiniteSet(AheadOf(d, x, v)) /\ Ahead(d, x, v) = Cardinality(AheadOf(d, x, v))
      /\ Ahead(c, x, v) = Cardinality(AheadOf(c, x, v))
  BY AheadTyped
<1> QED
  BY <1>1, <1>2, FS_Subset

(***************************************************************************)
(* Types, and the three kinds of steps.                                    *)
(***************************************************************************)
ListingRow ==
  [step : Step, view : View, asked : Nat \ {0}, page : Nat \ {0}, total : Nat,
   rows : SUBSET Nat, cards : [Card -> CardRow], shown : [Card -> Told],
   options : SUBSET Lineup, quiet : BOOLEAN]

WalkRow ==
  [view : View, pages : Nat, start : SUBSET Nat, seen : SUBSET Nat, ended : BOOLEAN,
   twice : BOOLEAN, entered : BOOLEAN, left : BOOLEAN, moved : BOOLEAN, torn : BOOLEAN]

LEMMA NoCardTyped == NoCard \in CardRow
<1>1. {MaxRelease, MaxHeld, MaxPriority, MaxTarget} \subseteq Nat
  BY BrowseAssumption
<1>2. [p \in Shelf |-> 0] \in [Shelf -> 0..MaxHeld]
  BY <1>1
<1>3. 0 \in 0..MaxRelease /\ 0 \in Priority /\ 0 \in 0..MaxTarget
  BY <1>1 DEF Priority
<1> QED
  BY <1>2, <1>3 DEF NoCard, CardRow

LEMMA NothingTyped == NoListing \in ListingRow /\ NoWalk \in WalkRow
<1>1. (CHOOSE v \in View : TRUE) \in View
  BY BrowseAssumption
<1>2. NothingTold \in Told
  BY DEF NothingTold, Told
<1> QED
  BY <1>1, <1>2, NoCardTyped DEF NoListing, ListingRow, NoWalk, WalkRow, Step

LEMMA BrowseTyped == BrowseTypeOK <=> /\ catalog \in Catalogs /\ listing \in ListingRow
                                      /\ walk \in WalkRow /\ writes \in 0..MaxWrites
  BY DEF BrowseTypeOK, Catalogs, ListingRow, WalkRow

(* Whatever staff change, the catalog becomes another one in a write.      *)
LEMMA ChangesAreWrites ==
  ASSUME BrowseTypeOK, ChangeCatalog
  PROVE  \E c \in Catalogs : Write(c)
<1>1. PICK i \in Card :
        \/ \E release \in 0..MaxRelease, lineup \in Lineup : SaveItem(i, release, lineup)
        \/ RemoveItem(i)
        \/ RestoreItem(i)
        \/ \E published \in BOOLEAN : PublishReviewed(i, published)
        \/ \E priority \in Priority, target \in 0..MaxTarget :
              SavePurchaseWatch(i, priority, target)
        \/ \E source, destination \in Shelf \cup {Outside} :
              RecordMovement(i, source, destination)
  BY DEF ChangeCatalog
<1>2. catalog \in Catalogs /\ catalog[i] \in CardRow
  BY BrowseTyped DEF Catalogs
<1>3. ASSUME NEW row \in CardRow, Put(i, row) PROVE \E c \in Catalogs : Write(c)
  <2>1. [catalog EXCEPT ![i] = row] \in Catalogs
    BY <1>2 DEF Catalogs
  <2> QED
    BY <1>3, <2>1 DEF Put
<1>4. ASSUME NEW release \in 0..MaxRelease, NEW lineup \in Lineup, SaveItem(i, release, lineup)
      PROVE  \E c \in Catalogs : Write(c)
  <2> DEFINE row == [catalog[i] EXCEPT
                      !.status = IF catalog[i].status = "ABSENT" THEN "ACTIVE" ELSE catalog[i].status,
                      !.release = release, !.lineup = lineup]
  <2>1. row \in CardRow
    BY <1>2, <1>4 DEF CardRow
  <2>2. Put(i, row)
    BY <1>4 DEF SaveItem
  <2> HIDE DEF row
  <2> QED
    BY <1>3, <2>1, <2>2
<1>5. CASE RemoveItem(i)
  <2>1. [catalog[i] EXCEPT !.status = "ARCHIVED"] \in CardRow
    BY <1>2 DEF CardRow
  <2>2. [NoCard EXCEPT !.status = "DELETED"] \in CardRow
    BY NoCardTyped DEF CardRow
  <2> QED
    BY <1>3, <1>5, <2>1, <2>2 DEF RemoveItem
<1>6. CASE RestoreItem(i)
  <2>1. [catalog[i] EXCEPT !.status = "ACTIVE"] \in CardRow
    BY <1>2 DEF CardRow
  <2> QED
    BY <1>3, <1>6, <2>1 DEF RestoreItem
<1>7. ASSUME NEW published \in BOOLEAN, PublishReviewed(i, published)
      PROVE  \E c \in Catalogs : Write(c)
  <2>1. [catalog[i] EXCEPT !.sale = IF published THEN "PUBLISHED" ELSE "DRAFT"] \in CardRow
    BY <1>2 DEF CardRow
  <2> QED
    BY <1>3, <1>7, <2>1 DEF PublishReviewed
<1>8. ASSUME NEW priority \in Priority, NEW target \in 0..MaxTarget,
             SavePurchaseWatch(i, priority, target)
      PROVE  \E c \in Catalogs : Write(c)
  <2>1. [catalog[i] EXCEPT !.watch = priority, !.target = target] \in CardRow
    BY <1>2, <1>8 DEF CardRow
  <2> QED
    BY <1>3, <1>8, <2>1 DEF SavePurchaseWatch
<1>9. ASSUME NEW source \in Shelf \cup {Outside}, NEW destination \in Shelf \cup {Outside},
             RecordMovement(i, source, destination)
      PROVE  \E c \in Catalogs : Write(c)
  <2> DEFINE after == [p \in Shelf |-> IF p = source THEN catalog[i].held[p] - 1
                                      ELSE IF p = destination THEN catalog[i].held[p] + 1
                                      ELSE catalog[i].held[p]]
             more == catalog[i].moves + 1
             row == [catalog[i] EXCEPT !.held = after, !.moves = more]
  <2>1. catalog[i].held \in [Shelf -> 0..MaxHeld] /\ MaxHeld \in Nat
    BY <1>2, BrowseAssumption DEF CardRow
  <2>2. /\ source \in Shelf => catalog[i].held[source] > 0
        /\ destination \in Shelf => catalog[i].held[destination] < MaxHeld
    BY <1>9 DEF RecordMovement
  <2>3. after \in [Shelf -> 0..MaxHeld]
    BY <2>1, <2>2
  <2>4. more \in Nat
    BY <1>2 DEF CardRow
  <2>5. Put(i, row)
    BY <1>9 DEF RecordMovement
  <2> HIDE DEF after, more
  <2>6. row \in CardRow
    BY <1>2, <2>3, <2>4 DEF CardRow
  <2> HIDE DEF row
  <2> QED
    BY <1>3, <2>5, <2>6
<1> QED
  BY <1>1, <1>4, <1>5, <1>6, <1>7, <1>8, <1>9

LEMMA AnswersAreAsked ==
  ASSUME BrowseTypeOK,
         \/ \E v \in View, p \in 1..MaxAsked : OpenAddress(v, p)
         \/ \E v \in View : SubmitFilters(v)
         \/ \E p \in 1..(listing.page + 1) : Turn(p)
  PROVE  \E v \in View, p \in Nat \ {0} : Ask(v, p)
<1>1. listing.view \in View /\ listing.page \in Nat \ {0} /\ MaxAsked \in Nat
  BY BrowseTyped, BrowseAssumption DEF ListingRow
<1>2. ASSUME NEW v \in View, NEW p \in 1..MaxAsked, OpenAddress(v, p)
      PROVE  \E w \in View, q \in Nat \ {0} : Ask(w, q)
  <2>1. p \in Nat \ {0}
    BY <1>1
  <2> QED
    BY <1>2, <2>1 DEF OpenAddress
<1>3. ASSUME NEW v \in View, SubmitFilters(v)
      PROVE  \E w \in View, q \in Nat \ {0} : Ask(w, q)
  BY <1>3 DEF SubmitFilters
<1>4. ASSUME NEW p \in 1..(listing.page + 1), Turn(p)
      PROVE  \E w \in View, q \in Nat \ {0} : Ask(w, q)
  <2>1. p \in Nat \ {0}
    BY <1>1
  <2> QED
    BY <1>1, <1>4, <2>1 DEF Turn
<1> QED
  BY <1>2, <1>3, <1>4

(* A page has at least one place, and the last one of a list is filled.    *)
LEMMA TimesNext ==
  ASSUME NEW n \in Nat, NEW s \in Nat
  PROVE  n * s \in Nat /\ (n + 1) * s = n * s + s
OBVIOUS

LEMMA TimesMonotone ==
  ASSUME NEW a \in Nat, NEW b \in Nat, NEW s \in Nat, a <= b
  PROVE  a * s \in Nat /\ b * s \in Nat /\ a * s <= b * s
<1>1. PICK k \in Nat : b = a + k
  <2>1. b - a \in Nat /\ b = a + (b - a)
    OBVIOUS
  <2> QED
    BY <2>1
<1>2. b * s = a * s + k * s
  BY <1>1
<1>3. a * s \in Nat /\ k * s \in Nat
  BY <1>1
<1> QED
  BY <1>2, <1>3

LEMMA LastPage ==
  ASSUME NEW total \in Nat
  PROVE  /\ PageCount(total) \in Nat \ {0}
         /\ total <= PageCount(total) * PageSize
         /\ PageCount(total) = 1 \/ (PageCount(total) - 1) * PageSize < total
<1> DEFINE s == PageSize
<1>1. s \in Nat \ {0}
  BY BrowseAssumption
<1>2. CASE total = 0
  BY <1>1, <1>2 DEF PageCount
<1>3. CASE total # 0
  <2> DEFINE a == total + s - 1
             q == a \div s
             r == a % s
  <2>1. a \in Nat /\ PageCount(total) = q
    BY <1>1, <1>3 DEF PageCount
  <2>2. q \in Nat /\ r \in Nat /\ r < s /\ s * q + r = total + s - 1
    <3> HIDE DEF a, s
    <3>1. q \in Nat /\ r \in Nat /\ r < s /\ s * q + r = a
      BY <1>1, <2>1
    <3> QED
      BY <3>1 DEF a
  <2> HIDE DEF q, r, s
  <2>3. q # 0
    BY <1>1, <1>3, <2>2
  <2>4. q - 1 \in Nat /\ q = (q - 1) + 1
    BY <2>2, <2>3
  <2>5. (q - 1) * s \in Nat /\ q * s = (q - 1) * s + s
    BY <1>1, <2>4, TimesNext
  <2>6. s * q = q * s
    BY <1>1, <2>2
  <2>7. total <= q * s /\ (q - 1) * s < total
    BY <1>1, <2>2, <2>5, <2>6
  <2> QED
    BY <2>1, <2>2, <2>3, <2>7 DEF s
<1> QED
  BY <1>2, <1>3

(* The rows of a page are those of its places.                             *)
LEMMA PageIsPlaces ==
  ASSUME BrowseTypeOK, NEW p \in Nat \ {0}, NEW found, Numbered(found, p)
  PROVE  LET all == Rows(catalog, listing.view)
             first == (p - 1) * PageSize
         IN /\ first \in Nat /\ p * PageSize = first + PageSize
            /\ found \in SUBSET all
            /\ \A x \in all : x \in found <=> /\ first <= Ahead(catalog, x, listing.view)
                                            /\ Ahead(catalog, x, listing.view) < first + PageSize
            /\ found = {} => Cardinality(all) <= first
<1> DEFINE v == listing.view
           all == Rows(catalog, v)
           first == (p - 1) * PageSize
<1>1. catalog \in Catalogs /\ v \in View /\ PageSize \in Nat \ {0}
  BY BrowseTyped, BrowseAssumption DEF ListingRow
<1>2. first \in Nat /\ p * PageSize = first + PageSize
  <2>1. p - 1 \in Nat /\ p = (p - 1) + 1
    OBVIOUS
  <2> QED
    BY <1>1, <2>1, TimesNext
<1>3. PICK o \in RowNumbers(catalog, v) : found = {x \in all : o[x] \in Window(p)}
  BY DEF Numbered
<1>4. ASSUME NEW x \in all
      PROVE  o[x] \in Nat /\ o[x] = Ahead(catalog, x, v) + 1
  BY <1>1, NumberIsPlace
<1>5. Cardinality(all) \in Nat
  BY <1>1, RowsFinite
<1> HIDE DEF v, all, first
<1>6. Window(p) = (first + 1)..(first + PageSize)
  BY <1>2 DEF Window, first
<1>7. ASSUME NEW x \in all
      PROVE  x \in found <=> /\ first <= Ahead(catalog, x, v)
                            /\ Ahead(catalog, x, v) < first + PageSize
  <2>1. Ahead(catalog, x, v) \in Nat
    BY <1>1, AheadTyped DEF all
  <2>2. x \in found <=> o[x] \in Window(p)
    BY <1>3
  <2> QED
    BY <1>1, <1>2, <1>4, <1>6, <2>1, <2>2
<1>8. ASSUME found = {}, ~(Cardinality(all) <= first) PROVE FALSE
  <2>1. first + 1 \in 1..Cardinality(all)
    BY <1>2, <1>5, <1>8
  <2>2. PICK x \in all : o[x] = first + 1
    BY <1>1, <2>1, NumbersOnto DEF all
  <2>3. o[x] \in Window(p)
    BY <1>1, <1>2, <1>6, <2>2
  <2> QED
    BY <1>3, <1>8, <2>3
<1> QED
  BY <1>2, <1>3, <1>7, <1>8 DEF v, all, first

LEMMA WriteTyped ==
  ASSUME BrowseTypeOK, NEW c \in Catalogs, Write(c)
  PROVE  BrowseTypeOK'
<1>1. catalog' \in Catalogs /\ writes' \in 0..MaxWrites
  <2>1. writes \in 0..MaxWrites /\ MaxWrites \in Nat
    BY BrowseTyped, BrowseAssumption
  <2> QED
    BY <2>1 DEF Write
<1>2. listing' \in ListingRow
  BY BrowseTyped DEF Write, ListingRow
<1>3. walk' \in WalkRow
  <2> DEFINE e == walk.entered \/ Lost(c, catalog)
             l == walk.left \/ Lost(catalog, c)
             m == walk.moved \/ Resorted(catalog, c)
             w == [walk EXCEPT !.entered = e, !.left = l, !.moved = m]
  <2>1. walk \in WalkRow
    BY BrowseTyped
  <2>2. e \in BOOLEAN /\ l \in BOOLEAN /\ m \in BOOLEAN
    BY DEF Lost, Resorted
  <2>3. walk' = IF walk.pages = 0 THEN walk ELSE w
    BY DEF Write
  <2> HIDE DEF e, l, m
  <2>4. w \in WalkRow
    BY <2>1, <2>2 DEF WalkRow
  <2> HIDE DEF w
  <2> QED
    BY <2>1, <2>3, <2>4
<1> QED
  BY <1>1, <1>2, <1>3 DEF BrowseTypeOK, Catalogs, ListingRow, WalkRow

LEMMA AskTyped ==
  ASSUME BrowseTypeOK, NEW v \in View, NEW p \in Nat \ {0}, Ask(v, p)
  PROVE  BrowseTypeOK'
<1>1. listing' \in ListingRow
  BY NothingTyped DEF Ask, ListingRow, Step
<1>2. walk' \in WalkRow /\ catalog' \in Catalogs /\ writes' \in 0..MaxWrites
  BY NothingTyped, BrowseTyped DEF Ask
<1> QED
  BY <1>1, <1>2 DEF BrowseTypeOK, Catalogs, ListingRow, WalkRow

LEMMA WalkedTyped ==
  ASSUME BrowseTypeOK, NEW p \in Nat \ {0}, NEW total \in Nat,
         NEW found \in SUBSET Rows(catalog, listing.view)
  PROVE  Walked(found, p, total) \in WalkRow
<1>1. walk \in WalkRow /\ listing.view \in View /\ catalog \in Catalogs /\ NoWalk \in WalkRow
  BY BrowseTyped, NothingTyped DEF ListingRow
<1> DEFINE all == Rows(catalog, listing.view)
           stale == total # Cardinality(all)
           last == p >= PageCount(total)
           twice == walk.twice \/ found \cap walk.seen # {}
           torn == walk.torn \/ stale
<1>2. all \in SUBSET Nat /\ found \in SUBSET Nat
  BY <1>1, RowsFinite
<1>3. stale \in BOOLEAN /\ last \in BOOLEAN /\ twice \in BOOLEAN /\ torn \in BOOLEAN
  OBVIOUS
<1>4. Walked(found, p, total) =
        IF p = 1
        THEN [NoWalk EXCEPT !.view = listing.view, !.pages = 1, !.start = all, !.seen = found,
                            !.torn = stale, !.ended = last]
        ELSE IF p = walk.pages + 1
        THEN [walk EXCEPT !.pages = p, !.seen = walk.seen \cup found, !.twice = twice,
                          !.torn = torn, !.ended = last]
        ELSE NoWalk
  BY DEF Walked
<1> HIDE DEF all, stale, last, twice, torn
<1>5. CASE p = 1
  <2>1. [NoWalk EXCEPT !.view = listing.view, !.pages = 1, !.start = all, !.seen = found,
                       !.torn = stale, !.ended = last] \in WalkRow
    BY <1>1, <1>2, <1>3 DEF WalkRow
  <2> QED
    BY <1>4, <1>5, <2>1
<1>6. CASE p # 1 /\ p = walk.pages + 1
  <2>1. walk.seen \cup found \in SUBSET Nat
    BY <1>1, <1>2 DEF WalkRow
  <2>2. [walk EXCEPT !.pages = p, !.seen = walk.seen \cup found, !.twice = twice,
                     !.torn = torn, !.ended = last] \in WalkRow
    BY <1>1, <1>3, <2>1 DEF WalkRow
  <2> QED
    BY <1>4, <1>6, <2>2
<1> QED
  BY <1>1, <1>4, <1>5, <1>6

LEMMA LoadTyped ==
  ASSUME BrowseTypeOK, Load
  PROVE  BrowseTypeOK'
<1>1. /\ catalog \in Catalogs /\ listing \in ListingRow /\ walk \in WalkRow
      /\ writes \in 0..MaxWrites /\ listing.view \in View
  BY BrowseTyped DEF ListingRow
<1>2. Cardinality(Rows(catalog, listing.view)) \in Nat
      /\ PageCount(Cardinality(Rows(catalog, listing.view))) \in Nat \ {0}
  <2>1. Cardinality(Rows(catalog, listing.view)) \in Nat
    BY <1>1, RowsFinite, Zenon
  <2> QED
    BY <2>1, LastPage, Zenon
<1>3. catalog' = catalog /\ writes' = writes
  BY Zenon DEF Load, ReadRows, ReadAgain, ReadHistory, ReadTotal, ReadCount, ReadCards, ReadStock
<1>4. ASSUME NEW found \in SUBSET Rows(catalog, listing.view), ReadRows(found)
      PROVE  listing' \in ListingRow /\ walk' \in WalkRow
  <2> DEFINE total == IF found = {} THEN 0 ELSE Cardinality(Rows(catalog, listing.view))
  <2>1. total \in Nat /\ found \in SUBSET Nat /\ listing.asked \in Nat \ {0}
    BY <1>1, <1>2, RowsFinite DEF ListingRow
  <2>2. CASE found = {} /\ listing.asked > 1
    <3>1. listing' = [listing EXCEPT !.step = "CLAMP"] /\ walk' = NoWalk
      BY <1>4, <2>2 DEF ReadRows
    <3> QED
      BY <1>1, <3>1, NothingTyped DEF ListingRow, Step
  <2>3. CASE ~(found = {} /\ listing.asked > 1)
    <3>1. /\ listing' = [listing EXCEPT !.step = "CARDS", !.page = listing.asked,
                                        !.total = total, !.rows = found]
          /\ walk' = Walked(found, listing.asked, total)
      BY <1>4, <2>3 DEF ReadRows
    <3> HIDE DEF total
    <3>2. walk' \in WalkRow
      BY <2>1, <3>1, WalkedTyped
    <3> QED
      BY <1>1, <2>1, <3>1, <3>2 DEF ListingRow, Step
  <2> QED
    BY <2>2, <2>3
<1>5. ASSUME NEW found \in SUBSET Rows(catalog, listing.view), ReadAgain(found)
      PROVE  listing' \in ListingRow /\ walk' \in WalkRow
  <2> DEFINE total == IF found = {} THEN listing.total ELSE Cardinality(Rows(catalog, listing.view))
  <2>1. total \in Nat /\ found \in SUBSET Nat
    BY <1>1, <1>2, RowsFinite DEF ListingRow
  <2>2. listing' = [listing EXCEPT !.step = "CARDS", !.total = total, !.rows = found]
        /\ walk' = walk
    BY <1>5 DEF ReadAgain
  <2> HIDE DEF total
  <2> QED
    BY <1>1, <2>1, <2>2 DEF ListingRow, Step
<1>6. ASSUME NEW found \in SUBSET Rows(catalog, listing.view), ReadHistory(found)
      PROVE  listing' \in ListingRow /\ walk' \in WalkRow
  <2>1. found \in SUBSET Nat /\ listing.page \in Nat \ {0} /\ listing.total \in Nat
    BY <1>1, RowsFinite DEF ListingRow
  <2>2. listing' \in ListingRow
    BY <1>1, <1>6, <2>1 DEF ReadHistory, ListingRow, Step
  <2>3. walk' = Walked(found, listing.page, listing.total) \/ walk' = NoWalk
    BY <1>6 DEF ReadHistory
  <2> QED
    BY <2>1, <2>2, <2>3, NothingTyped, WalkedTyped
<1>7. ASSUME ReadTotal PROVE listing' \in ListingRow /\ walk' \in WalkRow
  BY <1>1, <1>2, <1>7 DEF ReadTotal, ListingRow, Step
<1>8. ASSUME ReadCount PROVE listing' \in ListingRow /\ walk' \in WalkRow
  <2> DEFINE total == Cardinality(Rows(catalog, listing.view))
             p == IF listing.asked <= PageCount(total) THEN listing.asked ELSE PageCount(total)
  <2>1. total \in Nat /\ p \in Nat \ {0}
    BY <1>1, <1>2 DEF ListingRow
  <2>2. /\ listing' = IF ~Stored(catalog[listing.view.card]) THEN NoListing
                      ELSE [listing EXCEPT !.step = "ROWS", !.total = total, !.page = p]
        /\ walk' = walk \/ walk' = NoWalk
    BY <1>8 DEF ReadCount
  <2> HIDE DEF total, p
  <2> QED
    BY <1>1, <2>1, <2>2, NothingTyped DEF ListingRow, Step
<1>9. ASSUME ReadCards PROVE listing' \in ListingRow /\ walk' \in WalkRow
  <2> DEFINE read == [i \in Card |-> IF i \in listing.rows THEN catalog[i] ELSE NoCard]
  <2>1. read \in [Card -> CardRow]
    BY <1>1, NoCardTyped DEF Catalogs
  <2>2. listing' = [listing EXCEPT !.step = "STOCK", !.cards = read] /\ walk' = walk
    BY <1>9 DEF ReadCards
  <2> HIDE DEF read
  <2> QED
    BY <1>1, <2>1, <2>2 DEF ListingRow, Step
<1>10. ASSUME ReadStock PROVE listing' \in ListingRow /\ walk' \in WalkRow
  <2> DEFINE told == [i \in Card |-> IF Stored(listing.cards[i])
                                    THEN Tells(listing.cards[i], catalog[i].held)
                                    ELSE NothingTold]
             offered == Options(listing.view)
             none == NoListing.cards
  <2>1. ASSUME NEW i \in Card
        PROVE  Tells(listing.cards[i], catalog[i].held) \in Told /\ NothingTold \in Told
    <3>1. catalog[i] \in CardRow /\ listing.cards[i] \in CardRow
      BY <1>1 DEF Catalogs, ListingRow
    <3>2. Owned(catalog[i].held) \in Nat /\ listing.cards[i].target \in Nat
      BY <3>1, HeldCounts
    <3>3. Wanted(listing.cards[i], catalog[i].held) \in Nat
      BY <3>2 DEF Wanted
    <3>4. Badges(listing.cards[i], catalog[i].held) \in SUBSET Badge
      BY DEF Badges
    <3> QED
      BY <3>3, <3>4 DEF Tells, Told, NothingTold
  <2>2. told \in [Card -> Told]
    BY <2>1
  <2>3. offered \in SUBSET Lineup
    <3>1. listing.view \in AnyView
      BY <1>1, BrowseAssumption
    <3> QED
      BY <3>1 DEF Options, AnyView
  <2>4. none \in [Card -> CardRow]
    BY NothingTyped DEF ListingRow
  <2>5. listing' = [listing EXCEPT !.step = "SHOWN", !.cards = none, !.shown = told,
                                   !.options = offered]
        /\ walk' = walk
    BY <1>10 DEF ReadStock
  <2> HIDE DEF told, offered, none
  <2> QED
    BY <1>1, <2>2, <2>3, <2>4, <2>5 DEF ListingRow, Step
<1>11. listing' \in ListingRow /\ walk' \in WalkRow
  BY <1>4, <1>5, <1>6, <1>7, <1>8, <1>9, <1>10 DEF Load
<1> QED
  BY <1>1, <1>3, <1>11 DEF BrowseTypeOK, Catalogs, ListingRow, WalkRow

(* A walk that was asked to go on does so with the page after its last.    *)
WalkGoesOn ==
  listing.step \in {"ROWS", "COUNT"} /\ walk.pages > 0 =>
    walk.view = listing.view /\ listing.asked = walk.pages + 1

(* What was there at the start and not seen yet is on the pages to come;   *)
(* what was seen is on those that were read.                               *)
WalkInv ==
  LET all == Rows(catalog, walk.view)
      done == walk.pages * PageSize
  IN /\ walk.pages = 0 => ~walk.ended
     /\ walk.pages > 0 =>
          /\ ~walk.moved /\ ~walk.left =>
               /\ walk.start \subseteq all
               /\ \A x \in walk.start \ walk.seen : done <= Ahead(catalog, x, walk.view)
          /\ ~walk.moved /\ ~walk.entered =>
               /\ ~walk.twice
               /\ \A x \in walk.seen \cap all : Ahead(catalog, x, walk.view) < done
     /\ WalkSeesEach

(* What a load l has read of catalog c is right as long as nothing was     *)
(* written: first the total and the page, then the rows.                   *)
PageFound(c, l) ==
  LET first == (l.page - 1) * PageSize
  IN /\ l.total = Cardinality(Rows(c, l.view))
     /\ l.page = 1 \/ first < l.total
     /\ \/ l.page = l.asked
        \/ l.page < l.asked /\ l.total <= first + PageSize

RowsFound(c, l) ==
  LET first == (l.page - 1) * PageSize
  IN l.rows = {x \in Rows(c, l.view) : Ahead(c, x, l.view) \in first..(first + PageSize - 1)}

Described(l) ==
  /\ \A i \in l.rows : SaysWhatWasAsked(l.view, l.shown[i])
  /\ l.view.lineup \in l.options \cup {NoLineup}

Counted(l) ==
  \/ l.step \in {"AGAIN", "CARDS", "STOCK", "SHOWN"}
  \/ l.step = "ROWS" /\ l.view.list = "HISTORY"

(* Only histories are counted first, and rows are read late.               *)
StepsFit(l) ==
  /\ l.step \in {"CLAMP", "AGAIN", "CARDS", "STOCK"} => l.view.list # "HISTORY"
  /\ l.step = "COUNT" => l.view.list = "HISTORY"
  /\ l.step \in {"COUNT", "ROWS", "CLAMP"} => l.rows = {}

ReadSoFar(c, l) ==
  /\ l.step = "CLAMP" =>
       /\ l.asked > 1
       /\ Cardinality(Rows(c, l.view)) <= (l.asked - 1) * PageSize
  /\ Counted(l) => PageFound(c, l)
  /\ l.step \in {"CARDS", "STOCK", "SHOWN"} => RowsFound(c, l)
  /\ l.step = "STOCK" => \A i \in l.rows : l.cards[i] = c[i]
  /\ l.step = "SHOWN" /\ l.view.list # "HISTORY" => Described(l)

QuietInv == StepsFit(listing) /\ (listing.quiet => ReadSoFar(catalog, listing))

(***************************************************************************)
(* The walk.                                                               *)
(***************************************************************************)
LEMMA NoWalkInv ==
  ASSUME walk' = NoWalk
  PROVE  WalkInv'
<1>1. walk'.pages = 0 /\ walk'.ended = FALSE
  BY DEF NoWalk
<1> QED
  BY <1>1 DEF WalkInv, WalkSeesEach

LEMMA WalkAside ==
  ASSUME WalkInv, walk' = walk, catalog' = catalog
  PROVE  WalkInv'
<1>1. \A x : Ahead(catalog, x, walk.view)' = Ahead(catalog, x, walk.view)
  BY DEF Ahead, Rows, Precedes, SortsAt, SortKey, Passes
<1> QED
  BY DEF WalkInv, WalkSeesEach

LEMMA WalkWritten ==
  ASSUME BrowseTypeOK, WalkInv, NEW c \in Catalogs, Write(c)
  PROVE  WalkInv'
<1> DEFINE v == walk.view
           all == Rows(catalog, v)
           later == Rows(c, v)
           done == walk.pages * PageSize
<1>1. catalog \in Catalogs /\ v \in View /\ walk \in WalkRow /\ catalog' = c
  BY BrowseTyped DEF WalkRow, Write
<1>2. CASE walk.pages = 0
  BY <1>2 DEF Write, WalkInv, WalkSeesEach
<1>3. CASE walk.pages # 0
  <2>1. /\ walk'.view = v /\ walk'.pages = walk.pages /\ walk'.start = walk.start
        /\ walk'.seen = walk.seen /\ walk'.ended = walk.ended /\ walk'.twice = walk.twice
        /\ walk'.torn = walk.torn
        /\ walk'.entered = (walk.entered \/ Lost(c, catalog))
        /\ walk'.left = (walk.left \/ Lost(catalog, c))
        /\ walk'.moved = (walk.moved \/ Resorted(catalog, c))
    BY <1>1, <1>3 DEF Write, WalkRow
  <2>2. done \in Nat /\ walk.pages > 0
    BY <1>1, <1>3, TimesNext, BrowseAssumption DEF WalkRow
  <2>3. ASSUME ~walk'.moved, ~walk'.left
        PROVE  /\ walk.start \subseteq later
               /\ \A x \in walk.start \ walk.seen : done <= Ahead(c, x, v)
    <3>1. all \subseteq later /\ ~walk.moved /\ ~walk.left
      BY <2>1, <2>3 DEF Lost
    <3>2. \A y \in all : SortsAt(catalog, y, v) = SortsAt(c, y, v)
      BY <2>1, <2>3, <3>1 DEF Resorted
    <3>3. walk.start \subseteq all /\ \A x \in walk.start \ walk.seen : done <= Ahead(catalog, x, v)
      BY <2>2, <3>1 DEF WalkInv
    <3>4. ASSUME NEW x \in walk.start \ walk.seen PROVE done <= Ahead(c, x, v)
      <4>1. x \in all /\ x \in later /\ done <= Ahead(catalog, x, v)
        BY <3>1, <3>3
      <4>2. Ahead(catalog, x, v) <= Ahead(c, x, v)
        BY <1>1, <3>1, <3>2, <4>1, AheadGrows
      <4>3. Ahead(catalog, x, v) \in Nat /\ Ahead(c, x, v) \in Nat
        BY <1>1, <4>1, AheadTyped
      <4> QED
        BY <2>2, <4>1, <4>2, <4>3
    <3> QED
      BY <3>1, <3>3, <3>4
  <2>4. ASSUME ~walk'.moved, ~walk'.entered
        PROVE  ~walk.twice /\ \A x \in walk.seen \cap later : Ahead(c, x, v) < done
    <3>1. later \subseteq all /\ ~walk.moved /\ ~walk.entered
      BY <2>1, <2>4 DEF Lost
    <3>2. \A y \in later : SortsAt(c, y, v) = SortsAt(catalog, y, v)
      BY <2>1, <2>4, <3>1 DEF Resorted
    <3>3. ~walk.twice /\ \A x \in walk.seen \cap all : Ahead(catalog, x, v) < done
      BY <2>2, <3>1 DEF WalkInv
    <3>4. ASSUME NEW x \in walk.seen \cap later PROVE Ahead(c, x, v) < done
      <4>1. x \in all /\ x \in later /\ Ahead(catalog, x, v) < done
        BY <3>1, <3>3
      <4>2. Ahead(c, x, v) <= Ahead(catalog, x, v)
        BY <1>1, <3>1, <3>2, <4>1, AheadGrows
      <4>3. Ahead(catalog, x, v) \in Nat /\ Ahead(c, x, v) \in Nat
        BY <1>1, <4>1, AheadTyped
      <4> QED
        BY <2>2, <4>1, <4>2, <4>3
    <3> QED
      BY <3>3, <3>4
  <2>5. WalkSeesEach'
    BY <2>1 DEF WalkInv, WalkSeesEach
  <2> QED
    BY <1>1, <2>1, <2>2, <2>3, <2>4, <2>5 DEF WalkInv
<1> QED
  BY <1>2, <1>3

LEMMA WalkRead ==
  ASSUME BrowseTypeOK, WalkInv, NEW p \in Nat \ {0}, NEW total \in Nat, NEW found,
         Numbered(found, p),
         p = walk.pages + 1 /\ p # 1 => walk.view = listing.view,
         walk' = Walked(found, p, total), catalog' = catalog
  PROVE  WalkInv'
<1> DEFINE v == listing.view
           all == Rows(catalog, v)
           first == (p - 1) * PageSize
           done == p * PageSize
<1>1. catalog \in Catalogs /\ v \in View /\ walk \in WalkRow /\ NoWalk \in WalkRow
  BY BrowseTyped, NothingTyped DEF ListingRow
<1>2. /\ first \in Nat /\ done = first + PageSize /\ PageSize \in Nat \ {0}
      /\ found \in SUBSET all
      /\ \A x \in all : x \in found <=> /\ first <= Ahead(catalog, x, v)
                                      /\ Ahead(catalog, x, v) < first + PageSize
  BY PageIsPlaces, BrowseAssumption
<1>3. /\ Cardinality(all) \in Nat
      /\ \A x \in all : Ahead(catalog, x, v) \in Nat /\ Ahead(catalog, x, v) < Cardinality(all)
  BY <1>1, RowsFinite, AheadTyped
<1>4. p >= PageCount(total) => total <= done
  <2>1. PageCount(total) \in Nat \ {0} /\ total <= PageCount(total) * PageSize
    BY LastPage
  <2>2. ASSUME p >= PageCount(total) PROVE total <= done
    <3>1. PageCount(total) * PageSize \in Nat /\ PageCount(total) * PageSize <= done
      BY <1>2, <2>1, <2>2, TimesMonotone
    <3> QED
      BY <1>2, <2>1, <3>1
  <2> QED
    BY <2>2
<1>5. ASSUME NEW w \in WalkRow, walk' = w, w.view = v, w.pages = p,
             w.ended = (p >= PageCount(total)),
             ~w.torn => total = Cardinality(all),
             ~w.moved /\ ~w.left =>
               /\ w.start \subseteq all
               /\ \A x \in w.start \ w.seen : done <= Ahead(catalog, x, v),
             ~w.moved /\ ~w.entered =>
               ~w.twice /\ \A x \in w.seen \cap all : Ahead(catalog, x, v) < done
      PROVE  WalkInv'
  <2>1. WalkSeesEach'
    <3>1. ASSUME w.ended, ~w.moved, ~w.torn, ~w.left, NEW x \in w.start, x \notin w.seen
          PROVE  FALSE
      <4>1. x \in all /\ done <= Ahead(catalog, x, v)
        BY <1>5, <3>1
      <4>2. Cardinality(all) <= done
        BY <1>4, <1>5, <3>1
      <4> QED
        BY <1>2, <1>3, <4>1, <4>2
    <3> QED
      BY <1>5, <3>1 DEF WalkSeesEach
  <2> QED
    BY <1>5, <2>1 DEF WalkInv
<1>6. CASE p = 1
  <2> DEFINE w == walk'
             torn == total # Cardinality(all)
             last == p >= PageCount(total)
  <2>1. w = [NoWalk EXCEPT !.view = v, !.pages = 1, !.start = all, !.seen = found,
                           !.torn = torn, !.ended = last]
    BY <1>6 DEF Walked
  <2>2. /\ w \in WalkRow
        /\ w.view = v /\ w.pages = p /\ w.start = all /\ w.seen = found /\ w.twice = FALSE
        /\ w.torn = (total # Cardinality(all)) /\ w.ended = (p >= PageCount(total))
    <3>1. w \in WalkRow
      BY <1>2, WalkedTyped
    <3>2. NoWalk.twice = FALSE
      BY DEF NoWalk
    <3>3. torn \in BOOLEAN /\ last \in BOOLEAN
      OBVIOUS
    <3> HIDE DEF all, v, w, torn, last
    <3>4. /\ w.view = v /\ w.pages = p /\ w.start = all /\ w.seen = found /\ w.twice = FALSE
          /\ w.torn = torn /\ w.ended = last
      BY <1>1, <1>6, <2>1, <3>2 DEF WalkRow
    <3> QED
      BY <3>1, <3>4 DEF torn, last
  <2>3. first = 0
    BY <1>2, <1>6
  <2>4. ASSUME NEW x \in all \ found PROVE done <= Ahead(catalog, x, v)
    BY <1>2, <1>3, <2>3
  <2>5. ASSUME NEW x \in found \cap all PROVE Ahead(catalog, x, v) < done
    BY <1>2
  <2> HIDE DEF w, all, done, v, first
  <2> QED
    BY <1>5, <2>2, <2>4, <2>5 DEF w
<1>7. CASE p # 1 /\ p = walk.pages + 1
  <2> DEFINE w == walk'
             twice == walk.twice \/ found \cap walk.seen # {}
             torn == walk.torn \/ total # Cardinality(all)
             last == p >= PageCount(total)
  <2>1. w = [walk EXCEPT !.pages = p, !.seen = walk.seen \cup found, !.twice = twice,
                         !.torn = torn, !.ended = last]
    BY <1>7 DEF Walked
  <2>2. /\ w \in WalkRow
        /\ w.view = v /\ w.pages = p /\ w.start = walk.start /\ w.seen = walk.seen \cup found
        /\ w.twice = (walk.twice \/ found \cap walk.seen # {})
        /\ w.torn = (walk.torn \/ total # Cardinality(all))
        /\ w.ended = (p >= PageCount(total))
        /\ w.moved = walk.moved /\ w.left = walk.left /\ w.entered = walk.entered
    <3>1. w \in WalkRow
      BY <1>2, WalkedTyped
    <3>2. walk.view = v
      BY <1>7
    <3> HIDE DEF all, v, w, twice, torn, last
    <3>3. /\ w.view = v /\ w.pages = p /\ w.start = walk.start /\ w.seen = walk.seen \cup found
          /\ w.twice = twice /\ w.torn = torn /\ w.ended = last
          /\ w.moved = walk.moved /\ w.left = walk.left /\ w.entered = walk.entered
      BY <1>1, <2>1, <3>2 DEF WalkRow
    <3> QED
      BY <3>1, <3>3 DEF twice, torn, last
  <2>3. walk.pages > 0 /\ walk.pages * PageSize = first /\ walk.view = v
    BY <1>1, <1>7 DEF WalkRow
  <2>4. ~walk.moved /\ ~walk.left =>
          /\ walk.start \subseteq all
          /\ \A x \in walk.start \ walk.seen : first <= Ahead(catalog, x, v)
    BY <2>3 DEF WalkInv
  <2>5. ~walk.moved /\ ~walk.entered =>
          ~walk.twice /\ \A x \in walk.seen \cap all : Ahead(catalog, x, v) < first
    BY <2>3 DEF WalkInv
  <2> HIDE DEF w, all, done, v, first
  <2>6. ASSUME ~walk.moved, ~walk.left, NEW x \in walk.start, x \notin walk.seen \cup found
        PROVE  done <= Ahead(catalog, x, v)
    BY <1>2, <1>3, <2>4, <2>6
  <2>7. ASSUME ~walk.moved, ~walk.entered, NEW x \in (walk.seen \cup found) \cap all
        PROVE  Ahead(catalog, x, v) < done
    BY <1>2, <1>3, <2>5, <2>7
  <2>8. ASSUME ~walk.moved, ~walk.entered PROVE found \cap walk.seen = {}
    BY <1>2, <1>3, <2>5, <2>8
  <2>9. ~w.moved /\ ~w.left =>
          /\ w.start \subseteq all
          /\ \A x \in w.start \ w.seen : done <= Ahead(catalog, x, v)
    BY <2>2, <2>4, <2>6
  <2>10. ~w.moved /\ ~w.entered =>
          ~w.twice /\ \A x \in w.seen \cap all : Ahead(catalog, x, v) < done
    BY <2>2, <2>5, <2>7, <2>8
  <2>11. ~w.torn => total = Cardinality(all)
    BY <2>2
  <2> QED
    BY <1>5, <2>2, <2>9, <2>10, <2>11 DEF w
<1>8. CASE p # 1 /\ p # walk.pages + 1
  BY <1>8, NoWalkInv DEF Walked
<1> QED
  BY <1>6, <1>7, <1>8

(* Every step keeps the walk right.                                        *)
LEMMA WalkGoes ==
  ASSUME BrowseTypeOK, WalkGoesOn, [BrowseNext]_browseVars
  PROVE  WalkGoesOn'
<1>1. ASSUME NEW c \in Catalogs, Write(c) PROVE WalkGoesOn'
  <2>1. listing'.step = listing.step /\ listing'.view = listing.view /\ listing'.asked = listing.asked
    BY <1>1, BrowseTyped DEF Write, ListingRow
  <2>2. walk'.pages = walk.pages /\ walk'.view = walk.view
    BY <1>1, BrowseTyped DEF Write, WalkRow
  <2> QED
    BY <2>1, <2>2 DEF WalkGoesOn
<1>2. ASSUME NEW v \in View, NEW p \in Nat \ {0}, Ask(v, p) PROVE WalkGoesOn'
  <2>1. listing'.view = v /\ listing'.asked = p
    BY <1>2, NothingTyped DEF Ask, ListingRow
  <2>2. (walk' = walk /\ v = walk.view /\ p = walk.pages + 1) \/ walk'.pages = 0
    BY <1>2 DEF Ask, NoWalk
  <2> QED
    BY <2>1, <2>2 DEF WalkGoesOn
<1>3. ASSUME Load PROVE WalkGoesOn'
  <2>1. ASSUME NEW found \in SUBSET Rows(catalog, listing.view),
               ReadRows(found) \/ ReadAgain(found) \/ ReadHistory(found) \/ ReadTotal
               \/ ReadCards \/ ReadStock
        PROVE  listing'.step \notin {"ROWS", "COUNT"}
    BY <2>1, BrowseTyped DEF ReadRows, ReadAgain, ReadHistory, ReadTotal, ReadCards, ReadStock,
                             ListingRow
  <2>2. CASE ReadCount
    <3>1. CASE Stored(catalog[listing.view.card])
      <4>1. /\ walk' = walk /\ listing.step = "COUNT" /\ listing'.view = listing.view
            /\ listing'.asked = listing.asked
        BY <2>2, <3>1, BrowseTyped DEF ReadCount, ListingRow
      <4> QED
        BY <4>1 DEF WalkGoesOn
    <3>2. CASE ~Stored(catalog[listing.view.card])
      BY <2>2, <3>2 DEF ReadCount, NoWalk, WalkGoesOn
    <3> QED
      BY <3>1, <3>2
  <2> QED
    BY <1>3, <2>1, <2>2 DEF Load, WalkGoesOn
<1>4. ASSUME UNCHANGED browseVars PROVE WalkGoesOn'
  BY <1>4 DEF browseVars, WalkGoesOn
<1> QED
  BY <1>1, <1>2, <1>3, <1>4, ChangesAreWrites, AnswersAreAsked DEF BrowseNext

LEMMA WalkKept ==
  ASSUME BrowseTypeOK, WalkGoesOn, WalkInv, [BrowseNext]_browseVars
  PROVE  WalkInv'
<1>1. ASSUME NEW c \in Catalogs, Write(c) PROVE WalkInv'
  BY <1>1, WalkWritten
<1>2. ASSUME NEW v \in View, NEW p \in Nat \ {0}, Ask(v, p) PROVE WalkInv'
  BY <1>2, NoWalkInv, WalkAside DEF Ask
<1>3. ASSUME NEW found \in SUBSET Rows(catalog, listing.view), ReadRows(found) PROVE WalkInv'
  <2> DEFINE p == listing.asked
             total == IF found = {} THEN 0 ELSE Cardinality(Rows(catalog, listing.view))
  <2>1. p \in Nat \ {0} /\ total \in Nat /\ walk.pages \in Nat
    BY BrowseTyped, RowsFinite DEF ListingRow, WalkRow
  <2>2. p = walk.pages + 1 /\ p # 1 => walk.view = listing.view
    BY <1>3, <2>1 DEF ReadRows, WalkGoesOn
  <2>3. Numbered(found, p) /\ catalog' = catalog
    BY <1>3 DEF ReadRows
  <2>4. walk' = NoWalk \/ walk' = Walked(found, p, total)
    BY <1>3 DEF ReadRows
  <2> HIDE DEF p, total
  <2> QED
    BY <2>1, <2>2, <2>3, <2>4, NoWalkInv, WalkRead
<1>4. ASSUME NEW found \in SUBSET Rows(catalog, listing.view), ReadHistory(found) PROVE WalkInv'
  <2> DEFINE p == listing.page
             total == listing.total
  <2>1. p \in Nat \ {0} /\ total \in Nat /\ walk.pages \in Nat
    BY BrowseTyped DEF ListingRow, WalkRow
  <2>2. p = listing.asked /\ p = walk.pages + 1 /\ p # 1 => walk.view = listing.view
    BY <1>4, <2>1 DEF ReadHistory, WalkGoesOn
  <2>3. Numbered(found, p) /\ catalog' = catalog
    BY <1>4 DEF ReadHistory
  <2>4. walk' = NoWalk \/ (p = listing.asked /\ walk' = Walked(found, p, total))
    BY <1>4 DEF ReadHistory
  <2> HIDE DEF p, total
  <2> QED
    BY <2>1, <2>2, <2>3, <2>4, NoWalkInv, WalkRead
<1>5. CASE ReadCount
  BY <1>5, NoWalkInv, WalkAside DEF ReadCount
<1>6. ASSUME NEW found, ReadAgain(found) \/ ReadTotal \/ ReadCards \/ ReadStock PROVE WalkInv'
  <2>1. walk' = walk /\ catalog' = catalog
    BY <1>6 DEF ReadAgain, ReadTotal, ReadCards, ReadStock
  <2> QED
    BY <2>1, WalkAside
<1>7. CASE UNCHANGED browseVars
  BY <1>7, WalkAside DEF browseVars
<1>8. CASE Load
  BY <1>3, <1>4, <1>5, <1>6, <1>8 DEF Load
<1> QED
  BY <1>1, <1>2, <1>7, <1>8, ChangesAreWrites, AnswersAreAsked DEF BrowseNext

LEMMA TypesKept ==
  ASSUME BrowseTypeOK, [BrowseNext]_browseVars
  PROVE  BrowseTypeOK'
<1>1. CASE UNCHANGED browseVars
  BY <1>1 DEF browseVars, BrowseTypeOK
<1> QED
  BY <1>1, ChangesAreWrites, AnswersAreAsked, WriteTyped, AskTyped, LoadTyped DEF BrowseNext

LEMMA BrowseBegins ==
  ASSUME BrowseInit
  PROVE  BrowseTypeOK /\ WalkGoesOn /\ WalkInv /\ QuietInv
<1>1. BrowseTypeOK
  BY BrowseTyped, NothingTyped, BrowseAssumption DEF BrowseInit, Catalogs
<1>2. walk.pages = 0 /\ walk.ended = FALSE
  BY DEF BrowseInit, NoWalk
<1>3. listing.step = "IDLE"
  BY DEF BrowseInit, NoListing
<1>4. QuietInv
  BY <1>3 DEF QuietInv, StepsFit, ReadSoFar, Counted
<1> QED
  BY <1>1, <1>2, <1>3, <1>4 DEF WalkGoesOn, WalkInv, WalkSeesEach

(***************************************************************************)
(* The page.                                                               *)
(***************************************************************************)

(* A card says what the filters that selected its item asked for.          *)
LEMMA CardsSay ==
  ASSUME NEW row \in CardRow, NEW v \in AnyView, Passes(row, v)
  PROVE  SaysWhatWasAsked(v, Tells(row, row.held))
<1> DEFINE owned == Owned(row.held)
           told == Tells(row, row.held)
<1>1. /\ row.held["STORE"] \in Nat /\ row.held["FULFILLABLE"] \in Nat
      /\ owned = row.held["STORE"] + row.held["FULFILLABLE"] /\ owned \in Nat
      /\ row.target \in Nat
  BY HeldCounts DEF Owned
<1>2. told.badges = Badges(row, row.held) /\ told.wanted = Wanted(row, row.held)
  BY DEF Tells
<1>3. /\ "ARCHIVED" \in told.badges <=> row.status = "ARCHIVED"
      /\ "LIVE" \in told.badges <=> Live(row) /\ row.held["FULFILLABLE"] > 0
      /\ "OUT_OF_STOCK" \in told.badges <=> Live(row) /\ row.held["FULFILLABLE"] = 0
      /\ "IN_STOCK" \in told.badges <=> owned > 0
      /\ "WATCHING" \in told.badges <=> row.watch > 0
      /\ "CATALOG_ONLY" \in told.badges <=>
           row.status = "ACTIVE" /\ row.sale # "PUBLISHED" /\ owned = 0
  BY <1>2 DEF Badges, Badge
<1>4. v.below => told.wanted > 0
  BY <1>1, <1>2 DEF Wanted, Passes
<1>5. Stored(row) /\ (row.status = "ARCHIVED" \/ row.status = "ACTIVE")
  BY DEF Passes, Stored
<1>6. row.watch \in Nat /\ (v.watch = "enabled" \/ v.list = "WATCHLIST" => row.watch > 0)
  BY HeldCounts DEF Passes
<1> HIDE DEF told, owned
<1>7. told.badges # {}
  BY <1>1, <1>3, <1>5 DEF Live
<1>8. /\ v.archived = "only" => "ARCHIVED" \in told.badges
      /\ v.archived = "false" => "ARCHIVED" \notin told.badges
      /\ "ARCHIVED" \in told.badges => "LIVE" \notin told.badges
      /\ v.watch = "enabled" \/ v.list = "WATCHLIST" => "WATCHING" \in told.badges
  BY <1>3, <1>6 DEF Passes, Live
<1>9. StockFits(row.held, v.stock)
  BY DEF Passes
<1>10. /\ v.stock = "has" => "IN_STOCK" \in told.badges
       /\ v.stock = "none" => told.badges \cap {"IN_STOCK", "LIVE"} = {}
       /\ v.stock = "fulfillable" => "IN_STOCK" \in told.badges /\ "OUT_OF_STOCK" \notin told.badges
  BY <1>1, <1>3, <1>9 DEF StockFits, owned
<1>11. v.sale = "published" /\ v.archived = "false" =>
         told.badges \cap {"LIVE", "OUT_OF_STOCK"} # {} /\ "CATALOG_ONLY" \notin told.badges
  BY <1>1, <1>3 DEF Passes, Live
<1> QED
  BY <1>4, <1>7, <1>8, <1>10, <1>11 DEF SaysWhatWasAsked, told

LEMMA QuietWritten ==
  ASSUME BrowseTypeOK, QuietInv, NEW c \in Catalogs, Write(c)
  PROVE  QuietInv'
<1>1. /\ listing'.step = listing.step /\ listing'.view = listing.view
      /\ listing'.rows = listing.rows /\ listing'.quiet = FALSE
  BY BrowseTyped DEF Write, ListingRow
<1> QED
  BY <1>1 DEF QuietInv, StepsFit

LEMMA QuietAsked ==
  ASSUME BrowseTypeOK, NEW v \in View, NEW p \in Nat \ {0}, Ask(v, p)
  PROVE  QuietInv'
<1>1. /\ listing'.step = IF v.list = "HISTORY" THEN "COUNT" ELSE "ROWS"
      /\ listing'.view = v /\ listing'.rows = {}
  BY DEF Ask, NoListing
<1> QED
  BY <1>1 DEF QuietInv, StepsFit, ReadSoFar, Counted

(* The rows of a page that was counted right are the rows of its places.   *)
LEMMA NumberedFound ==
  ASSUME BrowseTypeOK, NEW p \in Nat \ {0}, NEW found, Numbered(found, p),
         NEW l, l.view = listing.view, l.page = p, l.rows = found
  PROVE  RowsFound(catalog, l)
<1> DEFINE all == Rows(catalog, listing.view)
           first == (p - 1) * PageSize
<1>1. /\ first \in Nat /\ found \in SUBSET all /\ PageSize \in Nat
      /\ \A x \in all : x \in found <=> /\ first <= Ahead(catalog, x, listing.view)
                                      /\ Ahead(catalog, x, listing.view) < first + PageSize
  BY PageIsPlaces, BrowseAssumption
<1>2. \A x \in all : Ahead(catalog, x, listing.view) \in Nat
  BY AheadTyped, BrowseTyped DEF ListingRow
<1>3. ASSUME NEW x \in all
      PROVE  x \in found <=> Ahead(catalog, x, listing.view) \in first..(first + PageSize - 1)
  BY <1>1, <1>2
<1>4. found = {x \in all : Ahead(catalog, x, listing.view) \in first..(first + PageSize - 1)}
  BY <1>1, <1>3
<1> QED
  BY <1>4 DEF RowsFound

LEMMA QuietRows ==
  ASSUME BrowseTypeOK, QuietInv, NEW found, ReadRows(found)
  PROVE  QuietInv'
<1> DEFINE v == listing.view
           n == Cardinality(Rows(catalog, v))
           p == listing.asked
           first == (p - 1) * PageSize
<1>1. /\ listing \in ListingRow /\ catalog \in Catalogs /\ v \in View /\ p \in Nat \ {0}
      /\ n \in Nat /\ catalog' = catalog /\ v.list # "HISTORY" /\ listing.rows = {}
  BY BrowseTyped, RowsFinite DEF ListingRow, ReadRows, QuietInv, StepsFit
<1>2. /\ Numbered(found, p) /\ first \in Nat
      /\ \A x \in found : first < n
      /\ found = {} => n <= first
  <2>1. Numbered(found, p)
    BY DEF ReadRows
  <2>2. /\ first \in Nat /\ found \in SUBSET Rows(catalog, v)
        /\ \A x \in found : first <= Ahead(catalog, x, v)
        /\ found = {} => n <= first
    BY <1>1, <2>1, PageIsPlaces
  <2>3. \A x \in found : Ahead(catalog, x, v) \in Nat /\ Ahead(catalog, x, v) < n
    BY <1>1, <2>2, AheadTyped
  <2> QED
    BY <1>1, <2>1, <2>2, <2>3
<1>3. CASE found = {} /\ p > 1
  <2>1. listing' = [listing EXCEPT !.step = "CLAMP"]
    BY <1>3 DEF ReadRows
  <2>2. /\ listing'.step = "CLAMP" /\ listing'.view = v /\ listing'.rows = {}
        /\ listing'.asked = p
    BY <1>1, <2>1 DEF ListingRow
  <2> QED
    BY <1>1, <1>2, <1>3, <2>2 DEF QuietInv, StepsFit, ReadSoFar, Counted
<1>4. CASE ~(found = {} /\ p > 1)
  <2> DEFINE total == IF found = {} THEN 0 ELSE n
  <2>1. listing' = [listing EXCEPT !.step = "CARDS", !.page = p, !.total = total, !.rows = found]
    BY <1>4 DEF ReadRows
  <2>2. found = {} => p = 1 /\ n = 0
    <3>1. ASSUME found = {} PROVE p = 1 /\ n = 0
      <4>1. p = 1
        BY <1>1, <1>4, <3>1
      <4>2. first = 0
        BY <4>1, BrowseAssumption
      <4> QED
        BY <1>1, <1>2, <3>1, <4>1, <4>2
    <3> QED
      BY <3>1
  <2>3. total = n /\ (p = 1 \/ first < total)
    BY <1>2, <2>2
  <2> HIDE DEF total
  <2>4. /\ listing'.step = "CARDS" /\ listing'.view = v /\ listing'.rows = found
        /\ listing'.asked = p /\ listing'.page = p /\ listing'.total = total
    BY <1>1, <2>1 DEF ListingRow
  <2>5. RowsFound(catalog, listing')
    BY <1>1, <1>2, <2>4, NumberedFound
  <2>6. PageFound(catalog, listing')
    BY <2>3, <2>4 DEF PageFound
  <2> QED
    BY <1>1, <2>4, <2>5, <2>6 DEF QuietInv, StepsFit, ReadSoFar
<1> QED
  BY <1>3, <1>4

LEMMA QuietTotal ==
  ASSUME BrowseTypeOK, QuietInv, ReadTotal
  PROVE  QuietInv'
<1> DEFINE v == listing.view
           n == Cardinality(Rows(catalog, v))
           q == PageCount(n)
<1>1. /\ listing \in ListingRow /\ catalog \in Catalogs /\ v \in View
      /\ listing.asked \in Nat \ {0}
      /\ n \in Nat /\ catalog' = catalog /\ v.list # "HISTORY" /\ listing.rows = {}
      /\ PageSize \in Nat \ {0}
  BY BrowseTyped, RowsFinite, BrowseAssumption DEF ListingRow, ReadTotal, QuietInv, StepsFit
<1>2. q \in Nat \ {0} /\ n <= q * PageSize /\ (q = 1 \/ (q - 1) * PageSize < n)
  BY <1>1, LastPage
<1>3. listing' = [listing EXCEPT !.step = IF n = 0 THEN "CARDS" ELSE "AGAIN",
                                 !.page = q, !.total = n]
  BY DEF ReadTotal
<1>4. CASE ~listing.quiet
  <2>1. /\ listing'.step \in {"CARDS", "AGAIN"} /\ listing'.view = v /\ ~listing'.quiet
    BY <1>1, <1>3, <1>4 DEF ListingRow
  <2> QED
    BY <1>1, <2>1 DEF QuietInv, StepsFit
<1>5. CASE listing.quiet
  <2>1. listing.asked > 1 /\ n <= (listing.asked - 1) * PageSize
    BY <1>5 DEF QuietInv, ReadSoFar, ReadTotal
  <2> HIDE DEF q
  <2>2. /\ listing'.step = IF n = 0 THEN "CARDS" ELSE "AGAIN"
        /\ listing'.view = v /\ listing'.rows = {} /\ listing'.asked = listing.asked
        /\ listing'.page = q /\ listing'.total = n
    BY <1>1, <1>3 DEF ListingRow
  <2>3. q * PageSize = (q - 1) * PageSize + PageSize
    <3>1. q - 1 \in Nat /\ q = (q - 1) + 1
      BY <1>2
    <3> QED
      BY <1>1, <3>1, TimesNext
  <2>4. q < listing.asked
    <3>1. ASSUME ~(q < listing.asked) PROVE FALSE
      <4>1. /\ listing.asked - 1 \in Nat /\ q - 1 \in Nat /\ listing.asked - 1 <= q - 1
            /\ PageSize \in Nat
        BY <1>1, <1>2, <3>1
      <4>2. /\ (listing.asked - 1) * PageSize \in Nat /\ (q - 1) * PageSize \in Nat
            /\ (listing.asked - 1) * PageSize <= (q - 1) * PageSize
        BY <4>1, TimesMonotone
      <4>3. q # 1
        BY <1>1, <2>1, <3>1
      <4> QED
        BY <1>1, <1>2, <2>1, <4>2, <4>3
    <3> QED
      BY <3>1
  <2>5. PageFound(catalog, listing')
    BY <1>1, <1>2, <2>2, <2>3, <2>4 DEF PageFound
  <2>6. CASE n = 0
    <3>1. Rows(catalog, v) = {}
      BY <1>1, <2>6, RowsFinite, FS_EmptySet
    <3>2. RowsFound(catalog, listing')
      BY <2>2, <3>1 DEF RowsFound
    <3> QED
      BY <1>1, <2>2, <2>5, <2>6, <3>2 DEF QuietInv, StepsFit, ReadSoFar
  <2>7. CASE n # 0
    BY <1>1, <2>2, <2>5, <2>7 DEF QuietInv, StepsFit, ReadSoFar
  <2> QED
    BY <2>6, <2>7
<1> QED
  BY <1>4, <1>5

LEMMA QuietAgain ==
  ASSUME BrowseTypeOK, QuietInv, NEW found, ReadAgain(found)
  PROVE  QuietInv'
<1> DEFINE v == listing.view
           n == Cardinality(Rows(catalog, v))
           total == IF found = {} THEN listing.total ELSE n
<1>1. /\ listing \in ListingRow /\ catalog' = catalog /\ v.list # "HISTORY"
      /\ listing.page \in Nat \ {0} /\ Numbered(found, listing.page)
  BY BrowseTyped DEF ListingRow, ReadAgain, QuietInv, StepsFit
<1>2. listing' = [listing EXCEPT !.step = "CARDS", !.total = total, !.rows = found]
  BY DEF ReadAgain
<1> HIDE DEF total
<1>3. /\ listing'.step = "CARDS" /\ listing'.view = v /\ listing'.rows = found
      /\ listing'.asked = listing.asked /\ listing'.page = listing.page
      /\ listing'.total = total /\ listing'.quiet = listing.quiet
  BY <1>1, <1>2 DEF ListingRow
<1>4. ASSUME listing.quiet PROVE ReadSoFar(catalog, listing')
  <2>1. PageFound(catalog, listing)
    BY <1>4 DEF QuietInv, ReadSoFar, Counted, ReadAgain
  <2>2. total = listing.total
    BY <2>1 DEF total, PageFound
  <2>3. PageFound(catalog, listing')
    BY <1>3, <2>1, <2>2 DEF PageFound
  <2>4. RowsFound(catalog, listing')
    BY <1>1, <1>3, NumberedFound
  <2> QED
    BY <1>3, <2>3, <2>4 DEF ReadSoFar
<1> QED
  BY <1>1, <1>3, <1>4 DEF QuietInv, StepsFit

LEMMA QuietCount ==
  ASSUME BrowseTypeOK, QuietInv, ReadCount
  PROVE  QuietInv'
<1> DEFINE v == listing.view
           n == Cardinality(Rows(catalog, v))
           q == PageCount(n)
           p == IF listing.asked <= q THEN listing.asked ELSE q
<1>1. /\ listing \in ListingRow /\ catalog \in Catalogs /\ v \in View
      /\ listing.asked \in Nat \ {0} /\ PageSize \in Nat \ {0}
      /\ n \in Nat /\ catalog' = catalog /\ v.list = "HISTORY" /\ listing.rows = {}
  BY BrowseTyped, RowsFinite, BrowseAssumption DEF ListingRow, ReadCount, QuietInv, StepsFit
<1>2. CASE ~Stored(catalog[listing.view.card])
  <2>1. listing'.step = "IDLE"
    BY <1>2 DEF ReadCount, NoListing
  <2> QED
    BY <2>1 DEF QuietInv, StepsFit, ReadSoFar, Counted
<1>3. CASE Stored(catalog[listing.view.card])
  <2>1. q \in Nat \ {0} /\ n <= q * PageSize /\ (q = 1 \/ (q - 1) * PageSize < n)
    BY <1>1, LastPage
  <2>2. listing' = [listing EXCEPT !.step = "ROWS", !.total = n, !.page = p]
    BY <1>3 DEF ReadCount
  <2> HIDE DEF p, q
  <2>3. /\ listing'.step = "ROWS" /\ listing'.view = v /\ listing'.rows = {}
        /\ listing'.asked = listing.asked /\ listing'.page = p /\ listing'.total = n
    BY <1>1, <2>2 DEF ListingRow
  <2>4. p \in Nat \ {0} /\ p <= q /\ p <= listing.asked /\ (p = listing.asked \/ p = q)
    BY <1>1, <2>1 DEF p
  <2>5. /\ (p - 1) * PageSize \in Nat /\ (q - 1) * PageSize \in Nat
        /\ (p - 1) * PageSize <= (q - 1) * PageSize
        /\ p * PageSize = (p - 1) * PageSize + PageSize
    <3>1. p - 1 \in Nat /\ q - 1 \in Nat /\ p - 1 <= q - 1 /\ p = (p - 1) + 1 /\ PageSize \in Nat
      BY <1>1, <2>1, <2>4
    <3>2. (p - 1) * PageSize \in Nat /\ (q - 1) * PageSize \in Nat
          /\ (p - 1) * PageSize <= (q - 1) * PageSize
      BY <3>1, TimesMonotone
    <3>3. p * PageSize = (p - 1) * PageSize + PageSize
      BY <3>1, TimesNext
    <3> QED
      BY <3>2, <3>3
  <2>6. p = 1 \/ (p - 1) * PageSize < n
    BY <1>1, <2>1, <2>4, <2>5
  <2>7. p = listing.asked \/ (p < listing.asked /\ n <= (p - 1) * PageSize + PageSize)
    BY <1>1, <2>1, <2>4, <2>5
  <2>8. PageFound(catalog, listing')
    BY <2>3, <2>6, <2>7 DEF PageFound
  <2> QED
    BY <1>1, <2>3, <2>8 DEF QuietInv, StepsFit, ReadSoFar
<1> QED
  BY <1>2, <1>3

LEMMA QuietHistory ==
  ASSUME BrowseTypeOK, QuietInv, NEW found, ReadHistory(found)
  PROVE  QuietInv'
<1>1. /\ listing \in ListingRow /\ catalog' = catalog /\ listing.view.list = "HISTORY"
      /\ listing.page \in Nat \ {0} /\ Numbered(found, listing.page)
      /\ listing' = [listing EXCEPT !.step = "SHOWN", !.rows = found]
  BY BrowseTyped DEF ListingRow, ReadHistory
<1>2. /\ listing'.step = "SHOWN" /\ listing'.view = listing.view /\ listing'.rows = found
      /\ listing'.asked = listing.asked /\ listing'.page = listing.page
      /\ listing'.total = listing.total /\ listing'.quiet = listing.quiet
  BY <1>1 DEF ListingRow
<1>3. ASSUME listing.quiet PROVE ReadSoFar(catalog, listing')
  <2>1. PageFound(catalog, listing)
    BY <1>3 DEF QuietInv, ReadSoFar, Counted, ReadHistory
  <2>2. PageFound(catalog, listing')
    BY <1>2, <2>1 DEF PageFound
  <2>3. RowsFound(catalog, listing')
    BY <1>1, <1>2, NumberedFound
  <2> QED
    BY <1>1, <1>2, <2>2, <2>3 DEF ReadSoFar
<1> QED
  BY <1>1, <1>2, <1>3 DEF QuietInv, StepsFit

LEMMA QuietCards ==
  ASSUME BrowseTypeOK, QuietInv, ReadCards
  PROVE  QuietInv'
<1> DEFINE read == [i \in Card |-> IF i \in listing.rows THEN catalog[i] ELSE NoCard]
<1>1. /\ listing \in ListingRow /\ catalog \in Catalogs /\ catalog' = catalog
      /\ listing.view.list # "HISTORY" /\ listing.view \in View
      /\ listing' = [listing EXCEPT !.step = "STOCK", !.cards = read]
  BY BrowseTyped DEF ListingRow, ReadCards, QuietInv, StepsFit
<1>2. ASSUME NEW i \in Card, i \in listing.rows PROVE read[i] = catalog[i]
  BY <1>2
<1> HIDE DEF read
<1>3. /\ listing'.step = "STOCK" /\ listing'.view = listing.view /\ listing'.rows = listing.rows
      /\ listing'.asked = listing.asked /\ listing'.page = listing.page
      /\ listing'.total = listing.total /\ listing'.quiet = listing.quiet
      /\ listing'.cards = read
  BY <1>1 DEF ListingRow
<1>4. ASSUME listing.quiet PROVE ReadSoFar(catalog, listing')
  <2>1. PageFound(catalog, listing) /\ RowsFound(catalog, listing)
    BY <1>4 DEF QuietInv, ReadSoFar, Counted, ReadCards
  <2>2. PageFound(catalog, listing') /\ RowsFound(catalog, listing')
    BY <1>3, <2>1 DEF PageFound, RowsFound
  <2>3. listing.rows \subseteq Card
    BY <1>1, <2>1, RowsFinite DEF RowsFound
  <2> QED
    BY <1>2, <1>3, <2>2, <2>3 DEF ReadSoFar
<1> QED
  BY <1>1, <1>3, <1>4 DEF QuietInv, StepsFit

LEMMA QuietStock ==
  ASSUME BrowseTypeOK, QuietInv, ReadStock
  PROVE  QuietInv'
<1> DEFINE told == [i \in Card |-> IF Stored(listing.cards[i])
                                  THEN Tells(listing.cards[i], catalog[i].held)
                                  ELSE NothingTold]
           none == NoListing.cards
<1>1. /\ listing \in ListingRow /\ catalog \in Catalogs /\ catalog' = catalog
      /\ listing.view.list # "HISTORY" /\ listing.view \in View /\ listing.view \in AnyView
      /\ listing' = [listing EXCEPT !.step = "SHOWN", !.cards = none, !.shown = told,
                                    !.options = Options(listing.view)]
  BY BrowseTyped, BrowseAssumption DEF ListingRow, ReadStock, QuietInv, StepsFit
<1>2. ASSUME NEW i \in Card, listing.cards[i] = catalog[i], Passes(catalog[i], listing.view)
      PROVE  SaysWhatWasAsked(listing.view, told[i])
  <2>1. told[i] = Tells(catalog[i], catalog[i].held)
    BY <1>2 DEF Passes
  <2>2. catalog[i] \in CardRow
    BY <1>1 DEF Catalogs
  <2> HIDE DEF told
  <2> QED
    BY <1>1, <1>2, <2>1, <2>2, CardsSay
<1> HIDE DEF told, none
<1>3. /\ listing'.step = "SHOWN" /\ listing'.view = listing.view /\ listing'.rows = listing.rows
      /\ listing'.asked = listing.asked /\ listing'.page = listing.page
      /\ listing'.total = listing.total /\ listing'.quiet = listing.quiet
      /\ listing'.shown = told /\ listing'.options = Options(listing.view)
  BY <1>1 DEF ListingRow
<1>4. ASSUME listing.quiet PROVE ReadSoFar(catalog, listing')
  <2>1. /\ PageFound(catalog, listing) /\ RowsFound(catalog, listing)
        /\ \A i \in listing.rows : listing.cards[i] = catalog[i]
    BY <1>4 DEF QuietInv, ReadSoFar, Counted, ReadStock
  <2>2. PageFound(catalog, listing') /\ RowsFound(catalog, listing')
    BY <1>3, <2>1 DEF PageFound, RowsFound
  <2>3. \A i \in listing.rows : i \in Card /\ Passes(catalog[i], listing.view)
    BY <1>1, <2>1 DEF RowsFound, Rows
  <2>4. listing.view.lineup \in Options(listing.view) \cup {NoLineup}
    BY <1>1 DEF Options, AnyView
  <2>5. Described(listing')
    BY <1>2, <1>3, <2>1, <2>3, <2>4 DEF Described
  <2> QED
    BY <1>3, <2>2, <2>5 DEF ReadSoFar
<1> QED
  BY <1>1, <1>3, <1>4 DEF QuietInv, StepsFit

LEMMA QuietKept ==
  ASSUME BrowseTypeOK, QuietInv, [BrowseNext]_browseVars
  PROVE  QuietInv'
<1>1. CASE UNCHANGED browseVars
  BY <1>1 DEF browseVars, QuietInv
<1>2. CASE Load
  BY <1>2, QuietRows, QuietTotal, QuietAgain, QuietCount, QuietHistory, QuietCards, QuietStock
     DEF Load
<1> QED
  BY <1>1, <1>2, ChangesAreWrites, AnswersAreAsked, QuietWritten, QuietAsked DEF BrowseNext

(***************************************************************************)
(* Theorems of the lists.                                                  *)
(***************************************************************************)

(* The lists stay well formed, whatever staff read and change.             *)
THEOREM BrowseTypes == BrowseSpec => []BrowseTypeOK
<1>1. BrowseInit => BrowseTypeOK
  BY BrowseBegins
<1>2. BrowseTypeOK /\ [BrowseNext]_browseVars => BrowseTypeOK'
  BY TypesKept
<1> QED
  BY <1>1, <1>2, PTL DEF BrowseSpec

(* Following Next through any number of pages misses no row that stayed,   *)
(* and shows none twice unless one was added before it.                    *)
THEOREM WalkMissesNone == BrowseSpec => []WalkSeesEach
<1>1. BrowseInit => WalkGoesOn /\ WalkInv
  BY BrowseBegins
<1>2. BrowseTypeOK /\ WalkGoesOn /\ WalkInv /\ [BrowseNext]_browseVars => (WalkGoesOn /\ WalkInv)'
  BY WalkGoes, WalkKept
<1>3. WalkInv => WalkSeesEach
  BY DEF WalkInv
<1> QED
  BY <1>1, <1>2, <1>3, BrowseTypes, PTL DEF BrowseSpec

(* A page that was read while nothing changed is exactly the page asked    *)
(* for, and each card says what the filters asked.                         *)
THEOREM PagesExact == BrowseSpec => []PageIsExact
<1>1. BrowseInit => QuietInv
  BY BrowseBegins
<1>2. BrowseTypeOK /\ QuietInv /\ [BrowseNext]_browseVars => QuietInv'
  BY QuietKept
<1>3. QuietInv => PageIsExact
  BY DEF QuietInv, ReadSoFar, Counted, PageFound, RowsFound, Described, PageIsExact
<1> QED
  BY <1>1, <1>2, <1>3, BrowseTypes, PTL DEF BrowseSpec
==============================================================================
