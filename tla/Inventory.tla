------------------------------ MODULE Inventory ------------------------------
(***************************************************************************)
(* Physical stock, the movement ledger and the reservations made on stock. *)
(*                                                                         *)
(* One row of inventory_balances per item and location, one append-only    *)
(* row of inventory_movements per operation key, one row of                *)
(* inventory_reservations per holder, item and location.  A holder is      *)
(* whatever a reservation is made for: an order of the shop, a prize pool. *)
(*                                                                         *)
(* Every operation of the code is one PostgreSQL transaction that locks    *)
(* the merchandise rows it touches (lockInventoryItems), so that a         *)
(* transaction is one action here.  The actions on reservations state what *)
(* the database guards allow (protect_reservation_stock,                   *)
(* protect_reserved_balance, validate_consumed_reservation): the modules   *)
(* of the application are shown to stay within them.                       *)
(***************************************************************************)
EXTENDS Integers, FiniteSets

CONSTANTS
  Item,         \* merchandise items
  Location,     \* storage locations; numbers, for the order of their ids
  NoLocation,   \* the null source or destination of a movement
  Holder,       \* what reservations are made for
  Key,          \* operation keys submitted with inventory operations
  Quantity,     \* quantities submitted with inventory operations
  MaxStock,     \* the largest integer of the quantity columns
  MaxTime       \* bound of the model on the clock

ASSUME InventoryAssumption ==
  /\ IsFiniteSet(Item) /\ IsFiniteSet(Location) /\ IsFiniteSet(Holder)
  /\ Location \subseteq Nat
  /\ NoLocation \notin Location
  /\ Key \cap (Holder \X Item \X Location) = {}
  /\ MaxStock \in Nat \ {0}
  /\ Quantity \subseteq 1..MaxStock
  /\ MaxTime \in Nat

VARIABLES
  now,          \* clock_timestamp() of the database
  balance,      \* inventory_balances: quantity by item and location
  movement,     \* inventory_movements: the ledger
  reservation,  \* inventory_reservations by holder, item and location
  receiving     \* locations whose whole path to the root is active

inventoryVars == <<now, balance, movement, reservation, receiving>>

Slot == Item \X Location
Allocation == Holder \X Item \X Location
ReservationStatus == {"NONE", "HELD", "CONFIRMED", "RELEASED", "CONSUMED"}

(* A reservation row that was never inserted.                              *)
NoReservation == [status |-> "NONE", quantity |-> 0, expiresAt |-> 0]

Reservation ==
  [status : ReservationStatus, quantity : 0..MaxStock, expiresAt : Nat]

(* The source and destination of a movement: incoming, outgoing, transfer. *)
Route ==
  {r \in (Location \cup {NoLocation}) \X (Location \cup {NoLocation}) : r[1] # r[2]}

(* The operations the forms can submit, after their schema.                *)
Operation ==
  [key : Key, item : Item, route : Route, quantity : Quantity]

(* The movement an allocation leaves through: its key is the allocation's. *)
Sale(a) ==
  [key |-> a, item |-> a[2], route |-> <<a[3], NoLocation>>,
   quantity |-> reservation[a].quantity]

Movement ==
  [key : Key \cup Allocation, item : Item, route : Route, quantity : 1..MaxStock]

InventoryTypeOK ==
  /\ now \in Nat
  /\ balance \in [Slot -> 0..MaxStock]
  /\ movement \subseteq Movement
  /\ reservation \in [Allocation -> Reservation]
  /\ receiving \subseteq Location
------------------------------------------------------------------------------
(***************************************************************************)
(* Quantities are counted unit by unit: the sums of the SQL are the        *)
(* cardinalities of sets of units.                                         *)
(***************************************************************************)

(* Confirmed reservations do not lapse, holds lapse with the clock.        *)
Active(r) == r.status = "CONFIRMED" \/ (r.status = "HELD" /\ r.expiresAt > now)

ReservedUnits(holders, i, l) ==
  {u \in holders \X (1..MaxStock) :
     Active(reservation[<<u[1], i, l>>]) /\ u[2] <= reservation[<<u[1], i, l>>].quantity}

ReservedAt(i, l) == Cardinality(ReservedUnits(Holder, i, l))

(* What reservedAt returns once h's own row has stopped counting.          *)
OthersReservedAt(h, i, l) == Cardinality(ReservedUnits(Holder \ {h}, i, l))

FreeAt(i, l) == balance[<<i, l>>] - ReservedAt(i, l)

UnitsIn(i, l) ==
  {u \in movement \X (1..MaxStock) :
     u[1].item = i /\ u[1].route[2] = l /\ u[2] <= u[1].quantity}

UnitsOut(i, l) ==
  {u \in movement \X (1..MaxStock) :
     u[1].item = i /\ u[1].route[1] = l /\ u[2] <= u[1].quantity}

(* Mutant of Change: the source of a transfer is left as it was.           *)
ChangeOneSided(i, l, m) ==
  IF m.item # i THEN 0
  ELSE IF m.route[2] = l THEN m.quantity
  ELSE IF m.route = <<l, NoLocation>> THEN -m.quantity ELSE 0

(* What a movement does to the balance of a slot.                          *)
Change(i, l, m) ==
  IF m.item # i THEN 0
  ELSE IF m.route[2] = l THEN m.quantity
  ELSE IF m.route[1] = l THEN -m.quantity ELSE 0

(* Mutant of Replayed: a reused key is noticed only with the same content. *)
ReplayedExactly(op) == op \in movement

(* The key of the operation is already in the ledger.                      *)
Replayed(op) == \E m \in movement : m.key = op.key

(* Mutants of Released: rows of every holder, paid rows kept.              *)
ReleasedForAll(h) ==
  [a \in Allocation |->
     IF reservation[a].status \in {"HELD", "CONFIRMED"}
     THEN [reservation[a] EXCEPT !.status = "RELEASED"]
     ELSE reservation[a]]

ReleasedHeld(h) ==
  [a \in Allocation |->
     IF a[1] = h /\ reservation[a].status = "HELD"
     THEN [reservation[a] EXCEPT !.status = "RELEASED"]
     ELSE reservation[a]]

(* The reservations once h gives up what it still holds: a released row is *)
(* never counted again; its quantity stays on record.                      *)
Released(h) ==
  [a \in Allocation |->
     IF a[1] = h /\ reservation[a].status \in {"HELD", "CONFIRMED"}
     THEN [reservation[a] EXCEPT !.status = "RELEASED"]
     ELSE reservation[a]]

(* The reservations once the holds of h are paid for.                      *)
Confirmed(h) ==
  [a \in Allocation |->
     IF a[1] = h /\ reservation[a].status = "HELD"
     THEN [status |-> "CONFIRMED", quantity |-> reservation[a].quantity, expiresAt |-> 0]
     ELSE reservation[a]]

(* What h may take away.                                                   *)
Outgoing(h) == {a \in Allocation : a[1] = h /\ reservation[a].status = "CONFIRMED"}
------------------------------------------------------------------------------
InventoryInit ==
  /\ now = 0
  /\ balance = [s \in Slot |-> 0]
  /\ movement = {}
  /\ reservation = [a \in Allocation |-> NoReservation]
  /\ receiving = Location

(* applyInventoryOperation.  A key that is already in the ledger is        *)
(* replayed or refused: either way nothing changes.                        *)
ApplyInventoryOperation(op) ==
  LET source == op.route[1]
      destination == op.route[2]
  IN /\ ~Replayed(op)
     /\ destination \in Location =>
          /\ destination \in receiving
          /\ balance[<<op.item, destination>>] + op.quantity <= MaxStock
     /\ source \in Location =>
          balance[<<op.item, source>>] >= op.quantity + ReservedAt(op.item, source)
     /\ balance' = [s \in Slot |-> balance[s] + Change(s[1], s[2], op)]
     /\ movement' = movement \cup {op}
     /\ UNCHANGED <<now, reservation, receiving>>

(* Editing, moving, closing or reopening a location or one of its          *)
(* ancestors changes which locations may receive stock.                    *)
EditLocations ==
  /\ receiving' \in SUBSET Location
  /\ UNCHANGED <<now, balance, movement, reservation>>

Tick ==
  /\ now < MaxTime
  /\ now' = now + 1
  /\ UNCHANGED <<balance, movement, reservation, receiving>>

(* Insert of reservation rows: the guard refuses a row that, with the      *)
(* active rows of the slot, exceeds the physical balance.                  *)
Hold(h) ==
  \E take \in [Slot -> 0..MaxStock], expiresAt \in now+1..MaxTime+1,
     status \in {"HELD", "CONFIRMED"} :
    /\ \A s \in Slot : take[s] > 0 =>
         /\ reservation[<<h, s[1], s[2]>>].status = "NONE"
         /\ take[s] <= FreeAt(s[1], s[2])
    /\ reservation' = [a \in Allocation |->
         IF a[1] = h /\ take[<<a[2], a[3]>>] > 0
         THEN [status |-> status, quantity |-> take[<<a[2], a[3]>>],
               expiresAt |-> IF status = "HELD" THEN expiresAt ELSE 0]
         ELSE reservation[a]]
    /\ UNCHANGED <<now, balance, movement, receiving>>

(* The payment of a holder: its holds become permanent if stock backs them. *)
Confirm(h) ==
  /\ \A s \in Slot : reservation[<<h, s[1], s[2]>>].status = "HELD" =>
       reservation[<<h, s[1], s[2]>>].quantity + OthersReservedAt(h, s[1], s[2])
         <= balance[s]
  /\ reservation' = Confirmed(h)
  /\ UNCHANGED <<now, balance, movement, receiving>>

Release(h) ==
  /\ reservation' = Released(h)
  /\ UNCHANGED <<now, balance, movement, receiving>>

(* Confirmed rows leave the building, each with its own SALE movement.     *)
Consume(h) ==
  LET out == Outgoing(h)
  IN /\ \A a \in out :
          /\ \A m \in movement : m.key # a
          /\ balance[<<a[2], a[3]>>]
               >= reservation[a].quantity + OthersReservedAt(h, a[2], a[3])
     /\ reservation' = [a \in Allocation |->
          IF a \in out THEN [reservation[a] EXCEPT !.status = "CONSUMED"]
          ELSE reservation[a]]
     /\ balance' = [s \in Slot |->
          IF <<h, s[1], s[2]>> \in out
          THEN balance[s] - reservation[<<h, s[1], s[2]>>].quantity ELSE balance[s]]
     /\ movement' = movement \cup {Sale(a) : a \in out}
     /\ UNCHANGED <<now, receiving>>

InventoryNext ==
  \/ \E op \in Operation : ApplyInventoryOperation(op)
  \/ EditLocations
  \/ Tick
  \/ \E h \in Holder : Hold(h) \/ Confirm(h) \/ Release(h) \/ Consume(h)

InventorySpec == InventoryInit /\ [][InventoryNext]_inventoryVars
------------------------------------------------------------------------------
(***************************************************************************)
(* Properties.                                                             *)
(***************************************************************************)

(* No unit is promised twice: at every location the active reservations    *)
(* never exceed the physical stock, whatever is moved, damaged, shipped or *)
(* left to lapse in between (reservedAt, the reservation guards).          *)
StockBacked == \A i \in Item, l \in Location : ReservedAt(i, l) <= balance[<<i, l>>]

(* The balance of a location is what the ledger says went in less what     *)
(* went out: reconcileInventory finds no discrepancy.                      *)
LedgerReconciles ==
  \A i \in Item, l \in Location :
    balance[<<i, l>>] + Cardinality(UnitsOut(i, l)) = Cardinality(UnitsIn(i, l))

(* Retried and concurrent submissions of one operation key move stock      *)
(* once: the ledger has at most one movement per key.                      *)
OneMovementPerKey == \A m, n \in movement : m.key = n.key => m = n

(* An allocation is consumed exactly when the ledger has its sale, for the *)
(* same item, location and quantity (validate_consumed_reservation).       *)
ConsumedIsSold ==
  \A a \in Allocation :
    reservation[a].status = "CONSUMED" <=> Sale(a) \in movement

(* The ledger is append-only and a reservation row never changes quantity, *)
(* is never revived once released and never restored once consumed.        *)
HistoryKept ==
  [][/\ movement \subseteq movement'
     /\ \A a \in Allocation : reservation[a].status # "NONE" =>
          /\ reservation'[a].quantity = reservation[a].quantity
          /\ reservation[a].status \in {"RELEASED", "CONSUMED"}
               => reservation'[a] = reservation[a]]_inventoryVars
==============================================================================
