--------------------------- MODULE InventoryProofs ---------------------------
(***************************************************************************)
(* Proofs about module Inventory, for any number of items, locations,      *)
(* holders and operation keys.                                             *)
(***************************************************************************)
EXTENDS Inventory, FiniteSetTheorems, WellFoundedInduction, TLAPS

(* A reservation row that exists reserves something: a sale moves at least *)
(* one unit.                                                               *)
RowsReserve == \A a \in Allocation : reservation[a].status # "NONE" =>
                                        reservation[a].quantity > 0

TypeInv == InventoryTypeOK /\ RowsReserve
------------------------------------------------------------------------------
(***************************************************************************)
(* Numbers.                                                                *)
(***************************************************************************)

(* A set of numbers has a least element.                                   *)
LEMMA LeastNat ==
  ASSUME NEW T, T \subseteq Nat, T # {}
  PROVE  \E n \in T : \A m \in T : n <= m
<1>1. \E n \in T : \A m \in T : <<m, n>> \notin OpToRel(<, Nat)
  BY NatLessThanWellFounded, WFMin
<1>2. PICK n \in T : \A m \in T : <<m, n>> \notin OpToRel(<, Nat)
  BY <1>1
<1>3. ASSUME NEW m \in T PROVE n <= m
  <2>1. m \in Nat /\ n \in Nat
    OBVIOUS
  <2>2. ~(m < n)
    BY <1>2, <2>1 DEF OpToRel
  <2> QED
    BY <2>1, <2>2
<1> QED
  BY <1>3

(* A finite set of numbers has an upper bound.                             *)
LEMMA FiniteIsBounded ==
  ASSUME NEW L, L \subseteq Nat, IsFiniteSet(L)
  PROVE  \E n \in Nat : \A l \in L : l < n
<1> DEFINE Unbounded(S) == /\ S \subseteq Nat /\ IsFiniteSet(S)
                           /\ \A n \in Nat : \E l \in S : ~(l < n)
           Sizes == {n \in Nat : \E S \in SUBSET Nat : Unbounded(S) /\ Cardinality(S) = n}
<1> SUFFICES ASSUME Unbounded(L) PROVE FALSE
  OBVIOUS
<1>1. Cardinality(L) \in Sizes
  BY FS_CardinalityType
<1>2. PICK n \in Sizes : \A m \in Sizes : n <= m
  BY <1>1, LeastNat
<1>3. PICK S \in SUBSET Nat : Unbounded(S) /\ Cardinality(S) = n
  OBVIOUS
<1>4. PICK x \in S : TRUE
  BY <1>3
<1>5. IsFiniteSet(S \ {x}) /\ Cardinality(S \ {x}) = n - 1 /\ n \in Nat
  BY <1>3, <1>4, FS_RemoveElement
<1>6. ~Unbounded(S \ {x})
  <2> DEFINE R == S \ {x}
  <2> SUFFICES ASSUME Unbounded(R) PROVE FALSE
    OBVIOUS
  <2>1. R \in SUBSET Nat /\ Cardinality(R) = n - 1
    BY <1>5
  <2>2. n - 1 \in Nat
    BY <1>5, <2>1, FS_CardinalityType
  <2> HIDE DEF R, Unbounded
  <2>3. n - 1 \in Sizes
    BY <2>1, <2>2
  <2> QED
    BY <1>2, <1>5, <2>3
<1>7. PICK b \in Nat : \A l \in S \ {x} : l < b
  <2>1. S \ {x} \subseteq Nat
    OBVIOUS
  <2>2. ~(\A k \in Nat : \E l \in S \ {x} : ~(l < k))
    BY <1>5, <1>6, <2>1
  <2> QED
    BY <2>2
<1>8. x \in Nat /\ \A l \in S : l \in Nat
  BY <1>3, <1>4
<1> DEFINE c == IF x < b THEN b ELSE x + 1
<1>9. c \in Nat /\ \A l \in S : l < c
  BY <1>7, <1>8
<1> QED
  BY <1>3, <1>9
------------------------------------------------------------------------------
(***************************************************************************)
(* Sets of units.                                                          *)
(***************************************************************************)

(* Units of finitely many holders are finitely many.                       *)
LEMMA UnitsAreFinite ==
  ASSUME NEW S \in SUBSET (Holder \X (1..MaxStock))
  PROVE  IsFiniteSet(S) /\ Cardinality(S) \in Nat
<1>1. IsFiniteSet(1..MaxStock)
  BY FS_Interval, InventoryAssumption
<1>2. IsFiniteSet(Holder \X (1..MaxStock))
  BY <1>1, FS_Product, InventoryAssumption
<1>3. IsFiniteSet(S)
  BY <1>2, FS_Subset
<1> QED
  BY <1>3, FS_CardinalityType

(* What is reserved is a number.                                           *)
LEMMA ReservedAtIsNat ==
  ASSUME NEW i, NEW l, NEW h
  PROVE  ReservedAt(i, l) \in Nat /\ OthersReservedAt(h, i, l) \in Nat
<1>1. ReservedUnits(Holder, i, l) \in SUBSET (Holder \X (1..MaxStock))
  BY DEF ReservedUnits
<1>2. ReservedUnits(Holder \ {h}, i, l) \in SUBSET (Holder \X (1..MaxStock))
  BY DEF ReservedUnits
<1> QED
  BY <1>1, <1>2, UnitsAreFinite DEF ReservedAt, OthersReservedAt
------------------------------------------------------------------------------
(***************************************************************************)
(* Types.                                                                  *)
(***************************************************************************)

(* A movement within the limits of its route keeps balances in range.      *)
LEMMA TypeInvApply ==
  ASSUME TypeInv, NEW op \in Operation, ApplyInventoryOperation(op)
  PROVE  TypeInv'
<1>1. op \in Movement
  BY InventoryAssumption DEF Operation, Movement
<1>2. movement' \subseteq Movement
  BY <1>1 DEF TypeInv, InventoryTypeOK, ApplyInventoryOperation
<1>3. ASSUME NEW s \in Slot
      PROVE  balance[s] + Change(s[1], s[2], op) \in 0..MaxStock
  <2>1. s = <<s[1], s[2]>> /\ s[1] \in Item /\ s[2] \in Location
    BY DEF Slot
  <2>2. balance[s] \in 0..MaxStock /\ op.quantity \in 1..MaxStock /\ MaxStock \in Nat
    BY <1>1, InventoryAssumption DEF TypeInv, InventoryTypeOK, Movement
  <2>3. CASE op.item # s[1]
    BY <2>2, <2>3 DEF Change
  <2>4. CASE op.item = s[1] /\ op.route[2] = s[2]
    <3>1. balance[<<op.item, op.route[2]>>] + op.quantity <= MaxStock
      BY <2>1, <2>4 DEF ApplyInventoryOperation
    <3> QED
      BY <2>1, <2>2, <2>4, <3>1 DEF Change
  <2>5. CASE op.item = s[1] /\ op.route[2] # s[2] /\ op.route[1] = s[2]
    <3>1. balance[<<op.item, op.route[1]>>] >= op.quantity + ReservedAt(op.item, op.route[1])
      BY <2>1, <2>5 DEF ApplyInventoryOperation
    <3>2. ReservedAt(op.item, op.route[1]) \in Nat
      BY ReservedAtIsNat
    <3> QED
      BY <2>1, <2>2, <2>5, <3>1, <3>2 DEF Change
  <2>6. CASE op.item = s[1] /\ op.route[2] # s[2] /\ op.route[1] # s[2]
    BY <2>2, <2>6 DEF Change
  <2> QED
    BY <2>3, <2>4, <2>5, <2>6
<1>4. balance' \in [Slot -> 0..MaxStock]
  BY <1>3 DEF ApplyInventoryOperation
<1> QED
  BY <1>2, <1>4 DEF TypeInv, InventoryTypeOK, RowsReserve, ApplyInventoryOperation

(* Inserted rows are well-formed and reserve at least one unit.            *)
LEMMA TypeInvHold ==
  ASSUME TypeInv, NEW h \in Holder, Hold(h)
  PROVE  TypeInv'
<1>1. PICK take \in [Slot -> 0..MaxStock], expiresAt \in now+1..MaxTime+1,
           status \in {"HELD", "CONFIRMED"} :
        reservation' = [a \in Allocation |->
          IF a[1] = h /\ take[<<a[2], a[3]>>] > 0
          THEN [status |-> status, quantity |-> take[<<a[2], a[3]>>],
                expiresAt |-> IF status = "HELD" THEN expiresAt ELSE 0]
          ELSE reservation[a]]
  BY DEF Hold
<1>2. ASSUME NEW a \in Allocation
      PROVE  /\ reservation'[a] \in Reservation
             /\ reservation'[a].status # "NONE" => reservation'[a].quantity > 0
  <2>1. <<a[2], a[3]>> \in Slot
    BY DEF Allocation, Slot
  <2>2. now \in Nat /\ MaxTime \in Nat /\ reservation[a] \in Reservation
    BY InventoryAssumption DEF TypeInv, InventoryTypeOK
  <2>3. expiresAt \in Nat
    BY <2>2
  <2>4. CASE a[1] = h /\ take[<<a[2], a[3]>>] > 0
    <3>1. reservation'[a] = [status |-> status, quantity |-> take[<<a[2], a[3]>>],
                             expiresAt |-> IF status = "HELD" THEN expiresAt ELSE 0]
      BY <1>1, <2>4
    <3> QED
      BY <2>1, <2>3, <2>4, <3>1 DEF Reservation, ReservationStatus
  <2>5. CASE ~(a[1] = h /\ take[<<a[2], a[3]>>] > 0)
    <3>1. reservation'[a] = reservation[a]
      BY <1>1, <2>5
    <3> QED
      BY <2>2, <3>1 DEF TypeInv, RowsReserve
  <2> QED
    BY <2>4, <2>5
<1>3. reservation' \in [Allocation -> Reservation]
  BY <1>1, <1>2
<1> QED
  BY <1>2, <1>3 DEF TypeInv, InventoryTypeOK, RowsReserve, Hold

(* Confirming keeps the rows well-formed.                                  *)
LEMMA TypeInvConfirm ==
  ASSUME TypeInv, NEW h \in Holder, Confirm(h)
  PROVE  TypeInv'
<1>1. ASSUME NEW a \in Allocation
      PROVE  /\ Confirmed(h)[a] \in Reservation
             /\ Confirmed(h)[a].status # "NONE" => Confirmed(h)[a].quantity > 0
  BY DEF Confirmed, TypeInv, InventoryTypeOK, RowsReserve, Reservation, ReservationStatus
<1>2. Confirmed(h) \in [Allocation -> Reservation]
  BY <1>1 DEF Confirmed
<1> QED
  BY <1>1, <1>2 DEF TypeInv, InventoryTypeOK, RowsReserve, Confirm

(* Releasing keeps the rows well-formed.                                   *)
LEMMA TypeInvRelease ==
  ASSUME TypeInv, NEW h \in Holder, Release(h)
  PROVE  TypeInv'
<1>1. ASSUME NEW a \in Allocation
      PROVE  /\ Released(h)[a] \in Reservation
             /\ Released(h)[a].status # "NONE" => Released(h)[a].quantity > 0
  BY DEF Released, TypeInv, InventoryTypeOK, RowsReserve, Reservation, ReservationStatus
<1>2. Released(h) \in [Allocation -> Reservation]
  BY <1>1 DEF Released
<1> QED
  BY <1>1, <1>2 DEF TypeInv, InventoryTypeOK, RowsReserve, Release

(* Sales are well-formed movements and leave no negative balance.          *)
LEMMA TypeInvConsume ==
  ASSUME TypeInv, NEW h \in Holder, Consume(h)
  PROVE  TypeInv'
<1> DEFINE after == [a \in Allocation |->
             IF a \in Outgoing(h) THEN [reservation[a] EXCEPT !.status = "CONSUMED"]
             ELSE reservation[a]]
<1>1. reservation' = after
  BY DEF Consume
<1>2. ASSUME NEW a \in Allocation
      PROVE  /\ after[a] \in Reservation
             /\ after[a].status # "NONE" => after[a].quantity > 0
  BY DEF Outgoing, TypeInv, InventoryTypeOK, RowsReserve, Reservation, ReservationStatus
<1>3. reservation' \in [Allocation -> Reservation]
  BY <1>1, <1>2
<1>4. ASSUME NEW a \in Outgoing(h)
      PROVE  /\ a \in Allocation
             /\ reservation[a].quantity \in 1..MaxStock
             /\ Sale(a) \in Movement
  <2>1. a \in Allocation /\ reservation[a].status = "CONFIRMED"
    BY DEF Outgoing
  <2>2. reservation[a].quantity \in 1..MaxStock
    BY <2>1, InventoryAssumption DEF TypeInv, InventoryTypeOK, RowsReserve, Reservation
  <2>3. a[2] \in Item /\ a[3] \in Location /\ a[3] # NoLocation
    BY <2>1, InventoryAssumption DEF Allocation
  <2>4. <<a[3], NoLocation>> \in Route
    BY <2>3 DEF Route
  <2> QED
    BY <2>1, <2>2, <2>3, <2>4 DEF Sale, Movement
<1>5. movement' \subseteq Movement
  BY <1>4 DEF Consume, TypeInv, InventoryTypeOK
<1>6. ASSUME NEW s \in Slot, <<h, s[1], s[2]>> \in Outgoing(h)
      PROVE  balance[s] - reservation[<<h, s[1], s[2]>>].quantity \in 0..MaxStock
  <2>1. s = <<s[1], s[2]>> /\ balance[s] \in 0..MaxStock /\ MaxStock \in Nat
    BY InventoryAssumption DEF Slot, TypeInv, InventoryTypeOK
  <2>2. balance[<<s[1], s[2]>>] >= reservation[<<h, s[1], s[2]>>].quantity
                                 + OthersReservedAt(h, s[1], s[2])
    BY <1>6 DEF Consume
  <2>3. OthersReservedAt(h, s[1], s[2]) \in Nat
    BY ReservedAtIsNat
  <2> QED
    BY <1>4, <1>6, <2>1, <2>2, <2>3
<1>7. balance' \in [Slot -> 0..MaxStock]
  BY <1>6 DEF Consume, TypeInv, InventoryTypeOK
<1> QED
  BY <1>1, <1>2, <1>3, <1>5, <1>7 DEF TypeInv, InventoryTypeOK, RowsReserve, Consume

(* The empty database is well-formed.                                      *)
LEMMA TypeInvInit == InventoryInit => TypeInv
  BY InventoryAssumption DEF InventoryInit, TypeInv, InventoryTypeOK, RowsReserve, Reservation,
     ReservationStatus, NoReservation

(* Every step of the inventory keeps its records well-formed.              *)
LEMMA TypeInvStep == TypeInv /\ [InventoryNext]_inventoryVars => TypeInv'
<1> SUFFICES ASSUME TypeInv, [InventoryNext]_inventoryVars
             PROVE  TypeInv'
  OBVIOUS
<1>1. ASSUME NEW op \in Operation, ApplyInventoryOperation(op) PROVE TypeInv'
  BY <1>1, TypeInvApply
<1>2. CASE EditLocations
  BY <1>2 DEF EditLocations, TypeInv, InventoryTypeOK, RowsReserve
<1>3. CASE Tick
  BY <1>3 DEF Tick, TypeInv, InventoryTypeOK, RowsReserve
<1>4. ASSUME NEW h \in Holder, Hold(h) \/ Confirm(h) \/ Release(h) \/ Consume(h)
      PROVE  TypeInv'
  BY <1>4, TypeInvHold, TypeInvConfirm, TypeInvRelease, TypeInvConsume
<1>5. CASE UNCHANGED inventoryVars
  BY <1>5 DEF inventoryVars, TypeInv, InventoryTypeOK, RowsReserve
<1> QED
  BY <1>1, <1>2, <1>3, <1>4, <1>5 DEF InventoryNext

(* Balances stay within the column's integers, movements and reservation   *)
(* rows stay well-formed, whatever the number of items and holders.        *)
THEOREM InventoryTypes == InventorySpec => []InventoryTypeOK
<1>1. TypeInv => InventoryTypeOK
  BY DEF TypeInv
<1> QED
  BY <1>1, TypeInvInit, TypeInvStep, PTL DEF InventorySpec
------------------------------------------------------------------------------
(***************************************************************************)
(* Stock backs the reservations.                                           *)
(***************************************************************************)
StockInv == TypeInv /\ StockBacked

(* Fewer units are at most as many.                                        *)
LEMMA FewerUnits ==
  ASSUME NEW S \in SUBSET (Holder \X (1..MaxStock)), NEW T \in SUBSET S
  PROVE  Cardinality(T) <= Cardinality(S)
  BY UnitsAreFinite, FS_Subset

(* A row of q units adds at most q to what is counted.                     *)
LEMMA RowJoins ==
  ASSUME NEW S \in SUBSET (Holder \X (1..MaxStock)),
         NEW T \in SUBSET (Holder \X (1..MaxStock)),
         NEW h \in Holder, NEW q \in 0..MaxStock,
         T \subseteq S \cup ({h} \X (1..q))
  PROVE  Cardinality(T) <= Cardinality(S) + q
<1> DEFINE row == {h} \X (1..q)
<1>1. q \in Int /\ 1 \in Int /\ q \in Nat
  BY InventoryAssumption
<1>2. IsFiniteSet(1..q) /\ Cardinality(1..q) = q
  BY <1>1, FS_Interval
<1>3. IsFiniteSet({h}) /\ Cardinality({h}) = 1
  BY FS_Singleton
<1>4. IsFiniteSet(row) /\ Cardinality(row) = q
  <2>1. IsFiniteSet(row) /\ Cardinality(row) = Cardinality({h}) * Cardinality(1..q)
    BY <1>2, <1>3, FS_Product
  <2> HIDE DEF row
  <2> QED
    BY <1>1, <1>2, <1>3, <2>1
<1>5. IsFiniteSet(S) /\ Cardinality(S) \in Nat /\ Cardinality(T) \in Nat
  BY UnitsAreFinite
<1> HIDE DEF row
<1>6. /\ IsFiniteSet(S \cup row)
      /\ Cardinality(S \cup row) = Cardinality(S) + q - Cardinality(S \cap row)
  BY <1>4, <1>5, FS_Union
<1>7. Cardinality(S \cap row) \in Nat
  BY <1>5, FS_Intersection, FS_CardinalityType
<1>8. T \subseteq S \cup row
  BY DEF row
<1>9. Cardinality(T) <= Cardinality(S \cup row)
  BY <1>6, <1>8, FS_Subset
<1>10. Cardinality(S \cup row) \in Nat
  BY <1>6, FS_CardinalityType
<1> QED
  BY <1>1, <1>5, <1>6, <1>7, <1>9, <1>10

(* A movement leaves what is reserved at its source.                       *)
LEMMA StockBackedApply ==
  ASSUME StockInv, NEW op \in Operation, ApplyInventoryOperation(op),
         NEW i \in Item, NEW l \in Location
  PROVE  ReservedAt(i, l)' <= balance'[<<i, l>>]
<1>1. ReservedAt(i, l)' = ReservedAt(i, l)
  BY DEF ApplyInventoryOperation, ReservedAt, ReservedUnits, Active
<1>2. ReservedAt(i, l) \in Nat /\ ReservedAt(i, l) <= balance[<<i, l>>]
  BY ReservedAtIsNat DEF StockInv, StockBacked
<1>3. <<i, l>> \in Slot
  BY DEF Slot
<1>4. balance'[<<i, l>>] = balance[<<i, l>>] + Change(i, l, op)
  BY <1>3 DEF ApplyInventoryOperation
<1>5. balance[<<i, l>>] \in Nat /\ op.quantity \in Nat
  <2>1. op.quantity \in 1..MaxStock
    BY InventoryAssumption DEF Operation
  <2>2. balance[<<i, l>>] \in 0..MaxStock
    BY <1>3 DEF StockInv, TypeInv, InventoryTypeOK
  <2> QED
    BY <2>1, <2>2, InventoryAssumption
<1>6. CASE op.item = i /\ op.route[1] = l
  <2>1. balance[<<i, l>>] >= op.quantity + ReservedAt(i, l)
    BY <1>6 DEF ApplyInventoryOperation
  <2> QED
    BY <1>1, <1>2, <1>4, <1>5, <1>6, <2>1 DEF Change
<1>7. CASE ~(op.item = i /\ op.route[1] = l)
  BY <1>1, <1>2, <1>4, <1>5, <1>7 DEF Change
<1> QED
  BY <1>6, <1>7

(* Time only takes holds away.                                             *)
LEMMA StockBackedTick ==
  ASSUME StockInv, Tick, NEW i \in Item, NEW l \in Location
  PROVE  ReservedAt(i, l)' <= balance'[<<i, l>>]
<1>1. ReservedUnits(Holder, i, l)' \subseteq ReservedUnits(Holder, i, l)
  <2> SUFFICES ASSUME NEW u \in ReservedUnits(Holder, i, l)'
               PROVE  u \in ReservedUnits(Holder, i, l)
    OBVIOUS
  <2>1. <<u[1], i, l>> \in Allocation /\ u \in Holder \X (1..MaxStock)
    BY DEF ReservedUnits, Allocation
  <2>2. reservation' = reservation /\ now' = now + 1 /\ now \in Nat
    BY DEF Tick, StockInv, TypeInv, InventoryTypeOK
  <2>3. reservation[<<u[1], i, l>>].expiresAt \in Nat
    BY <2>1 DEF StockInv, TypeInv, InventoryTypeOK, Reservation
  <2> QED
    BY <2>1, <2>2, <2>3 DEF ReservedUnits, Active
<1>2. ReservedUnits(Holder, i, l) \in SUBSET (Holder \X (1..MaxStock))
  BY DEF ReservedUnits
<1>3. ReservedAt(i, l)' <= ReservedAt(i, l)
  BY <1>1, <1>2, FewerUnits DEF ReservedAt
<1>4. ReservedAt(i, l) \in Nat /\ ReservedAt(i, l)' \in Nat
  BY <1>1, <1>2, UnitsAreFinite DEF ReservedAt
<1>5. balance' = balance /\ balance[<<i, l>>] \in Nat
  BY InventoryAssumption DEF Tick, StockInv, TypeInv, InventoryTypeOK, Slot
<1> QED
  BY <1>3, <1>4, <1>5 DEF StockInv, StockBacked

(* New rows fit into what is free.                                         *)
LEMMA StockBackedHold ==
  ASSUME StockInv, NEW h \in Holder, Hold(h), NEW i \in Item, NEW l \in Location
  PROVE  ReservedAt(i, l)' <= balance'[<<i, l>>]
<1>1. PICK take \in [Slot -> 0..MaxStock], expiresAt \in now+1..MaxTime+1,
           status \in {"HELD", "CONFIRMED"} :
        /\ \A s \in Slot : take[s] > 0 =>
             /\ reservation[<<h, s[1], s[2]>>].status = "NONE"
             /\ take[s] <= FreeAt(s[1], s[2])
        /\ reservation' = [a \in Allocation |->
             IF a[1] = h /\ take[<<a[2], a[3]>>] > 0
             THEN [status |-> status, quantity |-> take[<<a[2], a[3]>>],
                   expiresAt |-> IF status = "HELD" THEN expiresAt ELSE 0]
             ELSE reservation[a]]
  BY DEF Hold
<1>2. now' = now /\ balance' = balance
  BY DEF Hold
<1> DEFINE q == take[<<i, l>>]
<1>3. <<i, l>> \in Slot /\ q \in 0..MaxStock /\ q \in Nat
  BY InventoryAssumption DEF Slot
<1>4. /\ ReservedUnits(Holder, i, l) \in SUBSET (Holder \X (1..MaxStock))
      /\ ReservedUnits(Holder, i, l)' \in SUBSET (Holder \X (1..MaxStock))
  BY DEF ReservedUnits
<1>5. ReservedUnits(Holder, i, l)' \subseteq ReservedUnits(Holder, i, l) \cup ({h} \X (1..q))
  <2> SUFFICES ASSUME NEW u \in ReservedUnits(Holder, i, l)'
               PROVE  u \in ReservedUnits(Holder, i, l) \cup ({h} \X (1..q))
    OBVIOUS
  <2>1. /\ u \in Holder \X (1..MaxStock) /\ u = <<u[1], u[2]>> /\ u[2] \in Nat
        /\ <<u[1], i, l>> \in Allocation
        /\ Active(reservation[<<u[1], i, l>>])'
        /\ u[2] <= reservation'[<<u[1], i, l>>].quantity /\ 1 <= u[2]
    BY InventoryAssumption DEF ReservedUnits, Allocation
  <2>2. CASE u[1] = h /\ q > 0
    <3>1. reservation'[<<u[1], i, l>>].quantity = q
      BY <1>1, <2>1, <2>2
    <3>2. u[2] \in 1..q
      BY <1>3, <2>1, <3>1
    <3> QED
      BY <2>1, <2>2, <3>2
  <2>3. CASE ~(u[1] = h /\ q > 0)
    <3>1. reservation'[<<u[1], i, l>>] = reservation[<<u[1], i, l>>]
      BY <1>1, <2>1, <2>3
    <3> QED
      BY <1>2, <2>1, <3>1 DEF ReservedUnits, Active
  <2> QED
    BY <2>2, <2>3
<1>6. ReservedAt(i, l)' <= ReservedAt(i, l) + q
  <2> HIDE DEF q
  <2> QED
    BY <1>3, <1>4, <1>5, RowJoins DEF ReservedAt
<1>7. ReservedAt(i, l) \in Nat /\ ReservedAt(i, l)' \in Nat
  BY <1>4, UnitsAreFinite DEF ReservedAt
<1>8. balance[<<i, l>>] \in Nat /\ ReservedAt(i, l) <= balance[<<i, l>>]
  BY <1>3, InventoryAssumption DEF StockInv, TypeInv, InventoryTypeOK, StockBacked
<1>9. q > 0 => q <= balance[<<i, l>>] - ReservedAt(i, l)
  BY <1>1, <1>3 DEF FreeAt
<1> HIDE DEF q
<1> QED
  BY <1>2, <1>3, <1>6, <1>7, <1>8, <1>9

(* Confirmed rows fit beside everybody else's.                             *)
LEMMA StockBackedConfirm ==
  ASSUME StockInv, NEW h \in Holder, Confirm(h), NEW i \in Item, NEW l \in Location
  PROVE  ReservedAt(i, l)' <= balance'[<<i, l>>]
<1> DEFINE a == <<h, i, l>>
           q == reservation[a].quantity
<1>1. a \in Allocation /\ <<i, l>> \in Slot
  BY DEF Allocation, Slot
<1>2. q \in 0..MaxStock /\ q \in Nat /\ balance[<<i, l>>] \in Nat
  BY <1>1, InventoryAssumption DEF StockInv, TypeInv, InventoryTypeOK, Reservation
<1>3. /\ ReservedUnits(Holder, i, l) \in SUBSET (Holder \X (1..MaxStock))
      /\ ReservedUnits(Holder, i, l)' \in SUBSET (Holder \X (1..MaxStock))
      /\ ReservedUnits(Holder \ {h}, i, l) \in SUBSET (Holder \X (1..MaxStock))
  BY DEF ReservedUnits
<1>4. now' = now /\ balance' = balance /\ reservation' = Confirmed(h)
  BY DEF Confirm
<1>5. CASE reservation[a].status = "HELD"
  <2>1. q + OthersReservedAt(h, i, l) <= balance[<<i, l>>]
    BY <1>1, <1>5 DEF Confirm
  <2>2. ReservedUnits(Holder, i, l)'
          \subseteq ReservedUnits(Holder \ {h}, i, l) \cup ({h} \X (1..q))
    <3> SUFFICES ASSUME NEW u \in ReservedUnits(Holder, i, l)'
                 PROVE  u \in ReservedUnits(Holder \ {h}, i, l) \cup ({h} \X (1..q))
      OBVIOUS
    <3>1. /\ u \in Holder \X (1..MaxStock) /\ u = <<u[1], u[2]>> /\ u[2] \in Nat
          /\ <<u[1], i, l>> \in Allocation
          /\ Active(reservation[<<u[1], i, l>>])'
          /\ u[2] <= reservation'[<<u[1], i, l>>].quantity /\ 1 <= u[2]
      BY InventoryAssumption DEF ReservedUnits, Allocation
    <3>2. CASE u[1] = h
      <4>1. reservation'[<<u[1], i, l>>].quantity = q
        BY <1>4, <1>5, <3>1, <3>2 DEF Confirmed
      <4>2. u[2] \in 1..q
        BY <1>2, <3>1, <4>1
      <4> QED
        BY <3>1, <3>2, <4>2
    <3>3. CASE u[1] # h
      <4>1. reservation'[<<u[1], i, l>>] = reservation[<<u[1], i, l>>]
        BY <1>4, <3>1, <3>3 DEF Confirmed
      <4> QED
        BY <1>4, <3>1, <3>3, <4>1 DEF ReservedUnits, Active
    <3> QED
      BY <3>2, <3>3
  <2>3. Cardinality(ReservedUnits(Holder, i, l)')
          <= Cardinality(ReservedUnits(Holder \ {h}, i, l)) + q
    <3> HIDE DEF q
    <3> QED
      BY <1>2, <1>3, <2>2, RowJoins
  <2>4. /\ Cardinality(ReservedUnits(Holder, i, l)') \in Nat
        /\ Cardinality(ReservedUnits(Holder \ {h}, i, l)) \in Nat
    BY <1>3, UnitsAreFinite
  <2> HIDE DEF q
  <2> QED
    BY <1>2, <1>4, <2>1, <2>3, <2>4 DEF ReservedAt, OthersReservedAt
<1>6. CASE reservation[a].status # "HELD"
  <2>1. ReservedUnits(Holder, i, l)' \subseteq ReservedUnits(Holder, i, l)
    <3> SUFFICES ASSUME NEW u \in ReservedUnits(Holder, i, l)'
                 PROVE  u \in ReservedUnits(Holder, i, l)
      OBVIOUS
    <3>1. u \in Holder \X (1..MaxStock) /\ <<u[1], i, l>> \in Allocation
      BY DEF ReservedUnits, Allocation
    <3>2. reservation'[<<u[1], i, l>>] = reservation[<<u[1], i, l>>]
      BY <1>4, <1>6, <3>1 DEF Confirmed
    <3> QED
      BY <1>4, <3>1, <3>2 DEF ReservedUnits, Active
  <2>2. ReservedAt(i, l)' <= ReservedAt(i, l)
    BY <1>3, <2>1, FewerUnits DEF ReservedAt
  <2>3. ReservedAt(i, l)' \in Nat /\ ReservedAt(i, l) \in Nat
    BY <1>3, UnitsAreFinite DEF ReservedAt
  <2> QED
    BY <1>2, <1>4, <2>2, <2>3 DEF StockInv, StockBacked
<1> QED
  BY <1>5, <1>6

(* Releasing only takes rows away.                                         *)
LEMMA StockBackedRelease ==
  ASSUME StockInv, NEW h \in Holder, Release(h), NEW i \in Item, NEW l \in Location
  PROVE  ReservedAt(i, l)' <= balance'[<<i, l>>]
<1>1. now' = now /\ balance' = balance /\ reservation' = Released(h)
  BY DEF Release
<1>2. ReservedUnits(Holder, i, l)' \subseteq ReservedUnits(Holder, i, l)
  <2> SUFFICES ASSUME NEW u \in ReservedUnits(Holder, i, l)'
               PROVE  u \in ReservedUnits(Holder, i, l)
    OBVIOUS
  <2>1. u \in Holder \X (1..MaxStock) /\ <<u[1], i, l>> \in Allocation
    BY DEF ReservedUnits, Allocation
  <2>2. /\ Active(reservation[<<u[1], i, l>>])'
        /\ u[2] <= reservation'[<<u[1], i, l>>].quantity
    BY DEF ReservedUnits
  <2>3. reservation[<<u[1], i, l>>] \in Reservation
    BY <2>1 DEF StockInv, TypeInv, InventoryTypeOK
  <2>4. reservation'[<<u[1], i, l>>] = reservation[<<u[1], i, l>>]
    BY <1>1, <2>1, <2>2, <2>3 DEF Released, Active, Reservation
  <2> QED
    BY <1>1, <2>1, <2>2, <2>4 DEF ReservedUnits, Active
<1>3. ReservedUnits(Holder, i, l) \in SUBSET (Holder \X (1..MaxStock))
  BY DEF ReservedUnits
<1>4. ReservedAt(i, l)' <= ReservedAt(i, l)
  BY <1>2, <1>3, FewerUnits DEF ReservedAt
<1>5. ReservedAt(i, l)' \in Nat /\ ReservedAt(i, l) \in Nat
  BY <1>2, <1>3, UnitsAreFinite DEF ReservedAt
<1>6. balance[<<i, l>>] \in Nat
  BY InventoryAssumption DEF StockInv, TypeInv, InventoryTypeOK, Slot
<1> QED
  BY <1>1, <1>4, <1>5, <1>6 DEF StockInv, StockBacked

(* Units that leave were reserved for nobody else.                         *)
LEMMA StockBackedConsume ==
  ASSUME StockInv, NEW h \in Holder, Consume(h), NEW i \in Item, NEW l \in Location
  PROVE  ReservedAt(i, l)' <= balance'[<<i, l>>]
<1> DEFINE a == <<h, i, l>>
<1>1. a \in Allocation /\ <<i, l>> \in Slot /\ a[2] = i /\ a[3] = l
  BY DEF Allocation, Slot
<1>2. reservation[a].quantity \in Nat /\ balance[<<i, l>>] \in Nat
  BY <1>1, InventoryAssumption DEF StockInv, TypeInv, InventoryTypeOK, Reservation
<1>3. /\ ReservedUnits(Holder, i, l) \in SUBSET (Holder \X (1..MaxStock))
      /\ ReservedUnits(Holder \ {h}, i, l) \in SUBSET (Holder \X (1..MaxStock))
  BY DEF ReservedUnits
<1>4. /\ now' = now
      /\ reservation' = [b \in Allocation |->
           IF b \in Outgoing(h) THEN [reservation[b] EXCEPT !.status = "CONSUMED"]
           ELSE reservation[b]]
  BY DEF Consume
<1>5. ASSUME NEW u \in ReservedUnits(Holder, i, l)'
      PROVE  /\ u \in Holder \X (1..MaxStock)
             /\ <<u[1], i, l>> \notin Outgoing(h)
             /\ u \in ReservedUnits(Holder, i, l)
  <2>1. u \in Holder \X (1..MaxStock) /\ <<u[1], i, l>> \in Allocation
    BY DEF ReservedUnits, Allocation
  <2>2. /\ Active(reservation[<<u[1], i, l>>])'
        /\ u[2] <= reservation'[<<u[1], i, l>>].quantity
    BY DEF ReservedUnits
  <2>3. reservation[<<u[1], i, l>>] \in Reservation
    BY <2>1 DEF StockInv, TypeInv, InventoryTypeOK
  <2>4. <<u[1], i, l>> \notin Outgoing(h)
    BY <1>4, <2>1, <2>2, <2>3 DEF Active, Reservation
  <2>5. reservation'[<<u[1], i, l>>] = reservation[<<u[1], i, l>>]
    BY <1>4, <2>1, <2>4
  <2> QED
    BY <1>4, <2>1, <2>2, <2>4, <2>5 DEF ReservedUnits, Active
<1>6. CASE a \in Outgoing(h)
  <2>1. balance[<<i, l>>] >= reservation[a].quantity + OthersReservedAt(h, i, l)
    BY <1>1, <1>6 DEF Consume
  <2>2. balance'[<<i, l>>] = balance[<<i, l>>] - reservation[a].quantity
    BY <1>1, <1>6 DEF Consume
  <2>3. ReservedUnits(Holder, i, l)' \subseteq ReservedUnits(Holder \ {h}, i, l)
    BY <1>5, <1>6 DEF ReservedUnits
  <2>4. ReservedAt(i, l)' <= OthersReservedAt(h, i, l)
    BY <1>3, <2>3, FewerUnits DEF ReservedAt, OthersReservedAt
  <2>5. ReservedAt(i, l)' \in Nat /\ OthersReservedAt(h, i, l) \in Nat
    BY <1>3, <2>3, UnitsAreFinite DEF ReservedAt, OthersReservedAt
  <2> HIDE DEF a
  <2> QED
    BY <1>2, <2>1, <2>2, <2>4, <2>5
<1>7. CASE a \notin Outgoing(h)
  <2>1. balance'[<<i, l>>] = balance[<<i, l>>]
    BY <1>1, <1>7 DEF Consume
  <2>2. ReservedUnits(Holder, i, l)' \subseteq ReservedUnits(Holder, i, l)
    BY <1>5
  <2>3. ReservedAt(i, l)' <= ReservedAt(i, l)
    BY <1>3, <2>2, FewerUnits DEF ReservedAt
  <2>4. ReservedAt(i, l)' \in Nat /\ ReservedAt(i, l) \in Nat
    BY <1>3, <2>2, UnitsAreFinite DEF ReservedAt
  <2> QED
    BY <1>2, <2>1, <2>3, <2>4 DEF StockInv, StockBacked
<1> QED
  BY <1>6, <1>7

(* Nothing is reserved in the empty database.                              *)
LEMMA StockInvInit == InventoryInit => StockInv
<1> SUFFICES ASSUME InventoryInit, NEW i \in Item, NEW l \in Location
             PROVE  ReservedAt(i, l) <= balance[<<i, l>>]
  BY TypeInvInit DEF StockInv, StockBacked
<1>1. ReservedUnits(Holder, i, l) = {}
  BY DEF ReservedUnits, InventoryInit, Active, NoReservation, Allocation
<1>2. balance[<<i, l>>] = 0
  BY DEF InventoryInit, Slot
<1> QED
  BY <1>1, <1>2, FS_EmptySet DEF ReservedAt

(* Every step keeps reservations within the stock.                         *)
LEMMA StockInvStep == StockInv /\ [InventoryNext]_inventoryVars => StockInv'
<1> SUFFICES ASSUME StockInv, [InventoryNext]_inventoryVars,
                    NEW i \in Item, NEW l \in Location
             PROVE  ReservedAt(i, l)' <= balance'[<<i, l>>]
  BY TypeInvStep DEF StockInv, StockBacked
<1>1. ASSUME NEW op \in Operation, ApplyInventoryOperation(op)
      PROVE  ReservedAt(i, l)' <= balance'[<<i, l>>]
  BY <1>1, StockBackedApply
<1>2. CASE EditLocations
  BY <1>2 DEF EditLocations, StockInv, StockBacked, ReservedAt, ReservedUnits, Active
<1>3. CASE Tick
  BY <1>3, StockBackedTick
<1>4. ASSUME NEW h \in Holder, Hold(h) \/ Confirm(h) \/ Release(h) \/ Consume(h)
      PROVE  ReservedAt(i, l)' <= balance'[<<i, l>>]
  BY <1>4, StockBackedHold, StockBackedConfirm, StockBackedRelease, StockBackedConsume
<1>5. CASE UNCHANGED inventoryVars
  BY <1>5 DEF inventoryVars, StockInv, StockBacked, ReservedAt, ReservedUnits, Active
<1> QED
  BY <1>1, <1>2, <1>3, <1>4, <1>5 DEF InventoryNext

(* No unit is promised twice: whatever staff move or sell and however many *)
(* holders reserve, confirm, release or lapse, the active reservations of  *)
(* a location never exceed its physical stock (reservedAt and the guards). *)
THEOREM StockBacksReservations == InventorySpec => []StockBacked
<1>1. StockInv => StockBacked
  BY DEF StockInv
<1> QED
  BY <1>1, StockInvInit, StockInvStep, PTL DEF InventorySpec
------------------------------------------------------------------------------
(***************************************************************************)
(* The movement ledger: what it says went in and out is what the balances  *)
(* hold, one movement per operation key, one sale per consumed reservation.*)
(***************************************************************************)
(* A consumed row has its sale in the ledger.                              *)
ConsumedHasSale ==
  \A a \in Allocation : reservation[a].status = "CONSUMED" => Sale(a) \in movement

(* A movement under the key of an allocation is the sale of that row, and  *)
(* the row is consumed.                                                    *)
SalesOnRecord ==
  \A m \in movement : m.key \in Allocation =>
    reservation[m.key].status = "CONSUMED" /\ m = Sale(m.key)

RecordInv ==
  /\ TypeInv
  /\ IsFiniteSet(movement)
  /\ OneMovementPerKey
  /\ ConsumedHasSale
  /\ SalesOnRecord

LedgerInv == RecordInv /\ LedgerReconciles
------------------------------------------------------------------------------
(***************************************************************************)
(* One movement per key, one sale per consumed row.                        *)
(***************************************************************************)

(* An operation of a form never has the key of an allocation.              *)
LEMMA KeysApart ==
  ASSUME NEW op \in Operation
  PROVE  op.key \notin Allocation /\ op \in Movement /\ op.quantity \in 1..MaxStock
  BY InventoryAssumption DEF Operation, Movement, Allocation

(* A step that leaves the ledger and the consumed rows alone.              *)
LEMMA RecordKept ==
  ASSUME RecordInv, TypeInv', movement' = movement,
         \A a \in Allocation :
           /\ reservation[a].status = "CONSUMED" => reservation'[a] = reservation[a]
           /\ reservation'[a].status = "CONSUMED" => reservation[a].status = "CONSUMED"
  PROVE  RecordInv'
<1>1. \A a \in Allocation : reservation[a].status = "CONSUMED" => Sale(a)' = Sale(a)
  BY DEF Sale
<1>2. ConsumedHasSale'
  BY <1>1 DEF RecordInv, ConsumedHasSale
<1>3. SalesOnRecord'
  <2> SUFFICES ASSUME NEW m \in movement, m.key \in Allocation
               PROVE  reservation'[m.key].status = "CONSUMED" /\ m = Sale(m.key)'
    BY DEF SalesOnRecord
  <2>1. reservation[m.key].status = "CONSUMED" /\ m = Sale(m.key)
    BY DEF RecordInv, SalesOnRecord
  <2> QED
    BY <1>1, <2>1
<1> QED
  BY <1>2, <1>3 DEF RecordInv, OneMovementPerKey

(* A submitted key is new to the ledger and is no allocation.              *)
LEMMA RecordApply ==
  ASSUME RecordInv, NEW op \in Operation, ApplyInventoryOperation(op)
  PROVE  RecordInv'
<1>1. TypeInv'
  BY TypeInvApply DEF RecordInv
<1>2. movement' = movement \cup {op} /\ reservation' = reservation /\ ~Replayed(op)
  BY DEF ApplyInventoryOperation
<1>3. IsFiniteSet(movement')
  BY <1>2, FS_AddElement DEF RecordInv
<1>4. OneMovementPerKey'
  BY <1>2 DEF RecordInv, OneMovementPerKey, Replayed
<1>5. \A a : Sale(a)' = Sale(a)
  BY <1>2 DEF Sale
<1>6. ConsumedHasSale'
  BY <1>2, <1>5 DEF RecordInv, ConsumedHasSale
<1>7. SalesOnRecord'
  BY <1>2, <1>5, KeysApart DEF RecordInv, SalesOnRecord
<1> QED
  BY <1>1, <1>3, <1>4, <1>6, <1>7 DEF RecordInv

(* Consumed rows and their sales come together.                            *)
LEMMA RecordConsume ==
  ASSUME RecordInv, NEW h \in Holder, Consume(h)
  PROVE  RecordInv'
<1> DEFINE out == Outgoing(h)
           sales == {Sale(a) : a \in out}
<1>1. TypeInv'
  BY TypeInvConsume DEF RecordInv
<1>2. /\ movement' = movement \cup sales
      /\ \A a \in out : \A m \in movement : m.key # a
      /\ reservation' = [a \in Allocation |->
           IF a \in out THEN [reservation[a] EXCEPT !.status = "CONSUMED"]
           ELSE reservation[a]]
  BY DEF Consume
<1>3. \A a \in Allocation : reservation[a] \in Reservation
  BY DEF RecordInv, TypeInv, InventoryTypeOK
<1>4. \A a \in Allocation : Sale(a)' = Sale(a) /\ Sale(a).key = a
  BY <1>2, <1>3 DEF Sale, Reservation
<1>5. out \subseteq Allocation
  BY DEF Outgoing
<1>6. IsFiniteSet(movement')
  <2> DEFINE slots == {s \in Slot : <<h, s[1], s[2]>> \in out}
             f == [s \in slots |-> Sale(<<h, s[1], s[2]>>)]
  <2>1. IsFiniteSet(Slot)
    BY InventoryAssumption, FS_Product DEF Slot
  <2>2. IsFiniteSet(slots)
    BY <2>1, FS_Subset
  <2>3. \A t \in sales : \E s \in slots : f[s] = t
    <3> SUFFICES ASSUME NEW a \in out
                 PROVE  \E s \in slots : f[s] = Sale(a)
      OBVIOUS
    <3>1. a = <<h, a[2], a[3]>> /\ <<a[2], a[3]>> \in Slot
      BY DEF Outgoing, Allocation, Slot
    <3>2. <<a[2], a[3]>> \in slots
      BY <3>1
    <3>3. f[<<a[2], a[3]>>] = Sale(a)
      BY <3>1, <3>2
    <3> QED
      BY <3>2, <3>3
  <2>4. f \in [slots -> sales]
    OBVIOUS
  <2>5. f \in Surjection(slots, sales)
    BY <2>3, <2>4 DEF Surjection
  <2>6. IsFiniteSet(sales)
    BY <2>2, <2>5, FS_Surjection
  <2> QED
    BY <1>2, <2>6, FS_Union DEF RecordInv
<1>7. OneMovementPerKey'
  BY <1>2, <1>4, <1>5 DEF RecordInv, OneMovementPerKey
<1>8. ConsumedHasSale'
  <2> SUFFICES ASSUME NEW a \in Allocation, reservation'[a].status = "CONSUMED"
               PROVE  Sale(a) \in movement'
    BY <1>4 DEF ConsumedHasSale
  <2>1. CASE a \in out
    BY <1>2, <2>1
  <2>2. CASE a \notin out
    BY <1>2, <2>2 DEF RecordInv, ConsumedHasSale
  <2> QED
    BY <2>1, <2>2
<1>9. SalesOnRecord'
  <2> SUFFICES ASSUME NEW m \in movement', m.key \in Allocation
               PROVE  reservation'[m.key].status = "CONSUMED" /\ m = Sale(m.key)
    BY <1>4 DEF SalesOnRecord
  <2>1. CASE m \in movement
    <3>1. reservation[m.key].status = "CONSUMED" /\ m = Sale(m.key)
      BY <2>1 DEF RecordInv, SalesOnRecord
    <3>2. m.key \notin out
      BY <1>2, <2>1
    <3> QED
      BY <1>2, <3>1, <3>2
  <2>2. ASSUME NEW a \in out, m = Sale(a)
        PROVE  reservation'[m.key].status = "CONSUMED" /\ m = Sale(m.key)
    <3>1. m.key = a /\ a \in Allocation
      BY <1>4, <1>5, <2>2
    <3>2. reservation'[a].status = "CONSUMED"
      BY <1>2, <1>3, <3>1 DEF Reservation
    <3> QED
      BY <2>2, <3>1, <3>2
  <2> QED
    BY <1>2, <2>1, <2>2
<1> QED
  BY <1>1, <1>6, <1>7, <1>8, <1>9 DEF RecordInv

(* Every step keeps keys unique and sales on record.                       *)
LEMMA RecordInvStep == RecordInv /\ [InventoryNext]_inventoryVars => RecordInv'
<1> SUFFICES ASSUME RecordInv, [InventoryNext]_inventoryVars
             PROVE  RecordInv'
  OBVIOUS
<1>1. TypeInv'
  BY TypeInvStep DEF RecordInv
<1>2. \A a \in Allocation : reservation[a] \in Reservation
  BY DEF RecordInv, TypeInv, InventoryTypeOK
<1>3. ASSUME NEW op \in Operation, ApplyInventoryOperation(op) PROVE RecordInv'
  BY <1>3, RecordApply
<1>4. CASE EditLocations
  BY <1>1, <1>4, RecordKept DEF EditLocations
<1>5. CASE Tick
  BY <1>1, <1>5, RecordKept DEF Tick
<1>6. ASSUME NEW h \in Holder, Hold(h) PROVE RecordInv'
  <2>1. PICK take \in [Slot -> 0..MaxStock], expiresAt \in now+1..MaxTime+1,
             status \in {"HELD", "CONFIRMED"} :
          /\ \A s \in Slot : take[s] > 0 =>
               reservation[<<h, s[1], s[2]>>].status = "NONE"
          /\ reservation' = [a \in Allocation |->
               IF a[1] = h /\ take[<<a[2], a[3]>>] > 0
               THEN [status |-> status, quantity |-> take[<<a[2], a[3]>>],
                     expiresAt |-> IF status = "HELD" THEN expiresAt ELSE 0]
               ELSE reservation[a]]
    BY <1>6 DEF Hold
  <2>2. ASSUME NEW a \in Allocation
        PROVE  /\ reservation[a].status = "CONSUMED" => reservation'[a] = reservation[a]
               /\ reservation'[a].status = "CONSUMED" => reservation[a].status = "CONSUMED"
    <3>1. a = <<a[1], a[2], a[3]>> /\ <<a[2], a[3]>> \in Slot
      BY DEF Allocation, Slot
    <3> QED
      BY <2>1, <3>1
  <2> QED
    BY <1>1, <1>6, <2>2, RecordKept DEF Hold
<1>7. ASSUME NEW h \in Holder, Confirm(h) PROVE RecordInv'
  BY <1>1, <1>2, <1>7, RecordKept DEF Confirm, Confirmed, Reservation
<1>8. ASSUME NEW h \in Holder, Release(h) PROVE RecordInv'
  BY <1>1, <1>2, <1>8, RecordKept DEF Release, Released, Reservation
<1>9. ASSUME NEW h \in Holder, Consume(h) PROVE RecordInv'
  BY <1>9, RecordConsume
<1>10. CASE UNCHANGED inventoryVars
  BY <1>1, <1>10, RecordKept DEF inventoryVars
<1> QED
  BY <1>3, <1>4, <1>5, <1>6, <1>7, <1>8, <1>9, <1>10 DEF InventoryNext

(* The empty ledger has no key twice.                                      *)
LEMMA RecordInvInit == InventoryInit => RecordInv
  BY TypeInvInit, FS_EmptySet DEF InventoryInit, RecordInv, OneMovementPerKey,
     ConsumedHasSale, SalesOnRecord, NoReservation

(* A retried operation moves stock once: the ledger never has two          *)
(* movements of one operation key.                                         *)
THEOREM KeysMoveOnce == InventorySpec => []OneMovementPerKey
<1>1. RecordInv => OneMovementPerKey
  BY DEF RecordInv
<1> QED
  BY <1>1, RecordInvInit, RecordInvStep, PTL DEF InventorySpec

(* A reservation is consumed exactly when the ledger has its sale, of the  *)
(* same item, location and quantity.                                       *)
THEOREM SalesMatchConsumption == InventorySpec => []ConsumedIsSold
<1>1. RecordInv => ConsumedIsSold
  BY DEF RecordInv, ConsumedHasSale, SalesOnRecord, ConsumedIsSold, Sale
<1> QED
  BY <1>1, RecordInvInit, RecordInvStep, PTL DEF InventorySpec
------------------------------------------------------------------------------
(***************************************************************************)
(* Balances and ledger agree.                                              *)
(***************************************************************************)

(* Units of finitely many movements are finitely many.                     *)
LEMMA MovedUnitsAreFinite ==
  ASSUME NEW M, IsFiniteSet(M), NEW S \in SUBSET (M \X (1..MaxStock))
  PROVE  IsFiniteSet(S) /\ Cardinality(S) \in Nat
<1>1. IsFiniteSet(1..MaxStock)
  BY FS_Interval, InventoryAssumption
<1>2. IsFiniteSet(M \X (1..MaxStock))
  BY <1>1, FS_Product
<1>3. IsFiniteSet(S)
  BY <1>2, FS_Subset
<1> QED
  BY <1>3, FS_CardinalityType

(* The units of a new movement add its quantity.                           *)
LEMMA MovementAdds ==
  ASSUME NEW S, IsFiniteSet(S), NEW m, \A u \in S : u[1] # m, NEW q \in 1..MaxStock
  PROVE  Cardinality(S \cup ({m} \X (1..q))) = Cardinality(S) + q
<1> DEFINE row == {m} \X (1..q)
<1>1. q \in Int /\ q \in Nat /\ q >= 1
  BY InventoryAssumption
<1>2. IsFiniteSet(1..q) /\ Cardinality(1..q) = q
  BY <1>1, FS_Interval
<1>3. IsFiniteSet({m}) /\ Cardinality({m}) = 1
  BY FS_Singleton
<1>4. IsFiniteSet(row) /\ Cardinality(row) = Cardinality({m}) * Cardinality(1..q)
  BY <1>2, <1>3, FS_Product
<1>5. S \cap row = {}
  OBVIOUS
<1> HIDE DEF row
<1>6. Cardinality(row) = q
  BY <1>1, <1>2, <1>3, <1>4
<1>7. Cardinality(S \cup row) = Cardinality(S) + Cardinality(row) - Cardinality(S \cap row)
  BY <1>4, FS_Union
<1>8. Cardinality(S) \in Nat
  BY FS_CardinalityType
<1>9. Cardinality(S \cap row) = 0
  BY <1>5, FS_EmptySet
<1>10. Cardinality(S \cup row) = Cardinality(S) + q
  BY <1>1, <1>6, <1>7, <1>8, <1>9
<1> QED
  BY <1>10 DEF row

(* What one more movement does to the units counted at a slot.             *)
LEMMA InAndOut ==
  ASSUME RecordInv, NEW m \in Movement, m \notin movement,
         NEW i \in Item, NEW l \in Location
  PROVE  /\ IsFiniteSet(UnitsIn(i, l)) /\ Cardinality(UnitsIn(i, l)) \in Nat
         /\ IsFiniteSet(UnitsOut(i, l)) /\ Cardinality(UnitsOut(i, l)) \in Nat
         /\ Cardinality(UnitsIn(i, l) \cup ({m} \X (1..m.quantity)))
              = Cardinality(UnitsIn(i, l)) + m.quantity
         /\ Cardinality(UnitsOut(i, l) \cup ({m} \X (1..m.quantity)))
              = Cardinality(UnitsOut(i, l)) + m.quantity
<1>1. IsFiniteSet(movement) /\ m.quantity \in 1..MaxStock
  BY DEF RecordInv, Movement
<1>2. /\ UnitsIn(i, l) \in SUBSET (movement \X (1..MaxStock))
      /\ UnitsOut(i, l) \in SUBSET (movement \X (1..MaxStock))
  BY DEF UnitsIn, UnitsOut
<1>3. /\ IsFiniteSet(UnitsIn(i, l)) /\ Cardinality(UnitsIn(i, l)) \in Nat
      /\ IsFiniteSet(UnitsOut(i, l)) /\ Cardinality(UnitsOut(i, l)) \in Nat
  BY <1>1, <1>2, MovedUnitsAreFinite
<1>4. \A u \in UnitsIn(i, l) \cup UnitsOut(i, l) : u[1] # m
  BY <1>2
<1> QED
  BY <1>1, <1>3, <1>4, MovementAdds

(* A movement changes balance and ledger alike.                            *)
LEMMA ReconcilesApply ==
  ASSUME LedgerInv, NEW op \in Operation, ApplyInventoryOperation(op),
         NEW i \in Item, NEW l \in Location
  PROVE  balance'[<<i, l>>] + Cardinality(UnitsOut(i, l)') = Cardinality(UnitsIn(i, l)')
<1> DEFINE row == {op} \X (1..op.quantity)
           nIn == Cardinality(UnitsIn(i, l))
           nOut == Cardinality(UnitsOut(i, l))
<1>1. op \in Movement /\ op.quantity \in 1..MaxStock /\ op.quantity \in Nat
  BY KeysApart, InventoryAssumption
<1>2. op \notin movement /\ movement' = movement \cup {op}
  BY DEF ApplyInventoryOperation, Replayed
<1>3. /\ nIn \in Nat /\ nOut \in Nat
      /\ Cardinality(UnitsIn(i, l) \cup row) = nIn + op.quantity
      /\ Cardinality(UnitsOut(i, l) \cup row) = nOut + op.quantity
  BY <1>1, <1>2, InAndOut DEF LedgerInv
<1>4. <<i, l>> \in Slot /\ balance[<<i, l>>] \in Nat /\ balance[<<i, l>>] + nOut = nIn
  BY InventoryAssumption DEF LedgerInv, LedgerReconciles, RecordInv, TypeInv, InventoryTypeOK, Slot
<1>5. balance'[<<i, l>>] = balance[<<i, l>>] + Change(i, l, op)
  BY <1>4 DEF ApplyInventoryOperation
<1>6. op.route[1] # op.route[2]
  BY <1>1 DEF Movement, Route
<1>7. MaxStock \in Nat
  BY InventoryAssumption
<1>8. op.item = i /\ op.route[2] = l => UnitsIn(i, l)' = UnitsIn(i, l) \cup row
  BY <1>1, <1>2, <1>7 DEF UnitsIn
<1>9. ~(op.item = i /\ op.route[2] = l) => UnitsIn(i, l)' = UnitsIn(i, l)
  BY <1>2 DEF UnitsIn
<1>10. op.item = i /\ op.route[1] = l => UnitsOut(i, l)' = UnitsOut(i, l) \cup row
  BY <1>1, <1>2, <1>7 DEF UnitsOut
<1>11. ~(op.item = i /\ op.route[1] = l) => UnitsOut(i, l)' = UnitsOut(i, l)
  BY <1>2 DEF UnitsOut
<1> HIDE DEF row
<1>12. CASE op.item = i /\ op.route[2] = l
  <2>1. Cardinality(UnitsIn(i, l)') = nIn + op.quantity
    BY <1>3, <1>8, <1>12
  <2>2. UnitsOut(i, l)' = UnitsOut(i, l)
    BY <1>6, <1>11, <1>12
  <2>3. Change(i, l, op) = op.quantity
    BY <1>12 DEF Change
  <2> HIDE DEF nIn
  <2> QED
    BY <1>1, <1>3, <1>4, <1>5, <2>1, <2>2, <2>3
<1>13. CASE op.item = i /\ op.route[1] = l
  <2>1. Cardinality(UnitsOut(i, l)') = nOut + op.quantity
    BY <1>3, <1>10, <1>13
  <2>2. UnitsIn(i, l)' = UnitsIn(i, l)
    BY <1>6, <1>9, <1>13
  <2>3. Change(i, l, op) = -op.quantity
    BY <1>6, <1>13 DEF Change
  <2> HIDE DEF nOut
  <2> QED
    BY <1>1, <1>3, <1>4, <1>5, <2>1, <2>2, <2>3
<1>14. CASE ~(op.item = i /\ (op.route[1] = l \/ op.route[2] = l))
  BY <1>1, <1>3, <1>4, <1>5, <1>9, <1>11, <1>14 DEF Change
<1> QED
  BY <1>12, <1>13, <1>14

(* Sales change balance and ledger alike.                                  *)
LEMMA ReconcilesConsume ==
  ASSUME LedgerInv, NEW h \in Holder, Consume(h), NEW i \in Item, NEW l \in Location
  PROVE  balance'[<<i, l>>] + Cardinality(UnitsOut(i, l)') = Cardinality(UnitsIn(i, l)')
<1> DEFINE a == <<h, i, l>>
           out == Outgoing(h)
           nOut == Cardinality(UnitsOut(i, l))
<1>1. movement' = movement \cup {Sale(b) : b \in out}
  BY DEF Consume
<1>2. ASSUME NEW b \in out
      PROVE  /\ b = <<h, b[2], b[3]>> /\ b \in Allocation /\ b[3] # NoLocation
             /\ Sale(b).item = b[2] /\ Sale(b).route = <<b[3], NoLocation>>
             /\ Sale(b).quantity = reservation[b].quantity /\ Sale(b).key = b
  BY InventoryAssumption DEF Outgoing, Allocation, Sale
<1>3. UnitsIn(i, l)' = UnitsIn(i, l)
  <2>1. \A b \in out : Sale(b).route[2] # l
    BY <1>2, InventoryAssumption
  <2> QED
    BY <1>1, <2>1 DEF UnitsIn
<1>4. /\ <<i, l>> \in Slot /\ balance[<<i, l>>] \in Nat
      /\ balance[<<i, l>>] + nOut = Cardinality(UnitsIn(i, l))
  BY InventoryAssumption DEF LedgerInv, LedgerReconciles, RecordInv, TypeInv, InventoryTypeOK, Slot
<1>5. CASE a \in out
  <2> DEFINE q == reservation[a].quantity
             row == {Sale(a)} \X (1..q)
  <2>1. Sale(a) \notin movement
    BY <1>2, <1>5 DEF Consume
  <2>2. q \in 1..MaxStock /\ MaxStock \in Nat /\ q \in Nat
    BY <1>2, <1>5, InventoryAssumption
       DEF Outgoing, LedgerInv, RecordInv, TypeInv, InventoryTypeOK, RowsReserve, Reservation
  <2>3. Sale(a) \in Movement
    <3>1. <<l, NoLocation>> \in Route
      BY InventoryAssumption DEF Route
    <3> QED
      BY <1>2, <1>5, <2>2, <3>1 DEF Movement, Sale
  <2>4. UnitsOut(i, l)' = UnitsOut(i, l) \cup row
    <3>1. \A b \in out : b[2] = i /\ b[3] = l => b = a
      BY <1>2
    <3>2. \A u : u \in UnitsOut(i, l)' => u \in UnitsOut(i, l) \cup row
      BY <1>1, <1>2, <2>2, <3>1 DEF UnitsOut
    <3>3. \A u : u \in UnitsOut(i, l) => u \in UnitsOut(i, l)'
      BY <1>1 DEF UnitsOut
    <3>4. \A u : u \in row => u \in UnitsOut(i, l)'
      BY <1>1, <1>2, <1>5, <2>2 DEF UnitsOut
    <3> QED
      BY <3>2, <3>3, <3>4
  <2>5. nOut \in Nat /\ Cardinality(UnitsOut(i, l) \cup row) = nOut + q
    <3>1. Sale(a).quantity = q
      BY DEF Sale
    <3>2. /\ nOut \in Nat
          /\ Cardinality(UnitsOut(i, l) \cup ({Sale(a)} \X (1..Sale(a).quantity)))
               = nOut + Sale(a).quantity
      BY <2>1, <2>3, InAndOut DEF LedgerInv
    <3> QED
      BY <3>1, <3>2
  <2>6. balance'[<<i, l>>] = balance[<<i, l>>] - q
    BY <1>4, <1>5 DEF Consume
  <2> HIDE DEF q, row
  <2> QED
    BY <1>3, <1>4, <2>2, <2>4, <2>5, <2>6
<1>6. CASE a \notin out
  <2>1. \A b \in out : ~(b[2] = i /\ b[3] = l)
    BY <1>2, <1>6
  <2>2. UnitsOut(i, l)' = UnitsOut(i, l)
    BY <1>1, <1>2, <2>1 DEF UnitsOut
  <2>3. balance'[<<i, l>>] = balance[<<i, l>>]
    BY <1>4, <1>6 DEF Consume
  <2> QED
    BY <1>3, <1>4, <2>2, <2>3
<1> QED
  BY <1>5, <1>6

(* Every step keeps balances and ledger in agreement.                      *)
LEMMA LedgerInvStep == LedgerInv /\ [InventoryNext]_inventoryVars => LedgerInv'
<1> SUFFICES ASSUME LedgerInv, [InventoryNext]_inventoryVars,
                    NEW i \in Item, NEW l \in Location
             PROVE  balance'[<<i, l>>] + Cardinality(UnitsOut(i, l)') = Cardinality(UnitsIn(i, l)')
  BY RecordInvStep DEF LedgerInv, LedgerReconciles
<1>1. ASSUME NEW op \in Operation, ApplyInventoryOperation(op)
      PROVE  balance'[<<i, l>>] + Cardinality(UnitsOut(i, l)') = Cardinality(UnitsIn(i, l)')
  BY <1>1, ReconcilesApply
<1>2. ASSUME NEW h \in Holder, Consume(h)
      PROVE  balance'[<<i, l>>] + Cardinality(UnitsOut(i, l)') = Cardinality(UnitsIn(i, l)')
  BY <1>2, ReconcilesConsume
<1>3. ASSUME movement' = movement, balance' = balance
      PROVE  balance'[<<i, l>>] + Cardinality(UnitsOut(i, l)') = Cardinality(UnitsIn(i, l)')
  BY <1>3 DEF LedgerInv, LedgerReconciles, UnitsIn, UnitsOut
<1>4. CASE \/ EditLocations \/ Tick \/ UNCHANGED inventoryVars
           \/ \E h \in Holder : Hold(h) \/ Confirm(h) \/ Release(h)
  <2>1. movement' = movement /\ balance' = balance
    BY <1>4 DEF EditLocations, Tick, inventoryVars, Hold, Confirm, Release
  <2> QED
    BY <1>3, <2>1
<1> QED
  BY <1>1, <1>2, <1>4 DEF InventoryNext

(* Zero balances agree with the empty ledger.                              *)
LEMMA LedgerInvInit == InventoryInit => LedgerInv
<1> SUFFICES ASSUME InventoryInit, NEW i \in Item, NEW l \in Location
             PROVE  balance[<<i, l>>] + Cardinality(UnitsOut(i, l)) = Cardinality(UnitsIn(i, l))
  BY RecordInvInit DEF LedgerInv, LedgerReconciles
<1>1. UnitsIn(i, l) = {} /\ UnitsOut(i, l) = {}
  BY DEF InventoryInit, UnitsIn, UnitsOut
<1>2. balance[<<i, l>>] = 0
  BY DEF InventoryInit, Slot
<1> QED
  BY <1>1, <1>2, FS_EmptySet

(* reconcileInventory never finds a discrepancy: the balance of a location *)
(* is what the ledger says went in less what went out.                     *)
THEOREM LedgerAgrees == InventorySpec => []LedgerReconciles
<1>1. LedgerInv => LedgerReconciles
  BY DEF LedgerInv
<1> QED
  BY <1>1, LedgerInvInit, LedgerInvStep, PTL DEF InventorySpec
------------------------------------------------------------------------------
(***************************************************************************)
(* History.                                                                *)
(***************************************************************************)
RowKept(a) ==
  reservation[a].status # "NONE" =>
    /\ reservation'[a].quantity = reservation[a].quantity
    /\ reservation[a].status \in {"RELEASED", "CONSUMED"} => reservation'[a] = reservation[a]

(* No step edits the ledger or revives a row.                              *)
LEMMA StepKeepsHistory ==
  ASSUME TypeInv, [InventoryNext]_inventoryVars
  PROVE  movement \subseteq movement' /\ \A a \in Allocation : RowKept(a)
<1>1. \A a \in Allocation : reservation[a] \in Reservation
  BY DEF TypeInv, InventoryTypeOK
<1>2. ASSUME reservation' = reservation, NEW a \in Allocation PROVE RowKept(a)
  BY <1>2 DEF RowKept
<1>3. ASSUME NEW h \in Holder, Hold(h), NEW a \in Allocation PROVE RowKept(a)
  <2>1. PICK take \in [Slot -> 0..MaxStock], expiresAt \in now+1..MaxTime+1,
             status \in {"HELD", "CONFIRMED"} :
          /\ \A s \in Slot : take[s] > 0 =>
               reservation[<<h, s[1], s[2]>>].status = "NONE"
          /\ reservation' = [b \in Allocation |->
               IF b[1] = h /\ take[<<b[2], b[3]>>] > 0
               THEN [status |-> status, quantity |-> take[<<b[2], b[3]>>],
                     expiresAt |-> IF status = "HELD" THEN expiresAt ELSE 0]
               ELSE reservation[b]]
    BY <1>3 DEF Hold
  <2>2. a = <<a[1], a[2], a[3]>> /\ <<a[2], a[3]>> \in Slot
    BY DEF Allocation, Slot
  <2> QED
    BY <2>1, <2>2 DEF RowKept
<1>4. ASSUME NEW h \in Holder, Confirm(h), NEW a \in Allocation PROVE RowKept(a)
  BY <1>1, <1>4 DEF Confirm, Confirmed, RowKept
<1>5. ASSUME NEW h \in Holder, Release(h), NEW a \in Allocation PROVE RowKept(a)
  BY <1>1, <1>5 DEF Release, Released, RowKept, Reservation
<1>6. ASSUME NEW h \in Holder, Consume(h), NEW a \in Allocation PROVE RowKept(a)
  BY <1>1, <1>6 DEF Consume, Outgoing, RowKept, Reservation
<1>7. movement \subseteq movement'
  BY DEF InventoryNext, ApplyInventoryOperation, EditLocations, Tick, Hold, Confirm, Release,
     Consume, inventoryVars
<1>8. CASE \/ \E op \in Operation : ApplyInventoryOperation(op)
           \/ EditLocations \/ Tick \/ UNCHANGED inventoryVars
  <2>1. reservation' = reservation
    BY <1>8 DEF ApplyInventoryOperation, EditLocations, Tick, inventoryVars
  <2> QED
    BY <1>2, <1>7, <2>1
<1> QED
  BY <1>3, <1>4, <1>5, <1>6, <1>7, <1>8 DEF InventoryNext

(* The ledger is append-only; a reservation row never changes quantity and *)
(* a released or consumed row never changes again.                         *)
THEOREM HistoryIsKept == InventorySpec => HistoryKept
<1>1. TypeInv /\ [InventoryNext]_inventoryVars
        => [/\ movement \subseteq movement'
            /\ \A a \in Allocation : reservation[a].status # "NONE" =>
                 /\ reservation'[a].quantity = reservation[a].quantity
                 /\ reservation[a].status \in {"RELEASED", "CONSUMED"}
                      => reservation'[a] = reservation[a]]_inventoryVars
  BY StepKeepsHistory DEF RowKept
<1> QED
  BY <1>1, TypeInvInit, TypeInvStep, PTL DEF InventorySpec, HistoryKept
==============================================================================
