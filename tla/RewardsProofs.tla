---------------------------- MODULE RewardsProofs ----------------------------
(***************************************************************************)
(* Proofs about modules Gacha and Rewards, for any number of banners,      *)
(* versions, prizes, awards and customers: what the pools and the awards   *)
(* hold, and what the customers and the dispatch queue may do to them.     *)
(***************************************************************************)
EXTENDS Rewards, InventoryProofs

(* The row of a unit is of the prize's item, in a published version, and   *)
(* never a mere hold.                                                      *)
PoolRows ==
  \A a \in Allocation : a[1] \in Unit /\ reservation[a].status # "NONE" =>
    /\ a[2] = a[1][2]
    /\ configuration[a[1][1]].banner # None
    /\ reservation[a].status # "HELD"

(* A unit was placed at one location at most.                              *)
OnePlace ==
  \A u \in Unit, k, l \in Location :
    /\ reservation[<<u, u[2], k>>].status # "NONE"
    /\ reservation[<<u, u[2], l>>].status # "NONE"
    => k = l

(* A banner draws from a version of its own.                               *)
VersionsLead ==
  \A b \in Banner : banner[b].configuration # None =>
    configuration[banner[b].configuration].banner = b

(* A reserved row that is not awarded is of a version its banner has now.  *)
PoolLed ==
  \A a \in Allocation :
    a[1] \in Unit /\ reservation[a].status = "CONFIRMED" /\ awarded[a[1]] = None =>
      banner[configuration[a[1][1]].banner].configuration = a[1][1]

(* The state of the unit of an award.                                      *)
UnitStatus(status) ==
  IF status = "RESERVED" THEN "CONFIRMED"
  ELSE IF status = "CONSUMED" THEN "CONSUMED" ELSE "RELEASED"

(* An award has one unit, an award that was not made has none.             *)
Keeps(p, u) ==
  /\ AwardUnits(p) = {u}
  /\ u[1] = pull[p].configuration /\ u[2] = pull[p].item
  /\ \E l \in Location : reservation[<<u, u[2], l>>].status = UnitStatus(pull[p].status)

AwardsHold ==
  \A p \in Pull :
    /\ pull[p].status = "NONE" => AwardUnits(p) = {}
    /\ pull[p].status # "NONE" => \E u \in Unit : Keeps(p, u)

(* The units of an allocation were placed, and no others.                  *)
AllPlaced ==
  \A u \in Unit :
    u[3] <= configuration[u[1]].allocation[u[2]]
      <=> \E l \in Location : reservation[<<u, u[2], l>>].status # "NONE"

PoolInv == PoolRows /\ OnePlace /\ VersionsLead /\ PoolLed /\ AwardsHold /\ AllPlaced

GachaInv == GachaTypeOK /\ RowsReserve /\ PoolInv

(* The parts of a unit and of an allocation.                               *)
LEMMA UnitParts ==
  /\ \A u \in Unit : /\ u = <<u[1], u[2], u[3]>> /\ u \in Holder
                     /\ u[1] \in Configuration /\ u[2] \in Item /\ u[3] \in 1..MaxAllocation
                     /\ u[3] \in Nat
                     /\ \A i \in Item, l \in Location : <<u, i, l>> \in Allocation
  /\ \A a \in Allocation : a = <<a[1], a[2], a[3]>> /\ a[1] \in Holder /\ a[2] \in Item
                           /\ a[3] \in Location
  BY GachaAssumption DEF Unit, Allocation
------------------------------------------------------------------------------
(***************************************************************************)
(* Types.                                                                  *)
(***************************************************************************)
DrawTypes == GachaTypeOK /\ RowsReserve

(* What is inventory's alone keeps the types.                              *)
LEMMA DrawTypesAside ==
  ASSUME DrawTypes, [InventoryNext]_inventoryVars,
         UNCHANGED <<offered, banner, configuration, awarded, pull>>,
         eligible' \subseteq receiving'
  PROVE  DrawTypes'
<1>1. TypeInv'
  BY TypeInvStep DEF DrawTypes, GachaTypeOK, TypeInv
<1> QED
  BY <1>1 DEF DrawTypes, GachaTypeOK, TypeInv

(* The actions of the inventory keep the locations that may receive.       *)
LEMMA WorldTypes ==
  ASSUME DrawTypes, WorldNext
  PROVE  DrawTypes'
<1>1. ASSUME NEW op \in Operation, SubmitOperation(op) PROVE DrawTypes'
  <2>1. InventoryNext /\ UNCHANGED gachaVars /\ receiving' = receiving
    BY <1>1 DEF SubmitOperation, InventoryNext, ApplyInventoryOperation
  <2> QED
    BY <2>1, DrawTypesAside DEF gachaVars, DrawTypes, GachaTypeOK
<1>2. CASE EditTree
  <2>1. InventoryNext
    BY <1>2 DEF EditTree, InventoryNext
  <2> QED
    BY <1>2, <2>1, DrawTypesAside DEF EditTree
<1>3. CASE EditCatalog
  BY <1>3 DEF EditCatalog, DrawTypes, GachaTypeOK, InventoryTypeOK, RowsReserve, inventoryVars
<1>4. CASE PassTime
  <2>1. InventoryNext /\ UNCHANGED gachaVars /\ receiving' = receiving
    BY <1>4 DEF PassTime, InventoryNext, Tick
  <2> QED
    BY <2>1, DrawTypesAside DEF gachaVars, DrawTypes, GachaTypeOK
<1>5. CASE OrderStep
  <2>1. PICK h \in Shopper : Hold(h) \/ Confirm(h) \/ Release(h) \/ Consume(h)
    BY <1>5 DEF OrderStep
  <2>2. receiving' = receiving
    BY <2>1 DEF Hold, Confirm, Release, Consume
  <2>3. InventoryNext
    BY <2>1 DEF InventoryNext, Shopper
  <2> QED
    BY <1>5, <2>2, <2>3, DrawTypesAside DEF OrderStep, gachaVars, DrawTypes, GachaTypeOK
<1> QED
  BY <1>1, <1>2, <1>3, <1>4, <1>5 DEF WorldNext

(* Rows that are released stay well-formed.                                *)
LEMMA WithoutTyped ==
  ASSUME DrawTypes, NEW units, NEW a \in Allocation
  PROVE  /\ WithoutUnits(units)[a] \in Reservation
         /\ WithoutUnits(units)[a].status # "NONE" => WithoutUnits(units)[a].quantity > 0
         /\ WithoutUnits(units)[a].status =
              IF a[1] \in units /\ reservation[a].status = "CONFIRMED" THEN "RELEASED"
              ELSE reservation[a].status
  BY DEF WithoutUnits, DrawTypes, GachaTypeOK, InventoryTypeOK, RowsReserve, Reservation,
     ReservationStatus

(* A banner with a version is typed.                                       *)
LEMMA ConfigureTypes ==
  ASSUME DrawTypes, NEW b \in Banner, NEW c \in Configuration,
         NEW expected \in Configuration \cup {None},
         NEW allocation \in [Item -> 0..MaxAllocation], NEW active \in BOOLEAN,
         NEW window \in Window, Configure(b, expected, c, allocation, active, window)
  PROVE  DrawTypes'
<1>1. ASSUME NEW a \in Allocation
      PROVE  /\ reservation'[a] \in Reservation
             /\ reservation'[a].status # "NONE" => reservation'[a].quantity > 0
  <2>1. [status |-> "CONFIRMED", quantity |-> 1, expiresAt |-> 0] \in Reservation
    BY InventoryAssumption DEF Reservation, ReservationStatus
  <2> QED
    BY <2>1, WithoutTyped DEF Configure
<1>2. reservation' \in [Allocation -> Reservation]
  BY <1>1 DEF Configure
<1>3. [banner |-> b, replaced |-> expected, allocation |-> allocation] \in ConfigurationRecord
  BY DEF ConfigurationRecord
<1>4. [configuration |-> c, active |-> active, window |-> window] \in BannerRecord
  BY DEF BannerRecord
<1>5. configuration' \in [Configuration -> ConfigurationRecord] /\ banner' \in [Banner -> BannerRecord]
  BY <1>3, <1>4 DEF Configure, DrawTypes, GachaTypeOK
<1> QED
  BY <1>1, <1>2, <1>5 DEF Configure, DrawTypes, GachaTypeOK, InventoryTypeOK, RowsReserve

(* Pausing, resuming and releasing change a flag of a banner.              *)
LEMMA FlagTypes ==
  ASSUME DrawTypes, NEW b \in Banner, NEW c \in Configuration,
         Pause(b, c) \/ Resume(b, c) \/ ReleasePool(b, c)
  PROVE  DrawTypes'
<1>1. PICK flag \in BOOLEAN : banner' = [banner EXCEPT ![b].active = flag]
  BY DEF Pause, Resume, ReleasePool
<1>2. banner' \in [Banner -> BannerRecord]
  BY <1>1 DEF DrawTypes, GachaTypeOK, BannerRecord
<1>3. CASE Pause(b, c) \/ Resume(b, c)
  BY <1>2, <1>3 DEF Pause, Resume, inventoryVars, DrawTypes, GachaTypeOK, InventoryTypeOK, RowsReserve
<1>4. CASE ReleasePool(b, c)
  <2>1. reservation' = WithoutUnits(PoolUnits(c))
    BY <1>4 DEF ReleasePool
  <2>2. reservation' \in [Allocation -> Reservation] /\ RowsReserve'
    BY <2>1, WithoutTyped DEF WithoutUnits, RowsReserve
  <2> QED
    BY <1>2, <1>4, <2>2 DEF ReleasePool, DrawTypes, GachaTypeOK, InventoryTypeOK
<1> QED
  BY <1>3, <1>4

(* An award is typed.                                                      *)
LEMMA AwardTypes ==
  ASSUME DrawTypes, NEW b \in Banner, NEW asked \in Configuration \cup {None},
         NEW key \in GrantKey \cup {None}, NEW p \in Pull, Award(b, asked, key, p)
  PROVE  DrawTypes'
<1>1. PICK i \in Item, u \in Unit :
        /\ awarded' = [awarded EXCEPT ![u] = p]
        /\ pull' = [pull EXCEPT ![p] =
             [status |-> "RESERVED", banner |-> b, configuration |-> banner[b].configuration,
              asked |-> asked, item |-> i, key |-> key]]
  BY DEF Award, Prizes, Remaining, PoolUnits
<1>2. banner[b].configuration \in Configuration \cup {None}
  BY DEF DrawTypes, GachaTypeOK, BannerRecord
<1>3. [status |-> "RESERVED", banner |-> b, configuration |-> banner[b].configuration,
       asked |-> asked, item |-> i, key |-> key] \in PullRecord
  BY <1>2 DEF PullRecord, PullStatus
<1>4. awarded' \in [Unit -> Pull \cup {None}] /\ pull' \in [Pull -> PullRecord]
  BY <1>1, <1>3 DEF DrawTypes, GachaTypeOK
<1> QED
  BY <1>4 DEF Award, inventoryVars, DrawTypes, GachaTypeOK, InventoryTypeOK, RowsReserve

(* Closing an award keeps the types.                                       *)
LEMMA CloseTypes ==
  ASSUME DrawTypes, NEW p \in Pull, ConsumeAward(p) \/ CancelAward(p)
  PROVE  DrawTypes'
<1>1. PICK status \in PullStatus : pull' = [pull EXCEPT ![p].status = status]
  BY DEF ConsumeAward, CancelAward, PullStatus
<1>2. pull' \in [Pull -> PullRecord]
  BY <1>1 DEF DrawTypes, GachaTypeOK, PullRecord
<1>3. PICK u \in Unit : Consume(u) \/ Release(u)
  BY DEF ConsumeAward, CancelAward, AwardUnits, Release
<1>4. InventoryNext /\ receiving' = receiving
  BY <1>3, UnitParts DEF InventoryNext, Consume, Release
<1>5. TypeInv'
  BY <1>4, TypeInvStep DEF DrawTypes, GachaTypeOK, TypeInv
<1> QED
  BY <1>2, <1>4, <1>5 DEF ConsumeAward, CancelAward, DrawTypes, GachaTypeOK, TypeInv
------------------------------------------------------------------------------
(***************************************************************************)
(* Pools and awards.                                                       *)
(***************************************************************************)
UnitRowsKept == \A a \in Allocation : a[1] \in Unit => reservation'[a] = reservation[a]

(* Where no row of a unit, no version and no award changes, and banners    *)
(* keep their versions, the pools and awards stand as they are.            *)
LEMMA PoolAside ==
  ASSUME PoolInv, UnitRowsKept, UNCHANGED <<configuration, awarded, pull>>,
         \A b \in Banner : banner'[b].configuration = banner[b].configuration,
         \A c \in Configuration : configuration[c].banner \in Banner \cup {None}
  PROVE  PoolInv'
<1>1. \A u \in Unit, l \in Location :
        reservation'[<<u, u[2], l>>] = reservation[<<u, u[2], l>>]
  BY UnitParts DEF UnitRowsKept
<1>2. PoolRows' /\ VersionsLead'
  BY DEF UnitRowsKept, PoolInv, PoolRows, VersionsLead
<1>3. OnePlace'
  BY <1>1 DEF PoolInv, OnePlace
<1>4. PoolLed'
  <2> SUFFICES ASSUME NEW a \in Allocation, a[1] \in Unit, reservation'[a].status = "CONFIRMED",
                      awarded'[a[1]] = None
               PROVE  banner'[configuration'[a[1][1]].banner].configuration = a[1][1]
    BY DEF PoolLed
  <2>1. reservation[a].status = "CONFIRMED" /\ awarded[a[1]] = None
    BY DEF UnitRowsKept
  <2>2. /\ banner[configuration[a[1][1]].banner].configuration = a[1][1]
        /\ configuration[a[1][1]].banner # None
    BY <2>1 DEF PoolInv, PoolLed, PoolRows
  <2>3. configuration[a[1][1]].banner \in Banner
    BY <2>2, UnitParts
  <2> QED
    BY <2>2, <2>3
<1>5. AwardsHold'
  BY <1>1 DEF PoolInv, AwardsHold, Keeps, AwardUnits
<1>6. AllPlaced'
  BY <1>1 DEF PoolInv, AllPlaced
<1> QED
  BY <1>2, <1>3, <1>4, <1>5, <1>6 DEF PoolInv

(* What the shop does to its own holders touches no unit.                  *)
LEMMA OrdersKeepUnits ==
  ASSUME NEW h \in Shopper, Hold(h) \/ Confirm(h) \/ Release(h) \/ Consume(h)
  PROVE  UnitRowsKept
<1> SUFFICES ASSUME NEW a \in Allocation, a[1] \in Unit PROVE reservation'[a] = reservation[a]
  BY DEF UnitRowsKept
<1>1. a[1] # h
  BY DEF Shopper
<1>2. CASE Hold(h)
  BY <1>1, <1>2 DEF Hold
<1>3. CASE Confirm(h)
  BY <1>1, <1>3 DEF Confirm, Confirmed
<1>4. CASE Release(h)
  BY <1>1, <1>4 DEF Release, Released
<1>5. CASE Consume(h)
  BY <1>1, <1>5 DEF Consume, Outgoing
<1> QED
  BY <1>2, <1>3, <1>4, <1>5

(* Nothing around the draws disturbs them.                                 *)
LEMMA PoolWorld ==
  ASSUME GachaInv, WorldNext
  PROVE  PoolInv'
<1>1. UnitRowsKept
  <2>1. CASE OrderStep
    BY <2>1, OrdersKeepUnits DEF OrderStep
  <2>2. CASE ~OrderStep
    <3>1. reservation' = reservation
      BY <2>2 DEF WorldNext, SubmitOperation, ApplyInventoryOperation, EditTree, EditLocations,
         EditCatalog, inventoryVars, PassTime, Tick
    <3> QED
      BY <3>1 DEF UnitRowsKept
  <2> QED
    BY <2>1, <2>2
<1>2. UNCHANGED <<banner, configuration, awarded, pull>>
  BY DEF WorldNext, SubmitOperation, EditTree, EditCatalog, PassTime, OrderStep, gachaVars
<1>3. \A c \in Configuration : configuration[c].banner \in Banner \cup {None}
  BY DEF GachaInv, GachaTypeOK, ConfigurationRecord
<1> QED
  BY <1>1, <1>2, <1>3, PoolAside DEF GachaInv

(* Pausing and resuming leave the pools alone.                             *)
LEMMA PoolFlag ==
  ASSUME GachaInv, NEW b \in Banner, NEW c \in Configuration, Pause(b, c) \/ Resume(b, c)
  PROVE  PoolInv'
<1>1. UnitRowsKept /\ UNCHANGED <<configuration, awarded, pull>>
  BY DEF Pause, Resume, UnitRowsKept, inventoryVars
<1>2. PICK flag \in BOOLEAN : banner' = [banner EXCEPT ![b].active = flag]
  BY DEF Pause, Resume
<1>3. \A d \in Banner : banner'[d].configuration = banner[d].configuration
  BY <1>2 DEF GachaInv, GachaTypeOK, BannerRecord
<1>4. \A d \in Configuration : configuration[d].banner \in Banner \cup {None}
  BY DEF GachaInv, GachaTypeOK, ConfigurationRecord
<1> QED
  BY <1>1, <1>3, <1>4, PoolAside DEF GachaInv

(* The units of a pool are not awarded.                                    *)
LEMMA PoolUnawarded ==
  /\ \A c \in Configuration : PoolUnits(c) \subseteq Unit
                              /\ \A u \in PoolUnits(c) : awarded[u] = None /\ u[1] = c
  /\ \A b \in Banner : \A u \in CurrentPool(b) :
       u \in Unit /\ awarded[u] = None /\ u[1] = banner[b].configuration
  BY DEF PoolUnits, CurrentPool

(* A reserved row that is not awarded is of a unit of the pool.            *)
LEMMA RowInPool ==
  ASSUME GachaInv, NEW a \in Allocation, a[1] \in Unit, reservation[a].status = "CONFIRMED",
         awarded[a[1]] = None
  PROVE  a[1] \in PoolUnits(a[1][1])
<1>1. a[2] = a[1][2]
  BY DEF GachaInv, PoolInv, PoolRows
<1>2. a = <<a[1], a[1][2], a[3]>> /\ a[3] \in Location
  BY <1>1, UnitParts
<1>3. a[3] \in Places(a[1], {"CONFIRMED"})
  BY <1>2 DEF Places
<1> QED
  BY <1>3 DEF PoolUnits

(* Releasing a pool gives up rows that are not awarded.                    *)
LEMMA PoolReleased ==
  ASSUME GachaInv, NEW b \in Banner, NEW c \in Configuration, ReleasePool(b, c)
  PROVE  PoolInv'
<1> DEFINE gone == PoolUnits(c)
<1>1. \A a \in Allocation :
        reservation'[a].status = IF a[1] \in gone /\ reservation[a].status = "CONFIRMED"
                                 THEN "RELEASED" ELSE reservation[a].status
  BY WithoutTyped DEF ReleasePool, GachaInv, DrawTypes
<1>2. \A u \in gone : u \in Unit /\ awarded[u] = None /\ u[1] = c
  BY PoolUnawarded
<1>3. \A d \in Banner : banner'[d].configuration = banner[d].configuration
  BY DEF ReleasePool, GachaInv, GachaTypeOK, BannerRecord
<1>4. UNCHANGED <<configuration, awarded, pull>>
  BY DEF ReleasePool
<1> HIDE DEF gone
<1>5. PoolRows' /\ VersionsLead'
  BY <1>1, <1>3, <1>4 DEF GachaInv, PoolInv, PoolRows, VersionsLead
<1>6. \A u \in Unit, l \in Location :
        reservation'[<<u, u[2], l>>].status # "NONE" <=> reservation[<<u, u[2], l>>].status # "NONE"
  BY <1>1, UnitParts
<1>7. OnePlace' /\ AllPlaced'
  BY <1>4, <1>6 DEF GachaInv, PoolInv, OnePlace, AllPlaced
<1>8. PoolLed'
  <2> SUFFICES ASSUME NEW a \in Allocation, a[1] \in Unit, reservation'[a].status = "CONFIRMED",
                      awarded'[a[1]] = None
               PROVE  banner'[configuration'[a[1][1]].banner].configuration = a[1][1]
    BY DEF PoolLed
  <2>1. reservation[a].status = "CONFIRMED" /\ awarded[a[1]] = None
    BY <1>1, <1>4
  <2>2. /\ banner[configuration[a[1][1]].banner].configuration = a[1][1]
        /\ configuration[a[1][1]].banner # None
    BY <2>1 DEF GachaInv, PoolInv, PoolLed, PoolRows
  <2>3. configuration[a[1][1]].banner \in Banner
    BY <2>2, UnitParts DEF GachaInv, GachaTypeOK, ConfigurationRecord
  <2> QED
    BY <1>3, <1>4, <2>2, <2>3
<1>9. AwardsHold'
  <2>1. \A p \in Pull, u \in Unit : awarded[u] = p =>
          \A l \in Location : reservation'[<<u, u[2], l>>].status
                                = reservation[<<u, u[2], l>>].status
    BY <1>1, <1>2, GachaAssumption, UnitParts
  <2>2. ASSUME NEW p \in Pull, NEW u \in Unit, Keeps(p, u) PROVE Keeps(p, u)'
    <3>1. awarded[u] = p
      BY <2>2 DEF Keeps, AwardUnits
    <3> QED
      BY <1>4, <2>1, <2>2, <3>1 DEF Keeps, AwardUnits
  <2> QED
    BY <1>4, <2>2 DEF GachaInv, PoolInv, AwardsHold, AwardUnits
<1> QED
  BY <1>5, <1>7, <1>8, <1>9 DEF PoolInv

(* An award takes a unit of the pool; no row changes.                      *)
LEMMA PoolAwarded ==
  ASSUME GachaInv, NEW b \in Banner, NEW asked \in Configuration \cup {None},
         NEW key \in GrantKey \cup {None}, NEW p \in Pull, Award(b, asked, key, p)
  PROVE  PoolInv'
<1> DEFINE c == banner[b].configuration
<1>1. c \in Configuration
  BY DEF Award, Ready, GachaInv, GachaTypeOK, BannerRecord
<1>2. PICK i \in Prizes(c) : \E u \in Remaining(c, i) :
        /\ awarded' = [awarded EXCEPT ![u] = p]
        /\ pull' = [pull EXCEPT ![p] =
             [status |-> "RESERVED", banner |-> b, configuration |-> c, asked |-> asked,
              item |-> i, key |-> key]]
  BY DEF Award
<1>3. PICK u \in Remaining(c, i) :
        /\ awarded' = [awarded EXCEPT ![u] = p]
        /\ pull' = [pull EXCEPT ![p] =
             [status |-> "RESERVED", banner |-> b, configuration |-> c, asked |-> asked,
              item |-> i, key |-> key]]
  BY <1>2
<1>4. /\ u \in Unit /\ u[1] = c /\ u[2] = i /\ awarded[u] = None
      /\ \E l \in Location : reservation[<<u, u[2], l>>].status = "CONFIRMED"
  BY <1>1 DEF Remaining, PoolUnits, Places
<1>5. UNCHANGED <<reservation, banner, configuration>> /\ pull[p].status = "NONE"
  BY DEF Award, inventoryVars, NoPull
<1>6. PoolRows' /\ OnePlace' /\ VersionsLead' /\ AllPlaced'
  BY <1>5 DEF GachaInv, PoolInv, PoolRows, OnePlace, VersionsLead, AllPlaced
<1>7. \A v \in Unit : awarded'[v] = IF v = u THEN p ELSE awarded[v]
  BY <1>3, <1>4 DEF GachaInv, GachaTypeOK
<1>8. PoolLed'
  BY <1>5, <1>7, GachaAssumption DEF GachaInv, PoolInv, PoolLed
<1>9. AwardsHold'
  <2>1. AwardUnits(p) = {}
    BY <1>5 DEF GachaInv, PoolInv, AwardsHold
  <2>2. AwardUnits(p)' = {u}
    BY <1>4, <1>7, <2>1 DEF AwardUnits
  <2>3. /\ pull'[p].status = "RESERVED" /\ pull'[p].configuration = c /\ pull'[p].item = i
    BY <1>3 DEF GachaInv, GachaTypeOK
  <2>4. Keeps(p, u)'
    BY <1>4, <1>5, <2>2, <2>3 DEF Keeps, UnitStatus
  <2>5. ASSUME NEW q \in Pull, q # p
        PROVE  /\ pull'[q] = pull[q] /\ AwardUnits(q)' = AwardUnits(q)
    <3>1. \A v \in Unit : awarded'[v] = q <=> awarded[v] = q
      BY <1>4, <1>7, <2>5, GachaAssumption
    <3> QED
      BY <1>3, <2>5, <3>1 DEF AwardUnits, GachaInv, GachaTypeOK
  <2>6. ASSUME NEW q \in Pull
        PROVE  /\ pull'[q].status = "NONE" => AwardUnits(q)' = {}
               /\ pull'[q].status # "NONE" => \E v \in Unit : Keeps(q, v)'
    <3>1. CASE q = p
      BY <1>4, <2>3, <2>4, <3>1
    <3>2. CASE q # p
      BY <1>5, <2>5, <3>2 DEF GachaInv, PoolInv, AwardsHold, Keeps
    <3> QED
      BY <3>1, <3>2
  <2> QED
    BY <2>6 DEF AwardsHold
<1> QED
  BY <1>6, <1>8, <1>9 DEF PoolInv

(* Closing an award changes the state of its unit and of no other.         *)
LEMMA PoolClosed ==
  ASSUME GachaInv, NEW p \in Pull, ConsumeAward(p) \/ CancelAward(p)
  PROVE  PoolInv'
<1>1. PICK u \in AwardUnits(p), status \in {"CONSUMED", "CANCELLED"} :
        /\ pull' = [pull EXCEPT ![p].status = status]
        /\ \A a \in Allocation :
             reservation'[a].status =
               IF a[1] = u /\ reservation[a].status = "CONFIRMED" THEN UnitStatus(status)
               ELSE reservation[a].status
  <2>1. CASE ConsumeAward(p)
    <3>1. PICK u \in AwardUnits(p) : Consume(u)
      BY <2>1 DEF ConsumeAward
    <3>2. \A a \in Allocation :
            reservation'[a].status =
              IF a[1] = u /\ reservation[a].status = "CONFIRMED" THEN "CONSUMED"
              ELSE reservation[a].status
      BY <3>1 DEF Consume, Outgoing, GachaInv, GachaTypeOK, InventoryTypeOK, Reservation
    <3> QED
      BY <2>1, <3>2 DEF ConsumeAward, UnitStatus
  <2>2. CASE CancelAward(p)
    <3>1. PICK u \in AwardUnits(p) : reservation' = Released(u)
      BY <2>2 DEF CancelAward
    <3>2. u \in Unit
      BY DEF AwardUnits
    <3>3. \A a \in Allocation :
            reservation'[a].status =
              IF a[1] = u /\ reservation[a].status = "CONFIRMED" THEN "RELEASED"
              ELSE reservation[a].status
      BY <3>1, <3>2 DEF Released, GachaInv, GachaTypeOK, InventoryTypeOK, Reservation, PoolInv,
         PoolRows
    <3> QED
      BY <2>2, <3>3 DEF CancelAward, UnitStatus
  <2> QED
    BY <2>1, <2>2
<1>2. u \in Unit /\ awarded[u] = p
  BY DEF AwardUnits
<1>3. UNCHANGED <<banner, configuration, awarded>> /\ pull[p].status = "RESERVED"
  BY DEF ConsumeAward, CancelAward, Open
<1>4. UnitStatus(status) \in {"CONSUMED", "RELEASED"}
  BY DEF UnitStatus
<1>5. PoolRows' /\ VersionsLead'
  BY <1>1, <1>3, <1>4 DEF GachaInv, PoolInv, PoolRows, VersionsLead
<1>6. \A v \in Unit, l \in Location :
        reservation'[<<v, v[2], l>>].status # "NONE" <=> reservation[<<v, v[2], l>>].status # "NONE"
  BY <1>1, <1>4, UnitParts
<1>7. OnePlace' /\ AllPlaced'
  BY <1>3, <1>6 DEF GachaInv, PoolInv, OnePlace, AllPlaced
<1>8. PoolLed'
  BY <1>1, <1>3, <1>4 DEF GachaInv, PoolInv, PoolLed
<1>9. AwardsHold'
  <2>1. /\ pull'[p].status = status /\ pull'[p].configuration = pull[p].configuration
        /\ pull'[p].item = pull[p].item
        /\ \A q \in Pull : q # p => pull'[q] = pull[q]
    BY <1>1 DEF GachaInv, GachaTypeOK, PullRecord
  <2>2. \A q \in Pull : AwardUnits(q)' = AwardUnits(q)
    BY <1>3 DEF AwardUnits
  <2>3. Keeps(p, u)'
    <3>1. PICK v \in Unit : Keeps(p, v)
      BY <1>3 DEF GachaInv, PoolInv, AwardsHold
    <3>2. v = u
      BY <1>2, <3>1 DEF Keeps, AwardUnits
    <3>3. PICK l \in Location : reservation[<<u, u[2], l>>].status = "CONFIRMED"
      BY <1>3, <3>1, <3>2 DEF Keeps, UnitStatus
    <3>4. reservation'[<<u, u[2], l>>].status = UnitStatus(status)
      BY <1>1, <1>2, <3>3, UnitParts
    <3> QED
      BY <2>1, <2>2, <3>1, <3>2, <3>4 DEF Keeps
  <2>4. ASSUME NEW q \in Pull, q # p, NEW v \in Unit, Keeps(q, v) PROVE Keeps(q, v)'
    <3>1. v # u
      BY <1>2, <2>4 DEF Keeps, AwardUnits
    <3>2. \A l \in Location : reservation'[<<v, v[2], l>>].status
                                = reservation[<<v, v[2], l>>].status
      BY <1>1, <3>1, UnitParts
    <3> QED
      BY <2>1, <2>2, <2>4, <3>2 DEF Keeps
  <2>5. ASSUME NEW q \in Pull
        PROVE  /\ pull'[q].status = "NONE" => AwardUnits(q)' = {}
               /\ pull'[q].status # "NONE" => \E v \in Unit : Keeps(q, v)'
    <3>1. CASE q = p
      BY <1>2, <2>1, <2>3, <3>1
    <3>2. CASE q # p
      BY <2>1, <2>2, <2>4, <3>2 DEF GachaInv, PoolInv, AwardsHold
    <3> QED
      BY <3>1, <3>2
  <2> QED
    BY <2>5 DEF AwardsHold
<1> QED
  BY <1>5, <1>7, <1>8, <1>9 DEF PoolInv
------------------------------------------------------------------------------
(***************************************************************************)
(* Placing the units of a prize.                                           *)
(***************************************************************************)

(* The locations before number n, and the free units found there.          *)
Earlier(n) == {k \in Location : k < n}
Found(old, i, n) == Cardinality(FreeFor(old, i, Earlier(n)))

(* What is free at some locations is a number.                             *)
LEMMA FreeForFinite ==
  ASSUME NEW old, NEW i, NEW L \in SUBSET Location
  PROVE  IsFiniteSet(FreeFor(old, i, L)) /\ Cardinality(FreeFor(old, i, L)) \in Nat
<1>1. IsFiniteSet(1..MaxStock)
  BY FS_Interval, InventoryAssumption
<1>2. IsFiniteSet(Location \X (1..MaxStock))
  BY <1>1, FS_Product, InventoryAssumption
<1>3. FreeFor(old, i, L) \subseteq Location \X (1..MaxStock)
  BY DEF FreeFor
<1> QED
  BY <1>2, <1>3, FS_Subset, FS_CardinalityType

(* No more is free than there is.                                          *)
LEMMA FreeBesideIsInt ==
  ASSUME GachaTypeOK, NEW old, NEW i \in Item, NEW l \in Location
  PROVE  FreeBeside(old, i, l) \in Int /\ FreeBeside(old, i, l) <= MaxStock
<1>1. ReservedUnits(Holder \ old, i, l) \in SUBSET (Holder \X (1..MaxStock))
  BY DEF ReservedUnits
<1>2. Cardinality(ReservedUnits(Holder \ old, i, l)) \in Nat
  BY <1>1, UnitsAreFinite
<1>3. balance[<<i, l>>] \in 0..MaxStock /\ MaxStock \in Nat
  BY InventoryAssumption DEF GachaTypeOK, InventoryTypeOK, Slot
<1> QED
  BY <1>2, <1>3 DEF FreeBeside

(* More locations have no less.                                            *)
LEMMA FoundMore ==
  ASSUME NEW old, NEW i, NEW m \in Nat, NEW n \in Nat, m <= n
  PROVE  Found(old, i, m) <= Found(old, i, n)
<1>1. \A k \in Location : k \in Nat
  BY InventoryAssumption
<1>2. Earlier(m) \subseteq Earlier(n) /\ Earlier(n) \in SUBSET Location
  BY <1>1 DEF Earlier
<1>3. FreeFor(old, i, Earlier(m)) \subseteq FreeFor(old, i, Earlier(n))
  BY <1>2 DEF FreeFor
<1> QED
  BY <1>2, <1>3, FreeForFinite, FS_Subset DEF Found

(* One more location adds what it has free.                                *)
LEMMA FoundOneMore ==
  ASSUME GachaTypeOK, NEW old, NEW i \in Item, NEW l \in Nat
  PROVE  /\ (l \in Location \cap eligible /\ FreeBeside(old, i, l) > 0)
              => Found(old, i, l + 1) = Found(old, i, l) + FreeBeside(old, i, l)
         /\ ~(l \in Location \cap eligible /\ FreeBeside(old, i, l) > 0)
              => Found(old, i, l + 1) = Found(old, i, l)
<1> DEFINE S == FreeFor(old, i, Earlier(l))
           T == FreeFor(old, i, Earlier(l + 1))
           f == FreeBeside(old, i, l)
<1>1. \A k \in Location : k \in Nat
  BY InventoryAssumption
<1>2. Earlier(l + 1) = Earlier(l) \cup ({l} \cap Location)
  BY <1>1 DEF Earlier
<1>3. Earlier(l) \in SUBSET Location /\ l \notin Earlier(l)
  BY DEF Earlier
<1>4. IsFiniteSet(S) /\ \A u \in S : u[1] # l
  BY <1>3, FreeForFinite DEF FreeFor
<1>5. CASE l \in Location \cap eligible /\ f > 0
  <2>1. f \in 1..MaxStock /\ f \in Nat /\ MaxStock \in Nat
    BY <1>5, FreeBesideIsInt, InventoryAssumption
  <2>2. ASSUME NEW u
        PROVE  u \in T <=> u \in S \/ u \in {l} \X (1..f)
    <3>1. CASE u \in (Location \cap eligible) \X (1..MaxStock)
      <4>1. u = <<u[1], u[2]>> /\ u[1] \in Location /\ u[1] \in eligible /\ u[2] \in 1..MaxStock
        BY <3>1
      <4>2. CASE u[1] = l
        <5>1. u \in T <=> u[2] <= f
          BY <1>2, <1>5, <4>1, <4>2 DEF FreeFor
        <5>2. u \notin S
          BY <1>4, <4>2
        <5>3. u[2] <= f <=> u[2] \in 1..f
          BY <2>1, <4>1
        <5>4. u \in {l} \X (1..f) <=> u[2] \in 1..f
          BY <4>1, <4>2
        <5> QED
          BY <5>1, <5>2, <5>3, <5>4
      <4>3. CASE u[1] # l
        <5>1. u[1] \in Earlier(l + 1) <=> u[1] \in Earlier(l)
          BY <1>2, <4>3
        <5> QED
          BY <4>1, <4>3, <5>1 DEF FreeFor
      <4> QED
        BY <4>2, <4>3
    <3>2. CASE u \notin (Location \cap eligible) \X (1..MaxStock)
      <4>1. u \notin S /\ u \notin T
        BY <1>2, <1>3, <3>2 DEF FreeFor
      <4>2. u \notin {l} \X (1..f)
        BY <1>5, <2>1, <3>2
      <4> QED
        BY <4>1, <4>2
    <3> QED
      BY <3>1, <3>2
  <2>3. T = S \cup ({l} \X (1..f))
    BY <2>2
  <2> HIDE DEF S, T, f
  <2>4. Cardinality(T) = Cardinality(S) + f
    BY <1>4, <2>1, <2>3, MovementAdds
  <2> QED
    BY <1>5, <2>4 DEF S, T, f, Found
<1>6. CASE ~(l \in Location \cap eligible /\ f > 0)
  <2>1. ASSUME NEW u \in T PROVE u \in S
    <3>1. /\ u \in (Location \cap eligible) \X (1..MaxStock) /\ u[1] \in Earlier(l + 1)
          /\ u[2] <= FreeBeside(old, i, u[1]) /\ u[2] \in 1..MaxStock
      BY <1>2, <1>3, <2>1 DEF FreeFor
    <3>2. u[1] # l
      <4>1. CASE u[1] = l
        <5>1. l \in Location \cap eligible /\ f \in Int
          BY <3>1, <4>1, FreeBesideIsInt
        <5> QED
          BY <1>6, <3>1, <4>1, <5>1, InventoryAssumption
      <4> QED
        BY <4>1
    <3> QED
      BY <1>2, <3>1, <3>2 DEF FreeFor
  <2>2. S \subseteq T
    BY <1>2 DEF FreeFor
  <2>3. S = T
    BY <2>1, <2>2
  <2> QED
    BY <1>6, <2>3 DEF Found
<1> QED
  BY <1>5, <1>6

(* The location a unit is placed at, and nowhere else.                     *)
LEMMA PlacedOnce ==
  ASSUME GachaTypeOK, NEW old, NEW i \in Item, NEW n \in Nat, NEW k \in Location, NEW l \in Location,
         PlacedAt(old, i, k, n), PlacedAt(old, i, l, n)
  PROVE  k = l
<1>1. \A j, m \in Location : PlacedAt(old, i, j, n) /\ PlacedAt(old, i, m, n) => ~(j < m)
  <2> SUFFICES ASSUME NEW j \in Location, NEW m \in Location, PlacedAt(old, i, j, n),
                      PlacedAt(old, i, m, n), j < m
               PROVE  FALSE
    OBVIOUS
  <2>1. j \in Nat /\ m \in Nat /\ FreeBeside(old, i, j) \in Int
    BY InventoryAssumption, FreeBesideIsInt
  <2>2. \A q \in Nat : Found(old, i, q) \in Nat
    BY FreeForFinite DEF Found, Earlier
  <2>3. /\ j \in eligible /\ Found(old, i, j) < n
        /\ n <= Found(old, i, j) + FreeBeside(old, i, j)
        /\ Found(old, i, m) < n
    BY DEF PlacedAt, Found, Earlier
  <2>4. FreeBeside(old, i, j) > 0
    BY <2>1, <2>2, <2>3
  <2>5. Found(old, i, j + 1) = Found(old, i, j) + FreeBeside(old, i, j)
    BY <2>1, <2>3, <2>4, FoundOneMore
  <2>6. Found(old, i, j + 1) <= Found(old, i, m)
    BY <2>1, FoundMore
  <2> QED
    BY <2>1, <2>2, <2>3, <2>5, <2>6
<1> QED
  BY <1>1, InventoryAssumption

(* Where enough is free, every unit finds a place.                         *)
LEMMA PlacedSomewhere ==
  ASSUME GachaTypeOK, NEW old, NEW i \in Item, NEW n \in Nat \ {0},
         n <= Cardinality(FreeFor(old, i, Location))
  PROVE  \E l \in Location : PlacedAt(old, i, l, n)
<1> DEFINE Enough == {m \in Nat : n <= Found(old, i, m)}
<1>1. \A m \in Nat : Found(old, i, m) \in Nat
  BY FreeForFinite DEF Found, Earlier
<1>2. PICK b \in Nat : \A l \in Location : l < b
  BY InventoryAssumption, FiniteIsBounded
<1>3. b \in Enough
  <2>1. Earlier(b) = Location
    BY <1>2 DEF Earlier
  <2> QED
    BY <2>1 DEF Found
<1>4. PICK m \in Enough : \A q \in Enough : m <= q
  BY <1>3, LeastNat
<1>5. m # 0
  <2>1. \A k \in Location : k \in Nat
    BY InventoryAssumption
  <2>2. Earlier(0) = {}
    BY <2>1 DEF Earlier
  <2>3. FreeFor(old, i, Earlier(0)) = {}
    BY <2>2 DEF FreeFor
  <2>4. Found(old, i, 0) = 0
    BY <2>3, FS_EmptySet DEF Found
  <2> QED
    BY <2>4
<1> DEFINE l == m - 1
<1>6. l \in Nat /\ m = l + 1
  BY <1>5
<1>7. Found(old, i, l) < n
  BY <1>1, <1>4, <1>6
<1>8. n <= Found(old, i, l + 1)
  BY <1>6
<1> HIDE DEF l
<1>9. /\ l \in Location \cap eligible
      /\ Found(old, i, l + 1) = Found(old, i, l) + FreeBeside(old, i, l)
  BY <1>1, <1>6, <1>7, <1>8, FoundOneMore
<1>10. PlacedAt(old, i, l, n)
  BY <1>7, <1>8, <1>9 DEF PlacedAt, Found, Earlier
<1> QED
  BY <1>9, <1>10

(* A new version places its whole allocation, each unit once; the units    *)
(* that are not awarded of the version before are given up.                *)
LEMMA PoolConfigured ==
  ASSUME GachaInv, NEW b \in Banner, NEW c \in Configuration,
         NEW expected \in Configuration \cup {None},
         NEW allocation \in [Item -> 0..MaxAllocation], NEW active \in BOOLEAN,
         NEW window \in Window, Configure(b, expected, c, allocation, active, window)
  PROVE  PoolInv'
<1> DEFINE old == CurrentPool(b)
           New(a) == /\ a[1] \in Unit /\ a[1][1] = c /\ a[1][2] = a[2]
                     /\ a[1][3] <= allocation[a[2]]
                     /\ PlacedAt(old, a[2], a[3], a[1][3])
<1>1. /\ configuration[c] = NoConfiguration /\ Backed(old, allocation)
      /\ UNCHANGED <<awarded, pull>>
  BY DEF Configure
<1>2. \A a \in Allocation :
        reservation'[a].status = IF New(a) THEN "CONFIRMED"
                                 ELSE IF a[1] \in old /\ reservation[a].status = "CONFIRMED"
                                 THEN "RELEASED" ELSE reservation[a].status
  BY WithoutTyped DEF Configure, GachaInv, DrawTypes
<1>3. /\ \A d \in Configuration : configuration'[d] =
           IF d = c THEN [banner |-> b, replaced |-> expected, allocation |-> allocation]
           ELSE configuration[d]
      /\ \A d \in Banner : banner'[d].configuration = IF d = b THEN c ELSE banner[d].configuration
  BY DEF Configure, GachaInv, GachaTypeOK
<1>4. \A a \in Allocation : a[1] \in Unit /\ a[1][1] = c => reservation[a].status = "NONE"
  BY <1>1 DEF GachaInv, PoolInv, PoolRows, NoConfiguration
<1>5. \A u \in old : u \in Unit /\ awarded[u] = None /\ u[1] = banner[b].configuration
  BY PoolUnawarded
<1>6. \A d \in Configuration : configuration[d].banner \in Banner \cup {None}
  BY DEF GachaInv, GachaTypeOK, ConfigurationRecord
<1>7. \A d \in Banner : banner[d].configuration \in Configuration \cup {None}
  BY DEF GachaInv, GachaTypeOK, BannerRecord
<1>8. \A d \in Banner : banner[d].configuration # c
  BY <1>1, GachaAssumption DEF GachaInv, PoolInv, VersionsLead, NoConfiguration
<1>9. \A a \in Allocation : New(a) => a[1] \in Unit /\ a[1][1] = c /\ a[1][2] = a[2]
  OBVIOUS
<1>10. \A u \in Unit, l \in Location :
         /\ <<u, u[2], l>> \in Allocation
         /\ New(<<u, u[2], l>>) <=> /\ u[1] = c /\ u[3] <= allocation[u[2]]
                                    /\ PlacedAt(old, u[2], l, u[3])
  BY UnitParts
<1> HIDE DEF New, old
<1>11. PoolRows'
  <2> SUFFICES ASSUME NEW a \in Allocation, a[1] \in Unit, reservation'[a].status # "NONE"
               PROVE  /\ a[2] = a[1][2] /\ configuration'[a[1][1]].banner # None
                      /\ reservation'[a].status # "HELD"
    BY DEF PoolRows
  <2>1. a[1][1] \in Configuration
    BY UnitParts
  <2>2. CASE New(a)
    BY <1>2, <1>3, <1>9, <2>1, <2>2, GachaAssumption
  <2>3. CASE ~New(a)
    <3>1. reservation[a].status # "NONE"
      BY <1>2, <2>3
    <3> QED
      BY <1>2, <1>3, <1>4, <2>1, <2>3, <3>1 DEF GachaInv, PoolInv, PoolRows
  <2> QED
    BY <2>2, <2>3
<1>12. \A u \in Unit, l \in Location : u[1] # c =>
         (reservation'[<<u, u[2], l>>].status # "NONE"
            <=> reservation[<<u, u[2], l>>].status # "NONE")
  BY <1>2, <1>10
<1>13. \A u \in Unit, l \in Location : u[1] = c =>
         (reservation'[<<u, u[2], l>>].status # "NONE"
            <=> u[3] <= allocation[u[2]] /\ PlacedAt(old, u[2], l, u[3]))
  BY <1>2, <1>4, <1>10
<1>14. OnePlace'
  <2> SUFFICES ASSUME NEW u \in Unit, NEW k \in Location, NEW l \in Location,
                      reservation'[<<u, u[2], k>>].status # "NONE",
                      reservation'[<<u, u[2], l>>].status # "NONE"
               PROVE  k = l
    BY DEF OnePlace
  <2>1. CASE u[1] = c
    <3>1. PlacedAt(old, u[2], k, u[3]) /\ PlacedAt(old, u[2], l, u[3])
      BY <1>13, <2>1
    <3> QED
      BY <3>1, PlacedOnce, UnitParts DEF GachaInv
  <2>2. CASE u[1] # c
    BY <1>12, <2>2 DEF GachaInv, PoolInv, OnePlace
  <2> QED
    BY <2>1, <2>2
<1>15. VersionsLead'
  BY <1>3, <1>7, <1>8 DEF GachaInv, PoolInv, VersionsLead
<1>16. PoolLed'
  <2> SUFFICES ASSUME NEW a \in Allocation, a[1] \in Unit, reservation'[a].status = "CONFIRMED",
                      awarded[a[1]] = None
               PROVE  banner'[configuration'[a[1][1]].banner].configuration = a[1][1]
    BY <1>1 DEF PoolLed
  <2>1. a[1][1] \in Configuration
    BY UnitParts
  <2>2. CASE a[1][1] = c
    BY <1>3, <2>1, <2>2
  <2>3. CASE a[1][1] # c
    <3>1. ~New(a)
      BY <1>9, <2>3
    <3>2. reservation[a].status = "CONFIRMED" /\ a[1] \notin old
      BY <1>2, <3>1
    <3> DEFINE d == configuration[a[1][1]].banner
    <3>3. /\ d \in Banner /\ banner[d].configuration = a[1][1]
      BY <1>6, <2>1, <3>2 DEF GachaInv, PoolInv, PoolLed, PoolRows
    <3>4. a[1] \in PoolUnits(a[1][1])
      BY <3>2, RowInPool
    <3>5. d # b
      BY <3>2, <3>3, <3>4, UnitParts, GachaAssumption DEF old, CurrentPool
    <3> QED
      BY <1>3, <2>1, <2>3, <3>3, <3>5
  <2> QED
    BY <2>2, <2>3
<1>17. AwardsHold'
  <2>1. \A p \in Pull : AwardUnits(p)' = AwardUnits(p)
    BY <1>1 DEF AwardUnits
  <2>2. ASSUME NEW p \in Pull, NEW u \in Unit, Keeps(p, u), pull[p].status # "NONE"
        PROVE  Keeps(p, u)'
    <3>1. awarded[u] = p /\ awarded[u] # None
      BY <2>2, GachaAssumption DEF Keeps, AwardUnits
    <3>2. PICK l \in Location : reservation[<<u, u[2], l>>].status = UnitStatus(pull[p].status)
      BY <2>2 DEF Keeps
    <3>3. UnitStatus(pull[p].status) # "NONE"
      BY DEF UnitStatus
    <3>4. u[1] # c
      BY <1>4, <1>10, <3>2, <3>3
    <3>5. u \notin old
      BY <1>5, <3>1
    <3>6. reservation'[<<u, u[2], l>>].status = reservation[<<u, u[2], l>>].status
      BY <1>2, <1>10, <3>4, <3>5
    <3> QED
      BY <1>1, <2>1, <2>2, <3>2, <3>6 DEF Keeps
  <2> QED
    BY <1>1, <2>1, <2>2 DEF GachaInv, PoolInv, AwardsHold
<1>18. AllPlaced'
  <2> SUFFICES ASSUME NEW u \in Unit
               PROVE  u[3] <= configuration'[u[1]].allocation[u[2]]
                        <=> \E l \in Location : reservation'[<<u, u[2], l>>].status # "NONE"
    BY DEF AllPlaced
  <2>1. u[1] \in Configuration /\ u[2] \in Item /\ u[3] \in Nat \ {0}
    BY UnitParts, GachaAssumption
  <2>2. CASE u[1] = c
    <3>1. configuration'[u[1]].allocation[u[2]] = allocation[u[2]]
      BY <1>3, <2>1, <2>2
    <3>2. ASSUME u[3] <= allocation[u[2]] PROVE \E l \in Location : PlacedAt(old, u[2], l, u[3])
      <4>1. allocation[u[2]] \in Nat
        BY <2>1, GachaAssumption
      <4>2. Cardinality(FreeFor(old, u[2], Location)) >= allocation[u[2]]
        BY <1>1, <2>1, <3>2, <4>1 DEF Backed
      <4>3. Cardinality(FreeFor(old, u[2], Location)) \in Nat
        BY FreeForFinite
      <4>4. u[3] <= Cardinality(FreeFor(old, u[2], Location))
        BY <2>1, <3>2, <4>1, <4>2, <4>3
      <4> QED
        BY <2>1, <4>4, PlacedSomewhere DEF GachaInv
    <3> QED
      BY <1>13, <2>2, <3>1, <3>2
  <2>3. CASE u[1] # c
    <3>1. configuration'[u[1]] = configuration[u[1]]
      BY <1>3, <2>1, <2>3
    <3> QED
      BY <1>12, <2>3, <3>1 DEF GachaInv, PoolInv, AllPlaced
  <2> QED
    BY <2>2, <2>3
<1> QED
  BY <1>11, <1>14, <1>15, <1>16, <1>17, <1>18 DEF PoolInv
------------------------------------------------------------------------------
(***************************************************************************)
(* What the draws guarantee.                                               *)
(***************************************************************************)

(* Nothing is pooled or awarded at first.                                  *)
LEMMA GachaInvInit ==
  ASSUME GachaInit
  PROVE  GachaInv
<1>1. GachaTypeOK /\ RowsReserve
  <2>1. NoBanner \in BannerRecord /\ NoConfiguration \in ConfigurationRecord /\ NoPull \in PullRecord
    BY GachaAssumption
       DEF NoBanner, BannerRecord, NoConfiguration, ConfigurationRecord, NoPull, PullRecord, PullStatus
  <2>2. InventoryTypeOK /\ RowsReserve /\ receiving = Location
    BY TypeInvInit DEF GachaInit, TypeInv, InventoryInit
  <2> QED
    BY <2>1, <2>2 DEF GachaInit, GachaTypeOK
<1>2. \A a \in Allocation : reservation[a].status = "NONE"
  BY DEF GachaInit, InventoryInit, NoReservation
<1>3. PoolRows /\ OnePlace /\ PoolLed
  BY <1>2, UnitParts DEF PoolRows, OnePlace, PoolLed
<1>4. VersionsLead
  BY DEF GachaInit, NoBanner, VersionsLead
<1>5. AwardsHold
  BY GachaAssumption DEF GachaInit, NoPull, AwardsHold, AwardUnits
<1>6. AllPlaced
  <2>1. ASSUME NEW u \in Unit PROVE ~(u[3] <= configuration[u[1]].allocation[u[2]])
    <3>1. configuration[u[1]].allocation[u[2]] = 0 /\ u[3] \in 1..MaxAllocation
      BY UnitParts DEF GachaInit, NoConfiguration
    <3> QED
      BY <3>1, GachaAssumption
  <2> QED
    BY <1>2, <2>1, UnitParts DEF AllPlaced
<1> QED
  BY <1>1, <1>3, <1>4, <1>5, <1>6 DEF GachaInv, PoolInv

(* Grants and draws are awards.                                            *)
LEMMA DrawsAward ==
  /\ \A b \in Banner, c \in Configuration, key \in GrantKey, p \in Pull :
       Grant(b, c, key, p) => Award(b, c, key, p)
  /\ \A b \in Banner, c \in Configuration, p \in Pull : Draw(b, c, p) => Award(b, c, None, p)
  BY DEF Grant, Draw

(* Every step keeps the pools and the awards.                              *)
LEMMA GachaInvStep ==
  ASSUME GachaInv, [GachaNext]_drawVars
  PROVE  GachaInv'
<1> USE DEF DrawTypes
<1>1. CASE WorldNext
  BY <1>1, WorldTypes, PoolWorld DEF GachaInv
<1>2. CASE BannerNext
  <2>1. PICK b \in Banner, c \in Configuration :
          \/ \E expected \in Configuration \cup {None}, allocation \in [Item -> 0..MaxAllocation],
                active \in BOOLEAN, window \in Window :
               Configure(b, expected, c, allocation, active, window)
          \/ Pause(b, c) \/ Resume(b, c) \/ ReleasePool(b, c)
    BY <1>2 DEF BannerNext
  <2>2. ASSUME NEW expected \in Configuration \cup {None},
               NEW allocation \in [Item -> 0..MaxAllocation], NEW active \in BOOLEAN,
               NEW window \in Window, Configure(b, expected, c, allocation, active, window)
        PROVE  GachaInv'
    BY <2>2, ConfigureTypes, PoolConfigured DEF GachaInv
  <2>3. CASE Pause(b, c) \/ Resume(b, c) \/ ReleasePool(b, c)
    BY <2>3, FlagTypes, PoolFlag, PoolReleased DEF GachaInv
  <2> QED
    BY <2>1, <2>2, <2>3
<1>3. ASSUME NEW b \in Banner, NEW asked \in Configuration, NEW key \in GrantKey \cup {None},
             NEW p \in Pull, Award(b, asked, key, p)
      PROVE  GachaInv'
  BY <1>3, AwardTypes, PoolAwarded DEF GachaInv
<1>4. ASSUME NEW p \in Pull, ConsumeAward(p) \/ CancelAward(p) PROVE GachaInv'
  BY <1>4, CloseTypes, PoolClosed DEF GachaInv
<1>5. CASE UNCHANGED drawVars
  <2>1. DrawTypes'
    BY <1>5 DEF drawVars, gachaVars, inventoryVars, GachaInv, GachaTypeOK, InventoryTypeOK,
       RowsReserve
  <2>2. UnitRowsKept /\ UNCHANGED <<banner, configuration, awarded, pull>>
    BY <1>5 DEF drawVars, gachaVars, inventoryVars, UnitRowsKept
  <2>3. \A c \in Configuration : configuration[c].banner \in Banner \cup {None}
    BY DEF GachaInv, GachaTypeOK, ConfigurationRecord
  <2> QED
    BY <2>1, <2>2, <2>3, PoolAside DEF GachaInv
<1>6. CASE GrantNext
  BY <1>3, <1>6, DrawsAward DEF GrantNext
<1>7. CASE \E b \in Banner, c \in Configuration, p \in Pull : Draw(b, c, p)
  BY <1>3, <1>7, DrawsAward
<1> QED
  BY <1>1, <1>2, <1>4, <1>5, <1>6, <1>7 DEF GachaNext

(* The tables of the draws stay well-formed, whatever is configured,       *)
(* awarded, dispatched and taken back.                                     *)
THEOREM GachaTypes == GachaSpec => []GachaTypeOK
<1>1. GachaInv => GachaTypeOK
  BY DEF GachaInv
<1> QED
  BY <1>1, GachaInvInit, GachaInvStep, PTL DEF GachaSpec

(* An award keeps exactly one unit of the prize it drew, in the state the  *)
(* award is in, whatever is reconfigured or released around it.            *)
THEOREM AwardsKeepUnits == GachaSpec => []AwardKeepsUnit
<1>1. ASSUME GachaInv PROVE AwardKeepsUnit
  <2> SUFFICES ASSUME NEW p \in Pull, pull[p].status # "NONE"
               PROVE  \E u \in Unit :
                        /\ AwardUnits(p) = {u}
                        /\ u[1] = pull[p].configuration /\ u[2] = pull[p].item
                        /\ \E l \in Location :
                             reservation[<<u, u[2], l>>].status =
                               CASE pull[p].status = "RESERVED"  -> "CONFIRMED"
                                 [] pull[p].status = "CONSUMED"  -> "CONSUMED"
                                 [] pull[p].status = "CANCELLED" -> "RELEASED"
    BY DEF AwardKeepsUnit
  <2>1. pull[p].status \in {"RESERVED", "CONSUMED", "CANCELLED"}
    BY <1>1 DEF GachaInv, GachaTypeOK, PullRecord, PullStatus
  <2>2. UnitStatus(pull[p].status) =
          CASE pull[p].status = "RESERVED"  -> "CONFIRMED"
            [] pull[p].status = "CONSUMED"  -> "CONSUMED"
            [] pull[p].status = "CANCELLED" -> "RELEASED"
    BY <2>1 DEF UnitStatus
  <2>3. PICK u \in Unit : Keeps(p, u)
    BY <1>1 DEF GachaInv, PoolInv, AwardsHold
  <2> QED
    BY <2>2, <2>3 DEF Keeps
<1> QED
  BY <1>1, GachaInvInit, GachaInvStep, PTL DEF GachaSpec

(* Stock set aside for prizes is never lost: what is reserved and not      *)
(* awarded belongs to the version its banner has now.                      *)
THEOREM PoolsAreCurrent == GachaSpec => []PoolIsCurrent
<1>1. ASSUME GachaInv PROVE PoolIsCurrent
  <2> SUFFICES ASSUME NEW c \in Configuration, NEW u \in PoolUnits(c)
               PROVE  /\ configuration[c].banner # None
                      /\ banner[configuration[c].banner].configuration = c
    BY DEF PoolIsCurrent
  <2>1. u \in Unit /\ u[1] = c /\ awarded[u] = None
    BY DEF PoolUnits
  <2>2. PICK l \in Location : reservation[<<u, u[2], l>>].status = "CONFIRMED"
    BY DEF PoolUnits, Places
  <2>3. <<u, u[2], l>> \in Allocation
    BY <2>1, UnitParts
  <2> QED
    BY <1>1, <2>1, <2>2, <2>3 DEF GachaInv, PoolInv, PoolRows, PoolLed
<1> QED
  BY <1>1, GachaInvInit, GachaInvStep, PTL DEF GachaSpec

(* A version is published with its whole allocation, each unit at one      *)
(* location, and never gets another unit.                                  *)
THEOREM AllocationsAreWhole == GachaSpec => []WholeAllocation
<1>1. ASSUME GachaInv PROVE WholeAllocation
  <2> SUFFICES ASSUME NEW c \in Configuration, NEW i \in Item
               PROVE  {u[3] : u \in {v \in Unit : v[1] = c /\ v[2] = i /\
                         Cardinality(Places(v, ReservationStatus \ {"NONE"})) = 1}}
                        = 1..configuration[c].allocation[i]
    BY DEF WholeAllocation
  <2> DEFINE Rows(v) == Places(v, ReservationStatus \ {"NONE"})
             S == {v \in Unit : v[1] = c /\ v[2] = i /\ Cardinality(Rows(v)) = 1}
  <2>1. configuration[c].allocation[i] \in 0..MaxAllocation /\ MaxAllocation \in Nat
    BY <1>1, GachaAssumption DEF GachaInv, GachaTypeOK, ConfigurationRecord
  <2>2. ASSUME NEW v \in Unit, NEW l \in Location
        PROVE  l \in Rows(v) <=> reservation[<<v, v[2], l>>].status # "NONE"
    <3>1. reservation[<<v, v[2], l>>].status \in ReservationStatus
      BY <1>1, UnitParts DEF GachaInv, GachaTypeOK, InventoryTypeOK, Reservation
    <3> QED
      BY <3>1 DEF Places
  <2>3. ASSUME NEW v \in Unit
        PROVE  Cardinality(Rows(v)) = 1 <=> v[3] <= configuration[v[1]].allocation[v[2]]
    <3>1. Rows(v) \subseteq Location
      BY DEF Places
    <3>2. ASSUME Cardinality(Rows(v)) = 1
          PROVE  v[3] <= configuration[v[1]].allocation[v[2]]
      <4>1. Rows(v) # {}
        BY <3>2, FS_EmptySet
      <4>2. PICK l \in Rows(v) : l \in Location
        BY <3>1, <4>1
      <4> QED
        BY <1>1, <2>2, <4>2 DEF GachaInv, PoolInv, AllPlaced
    <3>3. ASSUME v[3] <= configuration[v[1]].allocation[v[2]]
          PROVE  Cardinality(Rows(v)) = 1
      <4>1. PICK l \in Location : reservation[<<v, v[2], l>>].status # "NONE"
        BY <1>1, <3>3 DEF GachaInv, PoolInv, AllPlaced
      <4>2. Rows(v) = {l}
        BY <1>1, <2>2, <3>1, <4>1 DEF GachaInv, PoolInv, OnePlace
      <4> QED
        BY <4>2, FS_Singleton
    <3> QED
      BY <3>2, <3>3
  <2>4. ASSUME NEW n \in 1..configuration[c].allocation[i]
        PROVE  <<c, i, n>> \in S
    <3>1. n \in 1..MaxAllocation /\ n <= configuration[c].allocation[i]
      BY <2>1
    <3>2. <<c, i, n>> \in Unit
      BY <3>1 DEF Unit
    <3> QED
      BY <2>3, <3>1, <3>2
  <2>5. ASSUME NEW v \in S
        PROVE  v[3] \in 1..configuration[c].allocation[i]
    <3>1. v[3] \in 1..MaxAllocation /\ v[3] <= configuration[c].allocation[i]
      BY <2>3, UnitParts
    <3> QED
      BY <2>1, <3>1
  <2> HIDE DEF S
  <2>6. {u[3] : u \in S} = 1..configuration[c].allocation[i]
    <3>1. \A n \in 1..configuration[c].allocation[i] : \E u \in S : n = u[3]
      <4> TAKE n \in 1..configuration[c].allocation[i]
      <4>1. <<c, i, n>> \in S /\ n = <<c, i, n>>[3]
        BY <2>4
      <4> QED
        BY <4>1
    <3> QED
      BY <2>5, <3>1
  <2> QED
    BY <2>6 DEF S
<1> QED
  BY <1>1, GachaInvInit, GachaInvStep, PTL DEF GachaSpec

(* What an award writes.                                                   *)
LEMMA AwardWrites ==
  ASSUME DrawTypes, NEW b \in Banner, NEW asked \in Configuration \cup {None},
         NEW key \in GrantKey \cup {None}, NEW p \in Pull, Award(b, asked, key, p)
  PROVE  /\ pull[p] = NoPull /\ pull'[p].status = "RESERVED"
         /\ pull'[p].banner = b /\ pull'[p].key = key /\ pull'[p].asked = asked
         /\ pull'[p].configuration = banner[b].configuration
         /\ \A q \in Pull : q # p => pull'[q] = pull[q]
<1>1. PICK i \in Item :
        pull' = [pull EXCEPT ![p] =
          [status |-> "RESERVED", banner |-> b, configuration |-> banner[b].configuration,
           asked |-> asked, item |-> i, key |-> key]]
  BY DEF Award, Prizes
<1> QED
  BY <1>1 DEF Award, DrawTypes, GachaTypeOK

(* What closing an award writes.                                           *)
LEMMA CloseWrites ==
  ASSUME DrawTypes, NEW p \in Pull, ConsumeAward(p) \/ CancelAward(p)
  PROVE  /\ pull[p].status = "RESERVED"
         /\ pull'[p].status = IF ConsumeAward(p) THEN "CONSUMED" ELSE "CANCELLED"
         /\ pull'[p].key = pull[p].key /\ pull'[p].banner = pull[p].banner
         /\ \A q \in Pull : q # p => pull'[q] = pull[q]
<1>1. CASE ConsumeAward(p)
  BY <1>1 DEF ConsumeAward, Open, DrawTypes, GachaTypeOK, PullRecord
<1>2. CASE CancelAward(p) /\ ~ConsumeAward(p)
  BY <1>2 DEF CancelAward, Open, DrawTypes, GachaTypeOK, PullRecord
<1> QED
  BY <1>1, <1>2

(* The steps that make and close no award.                                 *)
LEMMA OthersKeepPulls ==
  WorldNext \/ BannerNext => pull' = pull
<1>1. WorldNext => pull' = pull
  BY DEF WorldNext, SubmitOperation, EditTree, EditCatalog, PassTime, OrderStep, gachaVars
<1>2. ASSUME NEW b, NEW expected, NEW c, NEW allocation, NEW active, NEW window,
             Configure(b, expected, c, allocation, active, window)
      PROVE  pull' = pull
  BY <1>2 DEF Configure
<1>3. ASSUME NEW b, NEW c, Pause(b, c) \/ Resume(b, c) \/ ReleasePool(b, c) PROVE pull' = pull
  BY <1>3 DEF Pause, Resume, ReleasePool
<1>4. BannerNext => pull' = pull
  BY <1>2, <1>3 DEF BannerNext
<1> QED
  BY <1>1, <1>4

(* An award draws what its requester reviewed, from a whole pool.          *)
LEMMA AwardIsReal ==
  ASSUME DrawTypes, NEW b \in Banner, NEW asked \in Configuration,
         NEW key \in GrantKey \cup {None}, NEW p \in Pull, Award(b, asked, key, p),
         Reviewed(b, asked)
  PROVE  /\ pull'[p].asked = pull'[p].configuration
         /\ banner[b].configuration = pull'[p].asked
         /\ \A i \in Prizes(pull'[p].asked) : Remaining(pull'[p].asked, i) # {}
<1>1. /\ pull'[p].asked = asked
      /\ pull'[p].configuration = banner[b].configuration
  BY AwardWrites
<1>2. banner[b].configuration = asked
  BY DEF Reviewed
<1>3. PoolStands(asked)
  BY <1>2 DEF Award, Ready
<1> QED
  BY <1>1, <1>2, <1>3 DEF PoolStands

(* The published odds are real: an award is drawn from the version its     *)
(* requester reviewed, while that is current and none of its prizes has    *)
(* run out.                                                                *)
THEOREM OddsHold == GachaSpec => OddsAreReal
<1> DEFINE Real(p) == LET c == pull'[p].asked
                      IN /\ c = pull'[p].configuration
                         /\ \E b \in Banner : banner[b].configuration = c
                         /\ \A i \in Prizes(c) : Remaining(c, i) # {}
           A == \A p \in Pull : pull[p].status = "NONE" /\ pull'[p].status # "NONE" => Real(p)
<1>1. ASSUME GachaInv, [GachaNext]_drawVars PROVE [A]_drawVars
  <2>1. ASSUME pull' = pull PROVE A
    BY <2>1
  <2>2. ASSUME NEW b \in Banner, NEW asked \in Configuration, NEW key \in GrantKey \cup {None},
               NEW p \in Pull, Award(b, asked, key, p), Reviewed(b, asked)
        PROVE  A
    <3>1. Real(p)
      BY <1>1, <2>2, AwardIsReal DEF GachaInv, DrawTypes
    <3>2. \A q \in Pull : q # p => pull'[q] = pull[q]
      BY <1>1, <2>2, AwardWrites DEF GachaInv, DrawTypes
    <3> HIDE DEF Real
    <3> QED
      BY <3>1, <3>2
  <2>3. ASSUME NEW p \in Pull, ConsumeAward(p) \/ CancelAward(p) PROVE A
    <3>1. pull[p].status = "RESERVED" /\ \A q \in Pull : q # p => pull'[q] = pull[q]
      BY <1>1, <2>3, CloseWrites DEF GachaInv, DrawTypes
    <3> HIDE DEF Real
    <3>2. \A q \in Pull : pull[q].status = "NONE" => pull'[q].status = "NONE"
      BY <3>1
    <3> QED
      BY <3>2
  <2> HIDE DEF A
  <2>4. CASE WorldNext \/ BannerNext
    BY <2>1, <2>4, OthersKeepPulls
  <2>5. CASE GrantNext
    BY <2>2, <2>5 DEF GrantNext, Grant
  <2>6. CASE \E b \in Banner, c \in Configuration, p \in Pull : Draw(b, c, p)
    BY <2>2, <2>6 DEF Draw
  <2> QED
    BY <1>1, <2>3, <2>4, <2>5, <2>6 DEF GachaNext
<1>2. OddsAreReal <=> [][A]_drawVars
  BY DEF OddsAreReal
<1> HIDE DEF A
<1> QED
  BY <1>1, <1>2, GachaInvInit, GachaInvStep, PTL DEF GachaSpec
------------------------------------------------------------------------------
(***************************************************************************)
(* Prize pools and the shop share the stock.                               *)
(***************************************************************************)

(* The steps that touch stock only as the inventory allows.                *)
LEMMA DrawsWithinInventory ==
  ASSUME [GachaNext]_drawVars
  PROVE  \/ [InventoryNext]_inventoryVars
         \/ \E b \in Banner, c \in Configuration :
              \/ ReleasePool(b, c)
              \/ \E expected \in Configuration \cup {None},
                    allocation \in [Item -> 0..MaxAllocation], active \in BOOLEAN,
                    window \in Window : Configure(b, expected, c, allocation, active, window)
<1>1. CASE WorldNext
  <2>1. ASSUME NEW op \in Operation, SubmitOperation(op) PROVE InventoryNext
    BY <2>1 DEF SubmitOperation, InventoryNext
  <2>2. EditTree \/ PassTime => InventoryNext
    BY DEF EditTree, PassTime, InventoryNext
  <2>3. EditCatalog => UNCHANGED inventoryVars
    BY DEF EditCatalog
  <2>4. OrderStep => InventoryNext
    BY DEF OrderStep, InventoryNext, Shopper
  <2> QED
    BY <1>1, <2>1, <2>2, <2>3, <2>4 DEF WorldNext
<1>2. CASE BannerNext
  BY <1>2 DEF BannerNext, Pause, Resume
<1>3. CASE GrantNext \/ \E b \in Banner, c \in Configuration, p \in Pull : Draw(b, c, p)
  BY <1>3 DEF GrantNext, Grant, Draw, Award
<1>4. CASE \E p \in Pull : ConsumeAward(p) \/ CancelAward(p)
  <2>1. PICK u \in Unit : Consume(u) \/ Release(u)
    BY <1>4 DEF ConsumeAward, CancelAward, AwardUnits, Release
  <2> QED
    BY <2>1, UnitParts DEF InventoryNext
<1>5. CASE UNCHANGED drawVars
  BY <1>5 DEF drawVars
<1> QED
  BY <1>1, <1>2, <1>3, <1>4, <1>5 DEF GachaNext

(* A released pool reserves no more.                                       *)
LEMMA ReleasedBacked ==
  ASSUME GachaInv, StockBacked, NEW b \in Banner, NEW c \in Configuration, ReleasePool(b, c),
         NEW i \in Item, NEW l \in Location
  PROVE  ReservedAt(i, l)' <= balance'[<<i, l>>]
<1>1. now' = now /\ balance' = balance /\ reservation' = WithoutUnits(PoolUnits(c))
  BY DEF ReleasePool
<1>2. ReservedUnits(Holder, i, l)' \subseteq ReservedUnits(Holder, i, l)
  <2> SUFFICES ASSUME NEW u \in ReservedUnits(Holder, i, l)'
               PROVE  u \in ReservedUnits(Holder, i, l)
    OBVIOUS
  <2>1. u \in Holder \X (1..MaxStock) /\ <<u[1], i, l>> \in Allocation
    BY DEF ReservedUnits, Allocation
  <2>2. /\ Active(reservation[<<u[1], i, l>>])'
        /\ u[2] <= reservation'[<<u[1], i, l>>].quantity
    BY DEF ReservedUnits
  <2>3. reservation[<<u[1], i, l>>] \in Reservation
    BY <2>1 DEF GachaInv, GachaTypeOK, InventoryTypeOK
  <2>4. reservation'[<<u[1], i, l>>] = reservation[<<u[1], i, l>>]
    BY <1>1, <2>1, <2>2, <2>3 DEF WithoutUnits, Active, Reservation
  <2> QED
    BY <1>1, <2>1, <2>2, <2>4 DEF ReservedUnits, Active
<1>3. ReservedUnits(Holder, i, l) \in SUBSET (Holder \X (1..MaxStock))
  BY DEF ReservedUnits
<1>4. ReservedAt(i, l)' <= ReservedAt(i, l)
  BY <1>2, <1>3, FewerUnits DEF ReservedAt
<1>5. ReservedAt(i, l)' \in Nat /\ ReservedAt(i, l) \in Nat
  BY <1>2, <1>3, UnitsAreFinite DEF ReservedAt
<1>6. balance[<<i, l>>] \in Nat
  BY InventoryAssumption DEF GachaInv, GachaTypeOK, InventoryTypeOK, Slot
<1> QED
  BY <1>1, <1>4, <1>5, <1>6 DEF StockBacked

(* The units of a prize placed at a location are no more than it has free. *)
LEMMA PlacedFit ==
  ASSUME GachaTypeOK, NEW old, NEW c \in Configuration, NEW i \in Item, NEW l \in Location,
         NEW N, \A u \in N : /\ u[1] \in Unit /\ u[1][1] = c /\ u[1][2] = i
                             /\ PlacedAt(old, i, l, u[1][3])
                             /\ u = <<u[1], 1>>
  PROVE  /\ IsFiniteSet(N) /\ Cardinality(N) \in Nat
         /\ FreeBeside(old, i, l) > 0 => Cardinality(N) <= FreeBeside(old, i, l)
         /\ FreeBeside(old, i, l) <= 0 => N = {}
<1> DEFINE before == Found(old, i, l)
           f == FreeBeside(old, i, l)
           T == (before + 1)..(before + f)
           g == [u \in N |-> u[1][3]]
<1>1. before \in Nat /\ f \in Int
  BY FreeForFinite, FreeBesideIsInt DEF Found, Earlier
<1>2. \A u \in N : /\ u[1][3] \in Nat /\ before < u[1][3] /\ u[1][3] <= before + f
                   /\ u = <<<<c, i, u[1][3]>>, 1>>
  BY UnitParts DEF PlacedAt, Found, Earlier
<1> HIDE DEF before, f
<1>3. g \in [N -> T]
  BY <1>1, <1>2
<1>4. \A u, v \in N : g[u] = g[v] => u = v
  BY <1>2
<1> HIDE DEF g
<1>5. g \in Injection(N, T)
  BY <1>3, <1>4 DEF Injection, IsInjective
<1>6. before + 1 \in Int /\ before + f \in Int
  BY <1>1
<1>7. IsFiniteSet(T) /\ Cardinality(T) = IF before + 1 > before + f THEN 0
                                         ELSE (before + f) - (before + 1) + 1
  BY <1>6, FS_Interval
<1> HIDE DEF T
<1>8. IsFiniteSet(N) /\ Cardinality(N) <= Cardinality(T)
  BY <1>5, <1>7, FS_Injection
<1>9. Cardinality(N) \in Nat
  BY <1>8, FS_CardinalityType
<1>10. f > 0 => Cardinality(N) <= f
  BY <1>1, <1>7, <1>8, <1>9
<1>11. f <= 0 => N = {}
  BY <1>1, <1>2
<1> QED
  BY <1>8, <1>9, <1>10, <1>11 DEF f

(* A new pool reserves what nothing else has reserved.                     *)
LEMMA ConfiguredBacked ==
  ASSUME GachaInv, StockBacked, NEW b \in Banner, NEW c \in Configuration,
         NEW expected \in Configuration \cup {None},
         NEW allocation \in [Item -> 0..MaxAllocation], NEW active \in BOOLEAN,
         NEW window \in Window, Configure(b, expected, c, allocation, active, window),
         NEW i \in Item, NEW l \in Location
  PROVE  ReservedAt(i, l)' <= balance'[<<i, l>>]
<1> DEFINE old == CurrentPool(b)
           New(a) == /\ a[1] \in Unit /\ a[1][1] = c /\ a[1][2] = a[2]
                     /\ a[1][3] <= allocation[a[2]]
                     /\ PlacedAt(old, a[2], a[3], a[1][3])
           All == ReservedUnits(Holder, i, l)
           Rest == ReservedUnits(Holder \ old, i, l)
           After == ReservedUnits(Holder, i, l)'
           N == {u \in After : New(<<u[1], i, l>>)}
           f == FreeBeside(old, i, l)
<1>1. /\ now' = now /\ balance' = balance
      /\ reservation' = [a \in Allocation |->
           IF New(a) THEN [status |-> "CONFIRMED", quantity |-> 1, expiresAt |-> 0]
           ELSE WithoutUnits(old)[a]]
  BY DEF Configure
<1>2. ASSUME NEW u \in After
      PROVE  /\ u = <<u[1], u[2]>> /\ u[1] \in Holder /\ u[2] \in 1..MaxStock
             /\ <<u[1], i, l>> \in Allocation
             /\ Active(reservation[<<u[1], i, l>>])' /\ u[2] <= reservation'[<<u[1], i, l>>].quantity
  BY DEF ReservedUnits, Allocation
<1> HIDE DEF New, old
<1>3. ASSUME NEW u \in After, ~New(<<u[1], i, l>>) PROVE u \in Rest
  <2> DEFINE a == <<u[1], i, l>>
  <2>1. reservation'[a] = WithoutUnits(old)[a]
    BY <1>1, <1>2, <1>3
  <2>2. reservation[a] \in Reservation /\ a \in Allocation /\ a[1] = u[1]
    BY <1>2 DEF GachaInv, GachaTypeOK, InventoryTypeOK
  <2> HIDE DEF a
  <2>3. reservation'[a] = reservation[a]
    BY <1>2, <2>1, <2>2 DEF a, WithoutUnits, Active, Reservation
  <2>4. u[1] \notin old
    <3> SUFFICES ASSUME u[1] \in old PROVE FALSE
      OBVIOUS
    <3>1. u[1] \in Unit
      BY PoolUnawarded DEF old
    <3>2. reservation[a].status = "CONFIRMED" \/ reservation[a].status = "HELD"
      BY <1>2, <2>3 DEF a, Active
    <3>3. reservation[a].status = "CONFIRMED"
      BY <2>2, <3>1, <3>2 DEF GachaInv, PoolInv, PoolRows
    <3>4. reservation'[a].status = "RELEASED"
      BY <2>1, <2>2, <3>3, WithoutTyped DEF GachaInv, DrawTypes
    <3> QED
      BY <2>3, <3>3, <3>4
  <2> QED
    BY <1>1, <1>2, <2>3, <2>4 DEF a, ReservedUnits, Active
<1>4. ASSUME NEW u \in N
      PROVE  /\ u[1] \in Unit /\ u[1][1] = c /\ u[1][2] = i
             /\ PlacedAt(old, i, l, u[1][3]) /\ u = <<u[1], 1>>
  <2>1. reservation'[<<u[1], i, l>>].quantity = 1
    BY <1>1, <1>2
  <2>2. u[2] = 1
    BY <1>2, <2>1, InventoryAssumption
  <2> QED
    BY <1>2, <2>2 DEF New
<1>5. After \subseteq Rest \cup N
  BY <1>3
<1>6. Rest \in SUBSET (Holder \X (1..MaxStock)) /\ All \in SUBSET (Holder \X (1..MaxStock))
      /\ After \in SUBSET (Holder \X (1..MaxStock)) /\ Rest \subseteq All
  BY <1>2 DEF ReservedUnits
<1>7. GachaTypeOK
  BY DEF GachaInv
<1> HIDE DEF N, After, Rest, All
<1>8. /\ IsFiniteSet(N) /\ Cardinality(N) \in Nat
      /\ f > 0 => Cardinality(N) <= f
      /\ f <= 0 => N = {}
  BY <1>4, <1>7, PlacedFit
<1>9. /\ IsFiniteSet(Rest) /\ Cardinality(Rest) \in Nat
      /\ Cardinality(All) \in Nat /\ Cardinality(After) \in Nat
  BY <1>6, UnitsAreFinite
<1>10. balance[<<i, l>>] \in Nat /\ f = balance[<<i, l>>] - Cardinality(Rest)
       /\ Cardinality(All) <= balance[<<i, l>>]
  <2>1. balance[<<i, l>>] \in Nat
    BY InventoryAssumption DEF GachaInv, GachaTypeOK, InventoryTypeOK, Slot
  <2>2. f = balance[<<i, l>>] - Cardinality(Rest)
    BY DEF FreeBeside, Rest
  <2>3. Cardinality(All) <= balance[<<i, l>>]
    BY DEF StockBacked, ReservedAt, All
  <2> QED
    BY <2>1, <2>2, <2>3
<1>11. Cardinality(After) <= balance[<<i, l>>]
  <2>1. CASE f > 0
    <3>1. /\ IsFiniteSet(Rest \cup N)
          /\ Cardinality(Rest \cup N) =
               Cardinality(Rest) + Cardinality(N) - Cardinality(Rest \cap N)
      BY <1>8, <1>9, FS_Union
    <3>2. Cardinality(Rest \cap N) \in Nat
      BY <1>9, FS_Intersection, FS_CardinalityType
    <3>3. Cardinality(After) <= Cardinality(Rest \cup N) /\ Cardinality(Rest \cup N) \in Nat
      BY <1>5, <3>1, FS_Subset, FS_CardinalityType
    <3> HIDE DEF f
    <3> QED
      BY <1>8, <1>9, <1>10, <2>1, <3>1, <3>2, <3>3
  <2>2. CASE f <= 0
    <3>1. After \subseteq All
      BY <1>5, <1>6, <1>8, <2>2
    <3>2. Cardinality(After) <= Cardinality(All)
      BY <1>6, <3>1, FewerUnits
    <3> QED
      BY <1>9, <1>10, <3>2
  <2>3. f \in Int
    BY <1>9, <1>10
  <2> QED
    BY <2>1, <2>2, <2>3
<1> QED
  BY <1>1, <1>11 DEF After, ReservedAt

(* Prize pools and orders never promise a unit twice: at every location    *)
(* what both have reserved is there, whatever is configured, released,     *)
(* awarded, moved or sold in between.                                      *)
THEOREM PrizesAreBacked == GachaSpec => []StockBacked
<1> DEFINE Inv == GachaInv /\ StockBacked
<1>1. GachaInit => Inv
  BY GachaInvInit, StockInvInit DEF GachaInit, StockInv
<1>2. ASSUME Inv, [GachaNext]_drawVars PROVE Inv'
  <2>1. GachaInv'
    BY <1>2, GachaInvStep
  <2>2. CASE [InventoryNext]_inventoryVars
    <3>1. StockInv
      BY <1>2 DEF StockInv, TypeInv, GachaInv, GachaTypeOK
    <3>2. StockBacked'
      BY <2>2, <3>1, StockInvStep DEF StockInv
    <3> QED
      BY <2>1, <3>2
  <2>3. ASSUME NEW b \in Banner, NEW c \in Configuration, ReleasePool(b, c) PROVE StockBacked'
    BY <1>2, <2>3, ReleasedBacked DEF StockBacked
  <2>4. ASSUME NEW b \in Banner, NEW c \in Configuration,
               NEW expected \in Configuration \cup {None},
               NEW allocation \in [Item -> 0..MaxAllocation], NEW active \in BOOLEAN,
               NEW window \in Window, Configure(b, expected, c, allocation, active, window)
        PROVE  StockBacked'
    BY <1>2, <2>4, ConfiguredBacked DEF StockBacked
  <2> QED
    BY <1>2, <2>1, <2>2, <2>3, <2>4, DrawsWithinInventory
<1>3. Inv => StockBacked
  OBVIOUS
<1> HIDE DEF Inv
<1> QED
  BY <1>1, <1>2, <1>3, PTL DEF GachaSpec

(* Drawing and pooling leave ledger and balances in agreement: a prize     *)
(* leaves the building through one movement, as an order does.             *)
THEOREM PrizesReconcile == GachaSpec => []LedgerReconciles
<1> DEFINE Inv == GachaInv /\ LedgerInv
<1>1. GachaInit => Inv
  BY GachaInvInit, LedgerInvInit DEF GachaInit
<1>2. ASSUME Inv, [GachaNext]_drawVars PROVE Inv'
  <2>1. GachaInv'
    BY <1>2, GachaInvStep
  <2>2. CASE [InventoryNext]_inventoryVars
    BY <1>2, <2>1, <2>2, LedgerInvStep
  <2>3. ASSUME movement' = movement, balance' = balance,
               \A a \in Allocation :
                 /\ reservation[a].status = "CONSUMED" => reservation'[a] = reservation[a]
                 /\ reservation'[a].status = "CONSUMED" => reservation[a].status = "CONSUMED"
        PROVE  LedgerInv'
    <3>1. TypeInv'
      BY <2>1 DEF GachaInv, GachaTypeOK, TypeInv
    <3>2. RecordInv'
      BY <1>2, <2>3, <3>1, RecordKept DEF LedgerInv
    <3>3. LedgerReconciles'
      BY <1>2, <2>3 DEF LedgerInv, LedgerReconciles, UnitsIn, UnitsOut
    <3> QED
      BY <3>2, <3>3 DEF LedgerInv
  <2>4. \A a \in Allocation : reservation[a] \in Reservation
    BY <1>2 DEF GachaInv, GachaTypeOK, InventoryTypeOK
  <2>5. ASSUME NEW units, NEW a \in Allocation
        PROVE  /\ reservation[a].status = "CONSUMED" => WithoutUnits(units)[a] = reservation[a]
               /\ WithoutUnits(units)[a].status = "CONSUMED" => reservation[a].status = "CONSUMED"
    BY <2>4 DEF WithoutUnits, Reservation
  <2>6. ASSUME NEW b \in Banner, NEW c \in Configuration, ReleasePool(b, c) PROVE LedgerInv'
    <3>1. movement' = movement /\ balance' = balance /\ reservation' = WithoutUnits(PoolUnits(c))
      BY <2>6 DEF ReleasePool
    <3> QED
      BY <2>3, <2>5, <3>1
  <2>7. ASSUME NEW b \in Banner, NEW c \in Configuration,
               NEW expected \in Configuration \cup {None},
               NEW allocation \in [Item -> 0..MaxAllocation], NEW active \in BOOLEAN,
               NEW window \in Window, Configure(b, expected, c, allocation, active, window)
        PROVE  LedgerInv'
    <3>1. /\ movement' = movement /\ balance' = balance
          /\ \A a \in Allocation :
               \/ reservation'[a] = WithoutUnits(CurrentPool(b))[a]
               \/ a[1] \in Unit /\ a[1][1] = c /\ reservation'[a].status = "CONFIRMED"
      BY <2>7 DEF Configure
    <3>2. \A a \in Allocation : a[1] \in Unit /\ a[1][1] = c => reservation[a].status = "NONE"
      BY <1>2, <2>7 DEF Configure, GachaInv, PoolInv, PoolRows, NoConfiguration
    <3> QED
      BY <2>3, <2>5, <3>1, <3>2
  <2> QED
    BY <1>2, <2>1, <2>2, <2>6, <2>7, DrawsWithinInventory
<1>3. Inv => LedgerReconciles
  BY DEF LedgerInv
<1> HIDE DEF Inv
<1> QED
  BY <1>1, <1>2, <1>3, PTL DEF GachaSpec
------------------------------------------------------------------------------
(***************************************************************************)
(* Customers and the dispatch queue.                                       *)
(***************************************************************************)

(* Everything customers and the queue do to stock, pools and awards is     *)
(* what the draws allow.                                                   *)
LEMMA RewardsDraw ==
  ASSUME [RewardsNext]_rewardsVars
  PROVE  [GachaNext]_drawVars
<1>1. CASE WorldNext \/ BannerNext \/ GrantNext
  BY <1>1 DEF GachaNext
<1>2. CASE AllowNext
  BY <1>2 DEF AllowNext, SetDisabled, Enable, Authorize
<1>3. CASE CustomerNext
  <2>1. ASSUME NEW g, NEW key, NEW b \in Banner, NEW c \in Configuration, NEW p \in Pull,
               CustomerPull(g, key, b, c, p)
        PROVE  GachaNext
    BY <2>1 DEF CustomerPull, GachaNext
  <2>2. ASSUME NEW g, NEW key, NEW p, NEW address, ClaimReward(g, p, key, address)
        PROVE  UNCHANGED drawVars
    BY <2>2 DEF ClaimReward
  <2> QED
    BY <1>3, <2>1, <2>2 DEF CustomerNext
<1>4. CASE QueueNext
  <2>1. PICK p \in Pull : \/ PrepareReward(p) \/ ShipReward(p) \/ DeliverReward(p)
                          \/ CancelReward(p) \/ HandOver(p) \/ TakeBack(p)
    BY <1>4 DEF QueueNext
  <2>2. CASE PrepareReward(p) \/ DeliverReward(p)
    BY <2>2 DEF PrepareReward, DeliverReward
  <2>3. CASE ShipReward(p) \/ CancelReward(p) \/ HandOver(p) \/ TakeBack(p)
    BY <2>3 DEF ShipReward, CancelReward, HandOver, TakeBack, GachaNext
  <2> QED
    BY <2>1, <2>2, <2>3
<1>5. CASE UNCHANGED rewardsVars
  BY <1>5 DEF rewardsVars
<1> QED
  BY <1>1, <1>2, <1>3, <1>4, <1>5 DEF RewardsNext

(* The program with its customers implements the draws.                    *)
THEOREM RewardsImplementDraws == RewardsSpec => DrawContract
<1>1. RewardsInit => GachaInit
  BY DEF RewardsInit
<1>2. [RewardsNext]_rewardsVars => [GachaNext]_drawVars
  BY RewardsDraw
<1> QED
  BY <1>1, <1>2, PTL DEF RewardsSpec, DrawContract, GachaSpec
------------------------------------------------------------------------------
(***************************************************************************)
(* Rewards, requests and allowances.                                       *)
(***************************************************************************)

(* Reward, award and delivery of a pull; a claim has its delivery.         *)
Follows(p) ==
  /\ request[p] # NoRequest <=> reward[p] # "NONE"
  /\ reward[p] \in {"AWARDED", "CLAIMED", "PREPARING"} => pull[p].status = "RESERVED"
  /\ reward[p] \in {"SHIPPED", "DELIVERED"} => pull[p].status = "CONSUMED"
  /\ reward[p] = "CANCELLED" => pull[p].status = "CANCELLED"
  /\ delivery[p] = "READY" <=> reward[p] \in {"CLAIMED", "PREPARING"}
  /\ delivery[p] \in {"SHIPPED", "DELIVERED"} => delivery[p] = reward[p]
  /\ delivery[p] = "CANCELLED" => reward[p] = "CANCELLED"
  /\ claim[p] = NoClaim <=> delivery[p] = "NONE"

(* An award that was not made is empty.                                    *)
FreshPulls == \A p \in Pull : pull[p].status = "NONE" => pull[p] = NoPull

(* What a request is charged to is an allowance of its customer.           *)
ChargesKept ==
  \A p \in Pull : request[p].authorization # None =>
    /\ request[p].customer # None
    /\ request[p].customer = authorization[request[p].authorization].customer
    /\ pull[p].banner = authorization[request[p].authorization].banner

UsesKept ==
  \A a \in Authorization :
    IsFiniteSet(Uses(a)) /\ Cardinality(Uses(a)) <= authorization[a].maxPulls

RewardsInv ==
  /\ RewardsTypeOK /\ RowsReserve
  /\ \A p \in Pull : Follows(p)
  /\ FreshPulls /\ OneAwardPerRequest
  /\ ChargesKept /\ UsesKept

(* A pull that was not made was asked for by nobody.                       *)
LEMMA FreshIsUntouched ==
  ASSUME RewardsInv, NEW p \in Pull, pull[p] = NoPull
  PROVE  request[p] = NoRequest /\ reward[p] = "NONE" /\ delivery[p] = "NONE" /\ claim[p] = NoClaim
<1>1. pull[p].status = "NONE"
  BY DEF NoPull
<1>2. reward[p] \in RewardStatus /\ delivery[p] \in DeliveryStatus /\ Follows(p)
  BY DEF RewardsInv, RewardsTypeOK
<1>3. reward[p] = "NONE"
  BY <1>1, <1>2 DEF Follows, RewardStatus
<1>4. delivery[p] = "NONE"
  BY <1>2, <1>3 DEF Follows, DeliveryStatus
<1> QED
  BY <1>2, <1>3, <1>4 DEF Follows

(* Where requests and allowances stay, and awards keep their keys and      *)
(* banners, retries and allowances stand as they are.                      *)
LEMMA RequestsAside ==
  ASSUME RewardsInv, request' = request, authorization' = authorization,
         \A p \in Pull : /\ pull'[p].key = pull[p].key /\ pull'[p].banner = pull[p].banner
                         /\ pull'[p].status = "NONE" => pull'[p] = pull[p]
  PROVE  FreshPulls' /\ OneAwardPerRequest' /\ ChargesKept' /\ UsesKept'
<1>1. FreshPulls'
  BY DEF RewardsInv, FreshPulls
<1>2. OneAwardPerRequest'
  BY DEF RewardsInv, OneAwardPerRequest
<1>3. ChargesKept'
  BY DEF RewardsInv, ChargesKept
<1>4. \A a \in Authorization : Uses(a)' = Uses(a)
  BY DEF Uses
<1>5. UsesKept'
  BY <1>4 DEF RewardsInv, UsesKept
<1> QED
  BY <1>1, <1>2, <1>3, <1>5

(* What changes neither awards nor requests nor rewards keeps all.         *)
LEMMA RewardsAside ==
  ASSUME RewardsInv, DrawTypes', pull' = pull,
         UNCHANGED <<authorization, request, reward, claim, delivery>>,
         enabled' \subseteq Customer, opened' \subseteq Banner
  PROVE  RewardsInv'
<1>1. RewardsTypeOK' /\ RowsReserve'
  BY DEF RewardsInv, RewardsTypeOK, DrawTypes
<1>2. \A p \in Pull : Follows(p)'
  BY DEF RewardsInv, Follows
<1> QED
  BY <1>1, <1>2, RequestsAside DEF RewardsInv

(* A grant has no request.                                                 *)
LEMMA RewardsGrant ==
  ASSUME RewardsInv, DrawTypes', NEW b \in Banner, NEW c \in Configuration, NEW key \in GrantKey,
         NEW p \in Pull, Grant(b, c, key, p), UNCHANGED rewardVars
  PROVE  RewardsInv'
<1> USE DEF rewardVars
<1>1. /\ pull[p] = NoPull /\ pull'[p].status = "RESERVED" /\ pull'[p].key = key
      /\ \A q \in Pull : q # p => pull'[q] = pull[q]
  BY DrawsAward, AwardWrites DEF RewardsInv, RewardsTypeOK, DrawTypes
<1>2. request[p] = NoRequest /\ reward[p] = "NONE" /\ delivery[p] = "NONE" /\ claim[p] = NoClaim
  BY <1>1, FreshIsUntouched
<1>3. RewardsTypeOK' /\ RowsReserve'
  BY DEF RewardsInv, RewardsTypeOK, DrawTypes
<1>4. ASSUME NEW q \in Pull PROVE Follows(q)'
  <2>1. CASE q = p
    BY <1>2, <2>1 DEF Follows
  <2>2. CASE q # p
    BY <1>1, <2>2 DEF RewardsInv, Follows
  <2> QED
    BY <2>1, <2>2
<1>5. FreshPulls'
  <2> SUFFICES ASSUME NEW q \in Pull, pull'[q].status = "NONE" PROVE pull'[q] = NoPull
    BY DEF FreshPulls
  <2>1. q # p
    BY <1>1
  <2> QED
    BY <1>1, <2>1 DEF RewardsInv, FreshPulls
<1>6. OneAwardPerRequest'
  <2>1. \A q \in Pull : q # p => pull[q].key # key
    <3> SUFFICES ASSUME NEW q \in Pull, pull[q].key = key PROVE FALSE
      OBVIOUS
    <3>1. pull[q].status = "NONE"
      BY DEF Grant, Granted
    <3>2. pull[q].key = None
      BY <3>1 DEF RewardsInv, FreshPulls, NoPull
    <3> QED
      BY <3>2, GachaAssumption
  <2>2. ASSUME NEW q \in Pull, NEW r \in Pull, q # r
        PROVE  pull'[q].key # None => pull'[q].key # pull'[r].key
    <3>1. CASE q = p
      BY <1>1, <2>1, <2>2, <3>1
    <3>2. CASE r = p
      BY <1>1, <2>1, <2>2, <3>2
    <3>3. CASE q # p /\ r # p
      BY <1>1, <2>2, <3>3 DEF RewardsInv, OneAwardPerRequest
    <3> QED
      BY <3>1, <3>2, <3>3
  <2>3. request' = request
    OBVIOUS
  <2> QED
    BY <2>2, <2>3 DEF RewardsInv, OneAwardPerRequest
<1>7. ChargesKept'
  <2> SUFFICES ASSUME NEW q \in Pull, request[q].authorization # None
               PROVE  /\ request[q].customer # None
                      /\ request[q].customer = authorization[request[q].authorization].customer
                      /\ pull'[q].banner = authorization[request[q].authorization].banner
    BY DEF ChargesKept
  <2>1. q # p
    BY <1>2 DEF NoRequest
  <2> QED
    BY <1>1, <2>1 DEF RewardsInv, ChargesKept
<1>8. \A a \in Authorization : Uses(a)' = Uses(a)
  BY DEF Uses
<1>9. UsesKept'
  BY <1>8 DEF RewardsInv, UsesKept
<1> QED
  BY <1>3, <1>4, <1>5, <1>6, <1>7, <1>9 DEF RewardsInv

(* An allowance is new and nothing was drawn under it.                     *)
LEMMA RewardsAuthorize ==
  ASSUME RewardsInv, NEW b \in Banner, NEW g \in Customer, NEW key \in AuthorizationKey,
         NEW maxPulls \in 1..MaxPulls, NEW expiresAt \in 0..MaxTime+1, NEW a \in Authorization,
         Authorize(b, g, key, maxPulls, expiresAt, a)
  PROVE  RewardsInv'
<1>1. /\ UNCHANGED <<drawVars, enabled, opened, request, reward, claim, delivery>>
      /\ authorization[a] = NoAuthorization
      /\ authorization' = [authorization EXCEPT ![a] =
           [customer |-> g, banner |-> b, key |-> key, maxPulls |-> maxPulls,
            expiresAt |-> expiresAt]]
  BY DEF Authorize
<1>2. pull' = pull /\ DrawTypes'
  BY <1>1 DEF RewardsInv, RewardsTypeOK, DrawTypes, drawVars, gachaVars, inventoryVars, GachaTypeOK,
     InventoryTypeOK, RowsReserve
<1>3. maxPulls \in 0..MaxPulls /\ expiresAt \in Nat /\ MaxPulls \in Nat
  BY RewardsAssumption, InventoryAssumption
<1>4. RewardsTypeOK' /\ RowsReserve'
  <2>1. [customer |-> g, banner |-> b, key |-> key, maxPulls |-> maxPulls,
         expiresAt |-> expiresAt] \in AuthorizationRecord
    BY <1>3 DEF AuthorizationRecord
  <2>2. authorization' \in [Authorization -> AuthorizationRecord]
    BY <1>1, <2>1 DEF RewardsInv, RewardsTypeOK
  <2> QED
    BY <1>1, <1>2, <2>2 DEF RewardsInv, RewardsTypeOK, DrawTypes
<1>5. \A p \in Pull : Follows(p)'
  BY <1>1, <1>2 DEF RewardsInv, Follows
<1>6. FreshPulls' /\ OneAwardPerRequest'
  BY <1>1, <1>2 DEF RewardsInv, FreshPulls, OneAwardPerRequest
<1>7. \A p \in Pull : request[p].authorization # a
  <2> SUFFICES ASSUME NEW p \in Pull, request[p].authorization = a PROVE FALSE
    OBVIOUS
  <2>1. a # None
    BY RewardsAssumption
  <2>2. request[p].customer # None /\ request[p].customer = authorization[a].customer
    BY <2>1 DEF RewardsInv, ChargesKept
  <2> QED
    BY <1>1, <2>2 DEF NoAuthorization
<1>8. \A x \in Authorization : x # a => authorization'[x] = authorization[x]
  BY <1>1 DEF RewardsInv, RewardsTypeOK
<1>9. ChargesKept'
  <2> SUFFICES ASSUME NEW p \in Pull, request[p].authorization # None
               PROVE  /\ request[p].customer # None
                      /\ request[p].customer = authorization'[request[p].authorization].customer
                      /\ pull[p].banner = authorization'[request[p].authorization].banner
    BY <1>1, <1>2 DEF ChargesKept
  <2>1. request[p].authorization \in Authorization
    BY DEF RewardsInv, RewardsTypeOK, RequestRecord
  <2>2. authorization'[request[p].authorization] = authorization[request[p].authorization]
    BY <1>7, <1>8, <2>1
  <2> QED
    BY <2>2 DEF RewardsInv, ChargesKept
<1>10. UsesKept'
  <2> SUFFICES ASSUME NEW x \in Authorization
               PROVE  IsFiniteSet(Uses(x)') /\ Cardinality(Uses(x)') <= authorization'[x].maxPulls
    BY DEF UsesKept
  <2>1. Uses(x)' = Uses(x)
    BY <1>1 DEF Uses
  <2>2. CASE x = a
    <3>1. Uses(x) = {}
      BY <1>7, <2>2 DEF Uses
    <3>2. authorization'[x].maxPulls = maxPulls
      BY <1>1, <2>2 DEF RewardsInv, RewardsTypeOK
    <3> QED
      BY <1>3, <2>1, <3>1, <3>2, FS_EmptySet
  <2>3. CASE x # a
    BY <1>8, <2>1, <2>3 DEF RewardsInv, UsesKept
  <2> QED
    BY <2>2, <2>3
<1> QED
  BY <1>4, <1>5, <1>6, <1>9, <1>10 DEF RewardsInv

(* A draw is charged to an allowance that has one left.                    *)
LEMMA RewardsPull ==
  ASSUME RewardsInv, DrawTypes', NEW g \in Customer, NEW key \in RequestKey, NEW b \in Banner,
         NEW c \in Configuration, NEW p \in Pull, CustomerPull(g, key, b, c, p)
  PROVE  RewardsInv'
<1>1. /\ pull[p] = NoPull /\ pull'[p].status = "RESERVED" /\ pull'[p].key = None
      /\ pull'[p].banner = b /\ \A q \in Pull : q # p => pull'[q] = pull[q]
  BY DrawsAward, AwardWrites DEF CustomerPull, RewardsInv, RewardsTypeOK, DrawTypes
<1>2. request[p] = NoRequest /\ reward[p] = "NONE" /\ delivery[p] = "NONE" /\ claim[p] = NoClaim
  BY <1>1, FreshIsUntouched
<1>3. PICK a \in Charged(g, b) :
        request' = [request EXCEPT ![p] = [customer |-> g, key |-> key, authorization |-> a]]
  BY DEF CustomerPull
<1>4. /\ a \in Authorization /\ authorization[a].customer = g /\ authorization[a].banner = b
      /\ Cardinality(Uses(a)) < authorization[a].maxPulls
  BY DEF Charged, Allowances
<1>5. /\ reward' = [reward EXCEPT ![p] = "AWARDED"]
      /\ UNCHANGED <<enabled, opened, authorization, claim, delivery>>
      /\ ~Requested(g, key)
  BY DEF CustomerPull
<1>6. /\ request'[p] = [customer |-> g, key |-> key, authorization |-> a]
      /\ reward'[p] = "AWARDED"
      /\ \A q \in Pull : q # p => request'[q] = request[q] /\ reward'[q] = reward[q]
  BY <1>3, <1>5 DEF RewardsInv, RewardsTypeOK
<1>7. g # None /\ a # None
  BY <1>4, RewardsAssumption
<1>8. RewardsTypeOK' /\ RowsReserve'
  <2>1. [customer |-> g, key |-> key, authorization |-> a] \in RequestRecord
    BY <1>4 DEF RequestRecord
  <2>2. request' \in [Pull -> RequestRecord] /\ reward' \in [Pull -> RewardStatus]
    BY <1>3, <1>5, <2>1 DEF RewardsInv, RewardsTypeOK, RewardStatus
  <2> QED
    BY <1>5, <2>2 DEF RewardsInv, RewardsTypeOK, DrawTypes
<1>9. ASSUME NEW q \in Pull PROVE Follows(q)'
  <2>1. CASE q = p
    <3>1. request'[p] # NoRequest
      BY <1>6, <1>7 DEF NoRequest
    <3> QED
      BY <1>1, <1>2, <1>5, <1>6, <2>1, <3>1 DEF Follows
  <2>2. CASE q # p
    BY <1>1, <1>5, <1>6, <2>2 DEF RewardsInv, Follows
  <2> QED
    BY <2>1, <2>2
<1>10. FreshPulls'
  <2> SUFFICES ASSUME NEW q \in Pull, pull'[q].status = "NONE" PROVE pull'[q] = NoPull
    BY DEF FreshPulls
  <2>1. q # p
    BY <1>1
  <2> QED
    BY <1>1, <2>1 DEF RewardsInv, FreshPulls
<1>11. OneAwardPerRequest'
  <2>1. pull[p].key = None
    BY <1>1 DEF NoPull
  <2>2. ASSUME NEW q \in Pull, NEW r \in Pull, q # r
        PROVE  pull'[q].key # None => pull'[q].key # pull'[r].key
    <3>1. pull'[q].key = pull[q].key /\ pull'[r].key = pull[r].key
      BY <1>1, <2>1
    <3> QED
      BY <2>2, <3>1 DEF RewardsInv, OneAwardPerRequest
  <2>3. ASSUME NEW q \in Pull, q # p
        PROVE  <<request[q].customer, request[q].key>> # <<g, key>>
    BY <1>5 DEF Requested
  <2>4. ASSUME NEW q \in Pull, NEW r \in Pull, q # r, request'[q] # NoRequest
        PROVE  <<request'[q].customer, request'[q].key>> # <<request'[r].customer, request'[r].key>>
    <3>1. CASE q = p
      <4>1. request'[r] = request[r] /\ r # p
        BY <1>6, <2>4, <3>1
      <4> QED
        BY <1>6, <2>3, <3>1, <4>1
    <3>2. CASE r = p
      <4>1. request'[q] = request[q] /\ q # p
        BY <1>6, <2>4, <3>2
      <4> QED
        BY <1>6, <2>3, <3>2, <4>1
    <3>3. CASE q # p /\ r # p
      <4>1. request'[q] = request[q] /\ request'[r] = request[r]
        BY <1>6, <3>3
      <4> QED
        BY <2>4, <4>1 DEF RewardsInv, OneAwardPerRequest
    <3> QED
      BY <3>1, <3>2, <3>3
  <2> QED
    BY <2>2, <2>4 DEF OneAwardPerRequest
<1>12. ChargesKept'
  <2> SUFFICES ASSUME NEW q \in Pull, request'[q].authorization # None
               PROVE  /\ request'[q].customer # None
                      /\ request'[q].customer = authorization[request'[q].authorization].customer
                      /\ pull'[q].banner = authorization[request'[q].authorization].banner
    BY <1>5 DEF ChargesKept
  <2>1. CASE q = p
    BY <1>1, <1>4, <1>6, <1>7, <2>1
  <2>2. CASE q # p
    BY <1>1, <1>6, <2>2 DEF RewardsInv, ChargesKept
  <2> QED
    BY <2>1, <2>2
<1>13. UsesKept'
  <2> SUFFICES ASSUME NEW x \in Authorization
               PROVE  IsFiniteSet(Uses(x)') /\ Cardinality(Uses(x)') <= authorization[x].maxPulls
    BY <1>5 DEF UsesKept
  <2>1. IsFiniteSet(Uses(x)) /\ Cardinality(Uses(x)) <= authorization[x].maxPulls
    BY DEF RewardsInv, UsesKept
  <2>2. request[p].authorization = None
    BY <1>2 DEF NoRequest
  <2>3. CASE x = a
    <3>1. Uses(x)' = Uses(x) \cup {p} /\ p \notin Uses(x)
      BY <1>6, <1>7, <2>2, <2>3 DEF Uses
    <3>2. IsFiniteSet(Uses(x)') /\ Cardinality(Uses(x)') = Cardinality(Uses(x)) + 1
      BY <2>1, <3>1, FS_AddElement
    <3>3. Cardinality(Uses(x)) \in Nat
      BY <2>1, FS_CardinalityType
    <3>4. authorization[x].maxPulls \in Nat
      BY RewardsAssumption DEF RewardsInv, RewardsTypeOK, AuthorizationRecord
    <3> QED
      BY <1>4, <2>3, <3>2, <3>3, <3>4
  <2>4. CASE x # a
    <3>1. \A q \in Pull : request'[q].authorization = x <=> request[q].authorization = x
      BY <1>6, <2>2, <2>4, RewardsAssumption
    <3>2. Uses(x)' = Uses(x)
      BY <3>1 DEF Uses
    <3> QED
      BY <2>1, <3>2
  <2> QED
    BY <2>3, <2>4
<1> QED
  BY <1>8, <1>9, <1>10, <1>11, <1>12, <1>13 DEF RewardsInv

(* Claims and the steps of the parcel.                                     *)
LEMMA RewardsDeliver ==
  ASSUME RewardsInv, NEW p \in Pull,
         \/ \E g \in Customer, key \in ClaimKey, address \in Address : ClaimReward(g, p, key, address)
         \/ PrepareReward(p) \/ DeliverReward(p)
  PROVE  RewardsInv'
<1>1. UNCHANGED <<drawVars, enabled, opened, authorization, request>>
  BY DEF ClaimReward, PrepareReward, DeliverReward
<1>2. pull' = pull /\ DrawTypes'
  BY <1>1 DEF RewardsInv, RewardsTypeOK, DrawTypes, drawVars, gachaVars, inventoryVars, GachaTypeOK,
     InventoryTypeOK, RowsReserve
<1>3. ASSUME NEW g \in Customer, NEW key \in ClaimKey, NEW address \in Address,
             ClaimReward(g, p, key, address)
      PROVE  RewardsInv'
  <2>1. [key |-> key, address |-> address] \in ClaimRecord
        /\ [key |-> key, address |-> address] # NoClaim
    BY RewardsAssumption DEF ClaimRecord, NoClaim
  <2>2. /\ reward' = [reward EXCEPT ![p] = "CLAIMED"]
        /\ claim' = [claim EXCEPT ![p] = [key |-> key, address |-> address]]
        /\ delivery' = [delivery EXCEPT ![p] = "READY"]
        /\ reward[p] = "AWARDED" /\ pull[p].status = "RESERVED"
    BY <1>3 DEF ClaimReward, Claimable
  <2>3. RewardsTypeOK' /\ RowsReserve'
    BY <1>1, <1>2, <2>1, <2>2
       DEF RewardsInv, RewardsTypeOK, DrawTypes, RewardStatus, DeliveryStatus
  <2>4. ASSUME NEW q \in Pull PROVE Follows(q)'
    <3>1. CASE q = p
      <4>1. /\ reward'[p] = "CLAIMED" /\ delivery'[p] = "READY"
            /\ claim'[p] = [key |-> key, address |-> address]
        BY <2>2 DEF RewardsInv, RewardsTypeOK
      <4>2. request[p] # NoRequest
        BY <2>2 DEF RewardsInv, Follows
      <4> QED
        BY <1>1, <1>2, <2>1, <2>2, <3>1, <4>1, <4>2 DEF Follows
    <3>2. CASE q # p
      <4>1. reward'[q] = reward[q] /\ delivery'[q] = delivery[q] /\ claim'[q] = claim[q]
        BY <2>2, <3>2 DEF RewardsInv, RewardsTypeOK
      <4> QED
        BY <1>1, <1>2, <4>1 DEF RewardsInv, Follows
    <3> QED
      BY <3>1, <3>2
  <2> QED
    BY <1>1, <1>2, <2>3, <2>4, RequestsAside DEF RewardsInv
<1>4. CASE PrepareReward(p)
  <2>1. reward' = [reward EXCEPT ![p] = "PREPARING"] /\ reward[p] = "CLAIMED"
        /\ UNCHANGED <<claim, delivery>>
    BY <1>4 DEF PrepareReward
  <2>2. RewardsTypeOK' /\ RowsReserve'
    BY <1>1, <1>2, <2>1 DEF RewardsInv, RewardsTypeOK, DrawTypes, RewardStatus
  <2>3. ASSUME NEW q \in Pull PROVE Follows(q)'
    <3>1. reward'[q] = IF q = p THEN "PREPARING" ELSE reward[q]
      BY <2>1 DEF RewardsInv, RewardsTypeOK
    <3> QED
      BY <1>1, <1>2, <2>1, <3>1 DEF RewardsInv, Follows
  <2> QED
    BY <1>1, <1>2, <2>2, <2>3, RequestsAside DEF RewardsInv
<1>5. CASE DeliverReward(p)
  <2>1. /\ reward' = [reward EXCEPT ![p] = "DELIVERED"] /\ reward[p] = "SHIPPED"
        /\ delivery' = [delivery EXCEPT ![p] = "DELIVERED"] /\ delivery[p] = "SHIPPED"
        /\ claim' = claim
    BY <1>5 DEF DeliverReward
  <2>2. RewardsTypeOK' /\ RowsReserve'
    BY <1>1, <1>2, <2>1 DEF RewardsInv, RewardsTypeOK, DrawTypes, RewardStatus, DeliveryStatus
  <2>3. ASSUME NEW q \in Pull PROVE Follows(q)'
    <3>1. /\ reward'[q] = IF q = p THEN "DELIVERED" ELSE reward[q]
          /\ delivery'[q] = IF q = p THEN "DELIVERED" ELSE delivery[q]
      BY <2>1 DEF RewardsInv, RewardsTypeOK
    <3> QED
      BY <1>1, <1>2, <2>1, <3>1 DEF RewardsInv, Follows
  <2> QED
    BY <1>1, <1>2, <2>2, <2>3, RequestsAside DEF RewardsInv
<1> QED
  BY <1>3, <1>4, <1>5

(* What leaves was packed, what is taken back was not.                     *)
LEMMA RewardsClose ==
  ASSUME RewardsInv, DrawTypes', NEW p \in Pull,
         ShipReward(p) \/ CancelReward(p) \/ HandOver(p) \/ TakeBack(p)
  PROVE  RewardsInv'
<1>1. ConsumeAward(p) \/ CancelAward(p)
  BY DEF ShipReward, CancelReward, HandOver, TakeBack
<1>2. /\ pull[p].status = "RESERVED"
      /\ pull'[p].status = IF ConsumeAward(p) THEN "CONSUMED" ELSE "CANCELLED"
      /\ pull'[p].key = pull[p].key /\ pull'[p].banner = pull[p].banner
      /\ \A q \in Pull : q # p => pull'[q] = pull[q]
  BY <1>1, CloseWrites DEF RewardsInv, RewardsTypeOK, DrawTypes
<1>3. UNCHANGED <<enabled, opened, authorization, request, claim>>
  BY DEF ShipReward, CancelReward, HandOver, TakeBack, rewardVars
<1>4. CancelAward(p) => ~ConsumeAward(p)
  BY DEF CancelAward, ConsumeAward, RewardsInv, RewardsTypeOK, GachaTypeOK, PullRecord
<1>5. PICK status \in RewardStatus, sent \in DeliveryStatus :
        /\ reward' = [reward EXCEPT ![p] = status]
        /\ delivery' = [delivery EXCEPT ![p] = sent]
        /\ \/ status = "NONE" /\ sent = "NONE" /\ claim[p] = NoClaim /\ reward[p] = "NONE"
           \/ /\ status = "SHIPPED" /\ sent = "SHIPPED" /\ pull'[p].status = "CONSUMED"
              /\ claim[p] # NoClaim /\ reward[p] = "PREPARING"
           \/ /\ status = "CANCELLED" /\ pull'[p].status = "CANCELLED"
              /\ sent = IF claim[p] = NoClaim THEN "NONE" ELSE "CANCELLED"
              /\ reward[p] # "NONE"
  <2>1. reward[p] \in RewardStatus /\ delivery[p] \in DeliveryStatus /\ Follows(p)
    BY DEF RewardsInv, RewardsTypeOK
  <2>2. reward = [reward EXCEPT ![p] = reward[p]] /\ delivery = [delivery EXCEPT ![p] = delivery[p]]
    BY DEF RewardsInv, RewardsTypeOK
  <2>3. claim[p] = NoClaim <=> delivery[p] = "NONE"
    BY <2>1 DEF Follows
  <2>4. CASE ShipReward(p)
    BY <1>2, <2>4 DEF ShipReward, RewardStatus, DeliveryStatus
  <2>5. CASE CancelReward(p)
    <3> DEFINE sent == IF claim[p] = NoClaim THEN delivery[p] ELSE "CANCELLED"
    <3>1. /\ reward' = [reward EXCEPT ![p] = "CANCELLED"]
          /\ delivery' = [delivery EXCEPT ![p] = sent]
          /\ reward[p] # "NONE" /\ pull'[p].status = "CANCELLED"
      BY <1>2, <1>4, <2>5 DEF CancelReward
    <3>2. sent = IF claim[p] = NoClaim THEN "NONE" ELSE "CANCELLED"
      BY <2>3
    <3>3. sent \in DeliveryStatus /\ "CANCELLED" \in RewardStatus
      BY <3>2 DEF DeliveryStatus, RewardStatus
    <3> HIDE DEF sent
    <3> QED
      BY <3>1, <3>2, <3>3
  <2>6. CASE HandOver(p)
    <3>1. reward[p] = "NONE"
      BY <2>1, <2>6 DEF HandOver, Follows
    <3>2. pull[p].status = "RESERVED" /\ delivery[p] = "NONE"
      BY <1>2, <2>1, <3>1 DEF Follows, DeliveryStatus
    <3> QED
      BY <2>1, <2>2, <2>3, <2>6, <3>1, <3>2 DEF HandOver, rewardVars
  <2>7. CASE TakeBack(p)
    <3>1. claim[p] = NoClaim /\ delivery[p] = "NONE" /\ delivery' = delivery
      BY <2>3, <2>7 DEF TakeBack, OfStaff
    <3>2. pull'[p].status = "CANCELLED"
      BY <1>2, <1>4, <2>7 DEF TakeBack
    <3>3. CASE reward[p] = "NONE"
      <4>1. reward' = [reward EXCEPT ![p] = "NONE"]
        BY <2>7, <3>3 DEF TakeBack
      <4> QED
        BY <2>1, <2>2, <3>1, <3>3, <4>1
    <3>4. CASE reward[p] # "NONE"
      <4>1. reward' = [reward EXCEPT ![p] = "CANCELLED"] /\ "CANCELLED" \in RewardStatus
        BY <2>7, <3>4 DEF TakeBack, RewardStatus
      <4> QED
        BY <2>1, <2>2, <3>1, <3>2, <3>4, <4>1
    <3> QED
      BY <3>3, <3>4
  <2> QED
    BY <2>4, <2>5, <2>6, <2>7
<1>6. RewardsTypeOK' /\ RowsReserve'
  BY <1>3, <1>5 DEF RewardsInv, RewardsTypeOK, DrawTypes
<1>7. /\ reward'[p] = status /\ delivery'[p] = sent
      /\ \A q \in Pull : q # p => reward'[q] = reward[q] /\ delivery'[q] = delivery[q]
  BY <1>5 DEF RewardsInv, RewardsTypeOK
<1>8. ASSUME NEW q \in Pull PROVE Follows(q)'
  <2>1. CASE q = p
    <3>1. Follows(p)
      BY DEF RewardsInv
    <3> QED
      BY <1>3, <1>5, <1>7, <2>1, <3>1 DEF Follows
  <2>2. CASE q # p
    BY <1>2, <1>3, <1>7, <2>2 DEF RewardsInv, Follows
  <2> QED
    BY <2>1, <2>2
<1>9. \A q \in Pull : /\ pull'[q].key = pull[q].key /\ pull'[q].banner = pull[q].banner
                      /\ pull'[q].status = "NONE" => pull'[q] = pull[q]
  BY <1>2
<1> QED
  BY <1>3, <1>6, <1>8, <1>9, RequestsAside DEF RewardsInv

(* Nobody has asked for anything at first.                                 *)
LEMMA RewardsInvInit ==
  ASSUME RewardsInit
  PROVE  RewardsInv
<1>1. DrawTypes
  BY GachaInvInit DEF RewardsInit, GachaInv, DrawTypes
<1>2. /\ NoAuthorization \in AuthorizationRecord /\ NoRequest \in RequestRecord
      /\ NoClaim \in ClaimRecord
  BY RewardsAssumption
     DEF NoAuthorization, AuthorizationRecord, NoRequest, RequestRecord, NoClaim, ClaimRecord
<1>3. RewardsTypeOK
  BY <1>1, <1>2 DEF RewardsInit, RewardsTypeOK, DrawTypes, RewardStatus, DeliveryStatus
<1>4. \A p \in Pull : /\ request[p] = NoRequest /\ reward[p] = "NONE" /\ claim[p] = NoClaim
                      /\ delivery[p] = "NONE" /\ pull[p] = NoPull
  BY DEF RewardsInit, GachaInit
<1>5. (\A p \in Pull : Follows(p)) /\ FreshPulls /\ ChargesKept
  BY <1>4 DEF Follows, FreshPulls, ChargesKept, NoRequest
<1>6. OneAwardPerRequest
  BY <1>4 DEF OneAwardPerRequest, NoPull
<1>7. UsesKept
  <2> SUFFICES ASSUME NEW a \in Authorization
               PROVE  IsFiniteSet(Uses(a)) /\ Cardinality(Uses(a)) <= authorization[a].maxPulls
    BY DEF UsesKept
  <2>1. Uses(a) = {}
    BY <1>4, RewardsAssumption DEF Uses, NoRequest
  <2>2. authorization[a].maxPulls = 0
    BY DEF RewardsInit, NoAuthorization
  <2> QED
    BY <2>1, <2>2, FS_EmptySet
<1> QED
  BY <1>1, <1>3, <1>5, <1>6, <1>7 DEF RewardsInv, DrawTypes

(* Every step of the draws keeps their types.                              *)
LEMMA DrawTypesStep ==
  ASSUME DrawTypes, [GachaNext]_drawVars
  PROVE  DrawTypes'
<1>1. ASSUME NEW b \in Banner, NEW c \in Configuration, NEW key \in GrantKey \cup {None},
             NEW p \in Pull, Award(b, c, key, p)
      PROVE  DrawTypes'
  BY <1>1, AwardTypes
<1>2. CASE BannerNext
  BY <1>2, ConfigureTypes, FlagTypes DEF BannerNext
<1>3. CASE GrantNext \/ \E b \in Banner, c \in Configuration, p \in Pull : Draw(b, c, p)
  BY <1>1, <1>3, DrawsAward DEF GrantNext
<1>4. CASE \E p \in Pull : ConsumeAward(p) \/ CancelAward(p)
  BY <1>4, CloseTypes
<1>5. CASE UNCHANGED drawVars
  BY <1>5 DEF DrawTypes, drawVars, gachaVars, inventoryVars, GachaTypeOK, InventoryTypeOK, RowsReserve
<1> QED
  BY <1>2, <1>3, <1>4, <1>5, WorldTypes DEF GachaNext

(* Every step keeps rewards, requests and allowances in order.             *)
LEMMA RewardsInvStep ==
  ASSUME RewardsInv, [RewardsNext]_rewardsVars
  PROVE  RewardsInv'
<1>1. DrawTypes'
  BY RewardsDraw, DrawTypesStep DEF RewardsInv, RewardsTypeOK, DrawTypes
<1>2. CASE (WorldNext \/ BannerNext) /\ UNCHANGED rewardVars
  <2>1. pull' = pull
    BY <1>2, OthersKeepPulls
  <2> QED
    BY <1>1, <1>2, <2>1, RewardsAside DEF rewardVars, RewardsInv, RewardsTypeOK
<1>3. CASE GrantNext /\ UNCHANGED rewardVars
  BY <1>1, <1>3, RewardsGrant DEF GrantNext
<1>4. CASE AllowNext
  <2>1. ASSUME NEW g \in Customer, SetDisabled(g) PROVE RewardsInv'
    <3>1. /\ pull' = pull /\ opened' = opened /\ enabled' \subseteq Customer
          /\ UNCHANGED <<authorization, request, reward, claim, delivery>>
      BY <2>1 DEF SetDisabled, drawVars, gachaVars, RewardsInv, RewardsTypeOK
    <3> QED
      BY <1>1, <3>1, RewardsAside DEF RewardsInv, RewardsTypeOK
  <2>2. ASSUME NEW b \in Banner, Enable(b) PROVE RewardsInv'
    <3>1. /\ pull' = pull /\ enabled' = enabled /\ opened' \subseteq Banner
          /\ UNCHANGED <<authorization, request, reward, claim, delivery>>
      BY <2>2 DEF Enable, drawVars, gachaVars, RewardsInv, RewardsTypeOK
    <3> QED
      BY <1>1, <3>1, RewardsAside DEF RewardsInv, RewardsTypeOK
  <2> QED
    BY <1>4, <2>1, <2>2, RewardsAuthorize DEF AllowNext
<1>5. CASE CustomerNext
  BY <1>1, <1>5, RewardsPull, RewardsDeliver DEF CustomerNext
<1>6. CASE QueueNext
  BY <1>1, <1>6, RewardsDeliver, RewardsClose DEF QueueNext
<1>7. CASE UNCHANGED rewardsVars
  <2>1. pull' = pull /\ UNCHANGED rewardVars
    BY <1>7 DEF rewardsVars, drawVars, gachaVars
  <2> QED
    BY <1>1, <2>1, RewardsAside DEF rewardVars, RewardsInv, RewardsTypeOK
<1> QED
  BY <1>2, <1>3, <1>4, <1>5, <1>6, <1>7 DEF RewardsNext

(* The tables of the rewards stay well-formed.                             *)
THEOREM RewardsTypes == RewardsSpec => []RewardsTypeOK
<1>1. RewardsInv => RewardsTypeOK
  BY DEF RewardsInv
<1> QED
  BY <1>1, RewardsInvInit, RewardsInvStep, PTL DEF RewardsSpec

(* Reward, award and delivery agree whoever finalises the award: nothing   *)
(* is packed for an award that was taken back, and a unit has left exactly *)
(* for what was dispatched.                                                *)
THEOREM RewardsFollowAwards == RewardsSpec => []RewardFollowsAward
<1>1. RewardsInv => RewardFollowsAward
  BY DEF RewardsInv, Follows, RewardFollowsAward
<1> QED
  BY <1>1, RewardsInvInit, RewardsInvStep, PTL DEF RewardsSpec

(* A grant or a draw repeated after a lost answer awards once.             *)
THEOREM RequestsAwardOnce == RewardsSpec => []OneAwardPerRequest
<1>1. RewardsInv => OneAwardPerRequest
  BY DEF RewardsInv
<1> QED
  BY <1>1, RewardsInvInit, RewardsInvStep, PTL DEF RewardsSpec

(* An allowance is spent at most once per draw it allows, by its customer  *)
(* on its banner.                                                          *)
THEOREM AllowancesAreKept == RewardsSpec => []AllowanceKept
<1>1. ASSUME RewardsInv PROVE AllowanceKept
  <2>1. \A a \in Authorization : a # None
    BY RewardsAssumption
  <2>2. \A a \in Authorization : {p \in Pull : request[p].authorization = a} = Uses(a)
    BY DEF Uses
  <2> QED
    BY <1>1, <2>1, <2>2 DEF RewardsInv, UsesKept, ChargesKept, AllowanceKept
<1> QED
  BY <1>1, RewardsInvInit, RewardsInvStep, PTL DEF RewardsSpec
==============================================================================
