-------------------------------- MODULE Gacha --------------------------------
(***************************************************************************)
(* Prize draws: banners, their immutable configurations, the prize pools   *)
(* that hold physical stock and the awards drawn from them                 *)
(* (src/modules/gacha/service.ts).                                         *)
(*                                                                         *)
(* A prize is an item of one configuration.  Its pool has one confirmed    *)
(* reservation of one unit per unit of its allocation: the holder of such  *)
(* a row is a Unit.  The other holders of module Inventory are orders of   *)
(* the shop, which compete for the same stock.  Every operation locks the  *)
(* banner, then the items: a transaction is one action.                    *)
(***************************************************************************)
EXTENDS Inventory

CONSTANTS
  None,           \* the null value
  Banner,         \* gacha banners
  Configuration,  \* ids of configuration versions
  Pull,           \* ids of awards
  GrantKey,       \* operation keys submitted with a grant
  DrawsEnabled,   \* GACHA_DRAWS_ENABLED, set when the program starts
  MaxAllocation,  \* the largest allocation of a prize
  Window          \* schedules: the times at which a banner draws

(* The n-th pool row of a prize. *)
Unit == Configuration \X Item \X (1..MaxAllocation)

(* The orders of the shop. *)
Shopper == Holder \ Unit

ASSUME GachaAssumption ==
  /\ Unit \subseteq Holder
  /\ None \notin Banner \cup Configuration \cup Item \cup Pull \cup GrantKey
  /\ DrawsEnabled \in BOOLEAN
  /\ MaxAllocation \in Nat \ {0}
  /\ Window \subseteq SUBSET Nat

VARIABLES
  eligible,       \* fulfillableLocationIds(FRANCE)
  offered,        \* items that are not archived, nor their lineup or franchise
  banner,         \* gacha_banners
  configuration,  \* gacha_configurations with their gacha_prizes
  awarded,        \* gacha_pull_id of the pool rows
  pull            \* gacha_pulls

gachaVars == <<eligible, offered, banner, configuration, awarded, pull>>
drawVars == <<inventoryVars, gachaVars>>

PullStatus == {"NONE", "RESERVED", "CONSUMED", "CANCELLED"}

NoBanner == [configuration |-> None, active |-> FALSE, window |-> {}]
NoConfiguration ==
  [banner |-> None, replaced |-> None, allocation |-> [i \in Item |-> 0]]
NoPull ==
  [status |-> "NONE", banner |-> None, configuration |-> None, asked |-> None,
   item |-> None, key |-> None]

BannerRecord ==
  [configuration : Configuration \cup {None}, active : BOOLEAN, window : Window \cup {{}}]

(* A version records the version its author had reviewed. *)
ConfigurationRecord ==
  [banner : Banner \cup {None}, replaced : Configuration \cup {None},
   allocation : [Item -> 0..MaxAllocation]]

(* An award records the version its request had reviewed. *)
PullRecord ==
  [status : PullStatus, banner : Banner \cup {None},
   configuration : Configuration \cup {None}, asked : Configuration \cup {None},
   item : Item \cup {None}, key : GrantKey \cup {None}]

GachaTypeOK ==
  /\ InventoryTypeOK
  /\ eligible \subseteq receiving
  /\ offered \subseteq Item
  /\ banner \in [Banner -> BannerRecord]
  /\ configuration \in [Configuration -> ConfigurationRecord]
  /\ awarded \in [Unit -> Pull \cup {None}]
  /\ pull \in [Pull -> PullRecord]
------------------------------------------------------------------------------
(***************************************************************************)
(* Reading the state.                                                      *)
(***************************************************************************)
Prizes(c) == {i \in Item : configuration[c].allocation[i] > 0}

(* Where the row of a unit is, in one of the given states.                 *)
Places(u, statuses) ==
  {l \in Location : reservation[<<u, u[2], l>>].status \in statuses}

(* Mutant of PoolUnits: awarded units are counted with the pool.           *)
EveryUnit(c) == {u \in Unit : u[1] = c /\ Places(u, {"CONFIRMED"}) # {}}

(* The units of a version that are reserved and not awarded.               *)
PoolUnits(c) ==
  {u \in Unit : u[1] = c /\ awarded[u] = None /\ Places(u, {"CONFIRMED"}) # {}}

Remaining(c, i) == {u \in PoolUnits(c) : u[2] = i}

(* Mutant of PoolStands: stock is drawn as long as any prize is left.      *)
AnyLeft(c) ==
  /\ \A u \in PoolUnits(c) : u[2] \in offered /\ Places(u, {"CONFIRMED"}) \subseteq eligible
  /\ \E i \in Prizes(c) : Remaining(c, i) # {}

(* Every unit left is where it can be dispatched from, and no prize of the *)
(* version is depleted: the odds hold for stock that exists.               *)
PoolStands(c) ==
  /\ \A u \in PoolUnits(c) : u[2] \in offered /\ Places(u, {"CONFIRMED"}) \subseteq eligible
  /\ \A i \in Prizes(c) : Remaining(c, i) # {}

(* poolReadiness.                                                          *)
Ready(b, checkSchedule) ==
  /\ banner[b].configuration # None
  /\ DrawsEnabled
  /\ checkSchedule => banner[b].active /\ now \in banner[b].window
  /\ PoolStands(banner[b].configuration)

(* Free units at a location once the units old have been given up.         *)
FreeBeside(old, i, l) == balance[<<i, l>>] - Cardinality(ReservedUnits(Holder \ old, i, l))

FreeFor(old, i, locations) ==
  {u \in (locations \cap eligible) \X (1..MaxStock) : u[2] <= FreeBeside(old, i, u[1])}

(* The n-th row of a prize is placed at l: the locations are gone through  *)
(* in the order of their ids and each gives what it has free.              *)
PlacedAt(old, i, l, n) ==
  LET before == Cardinality(FreeFor(old, i, {k \in Location : k < l}))
  IN l \in eligible /\ before < n /\ n <= before + FreeBeside(old, i, l)

(* The reservations once units are given up.                               *)
WithoutUnits(units) ==
  [a \in Allocation |->
     IF a[1] \in units /\ reservation[a].status = "CONFIRMED"
     THEN [reservation[a] EXCEPT !.status = "RELEASED"]
     ELSE reservation[a]]
------------------------------------------------------------------------------
GachaInit ==
  /\ InventoryInit
  /\ eligible = Location
  /\ offered = Item
  /\ banner = [b \in Banner |-> NoBanner]
  /\ configuration = [c \in Configuration |-> NoConfiguration]
  /\ awarded = [u \in Unit |-> None]
  /\ pull = [p \in Pull |-> NoPull]
------------------------------------------------------------------------------
(***************************************************************************)
(* What happens around the draws.                                          *)
(***************************************************************************)
SubmitOperation(op) == ApplyInventoryOperation(op) /\ UNCHANGED gachaVars

EditTree ==
  /\ EditLocations
  /\ eligible' \in SUBSET receiving'
  /\ UNCHANGED <<offered, banner, configuration, awarded, pull>>

(* Archiving or restoring an item, its lineup or its franchise.            *)
EditCatalog ==
  /\ offered' \in SUBSET Item
  /\ UNCHANGED <<inventoryVars, eligible, banner, configuration, awarded, pull>>

PassTime == Tick /\ UNCHANGED gachaVars

(* Orders hold, confirm, release and dispatch stock of their own.          *)
OrderStep ==
  /\ \E h \in Shopper : Hold(h) \/ Confirm(h) \/ Release(h) \/ Consume(h)
  /\ UNCHANGED gachaVars
------------------------------------------------------------------------------
(***************************************************************************)
(* Banners and their pools.                                                *)
(***************************************************************************)

(* Mutant of CurrentPool: the pool of the old version is left alone.       *)
KeptPool(b) == {}

(* The pool the banner has now.                                            *)
CurrentPool(b) ==
  IF banner[b].configuration = None THEN {} ELSE PoolUnits(banner[b].configuration)

(* Mutant of Backed: a pool is made of whatever is there.                  *)
BackedInPart(old, allocation) ==
  \A i \in Item : allocation[i] > 0 =>
    i \in offered /\ FreeFor(old, i, Location) # {}

(* Every prize can be offered and its whole allocation reserved.           *)
Backed(old, allocation) ==
  \A i \in Item : allocation[i] > 0 =>
    i \in offered /\ Cardinality(FreeFor(old, i, Location)) >= allocation[i]

(* The request was made looking at the version that is current.            *)
Reviewed(b, c) == banner[b].configuration = c

(* configure: a new version takes the place of the current one with its    *)
(* whole pool, or nothing changes.  Awards keep their units.               *)
Configure(b, expected, c, allocation, active, window) ==
  LET old == CurrentPool(b)
  IN /\ Reviewed(b, expected)
     /\ configuration[c] = NoConfiguration
     /\ \E i \in Item : allocation[i] > 0
     /\ Backed(old, allocation)
     /\ reservation' = [a \in Allocation |->
          IF /\ a[1] \in Unit /\ a[1][1] = c /\ a[1][2] = a[2]
             /\ a[1][3] <= allocation[a[2]]
             /\ PlacedAt(old, a[2], a[3], a[1][3])
          THEN [status |-> "CONFIRMED", quantity |-> 1, expiresAt |-> 0]
          ELSE WithoutUnits(old)[a]]
     /\ configuration' = [configuration EXCEPT ![c] =
          [banner |-> b, replaced |-> expected, allocation |-> allocation]]
     /\ banner' = [banner EXCEPT ![b] =
          [configuration |-> c, active |-> active, window |-> window]]
     /\ UNCHANGED <<now, balance, movement, receiving, eligible, offered,
                    awarded, pull>>

Pause(b, c) ==
  /\ c # None /\ Reviewed(b, c)
  /\ banner' = [banner EXCEPT ![b].active = FALSE]
  /\ UNCHANGED <<inventoryVars, eligible, offered, configuration, awarded, pull>>

Resume(b, c) ==
  /\ c # None /\ Reviewed(b, c)
  /\ Ready(b, FALSE)
  /\ banner' = [banner EXCEPT ![b].active = TRUE]
  /\ UNCHANGED <<inventoryVars, eligible, offered, configuration, awarded, pull>>

(* The unawarded units go back to ordinary stock; the banner stops.        *)
ReleasePool(b, c) ==
  /\ c # None /\ Reviewed(b, c)
  /\ reservation' = WithoutUnits(PoolUnits(c))
  /\ banner' = [banner EXCEPT ![b].active = FALSE]
  /\ UNCHANGED <<now, balance, movement, receiving, eligible, offered,
                 configuration, awarded, pull>>
------------------------------------------------------------------------------
(***************************************************************************)
(* Awards.                                                                 *)
(***************************************************************************)

(* awardInTransaction: a ready banner draws one of its prizes, whatever    *)
(* ticket came up, and the award takes one reserved unit of it.            *)
Award(b, asked, key, p) ==
  LET c == banner[b].configuration
  IN /\ Ready(b, TRUE)
     /\ pull[p] = NoPull
     /\ \E i \in Prizes(c) : \E u \in Remaining(c, i) :
          /\ awarded' = [awarded EXCEPT ![u] = p]
          /\ pull' = [pull EXCEPT ![p] =
               [status |-> "RESERVED", banner |-> b, configuration |-> c, asked |-> asked,
                item |-> i, key |-> key]]
     /\ UNCHANGED <<inventoryVars, eligible, offered, banner, configuration>>

(* The key was used: the retry is answered with the award, or refused.     *)
Granted(key) == \E p \in Pull : pull[p].status # "NONE" /\ pull[p].key = key

Grant(b, asked, key, p) ==
  /\ ~Granted(key)
  /\ asked # None /\ Reviewed(b, asked)
  /\ Award(b, asked, key, p)

(* A draw that a customer makes, under a key nobody submitted; what it     *)
(* takes to be allowed one is in module Rewards.                           *)
Draw(b, asked, p) ==
  /\ asked # None /\ Reviewed(b, asked)
  /\ Award(b, asked, None, p)

AwardUnits(p) == {u \in Unit : awarded[u] = p}

Open(p) == pull[p].status = "RESERVED"

(* finalizeAwardInTransaction: the unit leaves through one movement under  *)
(* the key of the award, from a location that may dispatch.                *)
ConsumeAward(p) ==
  /\ Open(p)
  /\ \E u \in AwardUnits(p) :
       /\ Places(u, {"CONFIRMED"}) \subseteq eligible
       /\ Consume(u)
  /\ pull' = [pull EXCEPT ![p].status = "CONSUMED"]
  /\ UNCHANGED <<eligible, offered, banner, configuration, awarded>>

CancelAward(p) ==
  /\ Open(p)
  /\ \E u \in AwardUnits(p) : reservation' = Released(u)
  /\ pull' = [pull EXCEPT ![p].status = "CANCELLED"]
  /\ UNCHANGED <<now, balance, movement, receiving, eligible, offered,
                 banner, configuration, awarded>>
------------------------------------------------------------------------------
WorldNext ==
  \/ \E op \in Operation : SubmitOperation(op)
  \/ EditTree \/ EditCatalog \/ PassTime \/ OrderStep

BannerNext ==
  \E b \in Banner, c \in Configuration :
    \/ \E expected \in Configuration \cup {None}, allocation \in [Item -> 0..MaxAllocation],
          active \in BOOLEAN, window \in Window :
         Configure(b, expected, c, allocation, active, window)
    \/ Pause(b, c) \/ Resume(b, c) \/ ReleasePool(b, c)

GrantNext ==
  \E b \in Banner, c \in Configuration, key \in GrantKey, p \in Pull : Grant(b, c, key, p)

GachaNext ==
  \/ WorldNext \/ BannerNext \/ GrantNext
  \/ \E b \in Banner, c \in Configuration, p \in Pull : Draw(b, c, p)
  \/ \E p \in Pull : ConsumeAward(p) \/ CancelAward(p)

GachaSpec == GachaInit /\ [][GachaNext]_drawVars
------------------------------------------------------------------------------
(***************************************************************************)
(* Properties.                                                             *)
(***************************************************************************)

(* An award keeps exactly one unit of the prize it drew, in the state the  *)
(* award is in, whatever is reconfigured or released around it             *)
(* (validate_gacha_award).                                                 *)
AwardKeepsUnit ==
  \A p \in Pull : pull[p].status # "NONE" =>
    \E u \in Unit :
      /\ AwardUnits(p) = {u}
      /\ u[1] = pull[p].configuration /\ u[2] = pull[p].item
      /\ \E l \in Location :
           reservation[<<u, u[2], l>>].status =
             CASE pull[p].status = "RESERVED"  -> "CONFIRMED"
               [] pull[p].status = "CONSUMED"  -> "CONSUMED"
               [] pull[p].status = "CANCELLED" -> "RELEASED"

(* Stock set aside for prizes is never lost: a unit that is reserved and   *)
(* not awarded belongs to the version its banner has now, the only one     *)
(* that reconfiguring or releasing gives back.                             *)
PoolIsCurrent ==
  \A c \in Configuration : PoolUnits(c) # {} =>
    /\ configuration[c].banner # None
    /\ banner[configuration[c].banner].configuration = c

(* A version is published with its whole allocation, each unit in one      *)
(* place, and never gets another unit.                                     *)
WholeAllocation ==
  \A c \in Configuration, i \in Item :
    {u[3] : u \in {v \in Unit : v[1] = c /\ v[2] = i /\
                     Cardinality(Places(v, ReservationStatus \ {"NONE"})) = 1}}
      = 1..configuration[c].allocation[i]

(* The published odds are real: an award is drawn from the version its     *)
(* requester reviewed, while that is current and every prize of it has a   *)
(* unit left; nothing is redistributed once a prize has run out.           *)
OddsAreReal ==
  [][\A p \in Pull : pull[p].status = "NONE" /\ pull'[p].status # "NONE" =>
       LET c == pull'[p].asked
       IN /\ c = pull'[p].configuration
          /\ \E b \in Banner : banner[b].configuration = c
          /\ \A i \in Prizes(c) : Remaining(c, i) # {}]_drawVars
==============================================================================
