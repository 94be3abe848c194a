-------------------------------- MODULE Places --------------------------------
(***************************************************************************)
(* The tree of storage locations.  A location is open, in transit or in a  *)
(* country through itself and its ancestors, so that one edit changes what *)
(* every location below it may receive (locationPaths).                    *)
(*                                                                         *)
(* Every edit first takes the exclusive advisory lock of the hierarchy and *)
(* reads afterwards: an edit is one action.  The version a form carries    *)
(* only refuses edits and is not in the model.                             *)
(***************************************************************************)
EXTENDS Inventory

CONSTANTS
  Country,      \* country codes a location may carry
  NoCountry,    \* the null country
  Settings,     \* the settings that are submitted
  Layout        \* the tree that earlier sessions have built

VARIABLE
  tree          \* storage_locations: parent and settings by location

Setting == [transit : BOOLEAN, country : Country \cup {NoCountry}, open : BOOLEAN]

Place ==
  [known : BOOLEAN, parent : Location \cup {NoLocation}, setting : Setting]

(* Mutant of Above: the location itself and its parent only.               *)
AboveOneStep(t, l) == {l, t[l].parent} \ {NoLocation}

(* A location and its ancestors: the least set that has it and the parent  *)
(* of each of its members.                                                 *)
Above(t, l) ==
  LET closed == {S \in SUBSET Location :
                   l \in S /\ \A m \in S : t[m].parent = NoLocation \/ t[m].parent \in S}
  IN {a \in Location : \A S \in closed : a \in S}

Transit(t, l) == \E a \in Above(t, l) : t[a].setting.transit

(* The country of the nearest ancestor that has one, none in transit.      *)
CountryOf(t, l) ==
  LET above == Above(t, l)
      named == {a \in above : t[a].setting.country # NoCountry}
  IN IF named = {} \/ \E a \in above : t[a].setting.transit THEN NoCountry
     ELSE t[CHOOSE a \in named : named \subseteq Above(t, a)].setting.country

Receives(t, l) == t[l].known /\ \A a \in Above(t, l) : t[a].setting.open

Open(t) == {l \in Location : Receives(t, l)}

Acyclic(t) ==
  \A S \in SUBSET Location : S # {} => \E l \in S : t[l].parent \notin S

PlacesAssumption ==
  /\ NoCountry \notin Country
  /\ Settings \subseteq Setting
  /\ Layout \in [Location -> Place]
  /\ Acyclic(Layout)
  /\ \A l \in Location :
       /\ ~Layout[l].known => Layout[l].parent = NoLocation
       /\ Layout[l].parent \in Location => Layout[Layout[l].parent].known

ASSUME PlacesAssumption

PlacesTypeOK ==
  /\ InventoryTypeOK
  /\ tree \in [Location -> Place]
------------------------------------------------------------------------------
PlacesInit ==
  /\ now = 0
  /\ balance = [s \in Slot |-> 0]
  /\ movement = {}
  /\ reservation = [a \in Allocation |-> NoReservation]
  /\ tree = Layout
  /\ receiving = Open(Layout)

(* The parent of an edit must exist; moving a location below itself or     *)
(* below one of its descendants is refused (validateParent).               *)
ValidParent(l, parent) ==
  parent \in Location => tree[parent].known /\ l \notin Above(tree, parent)

Rewrite(l, place) ==
  /\ tree' = [tree EXCEPT ![l] = place]
  /\ receiving' = Open(tree')

(* createLocation and updateLocation.                                      *)
SavePlace(l, parent, setting) ==
  /\ ValidParent(l, parent)
  /\ Rewrite(l, [known |-> TRUE, parent |-> parent, setting |-> setting])

Reparent(l, parent) ==
  /\ tree[l].known
  /\ ValidParent(l, parent)
  /\ Rewrite(l, [tree[l] EXCEPT !.parent = parent])

EditPlace(l, parent) ==
  /\ Reparent(l, parent) \/ \E setting \in Settings : SavePlace(l, parent, setting)
  /\ UNCHANGED <<now, balance, movement, reservation>>
------------------------------------------------------------------------------
(* The parents form a forest: no set of locations is closed under parent,  *)
(* so every path ends at a root, whoever moves what at the same time       *)
(* (validateParent, and the readers that follow parents without a bound).  *)
TreeIsAcyclic == Acyclic(tree)
==============================================================================
