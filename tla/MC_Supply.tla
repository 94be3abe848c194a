------------------------------ MODULE MC_Supply ------------------------------
(* An instance of the modules in which staff bring in goods and items, and *)
(* find them again: each behaviour is one of supply, of a bulk review,     *)
(* whose ledger starts with what staff receive under a key of their own,   *)
(* of a form for one movement, of a page for new items, or of the lists.   *)
(*                                                                         *)
(* For supply, a place in Japan with a transit group below it, a place in  *)
(* France, and the dedicated location of each shipment, not yet made.      *)
(* For the lists, three items of the second lineup by name: two on sale    *)
(* that sort alike, and one on the watchlist.                              *)
(*                                                                         *)
(* Bounds of the instance.  Adjustments name the first pair of locations.  *)
(* A form has one command under way once a third key is drawn.  One row of *)
(* the grid at a time waits for a character or an image, none while the    *)
(* rows are saved.  The grid, which does not look at imports, is opened    *)
(* before any, and its rows are not edited between the check of a save and *)
(* its end; no page is opened beside a request that was interrupted.  The  *)
(* second change of the catalog comes when a list is being paged through.  *)
EXTENDS Supply, StockForms, Entry, Browse, TLC

VARIABLE part

Made(parent, transit, country) ==
  [known |-> TRUE, parent |-> parent,
   setting |-> [transit |-> transit, country |-> country, open |-> TRUE]]

Unmade ==
  [known |-> FALSE, parent |-> NoLocation,
   setting |-> [transit |-> FALSE, country |-> NoCountry, open |-> TRUE]]

ThreePlaces ==
  [l \in Location |->
     CASE l = 1 -> Made(NoLocation, FALSE, "JP")
       [] l = 2 -> Made(1, TRUE, NoCountry)
       [] l = 3 -> Made(NoLocation, FALSE, "FR")
       [] OTHER -> Unmade]

Edits == {[transit |-> FALSE, country |-> "FR", open |-> FALSE]}

OneBox == [s \in Shipment |-> 4]
Symmetric ==  \* the candidates of an import, too
  Permutations(Item) \cup Permutations(RowKey)

AllKeys == StaffKey \cup SupplyKeys \cup BulkKeys \cup FormKey
Pairs == {<<1, 2>>, <<1, 3>>}

Plain ==
  [list |-> "CATALOG", card |-> 1, archived |-> "false", stock |-> "any", sale |-> "any",
   watch |-> "any", below |-> FALSE, lineup |-> NoLineup, named |-> Lineup,
   sort |-> "release-desc"]

SomeViews ==
  {Plain,
   [Plain EXCEPT !.sale = "published", !.stock = "fulfillable", !.lineup = 2,
                 !.sort = "fulfillable"],
   [Plain EXCEPT !.list = "WATCHLIST", !.archived = "true", !.below = TRUE, !.sort = "gap"],
   [Plain EXCEPT !.archived = "only", !.stock = "none", !.sort = "release-asc"],
   [Plain EXCEPT !.list = "HISTORY"]}

OneSellable == [p \in Shelf |-> IF p = "FULFILLABLE" THEN 1 ELSE 0]
Catalogued == [NoCard EXCEPT !.status = "ACTIVE", !.lineup = 2]
OnSale(n) == [Catalogued EXCEPT !.sale = "PUBLISHED", !.held = OneSellable, !.moves = n]
OneCatalog == {<<OnSale(3), [Catalogued EXCEPT !.watch = 1, !.target = 1], OnSale(1)>>}

suppliers == <<tree, purchase, shipment, work>>
reviewers == <<dialog, request>>

StaffReceipt ==
  /\ \E op \in Operation :
       /\ op.key \in StaffKey /\ op.route[1] = NoLocation
       /\ ApplyInventoryOperation(op)
  /\ UNCHANGED reviewers

StockInit ==
  /\ part \in {"supply", "bulk", "form", "entry", "lists"}
  /\ SupplyInit
  /\ BulkInit
  /\ FormsInit
  /\ EntryInit
  /\ part # "entry" => known = {}
  /\ BrowseInit

StockNext ==
  \/ /\ part = "supply" /\ SupplyNext
     /\ UNCHANGED <<part, reviewers, formVars, entryVars, browseVars>>
  \/ /\ part = "bulk"
     /\ BulkNext \/ StaffReceipt
     /\ (\E r \in Review : dialog[r].action = "adjust") =>
          \A t \in DOMAIN request : request'[t].places = NoRequest.places
     /\ UNCHANGED <<part, suppliers, formVars, entryVars, browseVars>>
  \/ /\ part = "form" /\ FormsNext
     /\ Cardinality(drawn') > 2 => \A f \in Form : Cardinality(post'[f]) <= 1
     /\ UNCHANGED <<part, suppliers, entryVars, browseVars>>
  \/ /\ part = "entry" /\ EntryNext
     /\ page'.kind = "GRID" =>
          Cardinality(page'.making) <= IF page'.sent.kind = "SAVE" THEN 0 ELSE 1
     /\ page'.kind = "GRID" => imported = {} /\ (saving' # Idle => page' = page)
     /\ page = Closed /\ page' # Closed => saving = Idle
     /\ UNCHANGED <<part, supplyVars, reviewers, formVars, browseVars>>
  \/ /\ part = "lists" /\ BrowseNext
     /\ writes > 0 /\ writes' > writes => walk.pages > 0
     /\ UNCHANGED <<part, supplyVars, reviewers, formVars, entryVars>>

StockSpec ==
  StockInit
    /\ [][StockNext]_<<part, supplyVars, reviewers, formVars, entryVars, browseVars>>
==============================================================================
