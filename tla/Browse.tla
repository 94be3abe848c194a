-------------------------------- MODULE Browse --------------------------------
(***************************************************************************)
(* The lists staff page through: the catalog grid and the watchlist        *)
(* (src/modules/catalog/queries.ts) and the movement history of an item.   *)
(*                                                                         *)
(* An address holds the filters and a page.  Loading it takes several      *)
(* statements of one READ COMMITTED transaction, and following Next takes  *)
(* several loads, while other members of staff change the catalog.         *)
(*                                                                         *)
(* Filters that only compare a column (text, franchise, category, month,   *)
(* codes, sources) are all like the filter on the lineup; a disabled watch *)
(* is no watch; an archived lineup or franchise is like archiving each of  *)
(* its items.  Stock is counted at two places, one of which may fulfil     *)
(* orders, and units move one at a time.  The statements Prisma makes for  *)
(* the relations of a card are taken as one.  Movements are numbered as    *)
(* they are committed (the code goes by when their transaction began).     *)
(***************************************************************************)
EXTENDS Integers, FiniteSets

CONSTANTS
  Card,         \* merchandise items; numbers, for the order of their ids
  Lineup,       \* lineups; numbers, for the order of their names
  OptionLimit,  \* lineups a filter offers before it must be searched
  View,         \* what addresses ask for
  Start,        \* catalogs before the behaviours begin
  PageSize,
  MaxAsked,     \* bound of the model on the page in an address
  MaxRelease,   \* bound of the model on release dates
  MaxHeld,      \* bound of the model on units of an item at a place
  MaxPriority,  \* bound of the model on the priority of a watch
  MaxTarget,    \* bound of the model on the target quantity of a watch
  MaxWrites     \* bound of the model on the changes to the catalog

VARIABLES
  catalog,      \* the items with their listing, watch, stock and movements
  listing,      \* the page that is loaded or shown
  walk,         \* history: the pages read one after the other from the first
  writes        \* changes made so far

browseVars == <<catalog, listing, walk, writes>>

Shelf == {"STORE", "FULFILLABLE"}
Priority == 0..MaxPriority   \* 0: not watched
NoLineup == 0

CardRow ==
  [status : {"ABSENT", "ACTIVE", "ARCHIVED", "DELETED"}, release : 0..MaxRelease,
   lineup : Lineup \cup {NoLineup}, sale : {"NONE", "DRAFT", "PUBLISHED"},
   watch : Priority, target : 0..MaxTarget, held : [Shelf -> 0..MaxHeld], moves : Nat]

NoCard ==
  [status |-> "ABSENT", release |-> 0, lineup |-> NoLineup, sale |-> "NONE", watch |-> 0,
   target |-> 0, held |-> [p \in Shelf |-> 0], moves |-> 0]

Badge == {"ARCHIVED", "LIVE", "OUT_OF_STOCK", "IN_STOCK", "WATCHING", "CATALOG_ONLY"}

Sort == {"release-desc", "release-asc", "stock", "fulfillable", "priority", "gap"}

(* card: of which the history is asked; named: the lineups whose name the  *)
(* search among the options matches.                                       *)
AnyView ==
  [list : {"CATALOG", "WATCHLIST", "HISTORY"}, card : Card, archived : {"false", "true", "only"},
   stock : {"any", "has", "none", "fulfillable"}, sale : {"any", "published", "unpublished"},
   watch : {"any", "enabled", "disabled"}, below : BOOLEAN, lineup : Lineup \cup {NoLineup},
   named : SUBSET Lineup, sort : Sort]

ASSUME BrowseAssumption ==
  /\ Card \subseteq Nat /\ IsFiniteSet(Card)
  /\ Lineup \subseteq Nat \ {NoLineup} /\ IsFiniteSet(Lineup)
  /\ OptionLimit \in Nat /\ PageSize \in Nat \ {0}
  /\ View \subseteq AnyView /\ View # {}
  /\ Start \subseteq [Card -> CardRow]
  /\ {MaxAsked, MaxRelease, MaxHeld, MaxPriority, MaxTarget, MaxWrites} \subseteq Nat
------------------------------------------------------------------------------
(***************************************************************************)
(* What a view selects, for any catalog c, and how it is divided.          *)
(***************************************************************************)

Stored(row) == row.status \in {"ACTIVE", "ARCHIVED"}

Owned(held) == held["STORE"] + held["FULFILLABLE"]

(* quantityNeeded; a target of 0 is none.                                  *)
Wanted(row, held) ==
  IF row.target > Owned(held) THEN row.target - Owned(held) ELSE 0

(* Mutant of StockFits: stock that may not be sold fulfils, too.           *)
StockFitsAnywhere(held, stock) ==
  /\ stock \in {"has", "fulfillable"} => Owned(held) > 0
  /\ stock = "none" => Owned(held) = 0

StockFits(held, stock) ==
  /\ stock = "has" => Owned(held) > 0
  /\ stock = "none" => Owned(held) = 0
  /\ stock = "fulfillable" => held["FULFILLABLE"] > 0

(* whereClause, with the predicates of the watchlist.                      *)
Passes(row, v) ==
  /\ Stored(row)
  /\ v.archived = "false" => row.status = "ACTIVE"
  /\ v.archived = "only" => row.status = "ARCHIVED"
  /\ v.lineup # NoLineup => row.lineup = v.lineup
  /\ StockFits(row.held, v.stock)
  /\ v.sale = "published" => row.sale = "PUBLISHED"
  /\ v.sale = "unpublished" => row.sale # "PUBLISHED"
  /\ v.watch = "enabled" \/ v.list = "WATCHLIST" => row.watch > 0
  /\ v.watch = "disabled" => row.watch = 0
  /\ v.below => row.target > Owned(row.held)

(* The rows of a list: items, or the movements of one, oldest first.       *)
Rows(c, v) ==
  IF v.list = "HISTORY" THEN 1..c[v.card].moves ELSE {i \in Card : Passes(c[i], v)}

(* orderClause, smaller first: unknown dates and targets come last.        *)
SortKey(row, sort) ==
  CASE sort = "release-desc" -> IF row.release = 0 THEN 1 ELSE -row.release
    [] sort = "release-asc" -> IF row.release = 0 THEN MaxRelease + 1 ELSE row.release
    [] sort = "stock" -> -Owned(row.held)
    [] sort = "fulfillable" -> -row.held["FULFILLABLE"]
    [] sort = "gap" -> IF row.target = 0 THEN 1 ELSE -Wanted(row, row.held)
    [] OTHER -> -row.watch

(* Histories show the newest first.                                        *)
SortsAt(c, x, v) == IF v.list = "HISTORY" THEN -x ELSE SortKey(c[x], v.sort)

(* Mutant of Precedes: rows that sort alike come in any order.             *)
PrecedesInSort(c, x, y, v) == SortsAt(c, x, v) < SortsAt(c, y, v)

(* ORDER BY the sort, then the id.                                         *)
Precedes(c, x, y, v) ==
  \/ SortsAt(c, x, v) < SortsAt(c, y, v)
  \/ SortsAt(c, x, v) = SortsAt(c, y, v) /\ x < y

(* The orders in which the database may number the rows of a query.        *)
RowNumbers(c, v) ==
  {o \in [Rows(c, v) -> 1..Cardinality(Rows(c, v))] :
     /\ \A x, y \in Rows(c, v) : x # y => o[x] # o[y]
     /\ \A x, y \in Rows(c, v) : Precedes(c, x, y, v) => o[x] < o[y]}

(* Mutant of Window: the page is taken as an offset.                       *)
WindowByPage(p) == p..(p + PageSize - 1)

(* LIMIT and OFFSET.                                                       *)
Window(p) == ((p - 1) * PageSize + 1)..(p * PageSize)

(* Mutant of PageCount: rounded down.                                      *)
PageCountDown(total) == IF total < PageSize THEN 1 ELSE total \div PageSize

PageCount(total) == IF total = 0 THEN 1 ELSE (total + PageSize - 1) \div PageSize

(* Mutant of Options: the applied lineup is offered when it is found.      *)
OptionsFound(v) ==
  {l \in v.named : Cardinality({k \in v.named : k < l}) < OptionLimit}

(* The lineups a filter offers: the first by name, and the applied one.    *)
Options(v) ==
  {l \in v.named : Cardinality({k \in v.named : k < l}) < OptionLimit}
    \cup (Lineup \cap {v.lineup})

Live(row) == row.sale = "PUBLISHED" /\ row.status = "ACTIVE"

(* catalogStatuses: of a card and the stock read after it.                 *)
Badges(row, held) ==
  {b \in Badge :
     \/ b = "ARCHIVED" /\ row.status = "ARCHIVED"
     \/ b = "LIVE" /\ Live(row) /\ held["FULFILLABLE"] > 0
     \/ b = "OUT_OF_STOCK" /\ Live(row) /\ held["FULFILLABLE"] = 0
     \/ b = "IN_STOCK" /\ Owned(held) > 0
     \/ b = "WATCHING" /\ row.watch > 0
     \/ b = "CATALOG_ONLY" /\ row.status = "ACTIVE" /\ row.sale # "PUBLISHED" /\ Owned(held) = 0}
------------------------------------------------------------------------------
(***************************************************************************)
(* The state.                                                              *)
(***************************************************************************)

(* What is told about a card: its badges and how many are still wanted.    *)
Told == [badges : SUBSET Badge, wanted : Nat]
NothingTold == [badges |-> {}, wanted |-> 0]

(* quiet: nothing was written since the page was asked for; cards: the     *)
(* items of its rows as they were read, or nothing; shown: what is told.   *)
NoListing ==
  [step |-> "IDLE", view |-> CHOOSE v \in View : TRUE, asked |-> 1, page |-> 1, total |-> 0,
   rows |-> {}, cards |-> [i \in Card |-> NoCard], shown |-> [i \in Card |-> NothingTold],
   options |-> {}, quiet |-> TRUE]

(* pages: how many were read in a row; start: what matched at the first;   *)
(* ended: the last one offered no Next; twice: a row was on two of them.   *)
(* entered, left, moved: a row began or ceased to match, or sorts at       *)
(* another place; torn: the total of a history was out of date.            *)
NoWalk ==
  [view |-> CHOOSE v \in View : TRUE, pages |-> 0, start |-> {}, seen |-> {}, ended |-> FALSE,
   twice |-> FALSE, entered |-> FALSE, left |-> FALSE, moved |-> FALSE, torn |-> FALSE]

Step == {"IDLE", "ROWS", "CLAMP", "AGAIN", "COUNT", "CARDS", "STOCK", "SHOWN"}

BrowseTypeOK ==
  /\ catalog \in [Card -> CardRow]
  /\ listing \in [step : Step, view : View, asked : Nat \ {0}, page : Nat \ {0}, total : Nat,
                  rows : SUBSET Nat, cards : [Card -> CardRow], shown : [Card -> Told],
                  options : SUBSET Lineup, quiet : BOOLEAN]
  /\ walk \in [view : View, pages : Nat, start : SUBSET Nat, seen : SUBSET Nat, ended : BOOLEAN,
               twice : BOOLEAN, entered : BOOLEAN, left : BOOLEAN, moved : BOOLEAN,
               torn : BOOLEAN]
  /\ writes \in 0..MaxWrites

BrowseInit ==
  /\ catalog \in Start
  /\ listing = NoListing
  /\ walk = NoWalk
  /\ writes = 0
------------------------------------------------------------------------------
(***************************************************************************)
(* What others change.  Each action is one transaction; history variables  *)
(* note what it does to the walk.                                          *)
(***************************************************************************)

(* Rows of the walk that one catalog selects and the other does not.       *)
Lost(before, after) == \E x \in Rows(before, walk.view) : x \notin Rows(after, walk.view)

Resorted(before, after) ==
  \E x \in Rows(before, walk.view) \cap Rows(after, walk.view) :
    SortsAt(before, x, walk.view) # SortsAt(after, x, walk.view)

Write(c) ==
  /\ writes < MaxWrites
  /\ writes' = writes + 1
  /\ catalog' = c
  /\ listing' = [listing EXCEPT !.quiet = FALSE]
  /\ walk' = IF walk.pages = 0 THEN walk
             ELSE [walk EXCEPT !.entered = @ \/ Lost(c, catalog), !.left = @ \/ Lost(catalog, c),
                               !.moved = @ \/ Resorted(catalog, c)]

Put(i, row) == Write([catalog EXCEPT ![i] = row])

(* saveItem: a new item, or an edit of one.                                *)
SaveItem(i, release, lineup) ==
  /\ catalog[i].status # "DELETED"
  /\ Put(i, [catalog[i] EXCEPT
               !.status = IF catalog[i].status = "ABSENT" THEN "ACTIVE" ELSE catalog[i].status,
               !.release = release, !.lineup = lineup])

(* removeItem: archived when anything depends on it, deleted otherwise.    *)
RemoveItem(i) ==
  \/ /\ catalog[i].moves > 0 \/ catalog[i].sale # "NONE"
     /\ catalog[i].status = "ACTIVE"
     /\ Put(i, [catalog[i] EXCEPT !.status = "ARCHIVED"])
  \/ /\ catalog[i].moves = 0 /\ catalog[i].sale = "NONE"
     /\ Stored(catalog[i])
     /\ Put(i, [NoCard EXCEPT !.status = "DELETED"])

RestoreItem(i) ==
  /\ catalog[i].status = "ARCHIVED"
  /\ Put(i, [catalog[i] EXCEPT !.status = "ACTIVE"])

(* publishReviewed: the listing, published or as a draft.                  *)
PublishReviewed(i, published) ==
  /\ Stored(catalog[i])
  /\ published => catalog[i].status = "ACTIVE"
  /\ Put(i, [catalog[i] EXCEPT !.sale = IF published THEN "PUBLISHED" ELSE "DRAFT"])

SavePurchaseWatch(i, priority, target) ==
  /\ Stored(catalog[i])
  /\ Put(i, [catalog[i] EXCEPT !.watch = priority, !.target = target])

(* A receipt, an issue or a transfer of a unit; 0 is outside.              *)
RecordMovement(i, source, destination) ==
  /\ Stored(catalog[i])
  /\ source # destination
  /\ source \in Shelf => catalog[i].held[source] > 0
  /\ destination \in Shelf => catalog[i].held[destination] < MaxHeld
  /\ Put(i, [catalog[i] EXCEPT
               !.held = [p \in Shelf |-> IF p = source THEN catalog[i].held[p] - 1
                                         ELSE IF p = destination THEN catalog[i].held[p] + 1
                                         ELSE catalog[i].held[p]],
               !.moves = catalog[i].moves + 1])

Outside == "OUTSIDE"

ChangeCatalog ==
  \E i \in Card :
    \/ \E release \in 0..MaxRelease, lineup \in Lineup : SaveItem(i, release, lineup)
    \/ RemoveItem(i)
    \/ RestoreItem(i)
    \/ \E published \in BOOLEAN : PublishReviewed(i, published)
    \/ \E priority \in Priority, target \in 0..MaxTarget : SavePurchaseWatch(i, priority, target)
    \/ \E source, destination \in Shelf \cup {Outside} : RecordMovement(i, source, destination)
------------------------------------------------------------------------------
(***************************************************************************)
(* What the browser asks, and the statements of a load.                    *)
(***************************************************************************)

(* A walk goes on when the page after its last one is asked for.           *)
Ask(v, p) ==
  /\ listing.step \in {"IDLE", "SHOWN"}
  /\ listing' = [NoListing EXCEPT !.step = IF v.list = "HISTORY" THEN "COUNT" ELSE "ROWS",
                                  !.view = v, !.asked = p]
  /\ walk' = IF v = walk.view /\ p = walk.pages + 1 THEN walk ELSE NoWalk
  /\ UNCHANGED <<catalog, writes>>

(* Any address may have been kept or shared.                               *)
OpenAddress(v, p) == Ask(v, p)

(* Applying the filters begins at the first page; the lineup is one of     *)
(* those offered.                                                          *)
SubmitFilters(v) ==
  /\ listing.step = "SHOWN" /\ v.list = listing.view.list
  /\ v.lineup \in listing.options \cup {NoLineup}
  /\ Ask(v, 1)

(* The links to the next and the previous page.                            *)
Turn(p) ==
  /\ listing.step = "SHOWN"
  /\ \/ p = listing.page + 1 /\ p <= PageCount(listing.total)
     \/ p = listing.page - 1 /\ p > 0
  /\ Ask(listing.view, p)

(* What a page that is read adds to the walk; total: as it was counted.    *)
Walked(found, p, total) ==
  LET all == Rows(catalog, listing.view)
      stale == total # Cardinality(all)
      last == p >= PageCount(total)
  IN IF p = 1
     THEN [NoWalk EXCEPT !.view = listing.view, !.pages = 1, !.start = all, !.seen = found,
                         !.torn = stale, !.ended = last]
     ELSE IF p = walk.pages + 1
     THEN [walk EXCEPT !.pages = p, !.seen = walk.seen \cup found,
                       !.twice = walk.twice \/ found \cap walk.seen # {},
                       !.torn = walk.torn \/ stale, !.ended = last]
     ELSE NoWalk

(* The rows numbered within page p, in some order the database may take.   *)
Numbered(found, p) ==
  \E o \in RowNumbers(catalog, listing.view) :
    found = {x \in Rows(catalog, listing.view) : o[x] \in Window(p)}

(* list: the rows of the page with the total, in one statement; a page     *)
(* beyond the last has neither.                                            *)
ReadRows(found) ==
  /\ listing.step = "ROWS" /\ listing.view.list # "HISTORY"
  /\ Numbered(found, listing.asked)
  /\ LET total == IF found = {} THEN 0 ELSE Cardinality(Rows(catalog, listing.view))
     IN IF found = {} /\ listing.asked > 1
        THEN /\ listing' = [listing EXCEPT !.step = "CLAMP"]
             /\ walk' = NoWalk
        ELSE /\ listing' = [listing EXCEPT !.step = "CARDS", !.page = listing.asked,
                                           !.total = total, !.rows = found]
             /\ walk' = Walked(found, listing.asked, total)
  /\ UNCHANGED <<catalog, writes>>

(* Such a page is counted, and replaced by the last one.                   *)
ReadTotal ==
  /\ listing.step = "CLAMP"
  /\ LET total == Cardinality(Rows(catalog, listing.view))
     IN listing' = [listing EXCEPT !.step = IF total = 0 THEN "CARDS" ELSE "AGAIN",
                                   !.page = PageCount(total), !.total = total]
  /\ UNCHANGED <<catalog, walk, writes>>

ReadAgain(found) ==
  /\ listing.step = "AGAIN"
  /\ Numbered(found, listing.page)
  /\ LET total == IF found = {} THEN listing.total
                  ELSE Cardinality(Rows(catalog, listing.view))
     IN listing' = [listing EXCEPT !.step = "CARDS", !.total = total, !.rows = found]
  /\ UNCHANGED <<catalog, walk, writes>>

(* movements: the rows are counted first; an item that is gone has none.   *)
ReadCount ==
  /\ listing.step = "COUNT"
  /\ LET total == Cardinality(Rows(catalog, listing.view))
         last == PageCount(total)
     IN listing' = IF ~Stored(catalog[listing.view.card]) THEN NoListing
                   ELSE [listing EXCEPT !.step = "ROWS", !.total = total,
                           !.page = IF listing.asked <= last THEN listing.asked ELSE last]
  /\ walk' = IF Stored(catalog[listing.view.card]) THEN walk ELSE NoWalk
  /\ UNCHANGED <<catalog, writes>>

ReadHistory(found) ==
  /\ listing.step = "ROWS" /\ listing.view.list = "HISTORY"
  /\ Numbered(found, listing.page)
  /\ listing' = [listing EXCEPT !.step = "SHOWN", !.rows = found]
  /\ walk' = IF listing.page = listing.asked THEN Walked(found, listing.page, listing.total)
             ELSE NoWalk
  /\ UNCHANGED <<catalog, writes>>

(* cardsForItems: the items of the rows that are still there, ...          *)
ReadCards ==
  /\ listing.step = "CARDS"
  /\ listing' = [listing EXCEPT !.step = "STOCK",
                   !.cards = [i \in Card |-> IF i \in listing.rows THEN catalog[i] ELSE NoCard]]
  /\ UNCHANGED <<catalog, walk, writes>>

(* toCard: what is told of a card and the stock read after it.             *)
Tells(row, held) == [badges |-> Badges(row, held), wanted |-> Wanted(row, held)]

(* ... and then their stock.                                               *)
ReadStock ==
  /\ listing.step = "STOCK"
  /\ listing' = [listing EXCEPT !.step = "SHOWN", !.cards = NoListing.cards,
                   !.shown = [i \in Card |->
                                IF Stored(listing.cards[i])
                                THEN Tells(listing.cards[i], catalog[i].held)
                                ELSE NothingTold],
                   !.options = Options(listing.view)]
  /\ UNCHANGED <<catalog, walk, writes>>

Load ==
  \/ \E found \in SUBSET Rows(catalog, listing.view) :
       ReadRows(found) \/ ReadAgain(found) \/ ReadHistory(found)
  \/ ReadTotal
  \/ ReadCount
  \/ ReadCards
  \/ ReadStock

BrowseNext ==
  \/ ChangeCatalog
  \/ \E v \in View, p \in 1..MaxAsked : OpenAddress(v, p)
  \/ \E v \in View : SubmitFilters(v)
  \/ \E p \in 1..(listing.page + 1) : Turn(p)
  \/ Load

BrowseSpec == BrowseInit /\ [][BrowseNext]_browseVars
------------------------------------------------------------------------------
(***************************************************************************)
(* Properties.                                                             *)
(***************************************************************************)

(* How many rows of the list come before one.                              *)
Ahead(c, x, v) == Cardinality({y \in Rows(c, v) : Precedes(c, y, x, v)})

(* What a card says agrees with the filters that selected it.              *)
SaysWhatWasAsked(v, told) ==
  /\ told.badges # {}
  /\ v.archived = "only" => "ARCHIVED" \in told.badges
  /\ v.archived = "false" => "ARCHIVED" \notin told.badges
  /\ v.stock = "has" => "IN_STOCK" \in told.badges
  /\ v.stock = "none" => told.badges \cap {"IN_STOCK", "LIVE"} = {}
  /\ v.sale = "published" /\ v.archived = "false" =>
       told.badges \cap {"LIVE", "OUT_OF_STOCK"} # {} /\ "CATALOG_ONLY" \notin told.badges
  /\ v.stock = "fulfillable" => "IN_STOCK" \in told.badges /\ "OUT_OF_STOCK" \notin told.badges
  /\ "ARCHIVED" \in told.badges => "LIVE" \notin told.badges
  /\ v.watch = "enabled" \/ v.list = "WATCHLIST" => "WATCHING" \in told.badges
  /\ v.below => told.wanted > 0

(* A page that was loaded while nothing changed is the page asked for, or  *)
(* the last one if there are fewer: the right total, exactly the rows of   *)
(* its places in the order, each described as the filters say, and a form  *)
(* that would not drop the lineup it is filtered by (list, facets and      *)
(* movements of catalog/queries.ts, catalogStatuses).                      *)
PageIsExact ==
  LET v == listing.view
      first == (listing.page - 1) * PageSize
  IN listing.step = "SHOWN" /\ listing.quiet =>
       /\ listing.total = Cardinality(Rows(catalog, v))
       /\ listing.page = 1 \/ first < listing.total
       /\ \/ listing.page = listing.asked
          \/ listing.page < listing.asked /\ listing.total <= first + PageSize
       /\ listing.rows = {x \in Rows(catalog, v) :
                            Ahead(catalog, x, v) \in first..(first + PageSize - 1)}
       /\ v.list # "HISTORY" =>
            /\ \A i \in listing.rows : SaysWhatWasAsked(v, listing.shown[i])
            /\ v.lineup \in listing.options \cup {NoLineup}

(* Who follows Next from the first page to the last misses nothing that    *)
(* was there at the start unless something left or was sorted elsewhere,   *)
(* and meets nothing twice unless something was added or sorted elsewhere. *)
(* A history only grows: there a movement is missed only if another was    *)
(* recorded between the count and the rows of a page.                      *)
WalkSeesEach ==
  walk.ended =>
    /\ ~walk.moved /\ ~walk.torn /\ ~walk.left => walk.start \subseteq walk.seen
    /\ ~walk.moved /\ ~walk.entered => ~walk.twice
==============================================================================
