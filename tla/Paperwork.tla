------------------------------ MODULE Paperwork -------------------------------
(* The pages on which staff write a purchase, a shipment, the offer of a   *)
(* seller or the watch for an item, with the actions and services they     *)
(* call (components/admin/purchase-form.tsx, shipment-form.tsx,            *)
(* marketplace-candidate-form.tsx and watch-controls.tsx).  A behaviour is *)
(* about one of these records.                                             *)
(*                                                                         *)
(* A page is loaded with what is stored and sends all its fields with the  *)
(* time of change it was loaded with; the service refuses the request when *)
(* the record has changed since.  Times of change are numbers, one more    *)
(* with each.  The goods are the lines of a purchase, or what a shipment   *)
(* takes from an origin, whose stock stays; the other fields are one word, *)
(* which for an offer is its price in a currency.                          *)
EXTENDS Integers, FiniteSets, Desk

CONSTANTS
  Word,          \* contents of the fields
  Good,          \* items
  Origin,        \* locations in Japan
  Held,          \* the items in stock at each of them
  MaxRequests,   \* bound of the model on what is sent
  MaxChanges     \* bound of the model on changes made without these pages

ASSUME PaperAssumption == Held \in [Origin -> SUBSET Good]

VARIABLES
  kind,          \* what the record is
  paper,         \* the record, with the time it changed: none before it is made
  made,          \* the fingerprint it was created under, or converted
  page,          \* the page each member of staff has open
  requests,      \* what was sent and not answered
  bought,        \* the purchases made from the offer
  sent,          \* how many requests were sent
  changes        \* how many changes were made without these pages

paperVars == <<kind, paper, made, page, requests, bought, sent, changes>>

(* The statuses a page offers, and that of a new record.                   *)
Offered ==
  CASE kind = "offer" -> {"UNKNOWN", "AVAILABLE"}
    [] kind = "purchase" -> {"DRAFT", "ORDERED"}
    [] OTHER -> {}

First ==
  CASE kind = "offer" -> "UNKNOWN"
    [] kind = "watch" -> "ENABLED"
    [] OTHER -> "DRAFT"

Blank == [text |-> None, status |-> First, origin |-> None, rows |-> {}]
Field == DOMAIN Blank

(* What is stored, or sent, with its time of change.                       *)
Unmade == [stamp |-> 0, content |-> Blank]
Changed(content) == [stamp |-> paper.stamp + 1, content |-> content]
Status == paper.content.status

(* A page just loaded: shown is what the record held where the page shows  *)
(* it, touched the fields staff have typed in.                             *)
Mounted(use, loaded) ==
  [use |-> use, loaded |-> loaded, stamp |-> loaded.stamp, content |-> loaded.content,
   shown |-> loaded.content, touched |-> {}, looking |-> None, found |-> None, awaits |-> 0,
   answer |-> None]

Away == [use |-> "none"]

(* What the page of a new record starts from: a purchase may come with an  *)
(* item, a shipment with an origin.                                        *)
Fresh(o, g) ==
  [stamp |-> 0, content |->
     [Blank EXCEPT !.origin = IF kind = "shipment" THEN o ELSE None,
                   !.rows = IF kind = "purchase" THEN {g} ELSE {}]]

PaperInit ==
  /\ kind \in {"purchase", "shipment", "offer", "watch"}
  /\ made = None
  /\ \E o \in Origin, k \in Clerk, w \in Word : \E g \in Held[o] :
       \/ /\ paper = Unmade   \* k got the id of a new record, any page may make a watch
          /\ page = [c \in Clerk |->
                       IF c = k /\ kind # "watch" THEN Mounted("write", Fresh(o, g)) ELSE Away]
       \/ /\ paper = [stamp |-> 1, content |->
                        [Fresh(o, g).content EXCEPT !.text = w,
                           !.rows = IF kind \in {"purchase", "shipment"} THEN {g} ELSE {}]]
          /\ page = [c \in Clerk |-> Away]
  /\ requests = {} /\ bought = {} /\ sent = 0 /\ changes = 0
------------------------------------------------------------------------------
(* The pages.                                                              *)

At(k, use) == page[k].use = use
Editing(k, use) == At(k, use) /\ page[k].awaits = 0

Put(k, new) ==
  /\ page' = [page EXCEPT ![k] = new]
  /\ UNCHANGED <<kind, paper, made, requests, bought, sent, changes>>

(* Pages for what can no longer be edited say so instead.                  *)
Writable ==
  CASE kind = "purchase" -> paper # Unmade /\ Status = "DRAFT"
    [] kind = "offer" -> paper # Unmade /\ Status # "PURCHASED"
    [] kind = "shipment" -> paper # Unmade
    [] OTHER -> TRUE

Convertible == kind = "offer" /\ paper # Unmade /\ Status = "AVAILABLE"

OpenPage(k) ==
  /\ page[k] = Away
  /\ \/ Writable /\ Put(k, Mounted("write", paper))
     \/ Convertible /\ Put(k, Mounted("convert", paper))

LeavePage(k) == page[k] # Away /\ Put(k, Away)

Typed(k, f, v) == [page[k] EXCEPT !.content[f] = v, !.touched = @ \cup {f}]

(* A bound of the model: between two loads staff change one field, or for  *)
(* a shipment the origin and then the goods.                               *)
Untouched(k, others) == page[k].touched \subseteq others

(* Fields are disabled while a request is on its way.                      *)
TypeText(k) ==
  \E use \in {"write", "convert"}, w \in Word :
    /\ Editing(k, use) /\ Untouched(k, {}) /\ kind # "shipment"
    /\ Put(k, Typed(k, "text", w))

ChooseStatus(k) ==
  /\ Editing(k, "write") /\ Untouched(k, {})
  /\ \E s \in Offered : Put(k, Typed(k, "status", s))

(* The search stands above the fields and is not disabled with them.       *)
AddLine(k) ==
  /\ kind = "purchase" /\ At(k, "write") /\ Untouched(k, {})
  /\ \E g \in Good : Put(k, Typed(k, "rows", page[k].content.rows \cup {g}))

Fixed(k) == page[k].loaded.content.status = "SHIPPED"
Choosing(k) == kind = "shipment" /\ At(k, "write") /\ ~Fixed(k)

(* Mutant of Rechosen: what was chosen elsewhere stays.                    *)
RechosenOnly(k, o) ==
  [Typed(k, "origin", o) EXCEPT !.found = None]

Rechosen(k, o) ==
  [Typed(k, "origin", o) EXCEPT !.content.rows = {}, !.touched = @ \cup {"rows"},
                                !.found = None]

ChooseOrigin(k) ==
  /\ Choosing(k) /\ Untouched(k, {})
  /\ \E o \in Origin \ {page[k].content.origin} : Put(k, Rechosen(k, o))

(* A bound of the model: they search once, and when nothing is chosen.     *)
SearchStock(k) ==
  /\ Choosing(k) /\ Untouched(k, {"origin", "rows"}) /\ page[k].content.rows = {}
  /\ page[k].looking = None /\ page[k].found = None
  /\ Put(k, [page[k] EXCEPT !.looking = page[k].content.origin])

ReceiveStock(k) ==
  /\ Choosing(k) /\ page[k].looking # None
  /\ Put(k, [page[k] EXCEPT !.found = page[k].looking, !.looking = None])

(* Mutant of FoundHere: what was found for another origin is listed, too.     *)
ListedAnyway(k) == IF page[k].found = None THEN {} ELSE Held[page[k].found]

FoundHere(k) == IF page[k].found = page[k].content.origin THEN Held[page[k].found] ELSE {}

AddStock(k) ==
  /\ Choosing(k) /\ Untouched(k, {"origin", "rows"})
  /\ \E g \in FoundHere(k) \ page[k].content.rows :
       Put(k, Typed(k, "rows", page[k].content.rows \cup {g}))

RemoveRow(k) ==
  /\ kind \in {"purchase", "shipment"} /\ Editing(k, "write") /\ ~Fixed(k)
  /\ Untouched(k, {})
  /\ \E g \in page[k].content.rows : Put(k, Typed(k, "rows", page[k].content.rows \ {g}))

Complete(content) ==
  /\ kind \in {"purchase", "offer"} => content.text # None
  /\ kind \in {"purchase", "shipment"} => content.rows # {}

Send(k) ==
  /\ \E use \in {"write", "convert"} : Editing(k, use)
  /\ sent < MaxRequests
  /\ sent' = sent + 1
  /\ requests' = requests \cup
       {[id |-> sent', by |-> k, use |-> page[k].use, stamp |-> page[k].stamp,
         content |-> page[k].content, shown |-> page[k].shown, currency |-> None]}
  /\ page' = [page EXCEPT ![k].awaits = sent']
  /\ UNCHANGED <<kind, paper, made, bought, changes>>
------------------------------------------------------------------------------
(* The services.                                                           *)

(* A new page sends no time of change.                                     *)
Creates(r) == r.stamp = 0 /\ kind # "watch"
Fingerprint(r) == [by |-> r.by, content |-> r.content]

(* Mutant of UpToDate: the time of change is not compared.                 *)
AnyDate(r) == paper # Unmade

UpToDate(r) == r.stamp = paper.stamp

(* What is not in stock at the origin is refused.                          *)
InStock(r) == kind = "shipment" => r.content.rows \subseteq Held[r.content.origin]

CreatesNow(r) == Creates(r) /\ paper = Unmade /\ InStock(r)
CreatedBefore(r) == Creates(r) /\ paper # Unmade /\ made = Fingerprint(r)

EditsDraft(r) == kind = "purchase" /\ Status = "DRAFT"

(* After dispatch the goods must be those of the shipment.                 *)
EditsShipment(r) ==
  /\ kind = "shipment"
  /\ IF Status = "DRAFT" THEN InStock(r)
     ELSE r.content.origin = paper.content.origin /\ r.content.rows = paper.content.rows

EditsOffer(r) == kind = "offer" /\ Status # "PURCHASED"
EditsWatch(r) == kind = "watch"

Updates(r) ==
  /\ ~Creates(r) /\ UpToDate(r)
  /\ EditsDraft(r) \/ EditsShipment(r) \/ EditsOffer(r) \/ EditsWatch(r)

Save(r) ==
  /\ paper' = IF CreatedBefore(r) THEN paper
              ELSE Changed([r.content EXCEPT !.status =
                              IF kind = "shipment" THEN Status ELSE @])
  /\ made' = IF CreatesNow(r) THEN Fingerprint(r) ELSE made
  /\ UNCHANGED bought

(* The amounts of a conversion are read in the currency the offer has      *)
(* before the transaction that converts it.                                *)
ReadCurrency(r) ==
  /\ r.use = "convert" /\ r.currency = None
  /\ requests' = (requests \ {r}) \cup {[r EXCEPT !.currency = paper.content.text]}
  /\ UNCHANGED <<kind, paper, made, page, bought, sent, changes>>

Terms(r) == [stamp |-> r.stamp, text |-> r.content.text, currency |-> r.currency]

ConvertedBefore(r) == Status = "PURCHASED" /\ \E b \in bought : b.terms = Terms(r)
ConvertsNow(r) == Status = "AVAILABLE" /\ UpToDate(r)

Convert(r) ==
  /\ IF ConvertedBefore(r) THEN UNCHANGED <<paper, bought>>
     ELSE /\ bought' = bought \cup {[id |-> r.id, terms |-> Terms(r)]}
          /\ paper' = Changed([paper.content EXCEPT !.status = "PURCHASED"])
  /\ UNCHANGED made

Granted(r) ==
  IF r.use = "convert" THEN ConvertedBefore(r) \/ ConvertsNow(r)
  ELSE Complete(r.content) /\ (CreatesNow(r) \/ CreatedBefore(r) \/ Updates(r))

(* The page learns the answer if it still waits for it.                    *)
Reply(r, accepted) ==
  /\ requests' = requests \ {r}
  /\ page' = IF page[r.by] = Away \/ page[r.by].awaits # r.id THEN page
             ELSE [page EXCEPT ![r.by].answer =
                     [accepted |-> accepted, stamp |-> paper'.stamp, content |-> r.content]]
  /\ UNCHANGED <<kind, sent, changes>>

Ready(r) == r.use = "convert" => r.currency # None

Accept(r) ==
  /\ Ready(r) /\ Granted(r)
  /\ IF r.use = "convert" THEN Convert(r) ELSE Save(r)
  /\ Reply(r, TRUE)

Refuse(r) ==
  /\ Ready(r) /\ ~Granted(r)
  /\ UNCHANGED <<paper, made, bought>>
  /\ Reply(r, FALSE)
------------------------------------------------------------------------------
(* Answers, and the watch page, which stays open.                          *)

(* When the page is loaded again, the fields nobody typed in may show what *)
(* is stored now, or what they were mounted with: browsers and React leave *)
(* it open.                                                                *)
WithFields(p, now, fs) ==
  LET Mix(old) == [f \in Field |-> IF f \in fs THEN now.content[f] ELSE old[f]]
  IN [p EXCEPT !.loaded = now, !.content = Mix(p.content), !.shown = Mix(p.shown)]

Following(p) == {{}, Field \ p.touched}

(* Mutant of Refreshed: the time of change follows what is loaded.         *)
RefreshedWhole(p, now) ==
  {[WithFields(p, now, fs) EXCEPT !.stamp = now.stamp] : fs \in Following(p)}

(* The time of change stays that of the mounted page.                      *)
Refreshed(p, now) == {WithFields(p, now, fs) : fs \in Following(p)}

(* After a save the page goes on with the time of change it answered.      *)
Saved(p, now) ==
  Refreshed([p EXCEPT !.stamp = p.answer.stamp, !.shown = p.answer.content,
                      !.awaits = 0, !.answer = None], now)

ReceiveReply(k) ==
  /\ page[k] # Away /\ page[k].answer # None
  /\ \/ ~page[k].answer.accepted /\ Put(k, [page[k] EXCEPT !.awaits = 0, !.answer = None])
     \/ /\ page[k].answer.accepted
        /\ IF kind = "watch" THEN \E p \in Saved(page[k], paper) : Put(k, p)
           ELSE Put(k, Away)

(* The answer is lost: the page is mounted again as it was loaded.         *)
LoseReply(k) ==
  /\ page[k] # Away /\ page[k].awaits # 0
  /\ Put(k, Mounted(page[k].use, page[k].loaded))

(* Mark checked, disable and choose a priority, beside the open page.      *)
QuickWatch(k) ==
  /\ kind = "watch" /\ paper # Unmade
  /\ changes < MaxChanges /\ changes' = changes + 1
  /\ \/ paper' = Changed(paper.content)
     \/ Status = "ENABLED" /\ paper' = Changed([paper.content EXCEPT !.status = "DISABLED"])
     \/ \E w \in Word : paper' = Changed([paper.content EXCEPT !.text = w])
  /\ \E p \in IF page[k] = Away THEN {Away} ELSE Refreshed(page[k], paper') :
       page' = [page EXCEPT ![k] = p]
  /\ UNCHANGED <<kind, made, requests, bought, sent>>

(* What other pages change.  Statuses after DRAFT are one; a shipment in   *)
(* preparation may change without a new status here.                       *)
Elsewhere(content) ==
  /\ paper # Unmade
  /\ changes < MaxChanges /\ changes' = changes + 1
  /\ paper' = Changed(content)
  /\ UNCHANGED <<kind, made, page, requests, bought, sent>>

Moved(s) == Elsewhere([paper.content EXCEPT !.status = s])

ChangePurchaseStatus == kind = "purchase" /\ Moved("ORDERED")

ShipmentCommand == kind = "shipment" /\ (Moved(Status) \/ Moved("SHIPPED"))

ChangeCandidateStatus ==
  kind = "offer" /\ Status # "PURCHASED" /\ \E s \in Offered : Moved(s)

MarkCandidateChecked == kind = "offer" /\ Elsewhere(paper.content)

PaperNext ==
  \/ \E k \in Clerk :
       \/ OpenPage(k) \/ LeavePage(k)
       \/ TypeText(k) \/ ChooseStatus(k) \/ AddLine(k) \/ RemoveRow(k)
       \/ ChooseOrigin(k) \/ SearchStock(k) \/ ReceiveStock(k) \/ AddStock(k)
       \/ Send(k) \/ ReceiveReply(k) \/ LoseReply(k)
       \/ QuickWatch(k)
  \/ \E r \in requests : ReadCurrency(r) \/ Accept(r) \/ Refuse(r)
  \/ ChangePurchaseStatus \/ ShipmentCommand
  \/ ChangeCandidateStatus \/ MarkCandidateChecked

PaperSpec == PaperInit /\ [][PaperNext]_paperVars
------------------------------------------------------------------------------
(***************************************************************************)
(* Properties.                                                             *)
(***************************************************************************)

(* What a page replaces is what it had shown, whatever others save, what   *)
(* is refreshed beside it and which answers are lost; what it sends for a  *)
(* shipment was found at the origin it sends; and an offer is bought once, *)
(* at amounts read in the currency it has and the page had shown (version  *)
(* and updatedAt of the forms and services, WatchEditForm, ShipmentForm,   *)
(* convertCandidate).                                                      *)
SavesFollowThePage ==
  [][\A r \in requests \ requests' :
       /\ r.use = "write" /\ paper # Unmade =>
            \A f \in Field : paper'.content[f] # paper.content[f] =>
              r.shown[f] = paper.content[f]
       /\ kind = "shipment" => r.content.rows \subseteq Held[r.content.origin]
       /\ bought' # bought =>
            /\ bought = {}
            /\ r.currency = paper.content.text /\ r.shown.text = paper.content.text
    ]_paperVars
==============================================================================
