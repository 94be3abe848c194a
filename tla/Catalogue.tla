------------------------------ MODULE Catalogue ------------------------------
(***************************************************************************)
(* The catalogue as staff edit it (src/modules/catalog, lineups, watchlist *)
(* and publication) and the reviews that are carried out later on what     *)
(* their author saw: edit forms, the bulk publication                      *)
(* (bulk-management), CSV files (catalog-csv) and assisted imports.        *)
(*                                                                         *)
(* A form or a signed review stays open while others work, may be          *)
(* submitted more than once (a lost answer, two tabs) and carries the      *)
(* times of update of the rows it was made from.  Each row of a batch is a *)
(* transaction of its own that locks what it compares: one action.         *)
(* Withdrawing an image locks nothing between its check and its write: it  *)
(* is two actions.                                                         *)
(*                                                                         *)
(* One lineup of one franchise stands for all.  The sources, images and    *)
(* watch that a new item may come with, and the public category of a       *)
(* listing, are left out.                                                  *)
(***************************************************************************)
EXTENDS Desk, Naturals, FiniteSets

CONSTANTS
  Item,         \* ids of merchandise items, those of items to be created too
  Stored,       \* items that exist already
  Gallery,      \* the images each of them has, approved
  Traded,       \* items that were stocked, bought or sold
  Text,         \* contents of a row
  Slug,         \* public addresses
  Reference,    \* sources of an item
  Image,        \* ids of managed images
  Imports,      \* the ids that may be submitted together for new items
  MaxEdits      \* bound of the model on forms opened and rows edited without one

VARIABLES
  doc,          \* merchandise_items with the rows that belong to them
  shelved,      \* whether the lineup and the franchise are archived
  form,         \* the form or the review of a member of staff
  edits         \* how many of MaxEdits are used

catalogueVars == <<doc, shelved, form, edits>>

(* The rows of an item that carry a time of update of their own.           *)
Part == {"item", "listing", "watch"}

ItemRow == [text : Text, archived : BOOLEAN]

(* dated: the listing was published once (publishedAt).                    *)
ListingRow == [slug : Slug, published : BOOLEAN, dated : BOOLEAN, images : SUBSET Image]

NoItem ==
  [item |-> None, characters |-> None, sources |-> {}, images |-> {}, approved |-> {},
   listing |-> None, watch |-> None]

Record ==
  [item : ItemRow \cup {None}, characters : Text \cup {None}, sources : SUBSET Reference,
   images : SUBSET Image, approved : SUBSET Image, listing : ListingRow \cup {None},
   watch : Text \cup {None}]

FormKind == {"EDIT", "SOURCES", "WATCH", "PUBLISH", "CSV", "CREATE", "WITHDRAW"}

(* fresh: the rows whose time of update is still the one the form carries. *)
NoForm == [kind |-> "NONE", item |-> None, seen |-> NoItem, fresh |-> {}, rows |-> {},
           image |-> None]

Form ==
  [kind : FormKind \cup {"NONE"}, item : Item \cup {None}, seen : Record,
   fresh : SUBSET Part, rows : Imports \cup {{}}, image : Image \cup {None}]

ASSUME CatalogueAssumption ==
  /\ {Stored, Traded} \subseteq SUBSET Item
  /\ Gallery \in [Stored -> SUBSET Image]
  /\ Imports \subseteq (SUBSET Item) \ {{}}
  /\ None \notin Item \cup Text \cup Image \cup ItemRow \cup ListingRow
  /\ MaxEdits \in Nat

CatalogueTypeOK ==
  /\ doc \in [Item -> Record]
  /\ shelved \in [lineup : BOOLEAN, franchise : BOOLEAN]
  /\ form \in [Clerk -> Form]
  /\ edits \in 0..MaxEdits
------------------------------------------------------------------------------
Exists(i) == doc[i].item # None

(* An active lineup in an active franchise.                                *)
Active == ~shelved.lineup /\ ~shelved.franchise

(* Mutant of Outdated: the listing keeps its time of update.               *)
OutdatedItem(i, parts) ==
  [k \in Clerk |->
     IF form[k].item = i
     THEN [form[k] EXCEPT !.fresh = @ \ (parts \ {"listing"})] ELSE form[k]]

(* Every write of a row moves its time of update (@updatedAt).             *)
Outdated(i, parts) ==
  [k \in Clerk |->
     IF form[k].item = i THEN [form[k] EXCEPT !.fresh = @ \ parts] ELSE form[k]]

Write(i, parts, record) ==
  /\ doc' = [doc EXCEPT ![i] = record]
  /\ form' = Outdated(i, parts)

CatalogueInit ==
  /\ \E t \in Text :
       doc = [i \in Item |->
         IF i \in Stored
         THEN [NoItem EXCEPT !.item = [text |-> t, archived |-> FALSE], !.characters = t,
                             !.images = Gallery[i], !.approved = Gallery[i]]
         ELSE NoItem]
  /\ shelved = [lineup |-> FALSE, franchise |-> FALSE]
  /\ form = [k \in Clerk |-> NoForm]
  /\ edits = 0

Spend == edits < MaxEdits /\ edits' = edits + 1
------------------------------------------------------------------------------
(***************************************************************************)
(* Writes that compare no version.                                         *)
(***************************************************************************)

(* createItem, saveItem without identity, the bulk editor: a new id each   *)
(* time they are submitted.                                                *)
CreateItem(i) ==
  /\ Active
  /\ ~Exists(i) /\ i \notin UNION Imports
  /\ \E t \in Text :
       Write(i, {}, [NoItem EXCEPT !.item = [text |-> t, archived |-> FALSE], !.characters = t])

(* setCategory, archiveItem and restoreItem, which asks for the lineup     *)
(* only.                                                                   *)
SetCategory(i) ==
  /\ Exists(i)
  /\ \E t \in Text : Write(i, {"item"}, [doc[i] EXCEPT !.item = [@ EXCEPT !.text = t]])

ArchiveItem(i) ==
  /\ Exists(i)
  /\ Write(i, {"item"}, [doc[i] EXCEPT !.item = [@ EXCEPT !.archived = TRUE]])

RestoreItem(i) ==
  /\ Exists(i) /\ ~shelved.lineup
  /\ Write(i, {"item"}, [doc[i] EXCEPT !.item = [@ EXCEPT !.archived = FALSE]])

(* An item with a history is archived, any other goes with its rows.       *)
RemoveItem(i) ==
  /\ Exists(i)
  /\ IF i \in Traded \/ doc[i].listing # None
     THEN /\ ~doc[i].item.archived
          /\ Write(i, {"item"}, [doc[i] EXCEPT !.item = [@ EXCEPT !.archived = TRUE]])
     ELSE Write(i, Part, NoItem)

Unused(m) == \A i \in Item : m \notin doc[i].images

(* addSource and addImage leave the row of the item alone.                 *)
AddSource(i) ==
  /\ Exists(i)
  /\ \E r \in Reference : Write(i, {}, [doc[i] EXCEPT !.sources = @ \cup {r}])

AddImage(i) ==
  /\ Exists(i)
  /\ \E m \in {n \in Image : Unused(n)}, approved \in BOOLEAN :
       Write(i, {}, [doc[i] EXCEPT !.images = @ \cup {m},
                                   !.approved = IF approved THEN @ \cup {m} ELSE @])

Listed(i, m) == doc[i].listing # None /\ m \in doc[i].listing.images

(* An image of a listing is kept, by the check and by its foreign key.     *)
RemoveImage(i, m) ==
  /\ m \in doc[i].images /\ ~Listed(i, m)
  /\ Write(i, {}, [doc[i] EXCEPT !.images = @ \ {m}, !.approved = @ \ {m}])

ApproveImage(i, m) ==
  /\ m \in doc[i].images
  /\ Write(i, {}, [doc[i] EXCEPT !.approved = @ \cup {m}])

(* savePurchaseWatch without version, disablePurchaseWatch and             *)
(* markPurchaseWatchChecked.                                               *)
SetWatch(i) ==
  /\ Exists(i)
  /\ \E t \in Text : Write(i, {"watch"}, [doc[i] EXCEPT !.watch = t])
------------------------------------------------------------------------------
(***************************************************************************)
(* Listings.                                                               *)
(***************************************************************************)

(* listingPolicyIssues, for what staff may change later.                   *)
Publishable(i, images) ==
  /\ ~doc[i].item.archived /\ Active
  /\ images # {} /\ images \subseteq doc[i].approved

Dated(i) == doc[i].listing # None /\ doc[i].listing.dated

(* A public address is for ever (SLUG_LOCKED).                             *)
UrlKept(i, slug) == Dated(i) => slug = doc[i].listing.slug

UrlFree(i, slug) ==
  \A j \in Item \ {i} : doc[j].listing # None => slug # doc[j].listing.slug

(* saveInTransaction.                                                      *)
SaveListing(i, slug, images, published) ==
  /\ Exists(i)
  /\ UrlKept(i, slug) /\ UrlFree(i, slug)
  /\ images \subseteq doc[i].images
  /\ IF published THEN Publishable(i, images)
     ELSE \/ images \subseteq doc[i].approved
          \/ doc[i].listing # None /\ images = doc[i].listing.images
  /\ Write(i, {"listing"},
           [doc[i] EXCEPT !.listing =
              [slug |-> slug, published |-> published, dated |-> published \/ Dated(i),
               images |-> images]])

(* saveListing, of what was published or not.                              *)
EditListing(i) ==
  \E slug \in Slug, images \in SUBSET Image :
    SaveListing(i, slug, images, doc[i].listing # None /\ doc[i].listing.published)

(* setPublished; setSellingPrice and setFeatured only move the time.       *)
SetPublished(i, published) ==
  /\ doc[i].listing # None
  /\ published => Publishable(i, doc[i].listing.images)
  /\ Write(i, {"listing"},
           [doc[i] EXCEPT !.listing = [@ EXCEPT !.published = published,
                                                !.dated = published \/ Dated(i)]])

SetPrice(i) == doc[i].listing # None /\ Write(i, {"listing"}, doc[i])
------------------------------------------------------------------------------
(***************************************************************************)
(* Forms and reviews.                                                      *)
(***************************************************************************)
Open(k, kind, i) ==
  /\ form[k].kind = "NONE"
  /\ Exists(i)
  /\ kind = "CSV" => Active
  /\ form' = [form EXCEPT ![k] = [NoForm EXCEPT !.kind = kind, !.item = i, !.seen = doc[i],
                                                !.fresh = Part]]
  /\ UNCHANGED doc

(* preview and review of new items, each under an id of its own.  What was *)
(* extracted may be reviewed again, in part or after it was imported.      *)
OpenImport(k, rows) ==
  /\ form[k].kind = "NONE"
  /\ Active
  /\ form' = [form EXCEPT ![k] = [NoForm EXCEPT !.kind = "CREATE", !.rows = rows]]
  /\ UNCHANGED doc

Close(k) ==
  /\ form[k].kind \notin {"NONE", "WITHDRAW"}
  /\ form' = [form EXCEPT ![k] = NoForm]
  /\ UNCHANGED <<doc, shelved, edits>>

(* Mutant of Compared: a publication is compared with the item only.       *)
ComparedItem ==
  [EDIT |-> {"item"}, SOURCES |-> {"item"}, WATCH |-> {"watch"}, PUBLISH |-> {"item"},
   CSV |-> {"item", "watch"}]

(* The times of update each kind of form is compared with.                 *)
Compared ==
  [EDIT |-> {"item"}, SOURCES |-> {"item"}, WATCH |-> {"watch"},
   PUBLISH |-> {"item", "listing"}, CSV |-> {"item", "watch"}]

Submits(k, kind) ==
  /\ form[k].kind = kind
  /\ Exists(form[k].item)
  /\ Compared[kind] \subseteq form[k].fresh

(* saveItem: the characters are replaced with the text.                    *)
SaveItem(k) ==
  LET i == form[k].item
  IN /\ Submits(k, "EDIT")
     /\ Active
     /\ \E t \in Text :
          Write(i, {"item"}, [doc[i] EXCEPT !.item = [@ EXCEPT !.text = t], !.characters = t])

(* Mutant of SaveItemSources: the item keeps its time of update.           *)
SaveItemSourcesOnly(k) ==
  LET i == form[k].item
  IN /\ Submits(k, "SOURCES")
     /\ \E kept \in SUBSET Reference : Write(i, {}, [doc[i] EXCEPT !.sources = kept])

(* saveItemSources: sources that were not submitted are removed.           *)
SaveItemSources(k) ==
  LET i == form[k].item
  IN /\ Submits(k, "SOURCES")
     /\ \E kept \in SUBSET Reference :
          Write(i, {"item"}, [doc[i] EXCEPT !.sources = kept])

SavePurchaseWatch(k) ==
  LET i == form[k].item
  IN /\ Submits(k, "WATCH")
     /\ \E t \in Text : Write(i, {"watch"}, [doc[i] EXCEPT !.watch = t])

PublishReviewed(k) ==
  /\ Submits(k, "PUBLISH")
  /\ \E slug \in Slug, images \in SUBSET Image, published \in BOOLEAN :
       SaveListing(form[k].item, slug, images, published)

(* The revision of a CSV review is a hash of the item and of its rows.     *)
SameRevision(k) ==
  LET now == doc[form[k].item]
      seen == form[k].seen
  IN /\ now.characters = seen.characters
     /\ now.sources = seen.sources
     /\ now.images = seen.images /\ now.approved = seen.approved

(* updateCatalogRow: the columns that are filled in; sources and images    *)
(* are added, images never approved.                                       *)
Filled(row, parts, t, r, m) ==
  [row EXCEPT
     !.item = IF "item" \in parts THEN [@ EXCEPT !.text = t] ELSE @,
     !.watch = IF "watch" \in parts THEN t ELSE @,
     !.characters = IF "characters" \in parts THEN t ELSE @,
     !.sources = IF "sources" \in parts THEN @ \cup {r} ELSE @,
     !.images = IF "images" \in parts THEN @ \cup {m} ELSE @]

UpdateCatalogRow(k) ==
  LET i == form[k].item
  IN /\ Submits(k, "CSV")
     /\ Active
     /\ ~doc[i].item.archived
     /\ SameRevision(k)
     /\ \E parts \in SUBSET {"item", "watch", "characters", "sources", "images"}, t \in Text,
           r \in Reference, m \in Image :
          /\ "images" \in parts => Unused(m)
          /\ Write(i, parts \cap Part, Filled(doc[i], parts, t, r, m))

Imported(k) == {i \in form[k].rows : Exists(i)}

(* Mutant of Importable: what is missing is created.                       *)
ImportableMissing(k) == Imported(k) # form[k].rows

(* All rows exist: nothing to do; some exist: refused (IMPORT_RETRY).      *)
Importable(k) == Imported(k) = {}

(* commit of an assisted import; the row of a CSV file is an import of one *)
(* item.                                                                   *)
CreateReviewed(k) ==
  /\ form[k].kind = "CREATE"
  /\ Active
  /\ Importable(k)
  /\ \E t \in Text :
       doc' = [i \in Item |->
         IF i \in form[k].rows /\ ~Exists(i)
         THEN [NoItem EXCEPT !.item = [text |-> t, archived |-> FALSE], !.characters = t]
         ELSE doc[i]]
  /\ UNCHANGED form

(* setImageApproval, to withdraw: another approved image of the listing is *)
(* looked for, and the image is written later without a lock.              *)
BeginWithdraw(k, i, m) ==
  /\ form[k].kind = "NONE"
  /\ m \in doc[i].approved
  /\ Listed(i, m) /\ doc[i].listing.published =>
       (doc[i].listing.images \cap doc[i].approved) \ {m} # {}
  /\ form' = [form EXCEPT ![k] = [NoForm EXCEPT !.kind = "WITHDRAW", !.item = i, !.image = m]]
  /\ UNCHANGED doc

CommitWithdraw(k) ==
  LET i == form[k].item
  IN /\ form[k].kind = "WITHDRAW"
     /\ doc' = [doc EXCEPT ![i].approved = @ \ {form[k].image}]
     /\ form' = [form EXCEPT ![k] = NoForm]
     /\ UNCHANGED <<shelved, edits>>
------------------------------------------------------------------------------
(* removeFranchise, restoreFranchise, and remove and restore of a lineup   *)
(* that has items.                                                         *)
Shelve ==
  /\ \/ shelved' = [shelved EXCEPT !.lineup = ~@]
     \/ shelved' = [shelved EXCEPT !.franchise = ~@]
  /\ UNCHANGED <<doc, form>>

Unreviewed(i) ==
  \/ CreateItem(i) \/ SetCategory(i) \/ ArchiveItem(i) \/ RestoreItem(i) \/ RemoveItem(i)
  \/ AddSource(i) \/ AddImage(i) \/ SetWatch(i)
  \/ EditListing(i) \/ SetPrice(i)
  \/ \E published \in BOOLEAN : SetPublished(i, published)
  \/ \E m \in Image : RemoveImage(i, m) \/ ApproveImage(i, m)

Submit(k) ==
  \/ SaveItem(k) \/ SaveItemSources(k) \/ SavePurchaseWatch(k) \/ PublishReviewed(k)
  \/ UpdateCatalogRow(k) \/ CreateReviewed(k)

CatalogueNext ==
  \/ Shelve /\ Spend
  \/ \E i \in Item : Unreviewed(i) /\ Spend /\ UNCHANGED shelved
  \/ \E k \in Clerk :
       \/ \E i \in Item, kind \in FormKind \ {"CREATE", "WITHDRAW"} :
            Open(k, kind, i) /\ Spend /\ UNCHANGED shelved
       \/ \E rows \in Imports : OpenImport(k, rows) /\ Spend /\ UNCHANGED shelved
       \/ \E i \in Item, m \in Image : BeginWithdraw(k, i, m) /\ Spend /\ UNCHANGED shelved
       \/ Submit(k) /\ UNCHANGED <<shelved, edits>>
       \/ CommitWithdraw(k)
       \/ Close(k)

CatalogueSpec == CatalogueInit /\ [][CatalogueNext]_catalogueVars
------------------------------------------------------------------------------
(***************************************************************************)
(* Properties.                                                             *)
(***************************************************************************)

(* What the author of each kind of form saw that its submission relies on. *)
Reviewed ==
  [EDIT |-> {"item"}, SOURCES |-> {"item"}, WATCH |-> {"watch"},
   PUBLISH |-> {"item", "listing"},
   CSV |-> {"item", "watch", "characters", "sources", "images", "approved"}]

(* When a form or a review is carried out, the rows it relies on are what  *)
(* its author was shown, through any number of saves, publications, CSV    *)
(* rows, deletions and edits without a form in between: an edit and a list *)
(* of sources rely on the row of the item, a watch on its own, a           *)
(* publication on the item and its listing, a CSV row on the item with all *)
(* that belongs to it.  A list of sources may drop a source that was added *)
(* unseen, as that leaves the row of the item alone, but every source that *)
(* its author was shown is still there: none comes back.  An edit may      *)
(* replace characters that a CSV row set unseen (EDIT_CONFLICT,            *)
(* REVIEW_STALE, CSV_STALE).                                               *)
ReviewStillHolds ==
  [][\A k \in Clerk : Submit(k) /\ form[k].kind # "CREATE" =>
       LET now == doc[form[k].item]
           seen == form[k].seen
       IN /\ \A part \in Reviewed[form[k].kind] : now[part] = seen[part]
          /\ form[k].kind = "SOURCES" => seen.sources \subseteq now.sources]_catalogueVars

(* An address that was public stays the address of its item: it is not     *)
(* changed, forgotten or given to another listing, after the listing was   *)
(* withdrawn either (saveInTransaction, removeItem).                       *)
PublicAddressKept ==
  [][\A i \in Item : Dated(i) => Dated(i)' /\ doc'[i].listing.slug = doc[i].listing.slug]_catalogueVars

(* The items of a review are created together or not at all, whatever was  *)
(* deleted, reviewed in part or submitted again since: what a step creates *)
(* is the whole of some review (commit).                                   *)
ImportIsWhole ==
  [][LET created == {i \in UNION Imports : ~Exists(i) /\ Exists(i)'}
     IN created # {} => \E k \in Clerk : form[k].rows = created]_catalogueVars
==============================================================================
