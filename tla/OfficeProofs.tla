----------------------------- MODULE OfficeProofs -----------------------------
(***************************************************************************)
(* Theorems about the work of the office.  Items and imports (module       *)
(* Catalogue): reviews are carried out on what their authors saw, a public *)
(* address stays with its item, and an import is whole.  Pages of          *)
(* purchases, shipments and watches (module Paperwork): a save follows the *)
(* page.  Costs (module LandedCosts): no unit is charged twice, a stored   *)
(* calculation was reviewed with what is in force, and what is charged     *)
(* adds up to what was paid.                                               *)
(***************************************************************************)
EXTENDS LandedCosts, Catalogue, Paperwork, TLAPS, FiniteSetTheorems, WellFoundedInduction,
        NaturalsInduction

(* Items and imports.                                                      *)

(* A form has an item unless it makes new ones, and its rows are fresh     *)
(* only while the item exists.                                             *)
FormsPoint ==
  \A k \in Clerk :
    /\ form[k].kind \in FormKind \ {"CREATE"} => form[k].item \in Item
    /\ form[k].kind = "CREATE" => form[k].rows \in Imports
    /\ form[k].fresh # {} => form[k].item \in Item /\ Exists(form[k].item)

(* What is fresh is what the author saw.                                   *)
SeenIsCurrent ==
  \A k \in Clerk : \A part \in form[k].fresh :
    doc[form[k].item][part] = form[k].seen[part]

(* While the item is fresh, no source that the author saw is gone.         *)
SourcesRemain ==
  \A k \in Clerk : "item" \in form[k].fresh =>
    form[k].seen.sources \subseteq doc[form[k].item].sources

(* Nothing is left of an item that is gone.                                *)
GoneIsEmpty == \A i \in Item : Exists(i) \/ doc[i] = NoItem

CatalogueInv ==
  CatalogueTypeOK /\ FormsPoint /\ SeenIsCurrent /\ SourcesRemain /\ GoneIsEmpty

(* What a write may do to an item: it makes it, keeps it or removes it     *)
(* with its rows, moves the time of what it changes, takes sources away    *)
(* only with the time of the item, and keeps a public address.             *)
Allowed(i, parts, record) ==
  /\ record \in Record
  /\ record.item = None => record = NoItem /\ doc[i].listing = None /\ Part \subseteq parts
  /\ Exists(i) => \A part \in Part \ parts : record[part] = doc[i][part]
  /\ Exists(i) => "item" \in parts \/ doc[i].sources \subseteq record.sources
  /\ Exists(i) \/ i \notin UNION Imports
  /\ Dated(i) => /\ record.listing # None /\ record.listing.dated
                 /\ record.listing.slug = doc[i].listing.slug

Changes(i) == \E parts, record : Write(i, parts, record) /\ Allowed(i, parts, record)
------------------------------------------------------------------------------
(* An item without rows is a record of the store.                          *)
LEMMA NoItemTyped ==
  NoItem \in Record
  BY DEF NoItem, Record

(* The parts of a stored item.                                             *)
LEMMA DocTyped ==
  ASSUME CatalogueTypeOK, NEW i \in Item
  PROVE  /\ doc[i] \in Record
         /\ doc[i].item \in ItemRow \cup {None}
         /\ doc[i].characters \in Text \cup {None}
         /\ doc[i].sources \subseteq Reference
         /\ doc[i].images \subseteq Image
         /\ doc[i].approved \subseteq Image
         /\ doc[i].listing \in ListingRow \cup {None}
         /\ doc[i].watch \in Text \cup {None}
         /\ doc[i] = [item |-> doc[i].item, characters |-> doc[i].characters,
                      sources |-> doc[i].sources, images |-> doc[i].images,
                      approved |-> doc[i].approved, listing |-> doc[i].listing,
                      watch |-> doc[i].watch]
<1>1. doc[i] \in Record
  BY DEF CatalogueTypeOK
<1> QED
  BY <1>1 DEF Record

(* The forms stay forms.                                                   *)
LEMMA FormTyped ==
  ASSUME CatalogueTypeOK, NEW k \in Clerk
  PROVE  /\ form[k] \in Form
         /\ form[k].kind \in FormKind \cup {"NONE"}
         /\ form[k].item \in Item \cup {None}
         /\ form[k].seen \in Record
         /\ form[k].fresh \subseteq Part
         /\ form[k].rows \in Imports \cup {{}}
         /\ form[k].image \in Image \cup {None}
         /\ form[k] = [kind |-> form[k].kind, item |-> form[k].item, seen |-> form[k].seen,
                       fresh |-> form[k].fresh, rows |-> form[k].rows, image |-> form[k].image]
<1>1. form[k] \in Form
  BY DEF CatalogueTypeOK
<1> QED
  BY <1>1 DEF Form

(* A form whose rows are outdated.                                         *)
LEMMA Refresh ==
  ASSUME NEW f \in Form, NEW rows
  PROVE  [f EXCEPT !.fresh = rows] =
           [kind |-> f.kind, item |-> f.item, seen |-> f.seen, fresh |-> rows,
            rows |-> f.rows, image |-> f.image]
  BY DEF Form

(* What a write does to the forms.                                         *)
LEMMA OutdatedForms ==
  ASSUME CatalogueTypeOK, NEW i \in Item, NEW parts, form' = Outdated(i, parts),
         NEW k \in Clerk
  PROVE  /\ form'[k] \in Form
         /\ form'[k].kind = form[k].kind /\ form'[k].item = form[k].item
         /\ form'[k].seen = form[k].seen /\ form'[k].rows = form[k].rows
         /\ form'[k].fresh = IF form[k].item = i THEN form[k].fresh \ parts ELSE form[k].fresh
<1>1. form'[k] = IF form[k].item = i THEN [form[k] EXCEPT !.fresh = form[k].fresh \ parts]
                 ELSE form[k]
  BY DEF Outdated
<1>2. CASE form[k].item = i
  <2>1. form'[k] = [kind |-> form[k].kind, item |-> form[k].item, seen |-> form[k].seen,
                    fresh |-> form[k].fresh \ parts, rows |-> form[k].rows,
                    image |-> form[k].image]
    BY <1>1, <1>2, FormTyped, Refresh
  <2>2. form[k].fresh \ parts \subseteq Part
    BY FormTyped
  <2>3. form'[k] \in Form
    <3>1. /\ form[k].kind \in FormKind \cup {"NONE"} /\ form[k].item \in Item \cup {None}
          /\ form[k].seen \in Record /\ form[k].rows \in Imports \cup {{}}
          /\ form[k].image \in Image \cup {None}
      BY FormTyped
    <3> QED
      BY <2>1, <2>2, <3>1 DEF Form
  <2> QED
    BY <1>2, <2>1, <2>3
<1>3. CASE form[k].item # i
  BY <1>1, <1>3, FormTyped
<1> QED
  BY <1>2, <1>3
------------------------------------------------------------------------------
(* A write that is allowed keeps the invariant.                            *)
LEMMA WriteKeeps ==
  ASSUME CatalogueInv, NEW i \in Item, Changes(i), NEW clock \in 0..MaxEdits,
         edits' = clock, shelved' \in [lineup : BOOLEAN, franchise : BOOLEAN]
  PROVE  CatalogueInv'
<1> PICK parts, record : Write(i, parts, record) /\ Allowed(i, parts, record)
  BY DEF Changes
<1>1. CatalogueTypeOK
  BY DEF CatalogueInv
<1>2. doc' = [doc EXCEPT ![i] = record] /\ form' = Outdated(i, parts)
  BY DEF Write
<1>3. doc \in [Item -> Record] /\ record \in Record
  BY <1>1 DEF CatalogueTypeOK, Allowed
<1>4. \A j \in Item : doc'[j] = IF j = i THEN record ELSE doc[j]
  BY <1>2, <1>3
<1>5. \A k \in Clerk :
        /\ form'[k] \in Form
        /\ form'[k].kind = form[k].kind /\ form'[k].item = form[k].item
        /\ form'[k].seen = form[k].seen /\ form'[k].rows = form[k].rows
        /\ form'[k].fresh = IF form[k].item = i THEN form[k].fresh \ parts ELSE form[k].fresh
  <2> SUFFICES ASSUME NEW k \in Clerk
               PROVE  /\ form'[k] \in Form
                      /\ form'[k].kind = form[k].kind /\ form'[k].item = form[k].item
                      /\ form'[k].seen = form[k].seen /\ form'[k].rows = form[k].rows
                      /\ form'[k].fresh = IF form[k].item = i THEN form[k].fresh \ parts
                                         ELSE form[k].fresh
    OBVIOUS
  <2> QED
    BY <1>1, <1>2, OutdatedForms
<1>6. CatalogueTypeOK'
  <2>1. doc' \in [Item -> Record]
    BY <1>2, <1>3
  <2>2. form' = [k \in Clerk |-> form'[k]]
    BY <1>2 DEF Outdated
  <2> QED
    BY <1>5, <2>1, <2>2 DEF CatalogueTypeOK
<1>7. ASSUME NEW k \in Clerk, NEW part \in form'[k].fresh
      PROVE  /\ form[k].item \in Item /\ doc'[form[k].item].item # None
             /\ doc'[form[k].item][part] = form[k].seen[part]
  <2>1. part \in form[k].fresh /\ (form[k].item = i => part \notin parts) /\ part \in Part
    <3>1. part \in IF form[k].item = i THEN form[k].fresh \ parts ELSE form[k].fresh
      BY <1>5, <1>7
    <3>2. form[k].fresh \subseteq Part
      BY <1>1, FormTyped
    <3> QED
      BY <3>1, <3>2
  <2>2. /\ form[k].item \in Item /\ Exists(form[k].item)
        /\ doc[form[k].item][part] = form[k].seen[part]
    BY <2>1 DEF CatalogueInv, FormsPoint, SeenIsCurrent
  <2>3. CASE form[k].item = i
    <3>1. record.item # None
      BY <2>1, <2>3 DEF Allowed
    <3>2. record[part] = doc[i][part]
      BY <2>1, <2>2, <2>3 DEF Allowed
    <3> QED
      BY <1>4, <2>2, <2>3, <3>1, <3>2 DEF Exists
  <2>4. CASE form[k].item # i
    BY <1>4, <2>2, <2>4 DEF Exists
  <2> QED
    BY <2>2, <2>3, <2>4
<1>8. FormsPoint'
  <2> SUFFICES ASSUME NEW k \in Clerk
               PROVE  /\ form'[k].kind \in FormKind \ {"CREATE"} => form'[k].item \in Item
                      /\ form'[k].kind = "CREATE" => form'[k].rows \in Imports
                      /\ form'[k].fresh # {} =>
                           form'[k].item \in Item /\ doc'[form'[k].item].item # None
    BY DEF FormsPoint, Exists
  <2> QED
    BY <1>5, <1>7 DEF CatalogueInv, FormsPoint
<1>9. SeenIsCurrent'
  <2> SUFFICES ASSUME NEW k \in Clerk, NEW part \in form'[k].fresh
               PROVE  doc'[form'[k].item][part] = form'[k].seen[part]
    BY DEF SeenIsCurrent
  <2>1. form'[k].item = form[k].item /\ form'[k].seen = form[k].seen
    BY <1>5
  <2> QED
    BY <1>7, <2>1
<1>10. GoneIsEmpty'
  <2> SUFFICES ASSUME NEW j \in Item PROVE doc'[j].item # None \/ doc'[j] = NoItem
    BY DEF GoneIsEmpty, Exists
  <2>1. CASE j = i
    BY <1>4, <2>1 DEF Allowed
  <2>2. CASE j # i
    BY <1>4, <2>2 DEF CatalogueInv, GoneIsEmpty, Exists
  <2> QED
    BY <2>1, <2>2
<1>11. SourcesRemain'
  <2> SUFFICES ASSUME NEW k \in Clerk, "item" \in form'[k].fresh
               PROVE  form'[k].seen.sources \subseteq doc'[form'[k].item].sources
    BY DEF SourcesRemain
  <2>1. form'[k].item = form[k].item /\ form'[k].seen = form[k].seen
    BY <1>5
  <2>2. "item" \in IF form[k].item = i THEN form[k].fresh \ parts ELSE form[k].fresh
    BY <1>5
  <2>3. /\ form[k].item \in Item /\ Exists(form[k].item)
        /\ form[k].seen.sources \subseteq doc[form[k].item].sources
    BY <2>2 DEF CatalogueInv, FormsPoint, SourcesRemain
  <2>4. CASE form[k].item = i
    <3>1. doc[i].sources \subseteq record.sources
      BY <2>2, <2>3, <2>4 DEF Allowed
    <3> QED
      BY <1>4, <2>1, <2>3, <2>4, <3>1
  <2>5. CASE form[k].item # i
    BY <1>4, <2>1, <2>3, <2>5
  <2> QED
    BY <2>4, <2>5
<1> QED
  BY <1>6, <1>8, <1>9, <1>10, <1>11 DEF CatalogueInv
------------------------------------------------------------------------------
(* A row of an item is not the null value.                                 *)
LEMMA RowsExist ==
  /\ \A r \in ItemRow : r # None
  /\ \A r \in ListingRow : r # None
  BY CatalogueAssumption DEF CatalogueAssumption

(* A write of an item that stays, and whose listing is not forgotten.      *)
LEMMA Amended ==
  ASSUME NEW i \in Item, Exists(i), NEW parts, NEW record \in Record,
         Write(i, parts, record), record.item # None,
         "item" \in parts \/ record.item = doc[i].item,
         "listing" \in parts \/ record.listing = doc[i].listing,
         "watch" \in parts \/ record.watch = doc[i].watch,
         "item" \in parts \/ doc[i].sources \subseteq record.sources,
         Dated(i) => /\ record.listing # None /\ record.listing.dated
                     /\ record.listing.slug = doc[i].listing.slug
  PROVE  Changes(i)
<1>1. \A part \in Part \ parts : record[part] = doc[i][part]
  BY DEF Part
<1>2. Allowed(i, parts, record)
  BY <1>1 DEF Allowed
<1> QED
  BY <1>2 DEF Changes

(* The row of an existing item.                                            *)
LEMMA RowOf ==
  ASSUME CatalogueInv, NEW i \in Item, Exists(i)
  PROVE  CatalogueTypeOK /\ doc[i] \in Record /\ doc[i].item \in ItemRow
  BY DocTyped DEF CatalogueInv, Exists

(* Writes of an item's row.                                                *)
LEMMA ItemEdited ==
  ASSUME CatalogueInv, NEW i \in Item, Exists(i), NEW row \in ItemRow,
         NEW parts, "item" \in parts, Write(i, parts, [doc[i] EXCEPT !.item = row])
  PROVE  Changes(i)
<1>1. doc[i] \in Record
  BY RowOf
<1> DEFINE record == [doc[i] EXCEPT !.item = row]
<1>2. record \in Record
  BY <1>1 DEF Record
<1>3. record.item = row /\ record.listing = doc[i].listing /\ record.watch = doc[i].watch
  BY <1>1 DEF Record
<1>4. Write(i, parts, record)
  OBVIOUS
<1> HIDE DEF record
<1> QED
  BY <1>2, <1>3, <1>4, RowsExist, Amended DEF Dated

(* Writes of an item's row with its characters (saveItem).                 *)
LEMMA ItemSaved ==
  ASSUME CatalogueInv, NEW i \in Item, Exists(i), NEW row \in ItemRow, NEW t \in Text,
         NEW parts, "item" \in parts,
         Write(i, parts, [doc[i] EXCEPT !.item = row, !.characters = t])
  PROVE  Changes(i)
<1>1. doc[i] \in Record
  BY RowOf
<1> DEFINE record == [doc[i] EXCEPT !.item = row, !.characters = t]
<1>2. record \in Record
  BY <1>1 DEF Record
<1>3. record.item = row /\ record.listing = doc[i].listing /\ record.watch = doc[i].watch
  BY <1>1 DEF Record
<1>4. Write(i, parts, record)
  OBVIOUS
<1> HIDE DEF record
<1> QED
  BY <1>2, <1>3, <1>4, RowsExist, Amended DEF Dated

(* setCategory, archiveItem and restoreItem.                               *)
LEMMA RowChanges ==
  ASSUME CatalogueInv, NEW i \in Item,
         SetCategory(i) \/ ArchiveItem(i) \/ RestoreItem(i)
  PROVE  Changes(i)
<1>1. Exists(i) /\ doc[i].item \in ItemRow
  BY RowOf DEF SetCategory, ArchiveItem, RestoreItem
<1>2. CASE SetCategory(i)
  <2>1. PICK t \in Text :
          Write(i, {"item"}, [doc[i] EXCEPT !.item = [doc[i].item EXCEPT !.text = t]])
    BY <1>2 DEF SetCategory
  <2>2. [doc[i].item EXCEPT !.text = t] \in ItemRow
    BY <1>1 DEF ItemRow
  <2> QED
    BY <1>1, <2>1, <2>2, ItemEdited
<1>3. CASE ArchiveItem(i) \/ RestoreItem(i)
  <2>1. PICK a \in BOOLEAN :
          Write(i, {"item"}, [doc[i] EXCEPT !.item = [doc[i].item EXCEPT !.archived = a]])
    BY <1>3 DEF ArchiveItem, RestoreItem
  <2>2. [doc[i].item EXCEPT !.archived = a] \in ItemRow
    BY <1>1 DEF ItemRow
  <2> QED
    BY <1>1, <2>1, <2>2, ItemEdited
<1> QED
  BY <1>2, <1>3

(* removeItem.                                                             *)
LEMMA RemoveChanges ==
  ASSUME CatalogueInv, NEW i \in Item, RemoveItem(i)
  PROVE  Changes(i)
<1>1. Exists(i) /\ doc[i].item \in ItemRow
  BY RowOf DEF RemoveItem
<1>2. CASE i \in Traded \/ doc[i].listing # None
  <2>1. Write(i, {"item"}, [doc[i] EXCEPT !.item = [doc[i].item EXCEPT !.archived = TRUE]])
    BY <1>2 DEF RemoveItem
  <2>2. [doc[i].item EXCEPT !.archived = TRUE] \in ItemRow
    BY <1>1 DEF ItemRow
  <2> QED
    BY <1>1, <2>1, <2>2, ItemEdited
<1>3. CASE ~(i \in Traded \/ doc[i].listing # None)
  <2>1. Write(i, Part, NoItem) /\ doc[i].listing = None
    BY <1>3 DEF RemoveItem
  <2>2. Allowed(i, Part, NoItem)
    BY <1>1, <2>1, NoItemTyped DEF Allowed, Dated, Part
  <2> QED
    BY <2>1, <2>2 DEF Changes
<1> QED
  BY <1>2, <1>3

(* createItem.                                                             *)
LEMMA CreateChanges ==
  ASSUME CatalogueInv, NEW i \in Item, CreateItem(i)
  PROVE  Changes(i)
<1>1. ~Exists(i) /\ i \notin UNION Imports /\ doc[i] = NoItem
  BY DEF CreateItem, CatalogueInv, GoneIsEmpty
<1>2. PICK t \in Text :
        Write(i, {}, [NoItem EXCEPT !.item = [text |-> t, archived |-> FALSE], !.characters = t])
  BY DEF CreateItem
<1> DEFINE row == [text |-> t, archived |-> FALSE]
           record == [NoItem EXCEPT !.item = row, !.characters = t]
<1>3. row \in ItemRow
  BY DEF ItemRow
<1>4. Write(i, {}, record)
  BY <1>2
<1> HIDE DEF row
<1>5. record \in Record /\ record.item = row
  BY <1>3, NoItemTyped DEF Record
<1>6. ~Dated(i)
  BY <1>1 DEF Dated, NoItem
<1> HIDE DEF record
<1>7. Allowed(i, {}, record)
  BY <1>1, <1>3, <1>5, <1>6, RowsExist DEF Allowed
<1> QED
  BY <1>4, <1>7 DEF Changes

(* A write of what belongs to an item but has no place in its row and its  *)
(* listing.                                                                *)
LEMMA BelongingsEdited ==
  ASSUME CatalogueInv, NEW i \in Item, Exists(i), NEW record \in Record, NEW parts,
         Write(i, parts, record), record.item = doc[i].item, record.listing = doc[i].listing,
         "watch" \in parts \/ record.watch = doc[i].watch,
         "item" \in parts \/ doc[i].sources \subseteq record.sources
  PROVE  Changes(i)
  BY Amended DEF Dated, Exists

(* addSource, addImage, the images and the watch.                          *)
LEMMA BelongingsChange ==
  ASSUME CatalogueInv, NEW i \in Item, NEW m,
         \/ AddSource(i) \/ AddImage(i) \/ SetWatch(i)
         \/ RemoveImage(i, m) \/ ApproveImage(i, m)
  PROVE  Changes(i)
<1>1. Exists(i)
  <2>1. CASE AddSource(i) \/ AddImage(i) \/ SetWatch(i)
    BY <2>1 DEF AddSource, AddImage, SetWatch
  <2>2. CASE RemoveImage(i, m) \/ ApproveImage(i, m)
    <3>1. m \in doc[i].images
      BY <2>2 DEF RemoveImage, ApproveImage
    <3>2. NoItem.images = {}
      BY DEF NoItem
    <3> QED
      BY <3>1, <3>2 DEF CatalogueInv, GoneIsEmpty
  <2> QED
    BY <2>1, <2>2
<1>2. /\ doc[i] \in Record /\ doc[i].sources \subseteq Reference
      /\ doc[i].images \subseteq Image /\ doc[i].approved \subseteq Image
  BY <1>1, RowOf, DocTyped
<1>3. CASE AddSource(i)
  <2>1. PICK r \in Reference : Write(i, {}, [doc[i] EXCEPT !.sources = doc[i].sources \cup {r}])
    BY <1>3 DEF AddSource
  <2> DEFINE record == [doc[i] EXCEPT !.sources = doc[i].sources \cup {r}]
  <2>2. /\ record \in Record /\ record.item = doc[i].item
        /\ record.listing = doc[i].listing /\ record.watch = doc[i].watch
        /\ doc[i].sources \subseteq record.sources
    BY <1>2 DEF Record
  <2>3. Write(i, {}, record)
    BY <2>1
  <2> HIDE DEF record
  <2> QED
    BY <1>1, <2>2, <2>3, BelongingsEdited
<1>4. CASE AddImage(i) \/ RemoveImage(i, m)
  <2>1. PICK images \in SUBSET Image, approved \in SUBSET Image :
          Write(i, {}, [doc[i] EXCEPT !.images = images, !.approved = approved])
    <3>1. CASE AddImage(i)
      <4>1. PICK n \in Image, a \in BOOLEAN :
              Write(i, {}, [doc[i] EXCEPT
                              !.images = doc[i].images \cup {n},
                              !.approved = IF a THEN doc[i].approved \cup {n}
                                           ELSE doc[i].approved])
        BY <3>1 DEF AddImage
      <4>2. /\ doc[i].images \cup {n} \in SUBSET Image
            /\ (IF a THEN doc[i].approved \cup {n} ELSE doc[i].approved) \in SUBSET Image
        BY <1>2
      <4> QED
        BY <4>1, <4>2
    <3>2. CASE RemoveImage(i, m)
      <4>1. Write(i, {}, [doc[i] EXCEPT !.images = doc[i].images \ {m},
                                        !.approved = doc[i].approved \ {m}])
        BY <3>2 DEF RemoveImage
      <4>2. doc[i].images \ {m} \in SUBSET Image /\ doc[i].approved \ {m} \in SUBSET Image
        BY <1>2
      <4> QED
        BY <4>1, <4>2
    <3> QED
      BY <1>4, <3>1, <3>2
  <2> DEFINE record == [doc[i] EXCEPT !.images = images, !.approved = approved]
  <2>2. /\ record \in Record /\ record.item = doc[i].item
        /\ record.listing = doc[i].listing /\ record.watch = doc[i].watch
        /\ doc[i].sources \subseteq record.sources
    BY <1>2 DEF Record
  <2>3. Write(i, {}, record)
    BY <2>1
  <2> HIDE DEF record
  <2> QED
    BY <1>1, <2>2, <2>3, BelongingsEdited
<1>5. CASE ApproveImage(i, m)
  <2> DEFINE record == [doc[i] EXCEPT !.approved = doc[i].approved \cup {m}]
  <2>1. m \in Image
    BY <1>2, <1>5 DEF ApproveImage
  <2>2. /\ record \in Record /\ record.item = doc[i].item
        /\ record.listing = doc[i].listing /\ record.watch = doc[i].watch
        /\ doc[i].sources \subseteq record.sources
    BY <1>2, <2>1 DEF Record
  <2>3. Write(i, {}, record)
    BY <1>5 DEF ApproveImage
  <2> HIDE DEF record
  <2> QED
    BY <1>1, <2>2, <2>3, BelongingsEdited
<1>6. CASE SetWatch(i)
  <2>1. PICK t \in Text : Write(i, {"watch"}, [doc[i] EXCEPT !.watch = t])
    BY <1>6 DEF SetWatch
  <2> DEFINE record == [doc[i] EXCEPT !.watch = t]
  <2>2. /\ record \in Record /\ record.item = doc[i].item /\ record.listing = doc[i].listing
        /\ doc[i].sources \subseteq record.sources
    BY <1>2 DEF Record
  <2>3. Write(i, {"watch"}, record)
    BY <2>1
  <2> HIDE DEF record
  <2> QED
    BY <1>1, <2>2, <2>3, BelongingsEdited
<1> QED
  BY <1>3, <1>4, <1>5, <1>6
------------------------------------------------------------------------------
(* A write of a listing that keeps what was public.                        *)
LEMMA ListingEdited ==
  ASSUME CatalogueInv, NEW i \in Item, Exists(i), NEW row \in ListingRow,
         Dated(i) => row.dated /\ row.slug = doc[i].listing.slug,
         Write(i, {"listing"}, [doc[i] EXCEPT !.listing = row])
  PROVE  Changes(i)
<1>1. doc[i] \in Record
  BY RowOf
<1> DEFINE record == [doc[i] EXCEPT !.listing = row]
<1>2. record \in Record
  BY <1>1 DEF Record
<1>3. /\ record.item = doc[i].item /\ record.listing = row /\ record.watch = doc[i].watch
      /\ record.sources = doc[i].sources
  BY <1>1 DEF Record
<1>4. Write(i, {"listing"}, record)
  OBVIOUS
<1> HIDE DEF record
<1> QED
  BY <1>2, <1>3, <1>4, RowsExist, Amended DEF Exists

(* saveInTransaction, from a form or without one.                          *)
LEMMA SaveListingChanges ==
  ASSUME CatalogueInv, NEW i \in Item, NEW slug \in Slug, NEW images \in SUBSET Image,
         NEW published \in BOOLEAN, SaveListing(i, slug, images, published)
  PROVE  Changes(i)
<1> DEFINE row == [slug |-> slug, published |-> published, dated |-> published \/ Dated(i),
                   images |-> images]
<1>1. Exists(i) /\ UrlKept(i, slug) /\ Write(i, {"listing"}, [doc[i] EXCEPT !.listing = row])
  BY DEF SaveListing
<1>2. row \in ListingRow
  BY DEF ListingRow, Dated
<1>3. Dated(i) => row.dated /\ row.slug = doc[i].listing.slug
  BY <1>1 DEF UrlKept
<1> HIDE DEF row
<1> QED
  BY <1>1, <1>2, <1>3, ListingEdited

(* saveListing, setPublished, setSellingPrice and setFeatured.             *)
LEMMA ListingChanges ==
  ASSUME CatalogueInv, NEW i \in Item, NEW published \in BOOLEAN,
         EditListing(i) \/ SetPublished(i, published) \/ SetPrice(i)
  PROVE  Changes(i)
<1>1. CASE EditListing(i)
  <2>1. PICK slug \in Slug, images \in SUBSET Image :
          SaveListing(i, slug, images, doc[i].listing # None /\ doc[i].listing.published)
    BY <1>1 DEF EditListing
  <2>2. (doc[i].listing # None /\ doc[i].listing.published) \in BOOLEAN
    <3>1. doc[i].listing \in ListingRow \cup {None}
      BY DocTyped DEF CatalogueInv
    <3> QED
      BY <3>1 DEF ListingRow
  <2> QED
    BY <2>1, <2>2, SaveListingChanges
<1>2. ASSUME SetPublished(i, published) \/ SetPrice(i)
      PROVE  /\ Exists(i) /\ doc[i] \in Record /\ doc[i].listing \in ListingRow
  <2>1. doc[i].listing # None
    BY <1>2 DEF SetPublished, SetPrice
  <2>2. NoItem.listing = None
    BY DEF NoItem
  <2>3. Exists(i)
    BY <2>1, <2>2 DEF CatalogueInv, GoneIsEmpty
  <2> QED
    BY <2>1, <2>3, RowOf, DocTyped
<1>3. CASE SetPublished(i, published)
  <2> DEFINE row == [doc[i].listing EXCEPT !.published = published,
                                           !.dated = published \/ Dated(i)]
  <2>1. Write(i, {"listing"}, [doc[i] EXCEPT !.listing = row])
    BY <1>3 DEF SetPublished
  <2>2. doc[i].listing \in ListingRow
    BY <1>2, <1>3
  <2>3. Dated(i) \in BOOLEAN
    BY <2>2 DEF ListingRow, Dated
  <2>4. row \in ListingRow
    BY <2>2, <2>3 DEF ListingRow
  <2>5. row.slug = doc[i].listing.slug
    BY <2>2 DEF ListingRow
  <2>6. row.dated = (published \/ Dated(i))
    BY <2>2 DEF ListingRow
  <2>7. Dated(i) => row.dated
    BY <2>6
  <2> HIDE DEF row
  <2> QED
    BY <1>2, <1>3, <2>1, <2>4, <2>5, <2>7, ListingEdited
<1>4. CASE SetPrice(i)
  <2>1. Write(i, {"listing"}, doc[i])
    BY <1>4 DEF SetPrice
  <2> QED
    BY <1>2, <1>4, <2>1, BelongingsEdited DEF SetPrice
<1> QED
  BY <1>1, <1>3, <1>4

(* Every write without a form is allowed.                                  *)
LEMMA UnreviewedChanges ==
  ASSUME CatalogueInv, NEW i \in Item, Unreviewed(i)
  PROVE  Changes(i)
<1>1. CASE CreateItem(i) \/ RemoveItem(i)
  BY <1>1, CreateChanges, RemoveChanges
<1>2. CASE SetCategory(i) \/ ArchiveItem(i) \/ RestoreItem(i)
  BY <1>2, RowChanges
<1>3. CASE EditListing(i) \/ SetPrice(i) \/ \E published \in BOOLEAN : SetPublished(i, published)
  BY <1>3, ListingChanges
<1>4. CASE \E m \in Image : RemoveImage(i, m) \/ ApproveImage(i, m)
  BY <1>4, BelongingsChange
<1>5. CASE AddSource(i) \/ AddImage(i) \/ SetWatch(i)
  BY <1>5, BelongingsChange
<1> QED
  BY <1>1, <1>2, <1>3, <1>4, <1>5 DEF Unreviewed
------------------------------------------------------------------------------
(* A form that is submitted points to an existing item.                    *)
LEMMA SubmitsItem ==
  ASSUME CatalogueInv, NEW k \in Clerk, NEW use \in FormKind \ {"CREATE"}, Submits(k, use)
  PROVE  form[k].item \in Item /\ Exists(form[k].item)
  BY DEF Submits, CatalogueInv, FormsPoint

(* saveItem, saveItemSources and savePurchaseWatch.                        *)
LEMMA SubmitChanges ==
  ASSUME CatalogueInv, NEW k \in Clerk,
         SaveItem(k) \/ SaveItemSources(k) \/ SavePurchaseWatch(k) \/ PublishReviewed(k)
  PROVE  \E i \in Item : Changes(i)
<1>1. PICK i : i = form[k].item
  OBVIOUS
<1>2. i \in Item /\ Exists(i)
  BY <1>1, SubmitsItem DEF FormKind, SaveItem, SaveItemSources, SavePurchaseWatch, PublishReviewed
<1>3. doc[i] \in Record /\ doc[i].item \in ItemRow
  BY <1>2, RowOf
<1>4. CASE SaveItem(k)
  <2>1. PICK t \in Text :
          Write(i, {"item"}, [doc[i] EXCEPT !.item = [doc[i].item EXCEPT !.text = t],
                                            !.characters = t])
    BY <1>1, <1>4 DEF SaveItem
  <2>2. [doc[i].item EXCEPT !.text = t] \in ItemRow
    BY <1>3 DEF ItemRow
  <2> QED
    BY <1>2, <2>1, <2>2, ItemSaved
<1>5. CASE SaveItemSources(k)
  <2>1. PICK kept \in SUBSET Reference : Write(i, {"item"}, [doc[i] EXCEPT !.sources = kept])
    BY <1>1, <1>5 DEF SaveItemSources
  <2> DEFINE record == [doc[i] EXCEPT !.sources = kept]
  <2>2. /\ record \in Record /\ record.item = doc[i].item
        /\ record.listing = doc[i].listing /\ record.watch = doc[i].watch
    BY <1>3 DEF Record
  <2>3. Write(i, {"item"}, record)
    BY <2>1
  <2> HIDE DEF record
  <2> QED
    BY <1>2, <2>2, <2>3, BelongingsEdited
<1>6. CASE SavePurchaseWatch(k)
  <2>1. PICK t \in Text : Write(i, {"watch"}, [doc[i] EXCEPT !.watch = t])
    BY <1>1, <1>6 DEF SavePurchaseWatch
  <2>2. SetWatch(i)
    BY <1>2, <2>1 DEF SetWatch
  <2> QED
    BY <1>2, <2>2, BelongingsChange
<1>7. CASE PublishReviewed(k)
  <2>1. PICK slug \in Slug, images \in SUBSET Image, published \in BOOLEAN :
          SaveListing(i, slug, images, published)
    BY <1>1, <1>7 DEF PublishReviewed
  <2> QED
    BY <1>2, <2>1, SaveListingChanges
<1> QED
  BY <1>4, <1>5, <1>6, <1>7

(* updateCatalogRow.                                                       *)
LEMMA UpdateRowChanges ==
  ASSUME CatalogueInv, NEW k \in Clerk, UpdateCatalogRow(k)
  PROVE  \E i \in Item : Changes(i)
<1>1. PICK i : i = form[k].item
  OBVIOUS
<1>2. i \in Item /\ Exists(i)
  BY <1>1, SubmitsItem DEF FormKind, UpdateCatalogRow
<1>3. doc[i] \in Record /\ doc[i].item \in ItemRow
  BY <1>2, RowOf
<1>4. PICK parts \in SUBSET {"item", "watch", "characters", "sources", "images"}, t \in Text,
           r \in Reference, m \in Image :
        Write(i, parts \cap Part, Filled(doc[i], parts, t, r, m))
  BY <1>1 DEF UpdateCatalogRow
<1> DEFINE row == IF "item" \in parts THEN [doc[i].item EXCEPT !.text = t] ELSE doc[i].item
           watch == IF "watch" \in parts THEN t ELSE doc[i].watch
           characters == IF "characters" \in parts THEN t ELSE doc[i].characters
           sources == IF "sources" \in parts THEN doc[i].sources \cup {r} ELSE doc[i].sources
           images == IF "images" \in parts THEN doc[i].images \cup {m} ELSE doc[i].images
           record == [doc[i] EXCEPT !.item = row, !.watch = watch, !.characters = characters,
                                    !.sources = sources, !.images = images]
<1>5. Write(i, parts \cap Part, record)
  BY <1>4 DEF Filled
<1>6. row \in ItemRow
  BY <1>3 DEF ItemRow
<1>7. watch \in Text \cup {None} /\ characters \in Text \cup {None}
  BY <1>3 DEF Record
<1>8. sources \in SUBSET Reference /\ images \in SUBSET Image
  BY <1>3 DEF Record
<1>9. /\ "item" \in parts \cap Part \/ row = doc[i].item
      /\ "watch" \in parts \cap Part \/ watch = doc[i].watch
      /\ doc[i].sources \subseteq sources
  BY DEF Part
<1> HIDE DEF row, watch, characters, sources, images
<1>10. record \in Record
  BY <1>3, <1>6, <1>7, <1>8 DEF Record
<1>11. /\ record.item = row /\ record.listing = doc[i].listing /\ record.watch = watch
       /\ record.sources = sources
  BY <1>3 DEF Record
<1> HIDE DEF record
<1>12. record.item # None
  BY <1>6, <1>11, RowsExist
<1> QED
  BY <1>2, <1>5, <1>9, <1>10, <1>11, <1>12, Amended DEF Dated
------------------------------------------------------------------------------
(* A step changes one item as it may, makes the items of an import,        *)
(* withdraws an image, or leaves the items alone.                          *)
LEMMA StepKinds ==
  ASSUME CatalogueInv, [CatalogueNext]_catalogueVars
  PROVE  \/ \E i \in Item : Changes(i)
         \/ \E k \in Clerk : CreateReviewed(k) \/ CommitWithdraw(k)
         \/ UNCHANGED doc
<1>1. CASE \E k \in Clerk : Submit(k)
  BY <1>1, SubmitChanges, UpdateRowChanges DEF Submit
<1>2. CASE \E i \in Item : Unreviewed(i)
  BY <1>2, UnreviewedChanges, SMTT(30)
<1>3. CASE \/ Shelve
           \/ \E k \in Clerk :
                \/ \E i \in Item, use \in FormKind \ {"CREATE", "WITHDRAW"} : Open(k, use, i)
                \/ \E rows \in Imports : OpenImport(k, rows)
                \/ \E i \in Item, m \in Image : BeginWithdraw(k, i, m)
                \/ Close(k)
  BY <1>3 DEF Shelve, Open, OpenImport, BeginWithdraw, Close
<1>4. CASE \E k \in Clerk : CommitWithdraw(k)
  BY <1>4
<1>5. CASE UNCHANGED catalogueVars
  BY <1>5 DEF catalogueVars
<1> QED
  BY <1>1, <1>2, <1>3, <1>4, <1>5 DEF CatalogueNext

(* What an import makes, and what it leaves alone.                         *)
LEMMA CreateReviewedItems ==
  ASSUME CatalogueInv, NEW k \in Clerk, CreateReviewed(k)
  PROVE  /\ form[k].rows \in Imports
         /\ doc' \in [Item -> Record]
         /\ \A i \in Item :
              IF i \in form[k].rows THEN ~Exists(i) /\ doc'[i].item \in ItemRow
              ELSE doc'[i] = doc[i]
<1>1. form[k].rows \in Imports /\ CatalogueTypeOK
  BY DEF CreateReviewed, CatalogueInv, FormsPoint
<1>2. PICK t \in Text :
        doc' = [i \in Item |->
                  IF i \in form[k].rows /\ ~Exists(i)
                  THEN [NoItem EXCEPT !.item = [text |-> t, archived |-> FALSE],
                                      !.characters = t]
                  ELSE doc[i]]
  BY DEF CreateReviewed
<1> DEFINE row == [text |-> t, archived |-> FALSE]
           record == [NoItem EXCEPT !.item = row, !.characters = t]
<1>3. row \in ItemRow
  BY DEF ItemRow
<1> HIDE DEF row
<1>4. record \in Record /\ record.item = row
  BY <1>3, NoItemTyped DEF Record
<1>5. \A i \in Item : i \in form[k].rows => ~Exists(i)
  BY DEF CreateReviewed, Importable, Imported
<1>6. doc' = [i \in Item |-> IF i \in form[k].rows /\ ~Exists(i) THEN record ELSE doc[i]]
  BY <1>2 DEF row
<1> HIDE DEF record
<1>7. \A i \in Item : doc'[i] = IF i \in form[k].rows THEN record ELSE doc[i]
  BY <1>5, <1>6
<1>8. doc' \in [Item -> Record]
  BY <1>1, <1>4, <1>6 DEF CatalogueTypeOK
<1> QED
  BY <1>1, <1>3, <1>4, <1>5, <1>7, <1>8

(* What a withdrawal leaves alone.                                         *)
LEMMA CommitWithdrawItems ==
  ASSUME CatalogueInv, NEW k \in Clerk, CommitWithdraw(k)
  PROVE  /\ doc' \in [Item -> Record]
         /\ \A i \in Item : /\ doc'[i].item = doc[i].item
                            /\ doc'[i].listing = doc[i].listing
                            /\ doc'[i].watch = doc[i].watch
                            /\ doc'[i].sources = doc[i].sources
                            /\ doc[i] = NoItem => doc'[i] = NoItem
<1>1. PICK i : i = form[k].item
  OBVIOUS
<1>2. i \in Item /\ CatalogueTypeOK
  BY <1>1 DEF CommitWithdraw, CatalogueInv, FormsPoint, FormKind
<1>3. /\ doc \in [Item -> Record] /\ doc[i] \in Record /\ doc[i].approved \subseteq Image
  BY <1>2, DocTyped DEF CatalogueTypeOK
<1> DEFINE rest == doc[i].approved \ {form[k].image}
           record == [doc[i] EXCEPT !.approved = rest]
<1>4. doc' = [doc EXCEPT ![i] = record]
  BY <1>1 DEF CommitWithdraw
<1>5. rest \subseteq Image
  BY <1>3
<1>6. doc[i] = NoItem => rest = {}
  BY DEF NoItem
<1> HIDE DEF rest
<1>7. /\ record \in Record /\ record.item = doc[i].item
      /\ record.listing = doc[i].listing /\ record.watch = doc[i].watch
      /\ record.sources = doc[i].sources
  BY <1>3, <1>5 DEF Record
<1>8. doc[i] = NoItem => record = NoItem
  <2> SUFFICES ASSUME doc[i] = NoItem PROVE record = NoItem
    OBVIOUS
  <2>1. record = [NoItem EXCEPT !.approved = {}]
    BY <1>6
  <2> QED
    BY <2>1 DEF NoItem
<1> HIDE DEF record
<1>9. \A j \in Item : doc'[j] = IF j = i THEN record ELSE doc[j]
  BY <1>3, <1>4
<1>10. doc' \in [Item -> Record]
  BY <1>3, <1>4, <1>7
<1> QED
  BY <1>7, <1>8, <1>9, <1>10
------------------------------------------------------------------------------
(* The empty form.                                                         *)
LEMMA NoFormTyped ==
  /\ NoForm \in Form
  /\ NoForm.kind = "NONE" /\ NoForm.fresh = {}
<1>1. NoForm.seen \in Record
  BY NoItemTyped DEF NoForm
<1> QED
  BY <1>1 DEF NoForm, Form

(* A form is replaced, and what it carries is current.                     *)
LEMMA FormReplaced ==
  ASSUME CatalogueInv, NEW k \in Clerk, NEW f \in Form, form' = [form EXCEPT ![k] = f],
         f.kind \in FormKind \ {"CREATE"} => f.item \in Item,
         f.kind = "CREATE" => f.rows \in Imports,
         f.fresh # {} => f.item \in Item /\ Exists(f.item) /\ f.seen = doc[f.item],
         UNCHANGED doc, shelved' \in [lineup : BOOLEAN, franchise : BOOLEAN],
         edits' \in 0..MaxEdits
  PROVE  CatalogueInv'
<1>1. /\ doc \in [Item -> Record] /\ form \in [Clerk -> Form]
      /\ FormsPoint /\ SeenIsCurrent /\ SourcesRemain /\ GoneIsEmpty
  BY DEF CatalogueInv, CatalogueTypeOK
<1>2. form' \in [Clerk -> Form] /\ \A c \in Clerk : form'[c] = IF c = k THEN f ELSE form[c]
  BY <1>1
<1>3. CatalogueTypeOK'
  BY <1>1, <1>2 DEF CatalogueTypeOK
<1>4. FormsPoint'
  <2> SUFFICES ASSUME NEW c \in Clerk
               PROVE  /\ form'[c].kind \in FormKind \ {"CREATE"} => form'[c].item \in Item
                      /\ form'[c].kind = "CREATE" => form'[c].rows \in Imports
                      /\ form'[c].fresh # {} =>
                           form'[c].item \in Item /\ doc'[form'[c].item].item # None
    BY DEF FormsPoint, Exists
  <2>1. CASE c = k
    BY <1>2, <2>1 DEF Exists
  <2>2. CASE c # k
    BY <1>1, <1>2, <2>2 DEF FormsPoint, Exists
  <2> QED
    BY <2>1, <2>2
<1>5. SeenIsCurrent'
  <2> SUFFICES ASSUME NEW c \in Clerk, NEW part \in form'[c].fresh
               PROVE  doc'[form'[c].item][part] = form'[c].seen[part]
    BY DEF SeenIsCurrent
  <2>1. CASE c = k
    BY <1>2, <2>1
  <2>2. CASE c # k
    BY <1>1, <1>2, <2>2 DEF SeenIsCurrent
  <2> QED
    BY <2>1, <2>2
<1>6. GoneIsEmpty'
  BY <1>1 DEF GoneIsEmpty, Exists
<1>7. SourcesRemain'
  <2> SUFFICES ASSUME NEW c \in Clerk, "item" \in form'[c].fresh
               PROVE  form'[c].seen.sources \subseteq doc'[form'[c].item].sources
    BY DEF SourcesRemain
  <2>1. CASE c = k
    BY <1>2, <2>1
  <2>2. CASE c # k
    BY <1>1, <1>2, <2>2 DEF SourcesRemain
  <2> QED
    BY <2>1, <2>2
<1> QED
  BY <1>3, <1>4, <1>5, <1>6, <1>7 DEF CatalogueInv

(* Opening a form or a review.                                             *)
LEMMA OpenKeeps ==
  ASSUME CatalogueInv, NEW k \in Clerk, NEW use \in FormKind \ {"CREATE", "WITHDRAW"},
         NEW i \in Item, Open(k, use, i),
         shelved' \in [lineup : BOOLEAN, franchise : BOOLEAN], edits' \in 0..MaxEdits
  PROVE  CatalogueInv'
<1> DEFINE f == [NoForm EXCEPT !.kind = use, !.item = i, !.seen = doc[i], !.fresh = Part]
<1>1. form' = [form EXCEPT ![k] = f] /\ UNCHANGED doc /\ Exists(i)
  BY DEF Open
<1>2. doc[i] \in Record
  BY <1>1, RowOf
<1>3. f \in Form
  BY <1>2, NoFormTyped DEF Form
<1>4. f.kind = use /\ f.item = i /\ f.seen = doc[i]
  BY NoFormTyped DEF Form
<1> HIDE DEF f
<1> QED
  BY <1>1, <1>3, <1>4, FormReplaced

(* Opening the review of an import.                                        *)
LEMMA OpenImportKeeps ==
  ASSUME CatalogueInv, NEW k \in Clerk, NEW rows \in Imports, OpenImport(k, rows),
         shelved' \in [lineup : BOOLEAN, franchise : BOOLEAN], edits' \in 0..MaxEdits
  PROVE  CatalogueInv'
<1> DEFINE f == [NoForm EXCEPT !.kind = "CREATE", !.rows = rows]
<1>1. form' = [form EXCEPT ![k] = f] /\ UNCHANGED doc
  BY DEF OpenImport
<1>2. f \in Form
  BY NoFormTyped DEF Form, FormKind
<1>3. f.kind = "CREATE" /\ f.rows = rows /\ f.fresh = {}
  BY NoFormTyped DEF Form
<1> HIDE DEF f
<1> QED
  BY <1>1, <1>2, <1>3, FormReplaced

(* The check of a withdrawal.                                              *)
LEMMA BeginWithdrawKeeps ==
  ASSUME CatalogueInv, NEW k \in Clerk, NEW i \in Item, NEW m \in Image, BeginWithdraw(k, i, m),
         shelved' \in [lineup : BOOLEAN, franchise : BOOLEAN], edits' \in 0..MaxEdits
  PROVE  CatalogueInv'
<1> DEFINE f == [NoForm EXCEPT !.kind = "WITHDRAW", !.item = i, !.image = m]
<1>1. form' = [form EXCEPT ![k] = f] /\ UNCHANGED doc
  BY DEF BeginWithdraw
<1>2. f \in Form
  BY NoFormTyped DEF Form, FormKind
<1>3. f.kind = "WITHDRAW" /\ f.item = i /\ f.fresh = {}
  BY NoFormTyped DEF Form
<1> HIDE DEF f
<1> QED
  BY <1>1, <1>2, <1>3, FormReplaced

(* The commit of an import.                                                *)
LEMMA CreateReviewedKeeps ==
  ASSUME CatalogueInv, NEW k \in Clerk, CreateReviewed(k), UNCHANGED <<shelved, edits>>
  PROVE  CatalogueInv'
<1>1. /\ doc' \in [Item -> Record] /\ form' = form
      /\ \A i \in Item : IF i \in form[k].rows THEN ~Exists(i) /\ doc'[i].item \in ItemRow
                         ELSE doc'[i] = doc[i]
  BY CreateReviewedItems DEF CreateReviewed
<1>2. CatalogueTypeOK /\ FormsPoint /\ SeenIsCurrent /\ SourcesRemain /\ GoneIsEmpty
  BY DEF CatalogueInv
<1>3. CatalogueTypeOK'
  BY <1>1, <1>2 DEF CatalogueTypeOK
<1>4. \A i \in Item : Exists(i) => doc'[i] = doc[i]
  BY <1>1
<1>5. FormsPoint'
  <2> SUFFICES ASSUME NEW c \in Clerk
               PROVE  /\ form[c].kind \in FormKind \ {"CREATE"} => form[c].item \in Item
                      /\ form[c].kind = "CREATE" => form[c].rows \in Imports
                      /\ form[c].fresh # {} =>
                           form[c].item \in Item /\ doc'[form[c].item].item # None
    BY <1>1 DEF FormsPoint, Exists
  <2> QED
    BY <1>2, <1>4 DEF FormsPoint, Exists
<1>6. SeenIsCurrent'
  <2> SUFFICES ASSUME NEW c \in Clerk, NEW part \in form[c].fresh
               PROVE  doc'[form[c].item][part] = form[c].seen[part]
    BY <1>1 DEF SeenIsCurrent
  <2>1. form[c].item \in Item /\ Exists(form[c].item)
    BY <1>2 DEF FormsPoint
  <2> QED
    BY <1>2, <1>4, <2>1 DEF SeenIsCurrent
<1>7. GoneIsEmpty'
  <2> SUFFICES ASSUME NEW i \in Item PROVE doc'[i].item # None \/ doc'[i] = NoItem
    BY DEF GoneIsEmpty, Exists
  <2> QED
    BY <1>1, <1>2, RowsExist DEF GoneIsEmpty, Exists
<1>8. SourcesRemain'
  <2> SUFFICES ASSUME NEW c \in Clerk, "item" \in form[c].fresh
               PROVE  form[c].seen.sources \subseteq doc'[form[c].item].sources
    BY <1>1 DEF SourcesRemain
  <2>1. form[c].item \in Item /\ Exists(form[c].item)
    BY <1>2 DEF FormsPoint
  <2> QED
    BY <1>2, <1>4, <2>1 DEF SourcesRemain
<1> QED
  BY <1>3, <1>5, <1>6, <1>7, <1>8 DEF CatalogueInv

(* The write of a withdrawal.                                              *)
LEMMA CommitWithdrawKeeps ==
  ASSUME CatalogueInv, NEW k \in Clerk, CommitWithdraw(k)
  PROVE  CatalogueInv'
<1>1. /\ doc' \in [Item -> Record] /\ form' = [form EXCEPT ![k] = NoForm]
      /\ \A i \in Item : /\ doc'[i].item = doc[i].item
                         /\ doc'[i].listing = doc[i].listing
                         /\ doc'[i].watch = doc[i].watch
                         /\ doc'[i].sources = doc[i].sources
                         /\ doc[i] = NoItem => doc'[i] = NoItem
  BY CommitWithdrawItems DEF CommitWithdraw
<1>2. CatalogueTypeOK /\ FormsPoint /\ SeenIsCurrent /\ SourcesRemain /\ GoneIsEmpty
  BY DEF CatalogueInv
<1>3. \A c \in Clerk : form'[c] = IF c = k THEN NoForm ELSE form[c]
  BY <1>1, <1>2 DEF CatalogueTypeOK
<1>4. CatalogueTypeOK'
  BY <1>1, <1>2, NoFormTyped DEF CatalogueTypeOK, CommitWithdraw
<1>5. FormsPoint'
  <2> SUFFICES ASSUME NEW c \in Clerk
               PROVE  /\ form'[c].kind \in FormKind \ {"CREATE"} => form'[c].item \in Item
                      /\ form'[c].kind = "CREATE" => form'[c].rows \in Imports
                      /\ form'[c].fresh # {} =>
                           form'[c].item \in Item /\ doc'[form'[c].item].item # None
    BY DEF FormsPoint, Exists
  <2>1. CASE c = k
    BY <1>3, <2>1, NoFormTyped DEF FormKind
  <2>2. CASE c # k
    BY <1>1, <1>2, <1>3, <2>2 DEF FormsPoint, Exists
  <2> QED
    BY <2>1, <2>2
<1>6. SeenIsCurrent'
  <2> SUFFICES ASSUME NEW c \in Clerk, NEW part \in form'[c].fresh
               PROVE  doc'[form'[c].item][part] = form'[c].seen[part]
    BY DEF SeenIsCurrent
  <2>1. form'[c] = form[c]
    BY <1>3, NoFormTyped
  <2>2. form[c].item \in Item /\ part \in Part
    BY <1>2, <2>1, FormTyped DEF FormsPoint
  <2>3. doc[form[c].item][part] = form[c].seen[part]
    BY <1>2, <2>1 DEF SeenIsCurrent
  <2>4. doc'[form[c].item][part] = doc[form[c].item][part]
    BY <1>1, <2>2 DEF Part
  <2> QED
    BY <2>1, <2>3, <2>4
<1>7. GoneIsEmpty'
  <2> SUFFICES ASSUME NEW i \in Item PROVE doc'[i].item # None \/ doc'[i] = NoItem
    BY DEF GoneIsEmpty, Exists
  <2> QED
    BY <1>1, <1>2 DEF GoneIsEmpty, Exists
<1>8. SourcesRemain'
  <2> SUFFICES ASSUME NEW c \in Clerk, "item" \in form'[c].fresh
               PROVE  form'[c].seen.sources \subseteq doc'[form'[c].item].sources
    BY DEF SourcesRemain
  <2>1. form'[c] = form[c]
    BY <1>3, NoFormTyped
  <2>2. form[c].item \in Item
    BY <1>2, <2>1 DEF FormsPoint
  <2> QED
    BY <1>1, <1>2, <2>1, <2>2 DEF SourcesRemain
<1> QED
  BY <1>4, <1>5, <1>6, <1>7, <1>8 DEF CatalogueInv
------------------------------------------------------------------------------
(* Shelving keeps the truth values.                                        *)
LEMMA ShelvedTyped ==
  ASSUME CatalogueInv, Shelve
  PROVE  shelved' \in [lineup : BOOLEAN, franchise : BOOLEAN]
  BY DEF Shelve, CatalogueInv, CatalogueTypeOK

(* The bound of the model.                                                 *)
LEMMA SpendTyped ==
  ASSUME CatalogueInv, Spend
  PROVE  edits' \in 0..MaxEdits
  BY CatalogueAssumption DEF Spend, CatalogueInv, CatalogueTypeOK, CatalogueAssumption

(* The initial states.                                                     *)
LEMMA InitInv ==
  ASSUME CatalogueInit
  PROVE  CatalogueInv
<1>1. PICK t \in Text :
        doc = [i \in Item |->
          IF i \in Stored
          THEN [NoItem EXCEPT !.item = [text |-> t, archived |-> FALSE], !.characters = t,
                              !.images = Gallery[i], !.approved = Gallery[i]]
          ELSE NoItem]
  BY DEF CatalogueInit
<1> DEFINE row == [text |-> t, archived |-> FALSE]
<1>2. row \in ItemRow
  BY DEF ItemRow
<1>3. doc = [i \in Item |->
          IF i \in Stored
          THEN [NoItem EXCEPT !.item = row, !.characters = t,
                              !.images = Gallery[i], !.approved = Gallery[i]]
          ELSE NoItem]
  BY <1>1
<1> HIDE DEF row
<1>4. ASSUME NEW i \in Item
      PROVE  doc[i] \in Record /\ (doc[i].item # None \/ doc[i] = NoItem)
  <2>1. CASE i \in Stored
    <3>1. PICK g : g = Gallery[i]
      OBVIOUS
    <3>2. g \in SUBSET Image
      BY <2>1, <3>1, CatalogueAssumption DEF CatalogueAssumption
    <3> DEFINE record == [NoItem EXCEPT !.item = row, !.characters = t, !.images = g,
                                        !.approved = g]
    <3>3. doc[i] = record
      BY <1>3, <2>1, <3>1
    <3>4. record \in Record /\ record.item = row
      BY <1>2, <3>2, NoItemTyped DEF Record
    <3> HIDE DEF record
    <3> QED
      BY <1>2, <3>3, <3>4, RowsExist
  <2>2. CASE i \notin Stored
    BY <1>3, <2>2, NoItemTyped
  <2> QED
    BY <2>1, <2>2
<1>5. doc \in [Item -> Record]
  <2>1. doc = [i \in Item |-> doc[i]]
    BY <1>3
  <2> QED
    BY <1>4, <2>1
<1>6. \A k \in Clerk : form[k] = NoForm
  BY DEF CatalogueInit
<1>7. CatalogueTypeOK
  <2>1. edits \in 0..MaxEdits
    <3>1. MaxEdits \in Nat
      BY CatalogueAssumption DEF CatalogueAssumption
    <3>2. edits = 0
      BY DEF CatalogueInit
    <3> QED
      BY <3>1, <3>2
  <2> QED
    BY <1>5, <2>1, NoFormTyped DEF CatalogueInit, CatalogueTypeOK
<1>8. FormsPoint
  BY <1>6, NoFormTyped DEF FormsPoint, FormKind
<1>9. SeenIsCurrent
  BY <1>6, NoFormTyped DEF SeenIsCurrent
<1>10. GoneIsEmpty
  BY <1>4 DEF GoneIsEmpty, Exists
<1>11. SourcesRemain
  BY <1>6, NoFormTyped DEF SourcesRemain
<1> QED
  BY <1>7, <1>8, <1>9, <1>10, <1>11 DEF CatalogueInv

(* Every step keeps the invariant.                                         *)
LEMMA StepKeeps ==
  ASSUME CatalogueInv, [CatalogueNext]_catalogueVars
  PROVE  CatalogueInv'
<1>1. shelved \in [lineup : BOOLEAN, franchise : BOOLEAN] /\ edits \in 0..MaxEdits
  BY DEF CatalogueInv, CatalogueTypeOK
<1>2. CASE Shelve /\ Spend
  <2>1. shelved' \in [lineup : BOOLEAN, franchise : BOOLEAN] /\ edits' \in 0..MaxEdits
    BY <1>2, ShelvedTyped, SpendTyped
  <2> QED
    BY <1>2, <2>1
       DEF Shelve, CatalogueInv, CatalogueTypeOK, FormsPoint, SeenIsCurrent, SourcesRemain, GoneIsEmpty, Exists
<1>3. CASE \E i \in Item : Unreviewed(i) /\ Spend /\ UNCHANGED shelved
  BY <1>1, <1>3, UnreviewedChanges, SpendTyped, WriteKeeps
<1>4. ASSUME NEW k \in Clerk,
             \E i \in Item, use \in FormKind \ {"CREATE", "WITHDRAW"} :
               Open(k, use, i) /\ Spend /\ UNCHANGED shelved
      PROVE  CatalogueInv'
  BY <1>1, <1>4, SpendTyped, OpenKeeps
<1>5. ASSUME NEW k \in Clerk,
             \E rows \in Imports : OpenImport(k, rows) /\ Spend /\ UNCHANGED shelved
      PROVE  CatalogueInv'
  BY <1>1, <1>5, SpendTyped, OpenImportKeeps
<1>6. ASSUME NEW k \in Clerk,
             \E i \in Item, m \in Image : BeginWithdraw(k, i, m) /\ Spend /\ UNCHANGED shelved
      PROVE  CatalogueInv'
  BY <1>1, <1>6, SpendTyped, BeginWithdrawKeeps
<1>7. ASSUME NEW k \in Clerk, Submit(k), UNCHANGED <<shelved, edits>>
      PROVE  CatalogueInv'
  <2>1. CASE CreateReviewed(k)
    BY <1>7, <2>1, CreateReviewedKeeps
  <2>2. CASE ~CreateReviewed(k)
    <3>1. \E i \in Item : Changes(i)
      BY <1>7, <2>2, SubmitChanges, UpdateRowChanges DEF Submit
    <3> QED
      BY <1>1, <1>7, <3>1, WriteKeeps
  <2> QED
    BY <2>1, <2>2
<1>8. ASSUME NEW k \in Clerk, CommitWithdraw(k)
      PROVE  CatalogueInv'
  BY <1>8, CommitWithdrawKeeps
<1>9. ASSUME NEW k \in Clerk, Close(k)
      PROVE  CatalogueInv'
  BY <1>1, <1>9, NoFormTyped, FormReplaced DEF Close, FormKind
<1>10. CASE UNCHANGED catalogueVars
  BY <1>10 DEF catalogueVars, CatalogueInv, CatalogueTypeOK, FormsPoint, SeenIsCurrent,
               SourcesRemain, GoneIsEmpty, Exists
<1> QED
  BY <1>2, <1>3, <1>4, <1>5, <1>6, <1>7, <1>8, <1>9, <1>10 DEF CatalogueNext

(* The invariant of the catalogue holds throughout.                        *)
LEMMA InvHolds ==
  CatalogueSpec => []CatalogueInv
<1>1. CatalogueInit => CatalogueInv
  BY InitInv
<1>2. CatalogueInv /\ [CatalogueNext]_catalogueVars => CatalogueInv'
  BY StepKeeps
<1> QED
  BY <1>1, <1>2, PTL DEF CatalogueSpec
------------------------------------------------------------------------------
(* The catalogue's state has its types.                                    *)
THEOREM CatalogueTypes ==
  CatalogueSpec => []CatalogueTypeOK
<1>1. CatalogueInv => CatalogueTypeOK
  BY DEF CatalogueInv
<1> QED
  BY <1>1, InvHolds, PTL

(* The rows and parts that a submission compares are what its author was   *)
(* shown, and every source that he was shown when he replaces the sources  *)
(* is still there (EDIT_CONFLICT, REVIEW_STALE, CSV_STALE).                *)
THEOREM ReviewsHold ==
  CatalogueSpec => ReviewStillHolds
<1> DEFINE Relied(k) == Submit(k) /\ form[k].kind # "CREATE" =>
                          /\ \A part \in Reviewed[form[k].kind] :
                               doc[form[k].item][part] = form[k].seen[part]
                          /\ form[k].kind = "SOURCES" =>
                               form[k].seen.sources \subseteq doc[form[k].item].sources
<1>1. ASSUME CatalogueInv, [CatalogueNext]_catalogueVars, NEW k \in Clerk,
             Submit(k), form[k].kind # "CREATE", NEW part \in Reviewed[form[k].kind]
      PROVE  doc[form[k].item][part] = form[k].seen[part]
  <2>1. \A p \in form[k].fresh : doc[form[k].item][p] = form[k].seen[p]
    BY <1>1 DEF CatalogueInv, SeenIsCurrent
  <2>2. CASE form[k].kind \in {"EDIT", "SOURCES", "WATCH", "PUBLISH"}
    <3>1. Compared[form[k].kind] \subseteq form[k].fresh
      BY <1>1, <2>2 DEF Submit, SaveItem, SaveItemSources, SavePurchaseWatch, PublishReviewed,
                  UpdateCatalogRow, CreateReviewed, Submits
    <3>2. Reviewed[form[k].kind] = Compared[form[k].kind]
      <4>1. \A use \in {"EDIT", "SOURCES", "WATCH", "PUBLISH"} : Reviewed[use] = Compared[use]
        BY DEF Reviewed, Compared
      <4> QED
        BY <2>2, <4>1
    <3> QED
      BY <1>1, <2>1, <3>1, <3>2, SMTT(30)
  <2>3. CASE form[k].kind = "CSV"
    <3>1. Submits(k, "CSV") /\ SameRevision(k)
      BY <1>1, <2>3 DEF Submit, SaveItem, SaveItemSources, SavePurchaseWatch, PublishReviewed,
                  UpdateCatalogRow, CreateReviewed, Submits
    <3>2. {"item", "watch"} \subseteq form[k].fresh
      BY <3>1 DEF Submits, Compared
    <3>3. part \in {"item", "watch", "characters", "sources", "images", "approved"}
      BY <1>1, <2>3, SMTT(30) DEF Reviewed
    <3> QED
      BY <2>1, <3>1, <3>2, <3>3 DEF SameRevision
  <2>4. form[k].kind \in {"EDIT", "SOURCES", "WATCH", "PUBLISH", "CSV"}
    BY <1>1 DEF Submit, SaveItem, SaveItemSources, SavePurchaseWatch, PublishReviewed,
           UpdateCatalogRow, CreateReviewed, Submits
  <2> QED
    BY <2>2, <2>3, <2>4
<1>3. ASSUME CatalogueInv, NEW k \in Clerk, Submit(k), form[k].kind = "SOURCES"
      PROVE  form[k].seen.sources \subseteq doc[form[k].item].sources
  <2>1. Submits(k, "SOURCES")
    BY <1>3 DEF Submit, SaveItem, SaveItemSources, SavePurchaseWatch, PublishReviewed,
                UpdateCatalogRow, CreateReviewed, Submits
  <2>2. "item" \in form[k].fresh
    BY <2>1 DEF Submits, Compared
  <2> QED
    BY <1>3, <2>2 DEF CatalogueInv, SourcesRemain
<1>2. CatalogueInv /\ [CatalogueNext]_catalogueVars => \A k \in Clerk : Relied(k)
  BY <1>1, <1>3
<1> QED
  BY <1>2, InvHolds, PTL DEF CatalogueSpec, ReviewStillHolds

(* An address that was public stays the address of its item                *)
(* (saveInTransaction, removeItem).                                        *)
THEOREM AddressesKept ==
  CatalogueSpec => PublicAddressKept
<1> DEFINE Kept(i) == Dated(i) => Dated(i)' /\ doc'[i].listing.slug = doc[i].listing.slug
<1>1. ASSUME CatalogueInv, [CatalogueNext]_catalogueVars, NEW i \in Item
      PROVE  Kept(i)
  <2> SUFFICES ASSUME Dated(i)
               PROVE  /\ doc'[i].listing # None /\ doc'[i].listing.dated
                      /\ doc'[i].listing.slug = doc[i].listing.slug
    BY DEF Dated
  <2>1. CASE \E j \in Item : Changes(j)
    <3>0. PICK j \in Item : Changes(j)
      BY <2>1
    <3>1. PICK parts, record : Write(j, parts, record) /\ Allowed(j, parts, record)
      BY <3>0 DEF Changes
    <3>2. doc'[i] = IF i = j THEN record ELSE doc[i]
      BY <1>1, <3>1 DEF Write, CatalogueInv, CatalogueTypeOK
    <3> QED
      BY <3>1, <3>2 DEF Allowed, Dated
  <2>2. CASE \E k \in Clerk : CreateReviewed(k)
    <3>1. PICK k \in Clerk : CreateReviewed(k)
      BY <2>2
    <3>2. Exists(i)
      BY <1>1 DEF Dated, CatalogueInv, GoneIsEmpty, NoItem
    <3>3. doc'[i] = doc[i]
      BY <1>1, <3>1, <3>2, CreateReviewedItems
    <3> QED
      BY <3>3 DEF Dated
  <2>3. CASE \E k \in Clerk : CommitWithdraw(k)
    BY <1>1, <2>3, CommitWithdrawItems DEF Dated
  <2>4. CASE UNCHANGED doc
    BY <2>4 DEF Dated
  <2> QED
    BY <1>1, <2>1, <2>2, <2>3, <2>4, StepKinds
<1>2. CatalogueInv /\ [CatalogueNext]_catalogueVars => \A i \in Item : Kept(i)
  BY <1>1
<1> QED
  BY <1>2, InvHolds, PTL DEF CatalogueSpec, PublicAddressKept

(* What a step creates is the whole of a review (commit).                  *)
THEOREM ImportsAreWhole ==
  CatalogueSpec => ImportIsWhole
<1> DEFINE created == {i \in UNION Imports : ~Exists(i) /\ Exists(i)'}
           Whole == created # {} => \E k \in Clerk : form[k].rows = created
<1>1. ASSUME CatalogueInv, [CatalogueNext]_catalogueVars
      PROVE  Whole
  <2>1. UNION Imports \subseteq Item
    BY CatalogueAssumption DEF CatalogueAssumption
  <2>2. CASE \E j \in Item : Changes(j)
    <3>0. PICK j \in Item : Changes(j)
      BY <2>2
    <3>1. PICK parts, record : Write(j, parts, record) /\ Allowed(j, parts, record)
      BY <3>0 DEF Changes
    <3>2. \A i \in Item : doc'[i] = IF i = j THEN record ELSE doc[i]
      BY <1>1, <3>1 DEF Write, CatalogueInv, CatalogueTypeOK
    <3>3. ~\E i \in UNION Imports : doc[i].item = None /\ doc'[i].item # None
      BY <2>1, <3>1, <3>2 DEF Allowed, Exists
    <3> QED
      BY <3>3 DEF Exists
  <2>3. CASE \E k \in Clerk : CreateReviewed(k)
    <3>1. PICK k \in Clerk : CreateReviewed(k)
      BY <2>3
    <3>2. form[k].rows \subseteq UNION Imports
      BY <1>1, <3>1, CreateReviewedItems
    <3>3. \A i \in UNION Imports :
            i \in form[k].rows <=> doc[i].item = None /\ doc'[i].item # None
      BY <1>1, <2>1, <3>1, CreateReviewedItems, RowsExist DEF Exists
    <3> QED
      BY <3>2, <3>3 DEF Exists
  <2>4. CASE \E k \in Clerk : CommitWithdraw(k)
    <3>1. \A i \in Item : doc'[i].item = doc[i].item
      BY <1>1, <2>4, CommitWithdrawItems
    <3> QED
      BY <2>1, <3>1 DEF Exists
  <2>5. CASE UNCHANGED doc
    BY <2>5 DEF Exists
  <2> QED
    BY <1>1, <2>2, <2>3, <2>4, <2>5, StepKinds
<1>2. CatalogueInv /\ [CatalogueNext]_catalogueVars => Whole
  BY <1>1
<1> QED
  BY <1>2, InvHolds, PTL DEF CatalogueSpec, ImportIsWhole
------------------------------------------------------------------------------
(* Pages.                                                                  *)

Statuses ==
  {"DRAFT", "ORDERED", "SHIPPED", "UNKNOWN", "AVAILABLE", "PURCHASED", "ENABLED", "DISABLED"}

Content ==
  [text : Word \cup {None}, status : Statuses, origin : Origin \cup {None}, rows : SUBSET Good]

Version == [stamp : Nat, content : Content]

Answer == [accepted : BOOLEAN, stamp : Nat, content : Content]

Page ==
  [use : {"write", "convert"}, loaded : Version, stamp : Nat, content : Content,
   shown : Content, touched : SUBSET {"text", "status", "origin", "rows"},
   looking : Origin \cup {None}, found : Origin \cup {None}, awaits : Nat,
   answer : Answer \cup {None}]

Request ==
  [id : Nat, by : Clerk, use : {"write", "convert"}, stamp : Nat, content : Content,
   shown : Content, currency : Word \cup {None}]

(* Pages, requests and the record are well-formed.                         *)
PaperTypeOK ==
  /\ kind \in {"purchase", "shipment", "offer", "watch"}
  /\ paper \in Version
  /\ page \in [Clerk -> {Away} \cup Page]
  /\ requests \subseteq Request
  /\ sent \in Nat

(* A version that claims to be the present one is: contents under an older *)
(* time of change say nothing.                                             *)
Present(stamp, content) ==
  /\ stamp <= paper.stamp
  /\ stamp = paper.stamp /\ paper.stamp > 0 => content = paper.content

(* Goods of a shipment were found at its origin.                           *)
Found(content) ==
  kind = "shipment" => content.origin \in Origin /\ content.rows \subseteq Held[content.origin]

PageIsSound(p) ==
  /\ Present(p.loaded.stamp, p.loaded.content)
  /\ Present(p.stamp, p.shown)
  /\ Found(p.loaded.content) /\ Found(p.content)
  /\ p.use = "convert" => kind = "offer"
  /\ p.answer # None /\ p.answer.accepted /\ kind = "watch" =>
       Present(p.answer.stamp, p.answer.content)

RequestIsSound(r) ==
  /\ Present(r.stamp, r.shown)
  /\ Found(r.content)
  /\ r.use = "convert" => kind = "offer"
  /\ r.currency # None /\ r.stamp = paper.stamp => r.currency = paper.content.text

PaperInv ==
  /\ PaperTypeOK
  /\ paper.stamp = 0 => paper = Unmade
  /\ paper # Unmade => Found(paper.content)
  /\ \A k \in Clerk : page[k] # Away => PageIsSound(page[k])
  /\ \A r \in requests : RequestIsSound(r)
  /\ bought # {} => kind = "offer" /\ Status = "PURCHASED"

------------------------------------------------------------------------------
LEMMA Fields == Field = {"text", "status", "origin", "rows"}
  BY DEF Field, Blank

LEMMA BlankTyped == Blank \in Content
  BY DEF Blank, First, Content, Statuses

LEMMA Mounts ==
  ASSUME NEW use \in {"write", "convert"}, NEW v \in Version
  PROVE  Mounted(use, v) \in Page
  BY Fields DEF Mounted, Page, Version

LEMMA FreshTyped ==
  ASSUME NEW o \in Origin, NEW g \in Held[o]
  PROVE  /\ Fresh(o, g) \in Version
         /\ kind = "shipment" =>
              Fresh(o, g).content.rows = {} /\ Fresh(o, g).content.origin = o
  <1>1. g \in Good
    BY PaperAssumption
  <1>2. Blank \in Content
    BY BlankTyped
  <1>3. /\ [Blank EXCEPT !.origin = IF kind = "shipment" THEN o ELSE None,
                       !.rows = IF kind = "purchase" THEN {g} ELSE {}] \in Content
        /\ kind = "shipment" =>
             [Blank EXCEPT !.origin = IF kind = "shipment" THEN o ELSE None,
                       !.rows = IF kind = "purchase" THEN {g} ELSE {}]
               = [Blank EXCEPT !.origin = o, !.rows = {}]
        /\ [Blank EXCEPT !.origin = o, !.rows = {}].origin = o
        /\ [Blank EXCEPT !.origin = o, !.rows = {}].rows = {}
    BY <1>1, <1>2 DEF Content
  <1> QED BY <1>3 DEF Fresh, Version

LEMMA PaperInvInit == PaperInit => PaperInv
  <1> SUFFICES ASSUME PaperInit PROVE PaperInv
    OBVIOUS
  <1>a. PICK o \in Origin, k \in Clerk, w \in Word : \E g \in Held[o] :
          \/ /\ paper = Unmade
             /\ page = [c \in Clerk |->
                       IF c = k /\ kind # "watch" THEN Mounted("write", Fresh(o, g)) ELSE Away]
          \/ /\ paper = [stamp |-> 1, content |->
                        [Fresh(o, g).content EXCEPT !.text = w,
                           !.rows = IF kind \in {"purchase", "shipment"} THEN {g} ELSE {}]]
             /\ page = [c \in Clerk |-> Away]
    BY DEF PaperInit
  <1>0. PICK g \in Held[o] :
          \/ /\ paper = Unmade
             /\ page = [c \in Clerk |->
                       IF c = k /\ kind # "watch" THEN Mounted("write", Fresh(o, g)) ELSE Away]
          \/ /\ paper = [stamp |-> 1, content |->
                        [Fresh(o, g).content EXCEPT !.text = w,
                           !.rows = IF kind \in {"purchase", "shipment"} THEN {g} ELSE {}]]
             /\ page = [c \in Clerk |-> Away]
    BY <1>a
  <1>1. kind \in {"purchase", "shipment", "offer", "watch"} /\ requests = {} /\ bought = {}
        /\ sent = 0
    BY DEF PaperInit
  <1>2. Unmade \in Version /\ Blank \in Content
    BY BlankTyped DEF Unmade, Version
  <1>3. /\ Fresh(o, g) \in Version
        /\ kind = "shipment" =>
             Fresh(o, g).content.rows = {} /\ Fresh(o, g).content.origin = o
    BY FreshTyped
  <1>4. CASE paper = Unmade /\
             page = [c \in Clerk |->
                       IF c = k /\ kind # "watch" THEN Mounted("write", Fresh(o, g)) ELSE Away]
    <2>1. Mounted("write", Fresh(o, g)) \in Page
      BY <1>3, Mounts
    <2>2. PaperTypeOK
      BY <1>1, <1>2, <1>4, <2>1 DEF PaperTypeOK
    <2>3. paper.stamp = 0 /\ paper.content.rows = {}
      BY <1>4 DEF Unmade, Blank
    <2>4. Fresh(o, g).stamp = 0
      BY DEF Fresh
    <2>5. PageIsSound(Mounted("write", Fresh(o, g)))
      BY <1>3, <2>3, <2>4 DEF PageIsSound, Mounted, Present, Found
    <2>7. \A c \in Clerk : page[c] # Away => PageIsSound(page[c])
      BY <1>4, <2>5
    <2> QED BY <1>1, <1>4, <2>2, <2>7 DEF PaperInv
  <1>5. CASE paper = [stamp |-> 1, content |->
                        [Fresh(o, g).content EXCEPT !.text = w,
                           !.rows = IF kind \in {"purchase", "shipment"} THEN {g} ELSE {}]]
             /\ page = [c \in Clerk |-> Away]
    <2>1. g \in Good
      BY PaperAssumption
    <2>2. paper \in Version /\ paper.stamp = 1
      BY <1>3, <1>5, <2>1 DEF Version, Content
    <2>3. ASSUME kind = "shipment"
          PROVE  /\ paper.content.origin \in Origin
                 /\ paper.content.rows \subseteq Held[paper.content.origin]
      <3>1. paper.content.origin = o /\ paper.content.rows = {g}
        BY <1>3, <1>5, <2>3 DEF Version, Content
      <3> QED BY <3>1
    <2>4. PaperTypeOK
      BY <1>1, <1>5, <2>2 DEF PaperTypeOK
    <2> QED BY <1>1, <1>5, <2>2, <2>3, <2>4 DEF PaperInv, Found
  <1> QED BY <1>0, <1>4, <1>5
------------------------------------------------------------------------------
(* What a step has to show: the pages and requests it makes are sound, and *)
(* if it changes the record, the time of change moves.                     *)
LEMMA Kept ==
  ASSUME PaperInv, kind' = kind, PaperTypeOK',
         \/ paper' = paper
         \/ paper'.stamp = paper.stamp + 1 /\ Found(paper.content)',
         \A c \in Clerk : page'[c] # Away => page'[c] = page[c] \/ PageIsSound(page[c])',
         \A r \in requests' : r \in requests \/ RequestIsSound(r)',
         bought' # {} => kind = "offer" /\ Status' = "PURCHASED"
  PROVE  PaperInv'
  <1>1. paper.stamp \in Nat /\ paper'.stamp \in Nat
    BY DEF PaperInv, PaperTypeOK, Version
  <1>2. (paper.stamp = 0 => paper = Unmade)'
    <2>1. CASE paper' = paper
      BY <2>1 DEF PaperInv, Unmade, Blank, First
    <2>2. CASE paper'.stamp = paper.stamp + 1
      BY <1>1, <2>2
    <2> QED BY <2>1, <2>2
  <1>3. (paper # Unmade => Found(paper.content))'
    BY DEF PaperInv, Found, Unmade, Blank, First
  <1>4. ASSUME NEW c \in Clerk, page'[c] # Away PROVE PageIsSound(page[c])'
    <2>1. CASE page'[c] = page[c]
      <3>1. PICK p \in Page : p = page[c] /\ p = page'[c]
        BY <1>4, <2>1 DEF PaperInv, PaperTypeOK
      <3>2. PageIsSound(p) /\ p.stamp \in Nat /\ p.loaded.stamp \in Nat
            /\ (p.answer # None => p.answer.stamp \in Nat)
        BY <1>4, <2>1, <3>1 DEF PaperInv, Page, Version, Answer
      <3>3. PageIsSound(p)'
        BY <1>1, <3>2 DEF PageIsSound, Present, Found
      <3> QED BY <3>1, <3>3
    <2>2. CASE PageIsSound(page[c])'
      BY <2>2
    <2> QED BY <1>4, <2>1, <2>2
  <1>5. ASSUME NEW r \in requests' PROVE RequestIsSound(r)'
    <2>1. CASE r \in requests
      <3>1. RequestIsSound(r) /\ r.stamp \in Nat
        BY <2>1 DEF PaperInv, PaperTypeOK, Request
      <3> QED BY <1>1, <3>1 DEF RequestIsSound, Present, Found
    <2> QED BY <1>5, <2>1
  <1>6. (bought # {} => kind = "offer" /\ Status = "PURCHASED")'
    OBVIOUS
  <1> QED BY <1>2, <1>3, <1>4, <1>5, <1>6 DEF PaperInv

(* A step that only puts a page on a desk.                                 *)
LEMMA Puts ==
  ASSUME PaperInv, NEW k \in Clerk,
         page' = [page EXCEPT ![k] = page'[k]],
         page'[k] \in {Away} \cup Page,
         page'[k] # Away => PageIsSound(page'[k]),
         UNCHANGED <<kind, paper, made, requests, bought, sent>>
  PROVE  PaperInv'
  <1>1. PaperTypeOK'
    BY DEF PaperInv, PaperTypeOK
  <1>2. ASSUME NEW c \in Clerk, page'[c] # Away
        PROVE page'[c] = page[c] \/ PageIsSound(page[c])'
    <2>1. CASE c = k
      BY <1>2, <2>1 DEF PageIsSound, Present, Found
    <2>2. CASE c # k
      BY <2>2 DEF PaperInv, PaperTypeOK
    <2> QED BY <2>1, <2>2
  <1>3. bought' # {} => kind = "offer" /\ Status' = "PURCHASED"
    BY DEF PaperInv, Status
  <1> QED BY <1>1, <1>2, <1>3, Kept

(* Mounting what is stored, or a version that was loaded before.           *)
LEMMA MountsSoundly ==
  ASSUME PaperInv, NEW use \in {"write", "convert"}, use = "convert" => kind = "offer",
         NEW v \in Version, Present(v.stamp, v.content), Found(v.content)
  PROVE  Mounted(use, v) \in Page /\ PageIsSound(Mounted(use, v))
  BY Mounts DEF Mounted, PageIsSound

LEMMA PageOf ==
  ASSUME PaperInv, NEW k \in Clerk, page[k] # Away
  PROVE  page[k] \in Page /\ PageIsSound(page[k])
  BY DEF PaperInv, PaperTypeOK

(* Typing in a field.                                                      *)
LEMMA Types ==
  ASSUME PaperInv, NEW k \in Clerk, page[k] # Away, NEW f \in Field, NEW v,
         [page[k].content EXCEPT ![f] = v] \in Content,
         Found([page[k].content EXCEPT ![f] = v])
  PROVE  Typed(k, f, v) \in Page /\ PageIsSound(Typed(k, f, v))
  <1>1. page[k] \in Page /\ PageIsSound(page[k])
    BY PageOf
  <1>2. PICK p \in Page : p = page[k]
    BY <1>1
  <1>3. PICK new \in Content : new = [p.content EXCEPT ![f] = v]
    BY <1>2
  <1>4. Typed(k, f, v) = [p EXCEPT !.content = new, !.touched = p.touched \cup {f}]
    BY <1>2, <1>3 DEF Typed, Page
  <1>5. [p EXCEPT !.content = new, !.touched = p.touched \cup {f}] \in Page
    BY <1>3, Fields DEF Page
  <1>6. PageIsSound([p EXCEPT !.content = new, !.touched = p.touched \cup {f}])
    BY <1>1, <1>2, <1>3, <1>5 DEF Page, PageIsSound
  <1> QED BY <1>4, <1>5, <1>6

(* What the actions on an open page have in common.                        *)
LEMMA PutKeeps ==
  ASSUME PaperInv, NEW k \in Clerk, NEW new \in {Away} \cup Page,
         new # Away => PageIsSound(new), Put(k, new)
  PROVE  PaperInv'
  <1>1. page' = [page EXCEPT ![k] = new] /\ page'[k] = new
    BY DEF Put, PaperInv, PaperTypeOK
  <1>2. UNCHANGED <<kind, paper, made, requests, bought, sent>>
    BY DEF Put
  <1> QED BY <1>1, <1>2, Puts

LEMMA OpenPageKeeps ==
  ASSUME PaperInv, NEW k \in Clerk, OpenPage(k) \/ LeavePage(k)
  PROVE  PaperInv'
  <1>1. paper \in Version /\ Present(paper.stamp, paper.content)
    BY DEF PaperInv, PaperTypeOK, Present, Version
  <1>2. CASE Writable /\ Put(k, Mounted("write", paper))
    <2>1. Found(paper.content)
      BY <1>2 DEF PaperInv, Writable, Found
    <2> QED BY <1>1, <1>2, <2>1, MountsSoundly, PutKeeps
  <1>3. CASE Convertible /\ Put(k, Mounted("convert", paper))
    <2>1. Found(paper.content) /\ kind = "offer"
      BY <1>3 DEF Convertible, Found
    <2> QED BY <1>1, <1>3, <2>1, MountsSoundly, PutKeeps
  <1>4. CASE Put(k, Away)
    BY <1>4, PutKeeps
  <1> QED BY <1>2, <1>3, <1>4 DEF OpenPage, LeavePage

LEMMA EditKeeps ==
  ASSUME PaperInv, NEW k \in Clerk,
         TypeText(k) \/ ChooseStatus(k) \/ AddLine(k) \/ RemoveRow(k) \/ AddStock(k)
  PROVE  PaperInv'
  <1>0. page[k] # Away
    BY DEF TypeText, ChooseStatus, AddLine, RemoveRow, AddStock, Editing, Choosing, At, Away
  <1>1. page[k] \in Page /\ PageIsSound(page[k])
    BY <1>0, PageOf
  <1>2. PICK c \in Content : c = page[k].content
    BY <1>1 DEF Page
  <1>3. ASSUME NEW f \in Field, NEW v, Put(k, Typed(k, f, v)),
               [c EXCEPT ![f] = v] \in Content, Found([c EXCEPT ![f] = v])
        PROVE  PaperInv'
    BY <1>0, <1>2, <1>3, Types, PutKeeps
  <1>4. CASE TypeText(k)
    <2>1. PICK w \in Word : Put(k, Typed(k, "text", w)) /\ kind # "shipment"
      BY <1>4 DEF TypeText
    <2>2. [c EXCEPT !["text"] = w] \in Content /\ Found([c EXCEPT !["text"] = w])
      BY <2>1 DEF Content, Found
    <2> QED BY <1>3, <2>1, <2>2, Fields
  <1>5. CASE ChooseStatus(k)
    <2>1. PICK s \in Offered : Put(k, Typed(k, "status", s))
      BY <1>5 DEF ChooseStatus
    <2>2. s \in Statuses /\ kind # "shipment"
      BY DEF Offered, Statuses
    <2>3. [c EXCEPT !["status"] = s] \in Content /\ Found([c EXCEPT !["status"] = s])
      BY <2>2 DEF Content, Found
    <2> QED BY <1>3, <2>1, <2>3, Fields
  <1>6. CASE AddLine(k)
    <2>1. PICK g \in Good : Put(k, Typed(k, "rows", c.rows \cup {g})) /\ kind = "purchase"
      BY <1>2, <1>6 DEF AddLine
    <2>2. [c EXCEPT !["rows"] = c.rows \cup {g}] \in Content
          /\ Found([c EXCEPT !["rows"] = c.rows \cup {g}])
      BY <2>1 DEF Content, Found
    <2> QED BY <1>3, <2>1, <2>2, Fields
  <1>7. CASE RemoveRow(k)
    <2>1. PICK g \in c.rows : Put(k, Typed(k, "rows", c.rows \ {g}))
      BY <1>2, <1>7 DEF RemoveRow
    <2>2. Found(c)
      BY <1>1, <1>2 DEF PageIsSound
    <2>3. [c EXCEPT !["rows"] = c.rows \ {g}] \in Content
          /\ Found([c EXCEPT !["rows"] = c.rows \ {g}])
      BY <2>2 DEF Content, Found
    <2> QED BY <1>3, <2>1, <2>3, Fields
  <1>8. CASE AddStock(k)
    <2>1. PICK g \in FoundHere(k) : Put(k, Typed(k, "rows", c.rows \cup {g}))
      BY <1>2, <1>8 DEF AddStock
    <2>2. g \in Held[c.origin] /\ page[k].found = c.origin
      BY <1>2 DEF FoundHere
    <2>3. kind = "shipment"
      BY <1>8 DEF AddStock, Choosing
    <2>4. Found(c)
      BY <1>1, <1>2 DEF PageIsSound
    <2>5. g \in Good
      BY <2>2, <2>3, <2>4, PaperAssumption DEF Found
    <2>6. [c EXCEPT !["rows"] = c.rows \cup {g}] \in Content
          /\ Found([c EXCEPT !["rows"] = c.rows \cup {g}])
      BY <2>2, <2>4, <2>5 DEF Content, Found
    <2> QED BY <1>3, <2>1, <2>6, Fields
  <1> QED BY <1>4, <1>5, <1>6, <1>7, <1>8

LEMMA SearchKeeps ==
  ASSUME PaperInv, NEW k \in Clerk, ChooseOrigin(k) \/ SearchStock(k) \/ ReceiveStock(k)
  PROVE  PaperInv'
  <1>0. page[k] # Away
    BY DEF ChooseOrigin, SearchStock, ReceiveStock, Choosing, At, Away
  <1>1. PICK p \in Page : p = page[k] /\ PageIsSound(p)
    BY <1>0, PageOf
  <1>2. CASE ChooseOrigin(k)
    <2>1. PICK o \in Origin : Put(k, Rechosen(k, o))
      BY <1>2 DEF ChooseOrigin
    <2>2. PICK c \in Content : c = [p.content EXCEPT !["origin"] = o]
      BY DEF Page, Content
    <2>3. PICK new \in Content : new = [c EXCEPT !.rows = {}]
      BY DEF Content
    <2>a. PICK q \in Page : q = [p EXCEPT !.content = c, !.touched = p.touched \cup {"origin"}]
      BY DEF Page
    <2>b. Typed(k, "origin", o) = q
      BY <1>1, <2>2, <2>a DEF Typed, Page
    <2>c. Rechosen(k, o) = [q EXCEPT !.content = [q.content EXCEPT !.rows = {}], !.found = None,
                                     !.touched = q.touched \cup {"rows"}]
      BY <2>b DEF Rechosen, Page
    <2>d. q.content = c /\ q.touched = p.touched \cup {"origin"} /\ new.rows = {} /\ new.origin = o
      BY <2>2, <2>3, <2>a DEF Page, Content
    <2>e. Rechosen(k, o) = [q EXCEPT !.content = new, !.found = None,
                                     !.touched = q.touched \cup {"rows"}]
      BY <2>3, <2>c, <2>d
    <2>f. Found(new)
      BY <2>d DEF Found
    <2>g. /\ [q EXCEPT !.content = new, !.found = None, !.touched = q.touched \cup {"rows"}] \in Page
          /\ PageIsSound([q EXCEPT !.content = new, !.found = None,
                                   !.touched = q.touched \cup {"rows"}])
      <3> DEFINE r == [q EXCEPT !.content = new, !.found = None, !.touched = q.touched \cup {"rows"}]
      <3>1. r \in Page
        BY DEF Page
      <3>2. /\ r.content = new /\ r.loaded = p.loaded /\ r.stamp = p.stamp /\ r.shown = p.shown
            /\ r.use = p.use /\ r.answer = p.answer
        BY <2>a DEF Page
      <3> HIDE DEF r
      <3>3. PageIsSound(r)
        BY <1>1, <2>f, <3>2 DEF PageIsSound
      <3> QED
        BY <3>1, <3>3 DEF r
    <2> QED BY <2>1, <2>e, <2>g, PutKeeps
  <1>3. CASE SearchStock(k)
    <2>1. [p EXCEPT !.looking = p.content.origin] \in Page
          /\ PageIsSound([p EXCEPT !.looking = p.content.origin])
      BY <1>1 DEF Page, Content, PageIsSound
    <2> QED BY <1>1, <1>3, <2>1, PutKeeps DEF SearchStock
  <1>4. CASE ReceiveStock(k)
    <2>1. [p EXCEPT !.found = p.looking, !.looking = None] \in Page
          /\ PageIsSound([p EXCEPT !.found = p.looking, !.looking = None])
      BY <1>1 DEF Page, PageIsSound
    <2> QED BY <1>1, <1>4, <2>1, PutKeeps DEF ReceiveStock
  <1> QED BY <1>2, <1>3, <1>4

(* Fields that follow what is loaded.                                      *)
LEMMA Follows ==
  ASSUME NEW p \in Page, NEW now \in Version, NEW fs
  PROVE  /\ WithFields(p, now, fs) \in Page
         /\ WithFields(p, now, fs).use = p.use
         /\ WithFields(p, now, fs).stamp = p.stamp
         /\ WithFields(p, now, fs).loaded = now
         /\ WithFields(p, now, fs).answer = p.answer
         /\ p.shown = now.content => WithFields(p, now, fs).shown = now.content
  <1> DEFINE Mix(old) == [f \in Field |-> IF f \in fs THEN now.content[f] ELSE old[f]]
  <1>1. ASSUME NEW old \in Content PROVE Mix(old) \in Content /\ (old = now.content => Mix(old) = old)
    <2>1. Mix(old) \in Content
      BY Fields DEF Version, Content
    <2>2. ASSUME old = now.content PROVE Mix(old) = old
      <3>1. \A f \in Field : Mix(old)[f] = old[f]
        BY <2>2
      <3> QED BY <2>1, <3>1, Fields DEF Content
    <2> QED BY <2>1, <2>2
  <1>2. Mix(p.content) \in Content /\ Mix(p.shown) \in Content
        /\ (p.shown = now.content => Mix(p.shown) = now.content)
    BY <1>1 DEF Page
  <1>3. PICK c \in Content, s \in Content : c = Mix(p.content) /\ s = Mix(p.shown)
    BY <1>2
  <1>4. WithFields(p, now, fs) = [p EXCEPT !.loaded = now, !.content = c, !.shown = s]
    BY <1>3 DEF WithFields
  <1> HIDE DEF Mix
  <1> QED BY <1>2, <1>3, <1>4 DEF Page

LEMMA ReplyKeeps ==
  ASSUME PaperInv, NEW k \in Clerk, ReceiveReply(k) \/ LoseReply(k)
  PROVE  PaperInv'
  <1>0. page[k] # Away
    BY DEF ReceiveReply, LoseReply
  <1>1. PICK p \in Page : p = page[k] /\ PageIsSound(p)
    BY <1>0, PageOf
  <1>2. CASE LoseReply(k)
    <2>1. Put(k, Mounted(p.use, p.loaded))
      BY <1>1, <1>2 DEF LoseReply
    <2>2. p.use \in {"write", "convert"} /\ p.loaded \in Version
      BY DEF Page
    <2> QED BY <1>1, <2>1, <2>2, MountsSoundly, PutKeeps DEF PageIsSound
  <1>3. CASE Put(k, Away)
    BY <1>3, PutKeeps
  <1>4. CASE Put(k, [page[k] EXCEPT !.awaits = 0, !.answer = None])
    <2>1. [p EXCEPT !.awaits = 0, !.answer = None] \in Page
          /\ PageIsSound([p EXCEPT !.awaits = 0, !.answer = None])
      BY <1>1 DEF Page, PageIsSound
    <2> QED BY <1>1, <1>4, <2>1, PutKeeps
  <1>5. CASE /\ page[k].answer # None /\ page[k].answer.accepted
             /\ kind = "watch" /\ \E new \in Saved(page[k], paper) : Put(k, new)
    <2>0. paper \in Version /\ p.answer \in Answer
      BY <1>1, <1>5 DEF PaperInv, PaperTypeOK, Page
    <2>1. PICK q : q = [p EXCEPT !.stamp = p.answer.stamp, !.shown = p.answer.content,
                                 !.awaits = 0, !.answer = None]
      OBVIOUS
    <2>2. q \in Page /\ Present(q.stamp, q.shown) /\ q.use = p.use /\ q.answer = None
      BY <1>1, <1>5, <2>0, <2>1 DEF Page, Answer, PageIsSound
    <2>3. PICK fs : Put(k, WithFields(q, paper, fs))
      BY <1>1, <1>5, <2>1 DEF Saved, Refreshed
    <2>4. PICK new \in Page : new = WithFields(q, paper, fs)
      BY <2>0, <2>2, Follows
    <2>5. /\ new.use = p.use /\ new.stamp = q.stamp /\ new.loaded = paper /\ new.answer = None
          /\ q.shown = paper.content => new.shown = paper.content
      BY <2>0, <2>2, <2>4, Follows
    <2>6. PageIsSound(new)
      <3>1. Present(new.stamp, new.shown) /\ Present(new.loaded.stamp, new.loaded.content)
        BY <2>0, <2>2, <2>5 DEF Present, Version
      <3>2. Found(new.loaded.content) /\ Found(new.content)
        BY <1>5 DEF Found
      <3> QED BY <1>1, <2>5, <3>1, <3>2 DEF PageIsSound
    <2> QED BY <2>3, <2>4, <2>6, PutKeeps
  <1> QED BY <1>2, <1>3, <1>4, <1>5 DEF ReceiveReply
------------------------------------------------------------------------------
LEMMA SendKeeps ==
  ASSUME PaperInv, NEW k \in Clerk, Send(k)
  PROVE  PaperInv'
  <1>0. page[k] # Away
    BY DEF Send, Editing, At, Away
  <1>1. PICK p \in Page : p = page[k] /\ PageIsSound(p)
    BY <1>0, PageOf
  <1>2. PICK n \in Nat : n = sent + 1
    BY DEF PaperInv, PaperTypeOK
  <1>3. PICK q : q = [id |-> n, by |-> k, use |-> p.use, stamp |-> p.stamp,
                      content |-> p.content, shown |-> p.shown, currency |-> None]
    OBVIOUS
  <1>4. sent' = n /\ requests' = requests \cup {q} /\ page' = [page EXCEPT ![k] = [p EXCEPT !.awaits = n]]
        /\ UNCHANGED <<kind, paper, made, bought>>
    BY <1>1, <1>2, <1>3 DEF Send
  <1>5. q \in Request
    BY <1>3 DEF Page, Request
  <1>6. [p EXCEPT !.awaits = n] \in Page /\ PageIsSound([p EXCEPT !.awaits = n])
    BY <1>1 DEF Page, PageIsSound
  <1>7. PaperTypeOK'
    BY <1>2, <1>4, <1>5, <1>6 DEF PaperInv, PaperTypeOK
  <1>8. ASSUME NEW c \in Clerk, page'[c] # Away PROVE page'[c] = page[c] \/ PageIsSound(page[c])'
    <2>1. CASE c = k
      <3>1. page'[c] = [p EXCEPT !.awaits = n]
        BY <1>4, <2>1 DEF PaperInv, PaperTypeOK
      <3> QED BY <1>4, <1>6, <3>1 DEF PageIsSound, Present, Found
    <2>2. CASE c # k
      BY <1>4, <2>2 DEF PaperInv, PaperTypeOK
    <2> QED BY <2>1, <2>2
  <1>9. ASSUME NEW r \in requests', r \notin requests PROVE RequestIsSound(r)'
    <2>1. r = q
      BY <1>4, <1>9
    <2>2. Present(q.stamp, q.shown) /\ Found(q.content) /\ (q.use = "convert" => kind = "offer")
          /\ q.currency = None
      BY <1>1, <1>3 DEF PageIsSound
    <2> QED BY <1>4, <2>1, <2>2 DEF RequestIsSound, Present, Found
  <1>10. bought' # {} => kind = "offer" /\ Status' = "PURCHASED"
    BY <1>4 DEF PaperInv, Status
  <1> QED BY <1>4, <1>7, <1>8, <1>9, <1>10, Kept

LEMMA ReadKeeps ==
  ASSUME PaperInv, NEW r \in requests, ReadCurrency(r)
  PROVE  PaperInv'
  <1>1. r \in Request /\ RequestIsSound(r) /\ paper.content.text \in Word \cup {None}
    BY DEF PaperInv, PaperTypeOK, Version, Content
  <1>2. PICK q \in Request : q = [r EXCEPT !.currency = paper.content.text]
    BY <1>1 DEF Request
  <1>3. requests' = (requests \ {r}) \cup {q} /\ UNCHANGED <<kind, paper, made, page, bought, sent>>
    BY <1>2 DEF ReadCurrency
  <1>4. PaperTypeOK'
    BY <1>3 DEF PaperInv, PaperTypeOK
  <1>5. RequestIsSound(q)'
    BY <1>1, <1>2, <1>3 DEF RequestIsSound, Present, Found, Request
  <1>6. bought' # {} => kind = "offer" /\ Status' = "PURCHASED"
    BY <1>3 DEF PaperInv, Status
  <1>7. \A c \in Clerk : page'[c] = page[c]
    BY <1>3
  <1>8. \A x \in requests' : x \in requests \/ RequestIsSound(x)'
    BY <1>3, <1>5
  <1> QED BY <1>3, <1>4, <1>6, <1>7, <1>8, Kept

(* Pages of others see nothing of what changes elsewhere.                  *)
LEMMA ElsewhereKeeps ==
  ASSUME PaperInv,
         ChangePurchaseStatus \/ ShipmentCommand \/ ChangeCandidateStatus \/ MarkCandidateChecked
  PROVE  PaperInv'
  <1>0. paper \in Version /\ Status \in Statuses
    BY DEF PaperInv, PaperTypeOK, Version, Content, Status
  <1>1. PICK s \in Statuses : /\ Elsewhere([paper.content EXCEPT !.status = s])
                              /\ kind = "offer" /\ Status = "PURCHASED" => s = Status
    <2>1. CASE ChangePurchaseStatus
      BY <2>1 DEF ChangePurchaseStatus, Moved, Statuses
    <2>2. CASE ShipmentCommand
      BY <1>0, <2>2 DEF ShipmentCommand, Moved, Statuses
    <2>3. CASE ChangeCandidateStatus
      BY <2>3 DEF ChangeCandidateStatus, Moved, Statuses, Offered
    <2>4. CASE MarkCandidateChecked
      <3>1. paper.content = [paper.content EXCEPT !.status = Status]
        BY <1>0 DEF Version, Content, Status
      <3> QED BY <1>0, <2>4, <3>1 DEF MarkCandidateChecked
    <2> QED BY <2>1, <2>2, <2>3, <2>4
  <1>2. PICK c \in Content : c = [paper.content EXCEPT !.status = s]
    BY <1>0 DEF Version, Content
  <1>3. /\ paper # Unmade
        /\ paper' = [stamp |-> paper.stamp + 1, content |-> c]
        /\ UNCHANGED <<kind, made, page, requests, bought, sent>>
    BY <1>1, <1>2 DEF Elsewhere, Changed
  <1>4. PaperTypeOK'
    BY <1>0, <1>3 DEF PaperInv, PaperTypeOK, Version
  <1>5. Found(c)
    BY <1>0, <1>2, <1>3 DEF PaperInv, Found, Version, Content
  <1>6. paper'.stamp = paper.stamp + 1 /\ Found(paper.content)'
    BY <1>3, <1>5 DEF Found
  <1>7. bought' # {} => kind = "offer" /\ Status' = "PURCHASED"
    BY <1>0, <1>1, <1>2, <1>3 DEF PaperInv, Status, Version, Content
  <1>8. \A k \in Clerk : page'[k] = page[k]
    BY <1>3
  <1> QED BY <1>3, <1>4, <1>6, <1>7, <1>8, Kept

LEMMA QuickKeeps ==
  ASSUME PaperInv, NEW k \in Clerk, QuickWatch(k)
  PROVE  PaperInv'
  <1>0. paper \in Version /\ Status \in Statuses
    BY DEF PaperInv, PaperTypeOK, Version, Content, Status
  <1>1. PICK c \in Content : paper' = [stamp |-> paper.stamp + 1, content |-> c]
    <2>1. CASE paper' = Changed(paper.content)
      BY <1>0, <2>1 DEF Changed, Version
    <2>2. CASE paper' = Changed([paper.content EXCEPT !.status = "DISABLED"])
      BY <1>0, <2>2 DEF Changed, Version, Content, Statuses
    <2>3. ASSUME NEW w \in Word, paper' = Changed([paper.content EXCEPT !.text = w])
          PROVE  paper' = [stamp |-> paper.stamp + 1, content |-> [paper.content EXCEPT !.text = w]]
                 /\ [paper.content EXCEPT !.text = w] \in Content
      BY <1>0, <2>3 DEF Changed, Version, Content
    <2> QED BY <2>1, <2>2, <2>3 DEF QuickWatch
  <1>2. paper' \in Version /\ paper'.stamp = paper.stamp + 1 /\ paper'.content = c
    BY <1>0, <1>1 DEF Version
  <1>3. kind = "watch" /\ UNCHANGED <<kind, made, requests, bought, sent>>
    BY DEF QuickWatch
  <1>4. PICK new \in {Away} \cup Page :
          /\ page' = [page EXCEPT ![k] = new]
          /\ new # Away => PageIsSound(new)'
    <2>1. CASE page[k] = Away
      BY <2>1 DEF QuickWatch
    <2>2. CASE page[k] # Away
      <3>1. PICK p \in Page : p = page[k] /\ PageIsSound(p)
        BY <2>2, PageOf
      <3>2. PICK now \in Version : now = paper'
        BY <1>2
      <3>3. PICK fs : page' = [page EXCEPT ![k] = WithFields(p, now, fs)]
        BY <2>2, <3>1, <3>2 DEF QuickWatch, Refreshed
      <3>4. PICK q \in Page : q = WithFields(p, now, fs)
        BY Follows
      <3>5. q.use = p.use /\ q.stamp = p.stamp /\ q.loaded = now /\ q.answer = p.answer
        BY <3>4, Follows
      <3>6. p.stamp \in Nat /\ p.stamp <= paper.stamp /\ paper.stamp \in Nat
        BY <1>0, <3>1 DEF PageIsSound, Present, Page, Version
      <3>7. p.answer # None /\ p.answer.accepted =>
              p.answer.stamp \in Nat /\ p.answer.stamp <= paper.stamp
        BY <1>3, <3>1 DEF PageIsSound, Present, Page, Answer
      <3>8. PageIsSound(q)'
        BY <1>2, <1>3, <3>1, <3>2, <3>5, <3>6, <3>7 DEF PageIsSound, Present, Found
      <3> QED BY <3>3, <3>4, <3>8
    <2> QED BY <2>1, <2>2
  <1>5. PaperTypeOK'
    BY <1>2, <1>3, <1>4 DEF PaperInv, PaperTypeOK
  <1>6. ASSUME NEW x \in Clerk, page'[x] # Away PROVE page'[x] = page[x] \/ PageIsSound(page[x])'
    <2>1. page'[x] = new \/ page'[x] = page[x]
      BY <1>4 DEF PaperInv, PaperTypeOK
    <2>2. ASSUME page'[x] = new PROVE PageIsSound(page[x])'
      BY <1>4, <1>6, <2>2 DEF PageIsSound, Present, Found
    <2> QED BY <2>1, <2>2
  <1>7. Found(paper.content)' /\ (bought' # {} => kind = "offer" /\ Status' = "PURCHASED")
    BY <1>3 DEF PaperInv, Found
  <1> QED BY <1>2, <1>3, <1>5, <1>6, <1>7, Kept

(* The page that waits learns the version the answer made.                 *)
LEMMA AnswerKeeps ==
  ASSUME PaperInv, NEW r \in requests, NEW accepted \in BOOLEAN, Reply(r, accepted),
         paper' \in Version, paper' = paper \/ paper'.stamp = paper.stamp + 1,
         accepted /\ kind = "watch" => paper'.content = r.content
  PROVE  /\ page' \in [Clerk -> {Away} \cup Page]
         /\ \A c \in Clerk : page'[c] # Away => page'[c] = page[c] \/ PageIsSound(page[c])'
  <1>0. r \in Request /\ kind' = kind /\ page \in [Clerk -> {Away} \cup Page] /\ paper \in Version
    BY DEF PaperInv, PaperTypeOK, Reply
  <1>1. CASE page' = page
    BY <1>0, <1>1
  <1>2. CASE page[r.by] # Away /\
             page' = [page EXCEPT ![r.by].answer =
                        [accepted |-> accepted, stamp |-> paper'.stamp, content |-> r.content]]
    <2>0. r.by \in Clerk
      BY <1>0 DEF Request
    <2>1. PICK p \in Page : p = page[r.by] /\ PageIsSound(p)
      BY <1>2, <2>0, PageOf
    <2>2. PICK a \in Answer :
            a = [accepted |-> accepted, stamp |-> paper'.stamp, content |-> r.content]
      BY <1>0 DEF Answer, Version, Request
    <2>3. PICK q \in Page : q = [p EXCEPT !.answer = a]
      BY DEF Page
    <2>4. page' = [page EXCEPT ![r.by] = q]
      BY <1>0, <1>2, <2>0, <2>1, <2>2, <2>3
    <2>5. PageIsSound(q)'
      <3>1. /\ p.stamp \in Nat /\ p.loaded.stamp \in Nat
            /\ paper.stamp \in Nat /\ paper'.stamp \in Nat
        BY <1>0 DEF Page, Version
      <3>2. q.use = p.use /\ q.stamp = p.stamp /\ q.shown = p.shown /\ q.loaded = p.loaded
            /\ q.content = p.content /\ q.answer = a
        BY <2>3 DEF Page
      <3>3. a.stamp = paper'.stamp /\ (a.accepted /\ kind = "watch" => a.content = paper'.content)
        BY <2>2
      <3> QED BY <1>0, <2>1, <3>1, <3>2, <3>3, SMTT(30) DEF PageIsSound, Present, Found
    <2>6. ASSUME NEW c \in Clerk PROVE page'[c] = page[c] \/ PageIsSound(page[c])'
      <3>1. page'[c] = q \/ page'[c] = page[c]
        BY <1>0, <2>4
      <3>2. ASSUME page'[c] = q PROVE PageIsSound(page[c])'
        BY <2>5, <3>2 DEF PageIsSound, Present, Found
      <3> QED BY <3>1, <3>2
    <2> QED BY <1>0, <2>0, <2>3, <2>4, <2>6
  <1> QED BY <1>1, <1>2 DEF Reply

LEMMA RefuseKeeps ==
  ASSUME PaperInv, NEW r \in requests, Refuse(r)
  PROVE  PaperInv'
  <1>1. Reply(r, FALSE) /\ UNCHANGED <<kind, paper, made, bought, sent>> /\ requests' = requests \ {r}
    BY DEF Refuse, Reply
  <1>2. paper' \in Version /\ paper' = paper
    BY <1>1 DEF PaperInv, PaperTypeOK
  <1>3. /\ page' \in [Clerk -> {Away} \cup Page]
        /\ \A c \in Clerk : page'[c] # Away => page'[c] = page[c] \/ PageIsSound(page[c])'
    BY <1>1, <1>2, AnswerKeeps
  <1>4. PaperTypeOK'
    BY <1>1, <1>3 DEF PaperInv, PaperTypeOK
  <1>5. bought' # {} => kind = "offer" /\ Status' = "PURCHASED"
    BY <1>1 DEF PaperInv, Status
  <1> QED BY <1>1, <1>2, <1>3, <1>4, <1>5, Kept

LEMMA SaveKeeps ==
  ASSUME PaperInv, NEW r \in requests, r.use = "write", Accept(r)
  PROVE  PaperInv'
  <1>0. r \in Request /\ RequestIsSound(r) /\ paper \in Version
    BY DEF PaperInv, PaperTypeOK
  <1>1. /\ Save(r) /\ Reply(r, TRUE) /\ requests' = requests \ {r}
        /\ UNCHANGED <<kind, bought, sent>>
        /\ CreatesNow(r) \/ CreatedBefore(r) \/ Updates(r)
    BY DEF Accept, Save, Reply, Granted
  <1>2. Status \in Statuses
    BY <1>0 DEF Version, Content, Status
  <1>3. PICK c \in Content :
          c = [r.content EXCEPT !.status = IF kind = "shipment" THEN Status ELSE r.content.status]
    BY <1>0, <1>2 DEF Request, Content
  <1>4. CASE CreatedBefore(r)
    <2>1. paper' = paper
      BY <1>1, <1>4 DEF Save
    <2>2. kind # "watch"
      BY <1>4 DEF CreatedBefore, Creates
    <2>3. /\ page' \in [Clerk -> {Away} \cup Page]
          /\ \A x \in Clerk : page'[x] # Away => page'[x] = page[x] \/ PageIsSound(page[x])'
      BY <1>0, <1>1, <2>1, <2>2, AnswerKeeps
    <2>4. PaperTypeOK'
      BY <1>1, <2>1, <2>3 DEF PaperInv, PaperTypeOK
    <2>5. bought' # {} => kind = "offer" /\ Status' = "PURCHASED"
      BY <1>1, <2>1 DEF PaperInv, Status
    <2> QED BY <1>1, <2>1, <2>3, <2>4, <2>5, Kept
  <1>5. CASE ~CreatedBefore(r)
    <2>1. paper' = [stamp |-> paper.stamp + 1, content |-> c]
      BY <1>1, <1>3, <1>5 DEF Save, Changed
    <2>2. paper' \in Version /\ paper'.stamp = paper.stamp + 1 /\ paper'.content = c
      BY <1>0, <2>1 DEF Version
    <2>3. kind = "watch" => c = r.content
      BY <1>0, <1>3 DEF Request, Content
    <2>4. /\ page' \in [Clerk -> {Away} \cup Page]
          /\ \A x \in Clerk : page'[x] # Away => page'[x] = page[x] \/ PageIsSound(page[x])'
      BY <1>1, <2>2, <2>3, AnswerKeeps
    <2>5. PaperTypeOK'
      BY <1>1, <2>2, <2>4 DEF PaperInv, PaperTypeOK
    <2>6. bought = {}
      <3>1. CASE CreatesNow(r)
        BY <3>1 DEF CreatesNow, PaperInv, Status, Unmade, Blank, First
      <3>2. CASE Updates(r)
        BY <3>2 DEF Updates, EditsDraft, EditsShipment, EditsOffer, EditsWatch, PaperInv
      <3> QED BY <1>1, <1>5, <3>1, <3>2
    <2>7. Found(c)
      BY <1>0, <1>3 DEF RequestIsSound, Found, Request, Content
    <2>8. Found(paper.content)'
      BY <1>1, <2>2, <2>7 DEF Found
    <2>9. bought' = {}
      BY <1>1, <2>6
    <2> QED BY <1>1, <2>2, <2>4, <2>5, <2>8, <2>9, Kept
  <1> QED BY <1>4, <1>5

LEMMA ConvertKeeps ==
  ASSUME PaperInv, NEW r \in requests, r.use = "convert", Accept(r)
  PROVE  PaperInv'
  <1>0. r \in Request /\ RequestIsSound(r) /\ paper \in Version /\ kind = "offer"
    BY DEF PaperInv, PaperTypeOK, RequestIsSound
  <1>1. /\ Convert(r) /\ Reply(r, TRUE) /\ requests' = requests \ {r}
        /\ UNCHANGED <<kind, sent>>
    BY DEF Accept, Reply
  <1>2. PICK c \in Content : c = [paper.content EXCEPT !.status = "PURCHASED"]
    BY <1>0 DEF Version, Content, Statuses
  <1>3. \/ paper' = paper /\ bought' = bought
        \/ paper' = [stamp |-> paper.stamp + 1, content |-> c]
    BY <1>1, <1>2 DEF Convert, Changed
  <1>4. paper' \in Version /\ (paper' = paper \/ paper'.stamp = paper.stamp + 1)
    BY <1>0, <1>3 DEF Version
  <1>5. /\ page' \in [Clerk -> {Away} \cup Page]
        /\ \A x \in Clerk : page'[x] # Away => page'[x] = page[x] \/ PageIsSound(page[x])'
    BY <1>0, <1>1, <1>4, AnswerKeeps
  <1>6. PaperTypeOK'
    BY <1>1, <1>4, <1>5 DEF PaperInv, PaperTypeOK
  <1>7. bought' # {} => kind = "offer" /\ Status' = "PURCHASED"
    BY <1>0, <1>2, <1>3 DEF PaperInv, Status, Version, Content
  <1>8. Found(paper.content)'
    BY <1>0, <1>1 DEF Found
  <1> QED BY <1>1, <1>4, <1>5, <1>6, <1>7, <1>8, Kept
------------------------------------------------------------------------------
LEMMA PaperInvStep == PaperInv /\ [PaperNext]_paperVars => PaperInv'
  <1> SUFFICES ASSUME PaperInv, [PaperNext]_paperVars PROVE PaperInv'
    OBVIOUS
  <1>1. CASE UNCHANGED paperVars
    <2>1. UNCHANGED <<kind, paper, made, page, requests, bought, sent>>
      BY <1>1 DEF paperVars
    <2>2. PaperTypeOK' /\ (bought' # {} => kind = "offer" /\ Status' = "PURCHASED")
      BY <2>1 DEF PaperInv, PaperTypeOK, Status
    <2>3. \A c \in Clerk : page'[c] = page[c]
      BY <2>1
    <2> QED BY <2>1, <2>2, <2>3, Kept
  <1>2. ASSUME NEW k \in Clerk,
               \/ OpenPage(k) \/ LeavePage(k)
               \/ TypeText(k) \/ ChooseStatus(k) \/ AddLine(k) \/ RemoveRow(k)
               \/ ChooseOrigin(k) \/ SearchStock(k) \/ ReceiveStock(k) \/ AddStock(k)
               \/ Send(k) \/ ReceiveReply(k) \/ LoseReply(k)
               \/ QuickWatch(k)
        PROVE  PaperInv'
    BY <1>2, OpenPageKeeps, EditKeeps, SearchKeeps, SendKeeps, ReplyKeeps, QuickKeeps
  <1>3. ASSUME NEW r \in requests, ReadCurrency(r) \/ Accept(r) \/ Refuse(r) PROVE PaperInv'
    <2>1. r.use = "write" \/ r.use = "convert"
      BY DEF PaperInv, PaperTypeOK, Request
    <2> QED BY <1>3, <2>1, ReadKeeps, RefuseKeeps, SaveKeeps, ConvertKeeps
  <1>4. CASE \/ ChangePurchaseStatus \/ ShipmentCommand
             \/ ChangeCandidateStatus \/ MarkCandidateChecked
    BY <1>4, ElsewhereKeeps
  <1> QED BY <1>1, <1>2, <1>3, <1>4 DEF PaperNext

(* Pages, requests and the record stay well-formed, for any numbers of     *)
(* staff, goods, origins, requests and changes.                            *)
THEOREM PaperTypes == PaperSpec => []PaperTypeOK
  <1>1. PaperInv => PaperTypeOK
    BY DEF PaperInv
  <1> QED BY <1>1, PaperInvInit, PaperInvStep, PTL DEF PaperSpec

(* What is replaced is what the page had shown.                            *)
LEMMA AcceptFollows ==
  ASSUME PaperInv, NEW r \in requests, Accept(r)
  PROVE  /\ r.use = "write" /\ paper # Unmade =>
              \A f \in Field : paper'.content[f] # paper.content[f] =>
                r.shown[f] = paper.content[f]
         /\ bought' # bought =>
              /\ bought = {}
              /\ r.currency = paper.content.text /\ r.shown.text = paper.content.text
  <1>0. r \in Request /\ RequestIsSound(r) /\ paper \in Version
    BY DEF PaperInv, PaperTypeOK
  <1>1. paper # Unmade => paper.stamp > 0
    BY <1>0 DEF PaperInv, Version
  <1>2. ASSUME r.use = "write", paper # Unmade, NEW f \in Field,
               paper'.content[f] # paper.content[f]
        PROVE  r.shown[f] = paper.content[f]
    <2>1. Updates(r)
      BY <1>2 DEF Accept, Save, Granted, CreatesNow
    <2> QED BY <1>0, <1>1, <1>2, <2>1 DEF Updates, UpToDate, RequestIsSound, Present
  <1>3. ASSUME bought' # bought
        PROVE  /\ bought = {}
               /\ r.currency = paper.content.text /\ r.shown.text = paper.content.text
    <2>1. r.use = "convert" /\ Convert(r) /\ r.currency # None
      BY <1>3 DEF Accept, Save, Ready
    <2>2. ~ConvertedBefore(r) /\ ConvertsNow(r)
      BY <1>3, <2>1 DEF Accept, Convert, Granted
    <2>3. Status = "AVAILABLE" /\ r.stamp = paper.stamp
      BY <2>2 DEF ConvertsNow, UpToDate
    <2>4. kind = "offer" /\ bought = {}
      BY <1>0, <2>1, <2>3 DEF RequestIsSound, PaperInv
    <2>5. paper # Unmade
      BY <2>3, <2>4 DEF Status, Unmade, Blank, First
    <2> QED BY <1>0, <1>1, <2>1, <2>3, <2>4, <2>5 DEF RequestIsSound, Present
  <1> QED BY <1>2, <1>3

(* What a page replaces is what it had shown, a shipment takes what was    *)
(* found at its origin, and an offer is bought once, at what the page had  *)
(* shown, whatever others change and whichever answers are lost.           *)
THEOREM PagesFollowed == PaperSpec => SavesFollowThePage
  <1> DEFINE A ==
        \A r \in requests \ requests' :
          /\ r.use = "write" /\ paper # Unmade =>
               \A f \in Field : paper'.content[f] # paper.content[f] =>
                 r.shown[f] = paper.content[f]
          /\ kind = "shipment" => r.content.rows \subseteq Held[r.content.origin]
          /\ bought' # bought =>
               /\ bought = {}
               /\ r.currency = paper.content.text /\ r.shown.text = paper.content.text
  <1>1. PaperInv /\ [PaperNext]_paperVars => [A]_paperVars
    <2> SUFFICES ASSUME PaperInv, PaperNext, NEW r \in requests, r \notin requests'
                 PROVE  /\ r.use = "write" /\ paper # Unmade =>
                             \A f \in Field : paper'.content[f] # paper.content[f] =>
                               r.shown[f] = paper.content[f]
                        /\ kind = "shipment" => r.content.rows \subseteq Held[r.content.origin]
                        /\ bought' # bought =>
                             /\ bought = {}
                             /\ r.currency = paper.content.text /\ r.shown.text = paper.content.text
      OBVIOUS
    <2>1. kind = "shipment" => r.content.rows \subseteq Held[r.content.origin]
      BY DEF PaperInv, RequestIsSound, Found
    <2>2. ReadCurrency(r) \/ Accept(r) \/ Refuse(r)
      <3>1. ASSUME NEW k \in Clerk,
                   \/ OpenPage(k) \/ LeavePage(k)
                   \/ TypeText(k) \/ ChooseStatus(k) \/ AddLine(k) \/ RemoveRow(k)
                   \/ ChooseOrigin(k) \/ SearchStock(k) \/ ReceiveStock(k) \/ AddStock(k)
                   \/ Send(k) \/ ReceiveReply(k) \/ LoseReply(k)
                   \/ QuickWatch(k)
            PROVE  requests \subseteq requests'
        BY <3>1 DEF OpenPage, LeavePage, TypeText, ChooseStatus, AddLine, RemoveRow, ChooseOrigin,
             SearchStock, ReceiveStock, AddStock, Send, ReceiveReply, LoseReply, QuickWatch, Put
      <3>2. CASE \/ ChangePurchaseStatus \/ ShipmentCommand
                 \/ ChangeCandidateStatus \/ MarkCandidateChecked
        BY <3>2 DEF ChangePurchaseStatus, ShipmentCommand, ChangeCandidateStatus,
             MarkCandidateChecked, Moved, Elsewhere
      <3>3. ASSUME NEW q \in requests, ReadCurrency(q) \/ Accept(q) \/ Refuse(q)
            PROVE  r = q
        BY <3>3 DEF ReadCurrency, Accept, Refuse, Reply
      <3> QED BY <3>1, <3>2, <3>3 DEF PaperNext
    <2>3. CASE Accept(r)
      BY <2>1, <2>3, AcceptFollows
    <2>4. CASE ReadCurrency(r) \/ Refuse(r)
      BY <2>1, <2>4 DEF ReadCurrency, Refuse
    <2> QED BY <2>2, <2>3, <2>4
  <1>2. SavesFollowThePage <=> [][A]_paperVars
    BY DEF SavesFollowThePage
  <1> HIDE DEF A
  <1> QED BY <1>1, <1>2, PaperInvInit, PaperInvStep, PTL DEF PaperSpec
------------------------------------------------------------------------------
(* The sums.  A sum is a number of units, so what is proved of it rests on  *)
(* the sizes of finite sets.                                               *)

(* Every set of numbers that is not empty has a least one.                 *)
LEMMA LeastNumber ==
  ASSUME NEW T, T \subseteq Nat, T # {}
  PROVE  \E n \in T : \A m \in T : n <= m
<1>1. PICK n \in T : \A m \in T : <<m, n>> \notin OpToRel(<, Nat)
  BY NatLessThanWellFounded, WFMin
<1>2. ASSUME NEW m \in T PROVE n <= m
  <2>1. m \in Nat /\ n \in Nat
    OBVIOUS
  <2>2. ~(m < n)
    BY <1>1, <2>1 DEF OpToRel
  <2> QED
    BY <2>1, <2>2
<1> QED
  BY <1>2

(* A family of sets that has the empty set and each set it has with one    *)
(* more element has every finite set.                                      *)
LEMMA Growing ==
  ASSUME NEW D, IsFiniteSet(D), NEW G, {} \in G,
         \A S \in SUBSET D : S \in G => \A x \in D \ S : S \cup {x} \in G
  PROVE  D \in G
<1> SUFFICES ASSUME D \notin G PROVE FALSE
  OBVIOUS
<1> DEFINE Bad == {S \in SUBSET D : S \notin G}
           Sizes == {Cardinality(S) : S \in Bad}
<1>1. \A S \in SUBSET D : IsFiniteSet(S) /\ Cardinality(S) \in Nat
  BY FS_Subset, FS_CardinalityType
<1>2. Sizes \subseteq Nat /\ Sizes # {}
  BY <1>1
<1>3. PICK n \in Sizes : \A m \in Sizes : n <= m
  BY <1>2, LeastNumber
<1>4. PICK S \in Bad : Cardinality(S) = n
  BY <1>3
<1>5. PICK x \in S : TRUE
  BY <1>4
<1>6. Cardinality(S \ {x}) = n - 1 /\ n \in Nat
  BY <1>1, <1>4, <1>5, FS_RemoveElement
<1>7. S \ {x} \in G
  <2>1. Cardinality(S \ {x}) \notin Sizes
    BY <1>3, <1>6
  <2>2. S \ {x} \in SUBSET D
    BY <1>4
  <2> QED
    BY <2>1, <2>2
<1>8. (S \ {x}) \cup {x} = S /\ x \in D \ (S \ {x})
  BY <1>4, <1>5
<1> QED
  BY <1>4, <1>7, <1>8

Units(f, S) == UNION {{x} \X (1..f[x]) : x \in S}
Count(f, S) == Cardinality(Units(f, S))

(* One more element adds its number.                                       *)
LEMMA CountAdd ==
  ASSUME NEW f, NEW S, NEW x, x \notin S, f[x] \in Nat, IsFiniteSet(Units(f, S))
  PROVE  IsFiniteSet(Units(f, S \cup {x})) /\ Count(f, S \cup {x}) = Count(f, S) + f[x]
<1> DEFINE Own == {x} \X (1..f[x])
<1>1. Units(f, S \cup {x}) = Units(f, S) \cup Own
  BY DEF Units
<1>2. IsFiniteSet(1..f[x]) /\ Cardinality(1..f[x]) = f[x]
  <2>1. 1 \in Int /\ f[x] \in Int
    OBVIOUS
  <2>2. /\ IsFiniteSet(1..f[x])
        /\ Cardinality(1..f[x]) = IF 1 > f[x] THEN 0 ELSE f[x] - 1 + 1
    BY <2>1, FS_Interval, Zenon
  <2> QED
    BY <2>2
<1>3. IsFiniteSet({x}) /\ Cardinality({x}) = 1
  BY FS_Singleton
<1>4. IsFiniteSet(Own) /\ Cardinality(Own) = f[x]
  <2>1. ASSUME NEW A, IsFiniteSet(A), Cardinality(A) = 1, NEW B, IsFiniteSet(B), Cardinality(B) = f[x]
        PROVE  IsFiniteSet(A \X B) /\ Cardinality(A \X B) = f[x]
    <3>1. IsFiniteSet(A \X B) /\ Cardinality(A \X B) = Cardinality(A) * Cardinality(B)
      BY <2>1, FS_Product
    <3>2. 1 * f[x] = f[x]
      OBVIOUS
    <3> QED
      BY <2>1, <3>1, <3>2
  <2> QED
    BY <1>2, <1>3, <2>1
<1>5. Units(f, S) \cap Own = {}
  BY DEF Units
<1>6. Cardinality({}) = 0
  BY FS_EmptySet
<1>7. Cardinality(Units(f, S)) \in Nat
  BY FS_CardinalityType
<1> HIDE DEF Own
<1>8. /\ IsFiniteSet(Units(f, S) \cup Own)
      /\ Cardinality(Units(f, S) \cup Own)
           = Cardinality(Units(f, S)) + Cardinality(Own) - Cardinality(Units(f, S) \cap Own)
  BY <1>4, FS_Union
<1>9. Cardinality(Units(f, S) \cap Own) = 0
  BY <1>5, <1>6, Zenon
<1>10. /\ Cardinality(Units(f, S \cup {x})) = Cardinality(Units(f, S) \cup Own)
       /\ IsFiniteSet(Units(f, S \cup {x}))
  BY <1>1, <1>8, Zenon
<1>11. Cardinality(Units(f, S \cup {x})) = Cardinality(Units(f, S)) + f[x]
  BY <1>4, <1>7, <1>8, <1>9, <1>10
<1> QED
  BY <1>10, <1>11 DEF Count

LEMMA CountNone ==
  ASSUME NEW f
  PROVE  IsFiniteSet(Units(f, {})) /\ Count(f, {}) = 0
<1>1. Units(f, {}) = {}
  BY DEF Units
<1> QED
  BY <1>1, FS_EmptySet DEF Count

(* A sum over a finite set is a number.                                    *)
LEMMA CountNat ==
  ASSUME NEW D, IsFiniteSet(D), NEW f, \A x \in D : f[x] \in Nat
  PROVE  IsFiniteSet(Units(f, D)) /\ Count(f, D) \in Nat
<1> DEFINE G == {S \in SUBSET D : IsFiniteSet(Units(f, S))}
<1>1. {} \in G
  BY CountNone
<1>2. \A S \in SUBSET D : S \in G => \A x \in D \ S : S \cup {x} \in G
  BY CountAdd
<1> HIDE DEF G
<1>3. D \in G
  BY <1>1, <1>2, Growing
<1> QED
  BY <1>3, FS_CardinalityType DEF G, Count

(* The two facts about sums that the rest is by.                           *)
LEMMA CountMore ==
  ASSUME NEW D, IsFiniteSet(D), NEW f, \A x \in D : f[x] \in Nat,
         NEW S \in SUBSET D, NEW x \in D \ S
  PROVE  Count(f, S \cup {x}) = Count(f, S) + f[x] /\ Count(f, S) \in Nat
<1>1. IsFiniteSet(S)
  BY FS_Subset
<1>2. IsFiniteSet(Units(f, S)) /\ Count(f, S) \in Nat
  BY <1>1, CountNat
<1> QED
  BY <1>2, CountAdd

(* A sum is over the numbers of its elements, and is no less over more.    *)
LEMMA CountSame ==
  ASSUME NEW f, NEW g, NEW S, \A x \in S : f[x] = g[x]
  PROVE  Count(f, S) = Count(g, S)
<1>1. {{x} \X (1..f[x]) : x \in S} = {{x} \X (1..g[x]) : x \in S}
  OBVIOUS
<1> QED
  BY <1>1, Zenon DEF Count, Units

LEMMA CountGrows ==
  ASSUME NEW T, IsFiniteSet(T), NEW f, \A x \in T : f[x] \in Nat, NEW S, S \subseteq T
  PROVE  Count(f, S) <= Count(f, T)
<1>1. IsFiniteSet(Units(f, T))
  BY CountNat
<1>2. Units(f, S) \in SUBSET Units(f, T)
  BY DEF Units
<1> QED
  BY <1>1, <1>2, FS_Subset DEF Count

(* A sum of sums.                                                          *)
LEMMA CountPlus ==
  ASSUME NEW D, IsFiniteSet(D), NEW f, NEW g, NEW h,
         \A x \in D : g[x] \in Nat /\ h[x] \in Nat /\ f[x] = g[x] + h[x]
  PROVE  Count(f, D) = Count(g, D) + Count(h, D)
<1> DEFINE G == {S \in SUBSET D : Count(f, S) = Count(g, S) + Count(h, S)}
<1>1. {} \in G
  BY CountNone
<1>2. ASSUME NEW S \in SUBSET D, S \in G, NEW x \in D \ S PROVE S \cup {x} \in G
  <2>1. Count(f, S \cup {x}) = Count(f, S) + f[x] /\ Count(f, S) \in Nat
    <3>1. \A y \in D : f[y] \in Nat
      OBVIOUS
    <3> QED
      BY <3>1, CountMore
  <2>2. Count(g, S \cup {x}) = Count(g, S) + g[x] /\ Count(g, S) \in Nat
    BY CountMore
  <2>3. Count(h, S \cup {x}) = Count(h, S) + h[x] /\ Count(h, S) \in Nat
    BY CountMore
  <2> QED
    BY <1>2, <2>1, <2>2, <2>3
<1> HIDE DEF G
<1>3. D \in G
  BY <1>1, <1>2, Growing
<1> QED
  BY <1>3 DEF G

(* A multiple of a sum.                                                    *)
Multiple(f, k, g, D) ==
  IsFiniteSet(D) /\ k \in Nat /\ \A x \in D : g[x] \in Nat /\ f[x] = k * g[x]

LEMMA CountScaled ==
  ASSUME NEW D, NEW f, NEW g, NEW k, Multiple(f, k, g, D)
  PROVE  Count(f, D) = k * Count(g, D)
<1>0. IsFiniteSet(D) /\ k \in Nat /\ \A x \in D : g[x] \in Nat /\ f[x] = k * g[x]
  BY DEF Multiple
<1> USE <1>0
<1> DEFINE G == {S \in SUBSET D : Count(f, S) = k * Count(g, S)}
<1>1. {} \in G
  BY CountNone
<1>2. ASSUME NEW S \in SUBSET D, S \in G, NEW x \in D \ S PROVE S \cup {x} \in G
  <2>1. Count(f, S \cup {x}) = Count(f, S) + f[x] /\ Count(f, S) \in Nat
    <3>1. \A y \in D : f[y] \in Nat
      OBVIOUS
    <3> QED
      BY <3>1, CountMore
  <2>2. Count(g, S \cup {x}) = Count(g, S) + g[x] /\ Count(g, S) \in Nat
    BY CountMore
  <2>3. ASSUME NEW a \in Nat, NEW b \in Nat PROVE k * (a + b) = k * a + k * b
    OBVIOUS
  <2> QED
    BY <1>2, <2>1, <2>2, <2>3
<1> HIDE DEF G
<1>3. D \in G
  BY <1>1, <1>2, Growing
<1> QED
  BY <1>3 DEF G

(* A sum of numbers below n is below n times their number.                 *)
LEMMA CountBelow ==
  ASSUME NEW D, IsFiniteSet(D), NEW f, NEW n \in Nat,
         \A x \in D : f[x] \in Nat /\ f[x] < n
  PROVE  Count(f, D) + Cardinality(D) <= n * Cardinality(D)
<1> DEFINE G == {S \in SUBSET D : Count(f, S) + Cardinality(S) <= n * Cardinality(S)}
<1>1. {} \in G
  BY CountNone, FS_EmptySet
<1>2. ASSUME NEW S \in SUBSET D, S \in G, NEW x \in D \ S PROVE S \cup {x} \in G
  <2>1. Count(f, S \cup {x}) = Count(f, S) + f[x] /\ Count(f, S) \in Nat
    BY CountMore
  <2>2. Cardinality(S) \in Nat /\ Cardinality(S \cup {x}) = Cardinality(S) + 1
    BY FS_Subset, FS_CardinalityType, FS_AddElement
  <2>3. ASSUME NEW a \in Nat PROVE n * (a + 1) = n * a + n
    OBVIOUS
  <2> QED
    BY <1>2, <2>1, <2>2, <2>3
<1> HIDE DEF G
<1>3. D \in G
  BY <1>1, <1>2, Growing
<1> QED
  BY <1>3 DEF G

AllOf(R, S) == UNION {R[x] : x \in S}

(* The sizes of sets that are apart add up to the size of their union.     *)
LEMMA CountDisjoint ==
  ASSUME NEW D, IsFiniteSet(D), NEW f, NEW R,
         \A x \in D : IsFiniteSet(R[x]) /\ f[x] = Cardinality(R[x]),
         \A x, y \in D : x # y => R[x] \cap R[y] = {}
  PROVE  IsFiniteSet(AllOf(R, D)) /\ Count(f, D) = Cardinality(AllOf(R, D))
<1> DEFINE all(S) == UNION {R[x] : x \in S}
           G == {S \in SUBSET D : IsFiniteSet(all(S)) /\ Count(f, S) = Cardinality(all(S))}
<1>0. \A x \in D : f[x] \in Nat
  BY FS_CardinalityType
<1>3. \A x \in D : f[x] = Cardinality(R[x])
  OBVIOUS
<1>1. {} \in G
  <2>1. all({}) = {}
    OBVIOUS
  <2> QED
    BY <2>1, CountNone, FS_EmptySet
<1>2. ASSUME NEW S \in SUBSET D, S \in G, NEW x \in D \ S PROVE S \cup {x} \in G
  <2>1. Count(f, S \cup {x}) = Count(f, S) + f[x] /\ Count(f, S) \in Nat
    BY <1>0, CountMore
  <2>2. all(S \cup {x}) = all(S) \cup R[x]
    OBVIOUS
  <2>3. all(S) \cap R[x] = {}
    OBVIOUS
  <2>4. IsFiniteSet(all(S)) /\ IsFiniteSet(R[x]) /\ Count(f, S) = Cardinality(all(S))
    BY <1>2
  <2> HIDE DEF all
  <2>5. /\ IsFiniteSet(all(S) \cup R[x])
        /\ Cardinality(all(S) \cup R[x])
             = Cardinality(all(S)) + Cardinality(R[x]) - Cardinality(all(S) \cap R[x])
    BY <2>4, FS_Union
  <2>6. Cardinality({}) = 0
    BY FS_EmptySet
  <2>7. f[x] \in Nat
    BY <1>0
  <2>8. Cardinality(all(S) \cap R[x]) = 0
    BY <2>3, <2>6, Zenon
  <2>9. /\ Cardinality(all(S \cup {x})) = Cardinality(all(S) \cup R[x])
        /\ IsFiniteSet(all(S \cup {x}))
    BY <2>2, <2>5, Zenon
  <2>10. Cardinality(all(S)) \in Nat
    BY <2>4, FS_CardinalityType
  <2>11. f[x] = Cardinality(R[x])
    BY <1>3
  <2>12. Count(f, S \cup {x}) = Cardinality(all(S \cup {x}))
    BY <2>1, <2>4, <2>5, <2>7, <2>8, <2>9, <2>10, <2>11
  <2> QED
    BY <2>9, <2>12 DEF G, all
<1> HIDE DEF G
<1>4. D \in G
  BY <1>1, <1>2, Growing
<1> QED
  BY <1>4 DEF G, AllOf

(* In a finite set that is in order, as many elements have less than n      *)
(* before them as n is.                                                    *)
LEMMA Ranked ==
  ASSUME NEW D, IsFiniteSet(D), NEW Before, NEW rank,
         \A x \in D : Before[x] \subseteq D /\ x \notin Before[x] /\ rank[x] = Cardinality(Before[x]),
         \A x, y \in D : x # y => x \in Before[y] \/ y \in Before[x],
         \A x, y \in D : x \in Before[y] => Before[x] \subseteq Before[y],
         NEW n \in Nat, n <= Cardinality(D)
  PROVE  Cardinality({x \in D : rank[x] < n}) = n
<1> DEFINE size == Cardinality(D)
           place == [x \in D |-> rank[x]]
           Least == {x \in D : rank[x] < n}
           some == [x \in Least |-> rank[x]]
<1>1. size \in Nat
  BY FS_CardinalityType
<1>2. ASSUME NEW x \in D PROVE rank[x] \in 0..(size - 1)
  <2>1. Before[x] \in SUBSET (D \ {x})
    OBVIOUS
  <2>2. IsFiniteSet(D \ {x}) /\ Cardinality(D \ {x}) = size - 1
    BY FS_RemoveElement
  <2>3. Cardinality(Before[x]) \in Nat /\ Cardinality(Before[x]) <= size - 1
    BY <2>1, <2>2, FS_Subset, FS_CardinalityType
  <2> QED
    BY <2>3, <1>1
<1>3. ASSUME NEW x \in D, NEW y \in D, x \in Before[y] PROVE rank[x] < rank[y]
  <2>1. Before[x] \in SUBSET Before[y] /\ Before[y] \in SUBSET D
    BY <1>3
  <2>2. Before[x] # Before[y]
    BY <1>3
  <2>3. IsFiniteSet(Before[y])
    BY <2>1, FS_Subset
  <2>4. Cardinality(Before[x]) <= Cardinality(Before[y]) /\ Cardinality(Before[x]) # Cardinality(Before[y])
    BY <2>1, <2>2, <2>3, FS_Subset
  <2>5. rank[x] \in 0..(size - 1) /\ rank[y] \in 0..(size - 1)
    BY <1>2
  <2> QED
    BY <2>4, <2>5, <1>1
<1>4. \A x, y \in D : rank[x] = rank[y] => x = y
  <2> SUFFICES ASSUME NEW x \in D, NEW y \in D, rank[x] = rank[y], x # y PROVE FALSE
    OBVIOUS
  <2>1. rank[x] \in Int /\ rank[y] \in Int
    BY <1>1, <1>2
  <2>2. x \in Before[y] \/ y \in Before[x]
    OBVIOUS
  <2> QED
    BY <1>3, <2>1, <2>2
<1>5. IsFiniteSet(0..(size - 1)) /\ Cardinality(0..(size - 1)) = size
  <2>1. 0 \in Int /\ size - 1 \in Int /\ (0 > size - 1 => size = 0)
    BY <1>1
  <2> HIDE DEF size
  <2>2. IsFiniteSet(0..(size - 1))
        /\ Cardinality(0..(size - 1)) = IF 0 > size - 1 THEN 0 ELSE size - 1 - 0 + 1
    BY <2>1, FS_Interval
  <2> QED
    BY <1>1, <2>1, <2>2
<1>6. place \in Injection(D, 0..(size - 1))
  BY <1>2, <1>4 DEF Injection, IsInjective
<1>7. place \in Surjection(D, 0..(size - 1))
  BY <1>5, <1>6, FS_Injection
<1>8. IsFiniteSet(Least)
  BY FS_Subset
<1>9. some \in [Least -> 0..(n - 1)]
  BY <1>1, <1>2
<1>10. \A i \in 0..(n - 1) : \E x \in Least : some[x] = i
  <2> SUFFICES ASSUME NEW i \in 0..(n - 1) PROVE \E x \in Least : some[x] = i
    OBVIOUS
  <2>1. i \in 0..(size - 1)
    BY <1>1
  <2>2. PICK x \in D : place[x] = i
    BY <2>1, <1>7 DEF Surjection
  <2>3. rank[x] = i /\ x \in Least
    BY <2>2
  <2> QED
    BY <2>3
<1>11. some \in Bijection(Least, 0..(n - 1))
  BY <1>4, <1>9, <1>10 DEF Bijection, Injection, Surjection, IsInjective
<1>12. Cardinality(0..(n - 1)) = n
  BY FS_Interval
<1>13. ExistsBijection(Least, 0..(n - 1))
  BY <1>11 DEF ExistsBijection
<1> QED
  BY <1>8, <1>12, <1>13, FS_Bijection

LEMMA TotalCount ==
  ASSUME NEW f
  PROVE  Total(f) = Count(f, DOMAIN f)
BY DEF Total, Count, Units

LEMMA TotalOn ==
  ASSUME NEW f, NEW S
  PROVE  Total([x \in S |-> f[x]]) = Count(f, S)
<1> DEFINE g == [x \in S |-> f[x]]
<1>1. DOMAIN g = S /\ \A x \in S : g[x] = f[x]
  OBVIOUS
<1> HIDE DEF g
<1>2. Total(g) = Count(g, S)
  BY <1>1, TotalCount
<1>3. Count(g, S) = Count(f, S)
  BY <1>1, CountSame
<1> QED
  BY <1>2, <1>3 DEF g

LEMMA DivisionFacts ==
  ASSUME NEW a \in Nat, NEW d \in Nat \ {0}
  PROVE  a \div d \in Nat /\ a % d \in Nat /\ a % d < d /\ d * (a \div d) + (a % d) = a
OBVIOUS

(* What is left after the whole shares is no more than there are rows.     *)
LEMMA TimesSum ==
  ASSUME NEW a \in Int, NEW b \in Int, NEW c \in Int
  PROVE  a * (b + c) = a * b + a * c
OBVIOUS

LEMMA LeftBelow ==
  ASSUME NEW sum \in Nat \ {0}, NEW total \in Nat, NEW whole \in Nat, NEW rest \in Nat,
         NEW size \in Nat,
         total * sum = sum * whole + rest, rest + size <= sum * size
  PROVE  total - whole \in Nat /\ total - whole <= size
<1>1. sum * (total - whole) = rest
  <2> DEFINE more == total - whole
  <2>1. more \in Int /\ total = whole + more
    OBVIOUS
  <2> HIDE DEF more
  <2>2. sum * total = sum * whole + sum * more
    BY <2>1, TimesSum
  <2>3. sum * total = total * sum /\ sum * total \in Int /\ sum * whole \in Int /\ sum * more \in Int
    BY <2>1
  <2>4. sum * more = rest
    BY <2>2, <2>3
  <2> QED
    BY <2>4 DEF more
<1>2. total - whole >= 0
  <2> SUFFICES ASSUME whole - total >= 1 PROVE FALSE
    OBVIOUS
  <2>1. sum * (whole - total) >= sum * 1
    OBVIOUS
  <2> QED
    BY <1>1, <2>1
<1>3. total - whole <= size
  <2> SUFFICES ASSUME total - whole >= size + 1 PROVE FALSE
    OBVIOUS
  <2>1. sum * (total - whole) >= sum * (size + 1)
    OBVIOUS
  <2>2. sum * (size + 1) = sum * size + sum
    OBVIOUS
  <2> QED
    BY <1>1, <2>1, <2>2
<1> QED
  BY <1>2, <1>3

(* The shares of an amount add up to it (allocateMinor).                   *)
LEMMA AllocateAddsUp ==
  ASSUME NEW total \in Nat, NEW D, IsFiniteSet(D), NEW weight \in [D -> Nat], Total(weight) > 0,
         \A r \in D : r.batch \in Nat /\ r.offset \in Nat,
         \A r, q \in D : r # q => r.batch # q.batch \/ r.offset # q.offset
  PROVE  Total(AllocateMinor(total, weight)) = total
<1> DEFINE sum == Total(weight)
           scaled == [r \in D |-> total * weight[r]]
           floor == [r \in D |-> (total * weight[r]) \div sum]
           remainder == [r \in D |-> (total * weight[r]) % sum]
           whole == [r \in D |-> sum * floor[r]]
           ahead(r) == {q \in D : \/ remainder[q] > remainder[r]
                                  \/ remainder[q] = remainder[r] /\ Precedes(q, r)}
           left == total - Total(floor)
           before == [r \in D |-> ahead(r)]
           rank == [r \in D |-> Cardinality(ahead(r))]
           one == [r \in D |-> IF rank[r] < left THEN 1 ELSE 0]
           own == [r \in D |-> IF rank[r] < left THEN {r} ELSE {}]
           share == [r \in D |-> floor[r] + one[r]]
<1>1. AllocateMinor(total, weight) = share
  BY DEF AllocateMinor
<1>2. sum = Count(weight, D) /\ sum \in Nat \ {0}
  BY TotalCount, CountNat
<1>3. \A r \in D : scaled[r] \in Nat /\ weight[r] \in Nat /\ scaled[r] = total * weight[r]
  OBVIOUS
<1> HIDE DEF sum
<1>4. ASSUME NEW r \in D
      PROVE  /\ floor[r] \in Nat /\ remainder[r] \in Nat /\ remainder[r] < sum
             /\ whole[r] \in Nat /\ whole[r] = sum * floor[r]
             /\ scaled[r] = whole[r] + remainder[r]
  <2>1. scaled[r] \in Nat /\ floor[r] = scaled[r] \div sum /\ remainder[r] = scaled[r] % sum
    BY <1>3
  <2> HIDE DEF scaled, floor, remainder
  <2>2. /\ floor[r] \in Nat /\ remainder[r] \in Nat /\ remainder[r] < sum
        /\ sum * floor[r] + remainder[r] = scaled[r]
    <3>1. /\ scaled[r] \div sum \in Nat /\ scaled[r] % sum \in Nat /\ scaled[r] % sum < sum
          /\ sum * (scaled[r] \div sum) + (scaled[r] % sum) = scaled[r]
      BY <1>2, <2>1, DivisionFacts, Zenon
    <3> QED
      BY <2>1, <3>1, Zenon
  <2>3. sum * floor[r] \in Nat
    BY <1>2, <2>2
  <2> QED
    BY <2>2, <2>3
<1>5. Total(floor) = Count(floor, D)
  BY TotalCount
<1>6. \A q, r \in D : q \in before[r] <=> \/ remainder[q] > remainder[r]
                                          \/ remainder[q] = remainder[r] /\ Precedes(q, r)
  OBVIOUS
<1>7. \A r \in D : before[r] \subseteq D /\ rank[r] = Cardinality(before[r])
  OBVIOUS
<1>8. \A r \in D : /\ one[r] = IF rank[r] < left THEN 1 ELSE 0
                   /\ own[r] = IF rank[r] < left THEN {r} ELSE {}
                   /\ share[r] = floor[r] + one[r]
  OBVIOUS
<1>9. DOMAIN share = D
  OBVIOUS
<1>10. left = total - Count(floor, D)
  BY <1>5
<1> HIDE DEF scaled, floor, remainder, whole, before, rank, one, own, share, left
<1>11. Count(scaled, D) = total * sum
  <2>1. Multiple(scaled, total, weight, D)
    BY <1>3 DEF Multiple
  <2> QED
    BY <1>2, <2>1, CountScaled
<1>12. Count(scaled, D) = Count(whole, D) + Count(remainder, D)
  BY <1>4, CountPlus
<1>13. Count(whole, D) = sum * Count(floor, D)
  <2>1. Multiple(whole, sum, floor, D)
    BY <1>2, <1>4 DEF Multiple
  <2> QED
    BY <2>1, CountScaled
<1>14. Count(remainder, D) + Cardinality(D) <= sum * Cardinality(D)
  BY <1>2, <1>4, CountBelow
<1>15. Count(floor, D) \in Nat /\ Count(remainder, D) \in Nat /\ Cardinality(D) \in Nat
  BY <1>4, CountNat, FS_CardinalityType
<1>16. left \in Nat /\ left <= Cardinality(D)
  BY <1>2, <1>10, <1>11, <1>12, <1>13, <1>14, <1>15, LeftBelow
<1>17. \A r \in D : r \notin before[r]
  BY <1>4, <1>6 DEF Precedes
<1>18. \A r, q \in D : r # q => r \in before[q] \/ q \in before[r]
  <2> SUFFICES ASSUME NEW r \in D, NEW q \in D, r # q
               PROVE  r \in before[q] \/ q \in before[r]
    OBVIOUS
  <2>1. remainder[r] \in Nat /\ remainder[q] \in Nat
    BY <1>4
  <2>2. Precedes(r, q) \/ Precedes(q, r)
    BY DEF Precedes
  <2> QED
    BY <1>6, <2>1, <2>2
<1>19. \A r, q \in D : r \in before[q] => before[r] \subseteq before[q]
  <2> SUFFICES ASSUME NEW r \in D, NEW q \in D, r \in before[q], NEW p \in D, p \in before[r]
               PROVE  p \in before[q]
    BY <1>7
  <2>1. remainder[r] \in Nat /\ remainder[q] \in Nat /\ remainder[p] \in Nat
    BY <1>4
  <2>2. Precedes(p, r) /\ Precedes(r, q) => Precedes(p, q)
    BY DEF Precedes
  <2> QED
    BY <1>6, <2>1, <2>2
<1>20. Cardinality({r \in D : rank[r] < left}) = left
  BY <1>7, <1>16, <1>17, <1>18, <1>19, Ranked
<1>21. ASSUME NEW r \in D
       PROVE  /\ IsFiniteSet(own[r]) /\ one[r] = Cardinality(own[r]) /\ one[r] \in Nat
              /\ own[r] \subseteq {r} /\ (r \in own[r] <=> rank[r] < left)
  <2>1. CASE rank[r] < left
    <3>1. own[r] = {r} /\ one[r] = 1
      BY <1>8, <2>1
    <3>2. IsFiniteSet(own[r]) /\ Cardinality(own[r]) = 1
      <4>1. IsFiniteSet({r}) /\ Cardinality({r}) = 1
        BY FS_Singleton
      <4> QED
        BY <3>1, <4>1, Zenon
    <3>3. one[r] = Cardinality(own[r]) /\ one[r] \in Nat
      BY <3>1, <3>2
    <3> QED
      BY <2>1, <3>1, <3>2, <3>3
  <2>2. CASE ~(rank[r] < left)
    <3>1. own[r] = {} /\ one[r] = 0
      BY <1>8, <2>2
    <3>2. IsFiniteSet(own[r]) /\ Cardinality(own[r]) = 0
      BY <3>1, FS_EmptySet, Zenon
    <3> QED
      BY <2>2, <3>1, <3>2
  <2> QED
    BY <2>1, <2>2
<1>22. Count(one, D) = left
  <2>1. \A r \in D : IsFiniteSet(own[r]) /\ one[r] = Cardinality(own[r])
    BY <1>21
  <2>2. \A r, q \in D : r # q => own[r] \cap own[q] = {}
    BY <1>21
  <2>3. AllOf(own, D) = {r \in D : rank[r] < left}
    BY <1>21 DEF AllOf
  <2>4. Count(one, D) = Cardinality(AllOf(own, D))
    BY <2>1, <2>2, CountDisjoint
  <2> QED
    BY <1>20, <2>3, <2>4, Zenon
<1>24. Count(share, D) = Count(floor, D) + Count(one, D)
  <2>1. \A r \in D : floor[r] \in Nat /\ one[r] \in Nat /\ share[r] = floor[r] + one[r]
    BY <1>4, <1>8, <1>21
  <2> QED
    BY <2>1, CountPlus
<1>23. Total(share) = Count(share, D)
  BY <1>9, TotalCount
<1> QED
  BY <1>1, <1>10, <1>15, <1>22, <1>23, <1>24

(* What a run of units bears of the remainder is how many of the first     *)
(* units it has.                                                           *)
LEMMA RunBears ==
  ASSUME NEW rest \in Nat, NEW offset \in Nat, NEW quantity \in Nat
  PROVE  LET run == offset..(offset + quantity - 1)
             bears == Lesser(offset + quantity, rest) - Lesser(offset, rest)
         IN  /\ IsFiniteSet({i \in run : i < rest})
             /\ Cardinality({i \in run : i < rest}) = bears
             /\ bears \in Nat
<1> DEFINE first == Lesser(offset, rest)
           end == Lesser(offset + quantity, rest)
           run == offset..(offset + quantity - 1)
<1>1. first \in Nat /\ end \in Nat /\ first <= end
  BY DEF Lesser
<1>2. {i \in run : i < rest} = first..(end - 1)
  BY DEF Lesser
<1> HIDE DEF first, end, run
<1>3. first \in Int /\ end - 1 \in Int
  BY <1>1
<1>4. /\ IsFiniteSet(first..(end - 1))
      /\ Cardinality(first..(end - 1)) = IF first > end - 1 THEN 0 ELSE (end - 1) - first + 1
  BY <1>3, FS_Interval
<1>5. Cardinality(first..(end - 1)) = end - first /\ end - first \in Nat
  BY <1>1, <1>4
<1>6. /\ IsFiniteSet({i \in run : i < rest})
      /\ Cardinality({i \in run : i < rest}) = Cardinality(first..(end - 1))
  BY <1>2, <1>4, Zenon
<1> QED
  BY <1>5, <1>6 DEF first, end, run

(* The slices of runs of units that are apart.                             *)
Sliced(total, units, P, offset, quantity, slice) ==
  /\ units \in Nat \ {0} /\ total \in Nat
  /\ \A c \in P : /\ offset[c] \in Nat /\ quantity[c] \in Nat \ {0}
                  /\ offset[c] + quantity[c] <= units
                  /\ slice[c] = UnitSlice(total, units, offset[c], quantity[c])
  /\ \A c, d \in P : c # d => \/ offset[c] + quantity[c] <= offset[d]
                              \/ offset[d] + quantity[d] <= offset[c]

(* If they have all the units, they add up to what is charged (unitSlice). *)
LEMMA SlicesCover ==
  ASSUME NEW units, NEW total, NEW P, NEW offset, NEW quantity, NEW slice,
         Sliced(total, units, P, offset, quantity, slice),
         Count(quantity, P) = units
  PROVE  Count(slice, P) = total
<1>0. /\ units \in Nat \ {0} /\ total \in Nat
      /\ \A c \in P : /\ offset[c] \in Nat /\ quantity[c] \in Nat \ {0}
                      /\ offset[c] + quantity[c] <= units
                      /\ slice[c] = UnitSlice(total, units, offset[c], quantity[c])
      /\ \A c, d \in P : c # d => \/ offset[c] + quantity[c] <= offset[d]
                                  \/ offset[d] + quantity[d] <= offset[c]
  BY DEF Sliced
<1> USE <1>0
<1> DEFINE each == total \div units
           rest == total % units
           run == [c \in P |-> offset[c]..(offset[c] + quantity[c] - 1)]
           bearing == [c \in P |-> {i \in run[c] : i < rest}]
           extra == [c \in P |-> Lesser(offset[c] + quantity[c], rest) - Lesser(offset[c], rest)]
           plain == [c \in P |-> each * quantity[c]]
           place == [c \in P |-> offset[c]]
<1>1. each \in Nat /\ rest \in Nat /\ rest < units /\ units * each + rest = total
  BY DivisionFacts
<1>2. \A c \in P : slice[c] = each * quantity[c] + (Lesser(offset[c] + quantity[c], rest) - Lesser(offset[c], rest))
  <2> SUFFICES ASSUME NEW c \in P
               PROVE  slice[c] = each * quantity[c] + (Lesser(offset[c] + quantity[c], rest) - Lesser(offset[c], rest))
    OBVIOUS
  <2>1. slice[c] = each * quantity[c] + Lesser(offset[c] + quantity[c], rest) - Lesser(offset[c], rest)
    BY DEF UnitSlice
  <2> HIDE DEF each, rest
  <2>2. quantity[c] \in Nat /\ offset[c] \in Nat
    OBVIOUS
  <2>3. Lesser(offset[c] + quantity[c], rest) \in Int /\ Lesser(offset[c], rest) \in Int
        /\ each * quantity[c] \in Int
    BY <1>1, <2>2 DEF Lesser
  <2> QED
    BY <2>1, <2>3
<1>3. IsFiniteSet(0..(units - 1)) /\ Cardinality(0..(units - 1)) = units
  <2>1. 0 \in Int /\ units - 1 \in Int /\ ~(0 > units - 1)
    OBVIOUS
  <2>2. /\ IsFiniteSet(0..(units - 1))
        /\ Cardinality(0..(units - 1)) = IF 0 > units - 1 THEN 0 ELSE (units - 1) - 0 + 1
    BY <2>1, FS_Interval
  <2> QED
    BY <2>1, <2>2
<1>4. IsFiniteSet(P)
  <2>1. place \in Injection(P, 0..(units - 1))
    BY DEF Injection, IsInjective
  <2> QED
    BY <1>3, <2>1, FS_Injection
<1>5. \A c \in P : /\ run[c] = offset[c]..(offset[c] + quantity[c] - 1)
                   /\ run[c] \subseteq 0..(units - 1)
                   /\ \A i : i \in run[c] <=> i \in Int /\ offset[c] <= i /\ i <= offset[c] + quantity[c] - 1
  OBVIOUS
<1>6. \A c \in P : /\ bearing[c] = {i \in run[c] : i < rest}
                   /\ extra[c] = Lesser(offset[c] + quantity[c], rest) - Lesser(offset[c], rest)
                   /\ plain[c] = each * quantity[c]
  OBVIOUS
<1> HIDE DEF each, rest, run, bearing, extra, plain
<1>7. \A c \in P : IsFiniteSet(run[c]) /\ quantity[c] = Cardinality(run[c])
  <2> SUFFICES ASSUME NEW c \in P PROVE IsFiniteSet(run[c]) /\ quantity[c] = Cardinality(run[c])
    OBVIOUS
  <2> DEFINE first == offset[c]
             last == offset[c] + quantity[c] - 1
  <2>1. first \in Int /\ last \in Int /\ ~(first > last) /\ last - first + 1 = quantity[c]
    OBVIOUS
  <2>2. run[c] = first..last
    BY <1>5
  <2> HIDE DEF first, last
  <2>3. IsFiniteSet(first..last) /\ Cardinality(first..last) = IF first > last THEN 0 ELSE last - first + 1
    BY <2>1, FS_Interval
  <2>4. Cardinality(first..last) = quantity[c]
    BY <2>1, <2>3
  <2> QED
    BY <2>2, <2>3, <2>4, Zenon
<1>8. \A c, d \in P : c # d => run[c] \cap run[d] = {}
  <2> SUFFICES ASSUME NEW c \in P, NEW d \in P, c # d, NEW i, i \in run[c], i \in run[d]
               PROVE  FALSE
    OBVIOUS
  <2>1. offset[c] \in Nat /\ quantity[c] \in Nat /\ offset[d] \in Nat /\ quantity[d] \in Nat
    OBVIOUS
  <2>2. offset[c] + quantity[c] <= offset[d] \/ offset[d] + quantity[d] <= offset[c]
    OBVIOUS
  <2>3. /\ i \in Int /\ offset[c] <= i /\ i <= offset[c] + quantity[c] - 1
        /\ offset[d] <= i /\ i <= offset[d] + quantity[d] - 1
    BY <1>5
  <2> QED
    BY <2>1, <2>2, <2>3
<1>9. AllOf(run, P) = 0..(units - 1)
  <2>1. Count(quantity, P) = Cardinality(AllOf(run, P)) /\ Count(quantity, P) = units
    BY <1>4, <1>7, <1>8, CountDisjoint
  <2>2. AllOf(run, P) \in SUBSET (0..(units - 1))
    BY <1>5 DEF AllOf
  <2> QED
    BY <1>3, <2>1, <2>2, FS_Subset, Zenon
<1>10. ASSUME NEW c \in P
       PROVE  IsFiniteSet(bearing[c]) /\ extra[c] = Cardinality(bearing[c]) /\ extra[c] \in Nat
  <2>1. offset[c] \in Nat /\ quantity[c] \in Nat
    OBVIOUS
  <2> DEFINE these == {i \in offset[c]..(offset[c] + quantity[c] - 1) : i < rest}
             bears == Lesser(offset[c] + quantity[c], rest) - Lesser(offset[c], rest)
  <2>2. IsFiniteSet(these) /\ Cardinality(these) = bears /\ bears \in Nat
    BY <1>1, <2>1, RunBears
  <2>3. bearing[c] = these /\ extra[c] = bears
    BY <1>5, <1>6
  <2> HIDE DEF these, bears
  <2> QED
    BY <2>2, <2>3, Zenon
<1>11. Count(extra, P) = Cardinality(AllOf(bearing, P))
  <2>1. \A c, d \in P : c # d => bearing[c] \cap bearing[d] = {}
    BY <1>6, <1>8
  <2> QED
    BY <1>4, <1>10, <2>1, CountDisjoint
<1>12. AllOf(bearing, P) = {i \in 0..(0 + units - 1) : i < rest}
  <2>1. \A i : i \in AllOf(bearing, P) <=> i \in AllOf(run, P) /\ i < rest
    BY <1>6 DEF AllOf
  <2>2. \A i : i \in AllOf(run, P) <=> i \in 0..(units - 1)
    BY <1>9
  <2> QED
    BY <2>1, <2>2
<1>13. Count(extra, P) = rest
  <2>1. Cardinality({i \in 0..(0 + units - 1) : i < rest}) = Lesser(0 + units, rest) - Lesser(0, rest)
    BY <1>1, RunBears
  <2>2. Lesser(0 + units, rest) - Lesser(0, rest) = rest
    BY <1>1 DEF Lesser
  <2> QED
    BY <1>11, <1>12, <2>1, <2>2, Zenon
<1>14. Count(plain, P) = each * Count(quantity, P)
  <2>1. \A c \in P : quantity[c] \in Nat /\ plain[c] = each * quantity[c]
    BY <1>6
  <2>2. each \in Nat
    BY <1>1
  <2> QED
    <3>1. Multiple(plain, each, quantity, P)
      BY <1>4, <2>1, <2>2 DEF Multiple
    <3> QED
      BY <3>1, CountScaled
<1>15. Count(slice, P) = Count(plain, P) + Count(extra, P)
  <2>1. ASSUME NEW c \in P PROVE plain[c] \in Nat /\ extra[c] \in Nat /\ slice[c] = plain[c] + extra[c]
    <3>1. quantity[c] \in Nat /\ plain[c] = each * quantity[c]
      BY <1>6
    <3>2. plain[c] \in Nat
      BY <1>1, <3>1
    <3> QED
      BY <1>2, <1>6, <1>10, <3>2
  <2> QED
    BY <1>4, <2>1, CountPlus
<1>16. Count(quantity, P) = units /\ each * units = units * each
  BY <1>1, <1>4
<1> QED
  BY <1>1, <1>13, <1>14, <1>15, <1>16
------------------------------------------------------------------------------
(* Costs.                                                                  *)

USE CostsAssumption, DeskAssumption

(* What is calculated from typed state is a review.                        *)
LEMMA SourceTyped ==
  ASSUME CostsTypeOK, NEW s \in Shipment, NEW choice \in Choice
  PROVE  Source(s, choice) \in Review
<1>1. Len(calculations[s]) \in Nat
  BY DEF CostsTypeOK
<1> QED
  BY <1>1 DEF CostsTypeOK, Source, Review

(* The forms that are being finalised hold a shipment and a review.        *)
LEMMA CostingFormTyped ==
  ASSUME CostsTypeOK, NEW k \in Clerk, costing[k].op # "IDLE"
  PROVE  /\ costing[k].shipment \in Shipment
         /\ costing[k].reviewed \in Review
         /\ costing[k].id \in CalculationId
         /\ costing[k].reviewed.choice \in Choice
         /\ costing[k].op \in {"REVIEWED", "FINALIZE"}
         /\ costing[k] = [op |-> costing[k].op, id |-> costing[k].id,
                          shipment |-> costing[k].shipment, reviewed |-> costing[k].reviewed]
<1>1. costing[k] \in CostingForm /\ costing[k] # Idle
  BY DEF CostsTypeOK, Idle
<1> QED
  BY <1>1 DEF CostingForm, Review

(* The initial state is typed.                                             *)
LEMMA CostsTypeInit ==
  ASSUME CostsInit
  PROVE  CostsTypeOK
  BY DEF CostsInit, CostsTypeOK, Component, Unknown, CostingForm

(* Every step keeps the types.                                             *)
LEMMA CostsTypeStep ==
  ASSUME CostsTypeOK, [CostsNext]_costVars
  PROVE  CostsTypeOK'
<1>1. ASSUME NEW vat \in BOOLEAN, SaveSettings(vat) PROVE CostsTypeOK'
  BY <1>1 DEF SaveSettings, CostsTypeOK
<1>2. ASSUME NEW s \in Shipment, NEW costs \in Costs, RecordCosts(s, costs) PROVE CostsTypeOK'
  BY <1>2 DEF RecordCosts, CostsTypeOK
<1>3. ASSUME NEW p \in Purchase, RefundPurchase(p) PROVE CostsTypeOK'
  BY <1>3 DEF RefundPurchase, CostsTypeOK
<1>4. ASSUME NEW k \in Clerk, NEW s \in Shipment, NEW choice \in Choice, Preview(k, s, choice)
      PROVE  CostsTypeOK'
  <2>1. PICK id \in CalculationId :
          costing' = [costing EXCEPT
            ![k] = [op |-> "REVIEWED", id |-> id, shipment |-> s, reviewed |-> Source(s, choice)]]
    BY <1>4 DEF Preview
  <2>2. [op |-> "REVIEWED", id |-> id, shipment |-> s, reviewed |-> Source(s, choice)]
          \in CostingForm
    BY SourceTyped DEF CostingForm
  <2> QED
    BY <1>4, <2>1, <2>2 DEF Preview, CostsTypeOK
<1>5. ASSUME NEW k \in Clerk, NEW op \in {"REVIEWED", "FINALIZE"},
             costing[k].op # "IDLE", costing' = [costing EXCEPT ![k].op = op]
      PROVE  costing' \in [Clerk -> CostingForm]
  <2> DEFINE slip == costing[k]
  <2>1. slip = [op |-> slip.op, id |-> slip.id, shipment |-> slip.shipment,
                reviewed |-> slip.reviewed]
        /\ slip.id \in CalculationId /\ slip.shipment \in Shipment /\ slip.reviewed \in Review
    BY <1>5, CostingFormTyped
  <2>2. costing' = [costing EXCEPT ![k] = [slip EXCEPT !.op = op]]
    BY <1>5
  <2> HIDE DEF slip
  <2>3. [slip EXCEPT !.op = op] = [op |-> op, id |-> slip.id, shipment |-> slip.shipment,
                                   reviewed |-> slip.reviewed]
    BY <2>1
  <2>4. [slip EXCEPT !.op = op] \in CostingForm
    BY <2>1, <2>3 DEF CostingForm
  <2> QED
    BY <2>2, <2>4 DEF CostsTypeOK
<1>6. ASSUME NEW k \in Clerk, BeginFinalize(k) PROVE CostsTypeOK'
  BY <1>5, <1>6 DEF BeginFinalize, CostsTypeOK
<1>7. ASSUME NEW k \in Clerk, RollBack(k) PROVE CostsTypeOK'
  BY <1>5, <1>7 DEF RollBack, CostsTypeOK
<1>8. ASSUME NEW k \in Clerk, CommitFinalize(k) PROVE CostsTypeOK'
  <2> DEFINE s == costing[k].shipment
             c == [id |-> costing[k].id, source |-> costing[k].reviewed]
  <2>1. c \in Calculation /\ s \in Shipment
    BY <1>8, CostingFormTyped DEF CommitFinalize, Calculation
  <2>2. calculations' = [calculations EXCEPT ![s] = Append(calculations[s], c)]
    BY <1>8 DEF CommitFinalize
  <2> HIDE DEF c, s
  <2>3. Append(calculations[s], c) \in Seq(Calculation)
    BY <2>1 DEF CostsTypeOK
  <2>4. calculations' \in [Shipment -> Seq(Calculation)]
    BY <2>1, <2>2, <2>3 DEF CostsTypeOK
  <2> QED
    BY <1>5, <1>8, <2>4 DEF CommitFinalize, CostsTypeOK
<1>9. ASSUME NEW k \in Clerk, CloseForm(k) PROVE CostsTypeOK'
  BY <1>9 DEF CloseForm, CostsTypeOK, CostingForm
<1>10. CASE UNCHANGED costVars
  BY <1>10 DEF costVars, CostsTypeOK
<1> QED
  BY <1>1, <1>2, <1>3, <1>4, <1>6, <1>7, <1>8, <1>9, <1>10 DEF CostsNext

(* The store of calculations, the settings and the forms stay well-formed, *)
(* whatever is previewed, finalised and lost (calculate, finalize).        *)
THEOREM CostsTypes == CostsSpec => []CostsTypeOK
  BY CostsTypeInit, CostsTypeStep, PTL DEF CostsSpec
------------------------------------------------------------------------------
(***************************************************************************)
(* No unit is charged twice.  The invariant says it of what is stored and  *)
(* of every calculation that is about to be, which the locks on purchase   *)
(* lines and shipments keep apart from each other.                         *)
(***************************************************************************)
ApartFrom(rows, others) == \A r \in rows, q \in others : ~Overlap(r, q)

StoredApart ==
  \A s \in Shipment :
    /\ Apart(Charged(s))
    /\ \A t \in Shipment \ {s} : ApartFrom(Charged(s), Charged(t))

OpenApart ==
  \A k \in Finalizing :
    /\ Apart(Rows(k))
    /\ \A t \in Shipment \ {costing[k].shipment} : ApartFrom(Rows(k), Charged(t))

LocksApart ==
  \A j, k \in Finalizing : j # k =>
    /\ costing[j].shipment # costing[k].shipment
    /\ Batches(Rows(j)) \cap Batches(Rows(k)) = {}

CostsInv == CostsTypeOK /\ StoredApart /\ OpenApart /\ LocksApart

(* Rows of different purchase lines do not overlap.                        *)
LEMMA OtherBatches ==
  ASSUME NEW rows, NEW others, Batches(rows) \cap Batches(others) = {}
  PROVE  ApartFrom(rows, others)
  BY DEF Batches, ApartFrom, Overlap

(* Overlapping does not depend on the order.                               *)
LEMMA ApartBothWays ==
  ASSUME NEW rows, NEW others, ApartFrom(rows, others)
  PROVE  ApartFrom(others, rows)
  BY DEF ApartFrom, Overlap

(* Steps that store nothing and open no finalisation keep the invariant.   *)
LEMMA Keeps ==
  ASSUME CostsInv, calculations' = calculations, Finalizing' \subseteq Finalizing,
         \A k \in Finalizing' : costing'[k] = costing[k]
  PROVE  StoredApart' /\ OpenApart' /\ LocksApart'
<1>1. \A s \in Shipment : Charged(s)' = Charged(s)
  BY DEF Charged, Latest
<1>2. \A k \in Finalizing' : Rows(k)' = Rows(k) /\ costing'[k].shipment = costing[k].shipment
  BY DEF Rows
<1>3. StoredApart'
  BY <1>1 DEF CostsInv, StoredApart, Apart, ApartFrom
<1>4. OpenApart'
  BY <1>1, <1>2 DEF CostsInv, OpenApart, Apart, ApartFrom
<1>5. LocksApart'
  BY <1>2 DEF CostsInv, LocksApart
<1> QED
  BY <1>3, <1>4, <1>5

(* A finalisation that begins was checked against what is stored, and gets *)
(* its locks only if no other one holds them.                              *)
LEMMA BeginKeeps ==
  ASSUME CostsInv, NEW k \in Clerk, BeginFinalize(k)
  PROVE  StoredApart' /\ OpenApart' /\ LocksApart'
<1> DEFINE s == costing[k].shipment
<1>1. /\ calculations' = calculations
      /\ costing' = [costing EXCEPT ![k].op = "FINALIZE"]
      /\ ShipmentFree(s) /\ BatchesFree(Rows(k)) /\ Chargeable(s, Rows(k))
      /\ costing[k].op = "REVIEWED"
  BY DEF BeginFinalize
<1>2. costing \in [Clerk -> CostingForm] /\ s \in Shipment
  BY <1>1, CostingFormTyped DEF CostsInv, CostsTypeOK
<1>3. \A t \in Shipment : Charged(t)' = Charged(t)
  BY <1>1 DEF Charged, Latest
<1>4. \A j \in Clerk : j # k => costing'[j] = costing[j]
  BY <1>1, <1>2
<1>5. costing'[k] = [costing[k] EXCEPT !.op = "FINALIZE"]
  BY <1>1, <1>2
<1>6. costing'[k].shipment = s /\ costing'[k].reviewed = costing[k].reviewed
  <2>1. costing[k] = [op |-> costing[k].op, id |-> costing[k].id,
                      shipment |-> costing[k].shipment, reviewed |-> costing[k].reviewed]
    BY <1>1, CostingFormTyped DEF CostsInv
  <2> QED
    BY <1>5, <2>1
<1>7. \A j \in Clerk : Rows(j)' = Rows(j) /\ costing'[j].shipment = costing[j].shipment
  BY <1>4, <1>6 DEF Rows
<1>8. \A j \in Finalizing' : j = k \/ j \in Finalizing
  BY <1>4 DEF Finalizing
<1>9. Apart(Rows(k)) /\ \A t \in Shipment \ {s} : ApartFrom(Rows(k), Charged(t))
  BY <1>1 DEF Chargeable, AssignedRanges, ApartFrom
<1>10. StoredApart'
  BY <1>3 DEF CostsInv, StoredApart, Apart, ApartFrom
<1>11. OpenApart'
  <2> SUFFICES ASSUME NEW j \in Finalizing'
               PROVE  /\ Apart(Rows(j))
                      /\ \A t \in Shipment \ {costing[j].shipment} : ApartFrom(Rows(j), Charged(t))
    BY <1>3, <1>7 DEF OpenApart, Finalizing
  <2>1. CASE j = k
    BY <2>1, <1>9
  <2>2. CASE j \in Finalizing
    BY <2>2 DEF CostsInv, OpenApart
  <2> QED
    BY <1>8, <2>1, <2>2
<1>12. \A j \in Finalizing : costing[j].shipment # s /\ Batches(Rows(j)) \cap Batches(Rows(k)) = {}
  BY <1>1 DEF ShipmentFree, BatchesFree
<1>13. LocksApart'
  <2> SUFFICES ASSUME NEW i \in Finalizing', NEW j \in Finalizing', i # j
               PROVE  /\ costing[i].shipment # costing[j].shipment
                      /\ Batches(Rows(i)) \cap Batches(Rows(j)) = {}
    BY <1>7 DEF LocksApart, Finalizing
  <2>1. CASE i = k /\ j \in Finalizing
    BY <2>1, <1>12
  <2>2. CASE j = k /\ i \in Finalizing
    BY <2>2, <1>12
  <2>3. CASE i \in Finalizing /\ j \in Finalizing
    BY <2>3 DEF CostsInv, LocksApart
  <2> QED
    BY <1>8, <2>1, <2>2, <2>3
<1> QED
  BY <1>10, <1>11, <1>13

(* What is stored then is as far apart as it was when it was checked.      *)
LEMMA CommitKeeps ==
  ASSUME CostsInv, NEW k \in Clerk, CommitFinalize(k)
  PROVE  StoredApart' /\ OpenApart' /\ LocksApart'
<1>0. costing[k].shipment \in Shipment /\ costing[k].reviewed \in Review
      /\ costing[k].id \in CalculationId
  BY CostingFormTyped DEF CommitFinalize, CostsInv
<1> PICK s \in Shipment, c \in Calculation :
      s = costing[k].shipment /\ c = [id |-> costing[k].id, source |-> costing[k].reviewed]
  BY <1>0 DEF Calculation
<1>1. /\ calculations' = [calculations EXCEPT ![s] = Append(calculations[s], c)]
      /\ costing' = [costing EXCEPT ![k].op = "REVIEWED"]
      /\ k \in Finalizing
  BY DEF CommitFinalize, Finalizing
<1>2. /\ costing \in [Clerk -> CostingForm]
      /\ calculations \in [Shipment -> Seq(Calculation)]
  BY DEF CostsInv, CostsTypeOK
<1>3. c.source.choice.rows = Rows(k)
  BY DEF Rows
<1>4. \A t \in Shipment \ {s} : Charged(t)' = Charged(t)
  BY <1>1, <1>2 DEF Charged, Latest
<1>5. Charged(s)' = Rows(k)
  <2>1. calculations'[s] = Append(calculations[s], c) /\ calculations[s] \in Seq(Calculation)
    BY <1>1, <1>2
  <2>2. Len(calculations'[s]) = Len(calculations[s]) + 1 /\ Len(calculations[s]) \in Nat
    BY <2>1
  <2>3. calculations'[s][Len(calculations[s]) + 1] = c
    BY <2>1
  <2>4. calculations'[s] # <<>>
    BY <2>2
  <2> QED
    BY <1>3, <2>2, <2>3, <2>4 DEF Charged, Latest
<1>6. \A j \in Clerk : j # k => costing'[j] = costing[j]
  BY <1>1, <1>2
<1>7. costing'[k].op = "REVIEWED"
  <2>1. costing[k] = [op |-> costing[k].op, id |-> costing[k].id,
                      shipment |-> costing[k].shipment, reviewed |-> costing[k].reviewed]
    BY <1>1, CostingFormTyped DEF CostsInv, Finalizing
  <2> QED
    BY <1>1, <1>2, <2>1
<1>8. \A j \in Finalizing' :
        /\ j \in Finalizing /\ j # k
        /\ Rows(j)' = Rows(j) /\ costing'[j].shipment = costing[j].shipment
  BY <1>6, <1>7 DEF Finalizing, Rows
<1>9. Apart(Rows(k)) /\ \A t \in Shipment \ {s} : ApartFrom(Rows(k), Charged(t))
  BY <1>1 DEF CostsInv, OpenApart
<1>10. \A t \in Shipment \ {s} : ApartFrom(Charged(t), Rows(k))
  BY <1>9, ApartBothWays
<1>11. StoredApart'
  <2> SUFFICES ASSUME NEW t \in Shipment
               PROVE  /\ Apart(Charged(t)')
                      /\ \A u \in Shipment \ {t} : ApartFrom(Charged(t)', Charged(u)')
    BY DEF StoredApart, Apart, ApartFrom
  <2>1. CASE t = s
    BY <2>1, <1>4, <1>5, <1>9 DEF CostsInv, StoredApart
  <2>2. CASE t # s
    BY <2>2, <1>4, <1>5, <1>10 DEF CostsInv, StoredApart
  <2> QED
    BY <2>1, <2>2
<1>12. OpenApart'
  <2> SUFFICES ASSUME NEW j \in Finalizing'
               PROVE  /\ Apart(Rows(j))
                      /\ \A t \in Shipment \ {costing[j].shipment} : ApartFrom(Rows(j), Charged(t)')
    BY <1>8 DEF OpenApart, Apart, ApartFrom
  <2>1. j \in Finalizing /\ j # k
    BY <1>8
  <2>2. Batches(Rows(j)) \cap Batches(Rows(k)) = {}
    BY <2>1, <1>1 DEF CostsInv, LocksApart
  <2>3. ApartFrom(Rows(j), Rows(k))
    BY <2>2, OtherBatches
  <2>4. ASSUME NEW t \in Shipment \ {costing[j].shipment} PROVE ApartFrom(Rows(j), Charged(t)')
    <3>1. CASE t = s
      BY <3>1, <2>3, <1>5
    <3>2. CASE t # s
      BY <3>2, <1>4, <2>1 DEF CostsInv, OpenApart
    <3> QED
      BY <3>1, <3>2
  <2> QED
    BY <2>1, <2>4 DEF CostsInv, OpenApart
<1>13. LocksApart'
  BY <1>8 DEF CostsInv, LocksApart
<1> QED
  BY <1>11, <1>12, <1>13

(* The invariant holds at first.                                           *)
LEMMA CostsInvInit ==
  ASSUME CostsInit
  PROVE  CostsInv
<1>1. \A s \in Shipment : Charged(s) = {}
  BY DEF CostsInit, Charged
<1>2. Finalizing = {}
  BY DEF CostsInit, Finalizing, Idle
<1> QED
  BY <1>1, <1>2, CostsTypeInit
     DEF CostsInv, StoredApart, OpenApart, LocksApart, Apart, ApartFrom

(* Every step keeps it.                                                    *)
LEMMA CostsInvStep ==
  ASSUME CostsInv, [CostsNext]_costVars
  PROVE  CostsInv'
<1>1. CostsTypeOK'
  BY CostsTypeStep DEF CostsInv
<1>2. ASSUME calculations' = calculations, costing' = costing
      PROVE  StoredApart' /\ OpenApart' /\ LocksApart'
  BY <1>2, Keeps DEF Finalizing
<1>3. ASSUME NEW k \in Clerk, calculations' = calculations, NEW slip, slip.op # "FINALIZE",
             costing' = [costing EXCEPT ![k] = slip]
      PROVE  StoredApart' /\ OpenApart' /\ LocksApart'
  <2>1. costing \in [Clerk -> CostingForm]
    BY DEF CostsInv, CostsTypeOK
  <2>2. \A j \in Clerk : costing'[j] = IF j = k THEN slip ELSE costing[j]
    BY <1>3, <2>1
  <2>3. \A j \in Finalizing' : j \in Finalizing /\ costing'[j] = costing[j]
    BY <1>3, <2>2 DEF Finalizing
  <2> QED
    BY <1>3, <2>3, Keeps
<1>4. ASSUME NEW k \in Clerk, NEW s \in Shipment, NEW choice \in Choice, Preview(k, s, choice)
      PROVE  StoredApart' /\ OpenApart' /\ LocksApart'
  BY <1>3, <1>4 DEF Preview
<1>5. ASSUME NEW k \in Clerk, RollBack(k) PROVE StoredApart' /\ OpenApart' /\ LocksApart'
  <2> DEFINE slip == [costing[k] EXCEPT !.op = "REVIEWED"]
  <2>1. costing[k] = [op |-> costing[k].op, id |-> costing[k].id,
                      shipment |-> costing[k].shipment, reviewed |-> costing[k].reviewed]
    BY <1>5, CostingFormTyped DEF CostsInv, RollBack
  <2>2. slip.op # "FINALIZE"
    BY <2>1
  <2>3. calculations' = calculations /\ costing' = [costing EXCEPT ![k] = slip]
    BY <1>5 DEF RollBack
  <2> HIDE DEF slip
  <2> QED
    BY <2>2, <2>3, <1>3
<1>6. ASSUME NEW k \in Clerk, CloseForm(k) PROVE StoredApart' /\ OpenApart' /\ LocksApart'
  BY <1>3, <1>6 DEF CloseForm, Idle
<1> QED
  BY <1>1, <1>2, <1>4, <1>5, <1>6, BeginKeeps, CommitKeeps
     DEF CostsInv, CostsNext, costVars, SaveSettings, RecordCosts, RefundPurchase

(* Whatever is previewed, finalised and revised at once, a unit that was   *)
(* bought is charged by one row of one shipment (assignedRanges and the    *)
(* locks of finalize), for any number of shipments and purchase lines.     *)
THEOREM ChargedOnce == CostsSpec => []UnitsChargedOnce
<1>1. CostsInv => UnitsChargedOnce
  BY DEF CostsInv, StoredApart, UnitsChargedOnce, AssignedRanges, ApartFrom
<1> QED
  BY <1>1, CostsInvInit, CostsInvStep, PTL DEF CostsSpec
------------------------------------------------------------------------------
(* What is being finalised was reviewed with what is in force.             *)
ReviewsInForce ==
  \A k \in Finalizing :
    /\ costing[k].reviewed.settings = settings
    /\ costing[k].reviewed.recorded = recorded[costing[k].shipment]

(* The locks on the shipment and on the settings keep it so.               *)
LEMMA InForceStep ==
  ASSUME CostsTypeOK, ReviewsInForce, [CostsNext]_costVars
  PROVE  ReviewsInForce'
<1>1. ASSUME NEW vat \in BOOLEAN, SaveSettings(vat) PROVE ReviewsInForce'
  BY <1>1 DEF SaveSettings, SettingsFree, Finalizing, ReviewsInForce
<1>2. ASSUME NEW s \in Shipment, NEW costs \in Costs, RecordCosts(s, costs) PROVE ReviewsInForce'
  <2> SUFFICES ASSUME NEW k \in Finalizing'
               PROVE  /\ costing[k].reviewed.settings = settings
                      /\ costing[k].reviewed.recorded = recorded'[costing[k].shipment]
    BY <1>2 DEF RecordCosts, ReviewsInForce
  <2>1. k \in Finalizing /\ costing[k].shipment # s
    BY <1>2 DEF RecordCosts, Finalizing, ShipmentFree
  <2>2. recorded'[costing[k].shipment] = recorded[costing[k].shipment]
    BY <1>2, <2>1, CostingFormTyped DEF RecordCosts, CostsTypeOK, Finalizing
  <2> QED
    BY <2>1, <2>2 DEF ReviewsInForce
<1>3. ASSUME NEW k \in Clerk, BeginFinalize(k) PROVE ReviewsInForce'
  <2>1. costing[k].reviewed = Source(costing[k].shipment, costing[k].reviewed.choice)
    BY <1>3 DEF BeginFinalize
  <2>2. /\ costing[k].reviewed.settings = settings
        /\ costing[k].reviewed.recorded = recorded[costing[k].shipment]
    BY <2>1 DEF Source
  <2>3. costing[k] = [op |-> costing[k].op, id |-> costing[k].id,
                      shipment |-> costing[k].shipment, reviewed |-> costing[k].reviewed]
    BY <1>3, CostingFormTyped DEF BeginFinalize
  <2>4. \A j \in Clerk : /\ costing'[j].reviewed = costing[j].reviewed
                         /\ costing'[j].shipment = costing[j].shipment
                         /\ j # k => costing'[j] = costing[j]
    BY <1>3, <2>3 DEF BeginFinalize, CostsTypeOK
  <2> QED
    BY <1>3, <2>2, <2>4 DEF BeginFinalize, ReviewsInForce, Finalizing
<1>4. ASSUME NEW k \in Clerk, NEW slip, slip.op # "FINALIZE", costing' = [costing EXCEPT ![k] = slip],
             settings' = settings, recorded' = recorded
      PROVE  ReviewsInForce'
  <2>1. \A j \in Clerk : costing'[j] = IF j = k THEN slip ELSE costing[j]
    BY <1>4 DEF CostsTypeOK
  <2> QED
    BY <1>4, <2>1 DEF ReviewsInForce, Finalizing
<1>5. ASSUME NEW k \in Clerk, NEW s \in Shipment, NEW choice \in Choice, Preview(k, s, choice)
      PROVE  ReviewsInForce'
  BY <1>4, <1>5 DEF Preview
<1>6. ASSUME NEW k \in Clerk, CommitFinalize(k) \/ RollBack(k) PROVE ReviewsInForce'
  <2> DEFINE slip == [costing[k] EXCEPT !.op = "REVIEWED"]
  <2>1. costing[k] = [op |-> costing[k].op, id |-> costing[k].id,
                      shipment |-> costing[k].shipment, reviewed |-> costing[k].reviewed]
    BY <1>6, CostingFormTyped DEF CommitFinalize, RollBack
  <2>2. slip.op # "FINALIZE"
    BY <2>1
  <2>3. costing' = [costing EXCEPT ![k] = slip] /\ settings' = settings /\ recorded' = recorded
    BY <1>6 DEF CommitFinalize, RollBack
  <2> HIDE DEF slip
  <2> QED
    BY <2>2, <2>3, <1>4
<1>7. ASSUME NEW k \in Clerk, CloseForm(k) PROVE ReviewsInForce'
  BY <1>4, <1>7 DEF CloseForm, Idle
<1>8. ASSUME UNCHANGED <<settings, recorded, costing>> PROVE ReviewsInForce'
  BY <1>8 DEF ReviewsInForce, Finalizing
<1> QED
  BY <1>1, <1>2, <1>3, <1>5, <1>6, <1>7, <1>8 DEF CostsNext, costVars, RefundPurchase

(* A calculation is stored while the policy and the costs it was reviewed  *)
(* with are in force (the locks of finalize).                              *)
THEOREM StoredInForce == CostsSpec => CostsInForce
<1>1. CostsInit => ReviewsInForce
  <2>1. CostsInit => Finalizing = {}
    BY DEF CostsInit, Finalizing, Idle
  <2> QED
    BY <2>1 DEF ReviewsInForce
<1>2. ASSUME CostsTypeOK, ReviewsInForce, [CostsNext]_costVars, NEW s \in Shipment,
             calculations'[s] # calculations[s]
      PROVE  Latest(s)'.settings = settings /\ Latest(s)'.recorded = recorded[s]
  <2>1. PICK k \in Clerk : CommitFinalize(k)
    BY <1>2 DEF CostsNext, costVars, SaveSettings, RecordCosts, RefundPurchase, Preview,
                BeginFinalize, RollBack, CloseForm
  <2>2. PICK c : c = [id |-> costing[k].id, source |-> costing[k].reviewed]
    OBVIOUS
  <2>3. /\ costing[k].shipment \in Shipment
        /\ k \in Finalizing
        /\ calculations' = [calculations EXCEPT ![costing[k].shipment] =
                              Append(calculations[costing[k].shipment], c)]
        /\ c \in Calculation
    BY <2>1, <2>2, <1>2, CostingFormTyped DEF CommitFinalize, Finalizing, Calculation
  <2>4. s = costing[k].shipment
    BY <2>3, <1>2 DEF CostsTypeOK
  <2>5. calculations'[s] = Append(calculations[s], c) /\ calculations[s] \in Seq(Calculation)
    BY <2>3, <2>4, <1>2 DEF CostsTypeOK
  <2>6. Len(calculations'[s]) = Len(calculations[s]) + 1
    BY <2>5
  <2>7. calculations'[s][Len(calculations[s]) + 1] = c
    BY <2>3, <2>5
  <2>8. Latest(s)' = costing[k].reviewed
    BY <2>2, <2>6, <2>7 DEF Latest
  <2> QED
    BY <1>2, <2>3, <2>4, <2>8 DEF ReviewsInForce
<1>3. CostsTypeOK /\ ReviewsInForce /\ [CostsNext]_costVars
        => [\A s \in Shipment : calculations'[s] # calculations[s] =>
              Latest(s)'.settings = settings /\ Latest(s)'.recorded = recorded[s]]_costVars
  BY <1>2
<1> QED
  BY <1>1, <1>3, CostsTypeInit, CostsTypeStep, InForceStep, PTL DEF CostsSpec, CostsInForce
------------------------------------------------------------------------------
(* What is stored, and what is about to be, was checked to have a basis to *)
(* allocate its costs on and no cost that is unknown.                      *)
Sound(source) == Apart(source.choice.rows) /\ Allocatable(source) /\ ~Blocked(source)

StoredSound ==
  \A s \in Shipment : \A n \in DOMAIN calculations[s] : Sound(calculations[s][n].source)

OpenSound ==
  \A k \in Clerk :
    /\ costing[k].op # "IDLE" => Allocatable(costing[k].reviewed)
    /\ costing[k].op = "FINALIZE" => ~Blocked(costing[k].reviewed)

(* The checks of a preview and of a finalisation keep it so.               *)
LEMMA SoundStep ==
  ASSUME CostsInv, StoredSound, OpenSound, [CostsNext]_costVars
  PROVE  StoredSound' /\ OpenSound'
<1>0. costing \in [Clerk -> CostingForm] /\ calculations \in [Shipment -> Seq(Calculation)]
  BY DEF CostsInv, CostsTypeOK
<1>1. ASSUME NEW k \in Clerk, NEW slip,
             slip.op # "IDLE" => Allocatable(slip.reviewed),
             slip.op = "FINALIZE" => ~Blocked(slip.reviewed),
             costing' = [costing EXCEPT ![k] = slip]
      PROVE  OpenSound'
  <2>1. \A j \in Clerk : costing'[j] = IF j = k THEN slip ELSE costing[j]
    BY <1>0, <1>1
  <2> QED
    BY <1>1, <2>1 DEF OpenSound
<1>2. ASSUME calculations' = calculations PROVE StoredSound'
  BY <1>2 DEF StoredSound
<1>3. ASSUME costing' = costing PROVE OpenSound'
  BY <1>3 DEF OpenSound
<1>4. ASSUME NEW k \in Clerk, costing[k].op # "IDLE", NEW op \in {"REVIEWED", "FINALIZE"},
             op = "FINALIZE" => ~Blocked(costing[k].reviewed),
             costing' = [costing EXCEPT ![k].op = op]
      PROVE  OpenSound'
  <2> DEFINE slip == [costing[k] EXCEPT !.op = op]
  <2>1. costing[k] = [op |-> costing[k].op, id |-> costing[k].id,
                      shipment |-> costing[k].shipment, reviewed |-> costing[k].reviewed]
    BY <1>4, CostingFormTyped DEF CostsInv
  <2>2. slip.op = op /\ slip.reviewed = costing[k].reviewed
    BY <2>1
  <2>3. costing' = [costing EXCEPT ![k] = slip]
    BY <1>4
  <2> HIDE DEF slip
  <2> QED
    BY <1>1, <1>4, <2>2, <2>3 DEF OpenSound
<1>5. ASSUME NEW k \in Clerk, NEW s \in Shipment, NEW choice \in Choice, Preview(k, s, choice)
      PROVE  OpenSound'
  <2>1. PICK id : costing' = [costing EXCEPT ![k] = [op |-> "REVIEWED", id |-> id, shipment |-> s,
                                                     reviewed |-> Source(s, choice)]]
    BY <1>5 DEF Preview
  <2>2. Allocatable(Source(s, choice))
    BY <1>5 DEF Preview
  <2> QED
    BY <1>1, <2>1, <2>2
<1>6. ASSUME NEW k \in Clerk, BeginFinalize(k) PROVE OpenSound'
  BY <1>4, <1>6 DEF BeginFinalize
<1>7. ASSUME NEW k \in Clerk, CommitFinalize(k) \/ RollBack(k) PROVE OpenSound'
  BY <1>4, <1>7 DEF CommitFinalize, RollBack
<1>8. ASSUME NEW k \in Clerk, CloseForm(k) PROVE OpenSound'
  BY <1>1, <1>8 DEF CloseForm, Idle
<1>9. ASSUME NEW k \in Clerk, CommitFinalize(k) PROVE StoredSound'
  <2>0. /\ costing[k].shipment \in Shipment /\ costing[k].reviewed \in Review
        /\ costing[k].id \in CalculationId /\ k \in Finalizing
    BY <1>9, CostingFormTyped DEF CommitFinalize, CostsInv, Finalizing
  <2> PICK s \in Shipment, c \in Calculation :
        s = costing[k].shipment /\ c = [id |-> costing[k].id, source |-> costing[k].reviewed]
    BY <2>0 DEF Calculation
  <2>1. calculations' = [calculations EXCEPT ![s] = Append(calculations[s], c)]
    BY <1>9 DEF CommitFinalize
  <2>2. Sound(c.source)
    <3>1. c.source = costing[k].reviewed
      OBVIOUS
    <3>2. Apart(Rows(k)) /\ Rows(k) = costing[k].reviewed.choice.rows
      BY <2>0 DEF CostsInv, OpenApart, Rows
    <3>3. Allocatable(costing[k].reviewed) /\ ~Blocked(costing[k].reviewed)
      BY <1>9 DEF OpenSound, CommitFinalize
    <3> QED
      BY <3>1, <3>2, <3>3 DEF Sound
  <2>3. ASSUME NEW t \in Shipment, NEW n \in DOMAIN calculations'[t]
        PROVE  Sound(calculations'[t][n].source)
    <3>1. CASE t # s
      BY <1>0, <2>1, <3>1 DEF StoredSound
    <3>2. CASE t = s
      <4>1. calculations'[s] = Append(calculations[s], c) /\ calculations[s] \in Seq(Calculation)
        BY <1>0, <2>1
      <4>2. n \in 1..(Len(calculations[s]) + 1)
        BY <3>2, <4>1
      <4>3. CASE n = Len(calculations[s]) + 1
        BY <2>2, <3>2, <4>1, <4>3
      <4>4. CASE n \in 1..Len(calculations[s])
        BY <3>2, <4>1, <4>4 DEF StoredSound
      <4> QED
        BY <4>1, <4>2, <4>3, <4>4
    <3> QED
      BY <3>1, <3>2
  <2> QED
    BY <2>3 DEF StoredSound
<1> QED
  BY <1>2, <1>3, <1>5, <1>6, <1>7, <1>8, <1>9
     DEF CostsNext, costVars, SaveSettings, RecordCosts, RefundPurchase, Preview, BeginFinalize,
         RollBack, CloseForm

(* A price in the currency of the shop is a number.                        *)
LEMMA Converted ==
  ASSUME NEW amount \in Nat, NEW rate, rate[1] \in Nat \ {0}, rate[2] \in Nat \ {0}
  PROVE  ConvertMinor(amount, rate) \in Nat
<1>1. amount * rate[1] \in Nat /\ rate[2] \div 2 \in Nat
  OBVIOUS
<1>2. amount * rate[1] + (rate[2] \div 2) \in Nat
  BY <1>1
<1> QED
  BY <1>2, DivisionFacts DEF ConvertMinor, RoundRatio

(* What a run of units is charged is a number.                             *)
LEMMA SliceIsNat ==
  ASSUME NEW total \in Nat, NEW units \in Nat \ {0}, NEW offset \in Nat, NEW quantity \in Nat
  PROVE  UnitSlice(total, units, offset, quantity) \in Nat
<1> DEFINE each == total \div units
           rest == total % units
           bears == Lesser(offset + quantity, rest) - Lesser(offset, rest)
<1>1. each \in Nat /\ rest \in Nat
  BY DivisionFacts
<1>2. UnitSlice(total, units, offset, quantity)
        = each * quantity + Lesser(offset + quantity, rest) - Lesser(offset, rest)
  BY DEF UnitSlice
<1> HIDE DEF each, rest
<1>3. bears \in Nat
  BY <1>1, RunBears
<1>4. each * quantity \in Nat
  BY <1>1
<1>5. Lesser(offset + quantity, rest) \in Int /\ Lesser(offset, rest) \in Int
  BY <1>1 DEF Lesser
<1> QED
  BY <1>2, <1>3, <1>4, <1>5

(* A row that may be chosen.                                               *)
LEMMA RowFacts ==
  ASSUME NEW choice \in Choice, NEW r \in choice.rows
  PROVE  /\ r \in Row /\ r.batch \in Batch /\ r.batch \in Nat
         /\ r.offset \in Nat /\ r.quantity \in Nat \ {0}
         /\ r.offset + r.quantity <= Line[r.batch].quantity
         /\ Line[r.batch].quantity \in Nat \ {0} /\ Line[r.batch].price \in Nat
         /\ Line[r.batch].weight \in Nat
         /\ choice.rate[1] \in Nat \ {0} /\ choice.rate[2] \in Nat \ {0}
<1>1. r \in Row /\ choice.rate[1] \in Nat \ {0} /\ choice.rate[2] \in Nat \ {0}
  BY CostsAssumption
<1>2. r.batch \in Batch /\ r.offset \in Nat /\ r.quantity \in Nat \ {0}
      /\ r.offset + r.quantity <= Line[r.batch].quantity
  BY <1>1 DEF Row
<1> QED
  BY <1>1, <1>2, CostsAssumption

(* The weights that a cost is allocated by.                                *)
LEMMA WeightsTyped ==
  ASSUME NEW choice \in Choice
  PROVE  Weights(choice) \in [choice.rows -> Nat]
<1> SUFFICES ASSUME NEW r \in choice.rows
             PROVE  (CASE choice.method = "BY_QUANTITY" -> r.quantity
                       [] choice.method = "BY_WEIGHT" -> Line[r.batch].weight * r.quantity
                       [] choice.method = "BY_ITEM_VALUE" -> PriceOf(r, choice.rate)) \in Nat
  BY DEF Weights
<1>1. choice.method \in Method
  BY CostsAssumption
<1>2. r.quantity \in Nat /\ Line[r.batch].weight * r.quantity \in Nat
  BY RowFacts
<1>3. PriceOf(r, choice.rate) \in Nat
  BY RowFacts, Converted, SliceIsNat DEF PriceOf
<1> QED
  BY <1>1, <1>2, <1>3 DEF Method

(* The shares of a stored calculation add up.                              *)
LEMMA SharesAddUp ==
  ASSUME NEW source \in Review, Sound(source), NEW component \in Included(source.settings)
  PROVE  Total(Calculated(source).shares[component]) = source.recorded[component]
<1> DEFINE choice == source.choice
           cost == source.recorded[component]
           none == [r \in choice.rows |-> 0]
<1>1. choice \in Choice /\ component \in Component /\ source.recorded \in [Component -> Nat \cup {Unknown}]
  BY DEF Review, Included
<1>2. cost \in Nat
  BY <1>1 DEF Sound, Blocked
<1>3. Calculated(source).shares[component] =
        IF cost = 0 THEN none ELSE AllocateMinor(cost, Weights(choice))
  BY DEF Calculated
<1>4. IsFiniteSet(choice.rows)
  BY <1>1, CostsAssumption
<1>5. CASE cost = 0
  <2>1. DOMAIN none = choice.rows /\ \A r \in choice.rows : none[r] \in Nat /\ none[r] = 0 * none[r]
    OBVIOUS
  <2> HIDE DEF none
  <2>2. Total(none) = Count(none, choice.rows)
    BY <2>1, TotalCount
  <2>3. Count(none, choice.rows) = 0 * Count(none, choice.rows) /\ Count(none, choice.rows) \in Nat
    <3>1. Multiple(none, 0, none, choice.rows)
      BY <1>4, <2>1 DEF Multiple
    <3> QED
      BY <1>4, <2>1, <3>1, CountScaled, CountNat
  <2> QED
    BY <1>3, <1>5, <2>2, <2>3
<1>6. CASE cost # 0
  <2>1. Total(Weights(choice)) > 0
    BY <1>2, <1>6 DEF Sound, Allocatable
  <2>2. \A r \in choice.rows : r.batch \in Nat /\ r.offset \in Nat /\ r.quantity \in Nat \ {0}
    BY <1>1, RowFacts
  <2>3. \A r, q \in choice.rows : r # q => r.batch # q.batch \/ r.offset # q.offset
    BY <2>2 DEF Sound, Apart, Overlap
  <2>4. Weights(choice) \in [choice.rows -> Nat]
    BY <1>1, WeightsTyped
  <2> HIDE DEF choice, cost
  <2>5. Total(AllocateMinor(cost, Weights(choice))) = cost
    BY <1>2, <1>4, <2>1, <2>2, <2>3, <2>4, AllocateAddsUp
  <2> QED
    BY <1>3, <1>6, <2>5 DEF cost
<1> QED
  BY <1>5, <1>6

(* What is charged was chosen.                                             *)
LEMMA ChargedChosen ==
  ASSUME CostsTypeOK, NEW s \in Shipment, NEW r \in Charged(s)
  PROVE  /\ Latest(s) \in Review /\ Latest(s).choice \in Choice
         /\ r \in Latest(s).choice.rows
<1>1. calculations[s] # <<>> /\ r \in Latest(s).choice.rows
  BY DEF Charged
<1>2. calculations[s] \in Seq(Calculation)
  BY DEF CostsTypeOK
<1>3. Len(calculations[s]) \in DOMAIN calculations[s]
  BY <1>1, <1>2
<1>4. calculations[s][Len(calculations[s])] \in Calculation
  BY <1>2, <1>3
<1> QED
  BY <1>1, <1>4 DEF Latest, Calculation, Review

(* What charges are made of, and that they are apart.                      *)
LEMMA ChargeFacts ==
  ASSUME CostsInv, NEW batches \in SUBSET Batch, NEW rate, NEW c \in Charges(batches, rate)
  PROVE  /\ c[1] \in Shipment /\ c[2].batch \in batches
         /\ Latest(c[1]).choice.rate = rate /\ c[2] \in Latest(c[1]).choice.rows
         /\ c[2].offset \in Nat /\ c[2].quantity \in Nat \ {0}
         /\ c[2].offset + c[2].quantity <= Line[c[2].batch].quantity
<1>1. c[1] \in Shipment /\ c[2] \in Charged(c[1]) /\ c[2].batch \in batches
      /\ Latest(c[1]).choice.rate = rate
  BY DEF Charges
<1>2. Latest(c[1]).choice \in Choice /\ c[2] \in Latest(c[1]).choice.rows
  BY <1>1, ChargedChosen DEF CostsInv
<1> QED
  BY <1>1, <1>2, RowFacts

LEMMA ChargesApart ==
  ASSUME CostsInv, NEW batches \in SUBSET Batch, NEW rate,
         NEW c \in Charges(batches, rate), NEW d \in Charges(batches, rate), c # d
  PROVE  ~Overlap(c[2], d[2])
<1>1. ASSUME NEW e \in Charges(batches, rate)
      PROVE  e[1] \in Shipment /\ e[2] \in Charged(e[1]) /\ e = <<e[1], e[2]>>
  BY DEF Charges
<1>2. CASE c[1] = d[1]
  BY <1>1, <1>2 DEF CostsInv, StoredApart, Apart
<1>3. CASE c[1] # d[1]
  BY <1>1, <1>3 DEF CostsInv, StoredApart, ApartFrom
<1> QED
  BY <1>2, <1>3

LEMMA RateTyped ==
  ASSUME NEW rate \in {c.rate : c \in Choice}, NEW amount \in Nat
  PROVE  ConvertMinor(amount, rate) \in Nat
<1>1. rate[1] \in Nat \ {0} /\ rate[2] \in Nat \ {0}
  BY CostsAssumption
<1> QED
  BY <1>1, Converted

(* The prices that a purchase line is charged at one rate add up.          *)
LEMMA PricesAddUp ==
  ASSUME CostsInv, NEW b \in Batch, NEW rate \in {c.rate : c \in Choice},
         UnitsIn(Charges({b}, rate)) = Line[b].quantity
  PROVE  Total([c \in Charges({b}, rate) |-> Calculated(Latest(c[1])).price[c[2]]])
           = ConvertMinor(Line[b].price, rate)
<1> DEFINE P == Charges({b}, rate)
           units == Line[b].quantity
           total == ConvertMinor(Line[b].price, rate)
           offset == [c \in P |-> c[2].offset]
           quantity == [c \in P |-> c[2].quantity]
           price == [c \in P |-> Calculated(Latest(c[1])).price[c[2]]]
<1>1. units \in Nat \ {0} /\ total \in Nat
  BY CostsAssumption, RateTyped
<1>2. ASSUME NEW c \in P
      PROVE  /\ offset[c] \in Nat /\ quantity[c] \in Nat \ {0} /\ offset[c] + quantity[c] <= units
             /\ price[c] = UnitSlice(total, units, offset[c], quantity[c])
  <2>1. /\ c[1] \in Shipment /\ c[2].batch = b
        /\ Latest(c[1]).choice.rate = rate /\ c[2] \in Latest(c[1]).choice.rows
        /\ c[2].offset \in Nat /\ c[2].quantity \in Nat \ {0}
        /\ c[2].offset + c[2].quantity <= units
    BY ChargeFacts
  <2>2. Calculated(Latest(c[1])).price[c[2]] = PriceOf(c[2], rate)
    BY <2>1 DEF Calculated
  <2>3. PriceOf(c[2], rate) = UnitSlice(total, units, c[2].offset, c[2].quantity)
    BY <2>1 DEF PriceOf
  <2> QED
    BY <2>1, <2>2, <2>3
<1>3. ASSUME NEW c \in P, NEW d \in P, c # d
      PROVE  offset[c] + quantity[c] <= offset[d] \/ offset[d] + quantity[d] <= offset[c]
  <2>1. ~Overlap(c[2], d[2])
    BY <1>3, ChargesApart
  <2>2. c[2].batch = d[2].batch
    BY ChargeFacts
  <2>3. offset[c] \in Nat /\ quantity[c] \in Nat /\ offset[d] \in Nat /\ quantity[d] \in Nat
    BY <1>2
  <2>4. /\ offset[c] = c[2].offset /\ quantity[c] = c[2].quantity
        /\ offset[d] = d[2].offset /\ quantity[d] = d[2].quantity
    OBVIOUS
  <2> HIDE DEF offset, quantity
  <2> QED
    BY <2>1, <2>2, <2>3, <2>4 DEF Overlap
<1>4. DOMAIN quantity = P /\ DOMAIN price = P /\ Total(quantity) = units
  BY DEF UnitsIn
<1> HIDE DEF P, units, total, offset, quantity, price
<1>5. Count(quantity, P) = units
  BY <1>4, TotalCount
<1>6. Count(price, P) = total
  <2>1. Sliced(total, units, P, offset, quantity, price)
    BY <1>1, <1>2, <1>3 DEF Sliced
  <2> QED
    BY <2>1, <1>5, SlicesCover
<1>7. Total(price) = total
  BY <1>4, <1>6, TotalCount
<1> QED
  BY <1>7 DEF P, total, price

(* The units of the lines of a purchase are one run, line after line.      *)
LEMMA LinesInOrder ==
  ASSUME NEW b \in Batch
  PROVE  LET p == Line[b].purchase
         IN /\ Preceding(b) \in Nat /\ UnitsOf(p) \in Nat
            /\ Preceding(b) + Line[b].quantity <= UnitsOf(p)
            /\ \A d \in LinesOf(p) : b < d => Preceding(b) + Line[b].quantity <= Preceding(d)
<1> DEFINE p == Line[b].purchase
           q == [c \in Batch |-> Line[c].quantity]
           Before(d) == {c \in LinesOf(p) : c < d}
<1>1. ASSUME NEW S \in SUBSET Batch
      PROVE  Total([c \in S |-> Line[c].quantity]) = Count(q, S)
  <2>1. [c \in S |-> Line[c].quantity] = [c \in S |-> q[c]]
    OBVIOUS
  <2> QED
    BY <2>1, TotalOn, Zenon
<1>2. \A c \in Batch : q[c] = Line[c].quantity /\ q[c] \in Nat /\ c \in Nat
  BY CostsAssumption
<1>3. LinesOf(p) \in SUBSET Batch /\ b \in LinesOf(p) /\ b \in Nat
  BY <1>2 DEF LinesOf
<1>4. \A d \in LinesOf(p) : Preceding(d) = Count(q, Before(d)) /\ Before(d) \in SUBSET LinesOf(p)
  <2> SUFFICES ASSUME NEW d \in LinesOf(p) PROVE Preceding(d) = Count(q, Before(d))
    OBVIOUS
  <2>1. Line[d].purchase = p
    BY DEF LinesOf
  <2>2. Before(d) \in SUBSET Batch
    BY <1>3
  <2> QED
    BY <1>1, <2>1, <2>2 DEF Preceding
<1>5. UnitsOf(p) = Count(q, LinesOf(p))
  BY <1>1, <1>3 DEF UnitsOf
<1>6. Before(b) \cup {b} \subseteq LinesOf(p) /\ b \notin Before(b)
  BY <1>3
<1>7. \A d \in LinesOf(p) : b < d => Before(b) \cup {b} \subseteq Before(d)
  <2> SUFFICES ASSUME NEW d \in LinesOf(p), b < d, NEW c \in Before(b) \cup {b} PROVE c \in Before(d)
    OBVIOUS
  <2>1. c \in LinesOf(p) /\ c \in Nat /\ d \in Nat /\ (c < b \/ c = b)
    BY <1>2, <1>3
  <2> QED
    BY <1>3, <2>1
<1>8. IsFiniteSet(LinesOf(p)) /\ \A c \in LinesOf(p) : q[c] \in Nat
  BY <1>2, <1>3, FS_Subset, CostsAssumption
<1> HIDE DEF q, Before, p
<1>9. Before(b) \in SUBSET LinesOf(p) /\ b \in LinesOf(p) \ Before(b)
  BY <1>6
<1>10. Count(q, Before(b) \cup {b}) = Count(q, Before(b)) + q[b] /\ Count(q, Before(b)) \in Nat
  BY <1>8, <1>9, CountMore
<1>11. Count(q, Before(b) \cup {b}) <= Count(q, LinesOf(p))
  BY <1>6, <1>8, CountGrows
<1>12. ASSUME NEW d \in LinesOf(p), b < d
       PROVE  Count(q, Before(b) \cup {b}) <= Count(q, Before(d))
  <2>1. IsFiniteSet(Before(d)) /\ \A c \in Before(d) : q[c] \in Nat
    BY <1>4, <1>8, FS_Subset
  <2>2. Before(b) \cup {b} \subseteq Before(d)
    BY <1>7, <1>12
  <2> QED
    BY <2>1, <2>2, CountGrows
<1>13. Count(q, LinesOf(p)) \in Nat
  BY <1>8, CountNat
<1>14. /\ Preceding(b) = Count(q, Before(b)) /\ Preceding(b) \in Nat
       /\ Preceding(b) + Line[b].quantity = Count(q, Before(b) \cup {b})
  BY <1>2, <1>3, <1>4, <1>10
<1>15. Preceding(b) + Line[b].quantity <= UnitsOf(p) /\ UnitsOf(p) \in Nat
  BY <1>5, <1>11, <1>13, <1>14
<1>16. ASSUME NEW d \in LinesOf(p), b < d
       PROVE  Preceding(b) + Line[b].quantity <= Preceding(d)
  <2>1. Count(q, Before(b) \cup {b}) <= Count(q, Before(d)) /\ Preceding(d) = Count(q, Before(d))
    BY <1>4, <1>12, <1>16
  <2> QED
    BY <1>14, <2>1
<1> QED
  BY <1>14, <1>15, <1>16 DEF p

(* The fees that a purchase is charged at one rate add up.                 *)
LEMMA FeesAddUp ==
  ASSUME CostsInv, NEW p \in {Line[b].purchase : b \in Batch},
         NEW rate \in {c.rate : c \in Choice},
         UnitsIn(Charges(LinesOf(p), rate)) = UnitsOf(p)
  PROVE  Total([c \in Charges(LinesOf(p), rate) |-> Calculated(Latest(c[1])).fees[c[2]]])
           = ConvertMinor(Fees[p], rate)
<1> DEFINE P == Charges(LinesOf(p), rate)
           units == UnitsOf(p)
           total == ConvertMinor(Fees[p], rate)
           offset == [c \in P |-> Preceding(c[2].batch) + c[2].offset]
           quantity == [c \in P |-> c[2].quantity]
           fees == [c \in P |-> Calculated(Latest(c[1])).fees[c[2]]]
<1>0. LinesOf(p) \in SUBSET Batch /\ \A b \in LinesOf(p) : Line[b].purchase = p
  BY DEF LinesOf
<1>1. units \in Nat \ {0} /\ total \in Nat
  <2>1. PICK b \in Batch : Line[b].purchase = p
    OBVIOUS
  <2>2. Line[b].quantity \in Nat \ {0} /\ Fees[p] \in Nat
    BY <2>1, CostsAssumption
  <2>3. Preceding(b) \in Nat /\ UnitsOf(p) \in Nat /\ Preceding(b) + Line[b].quantity <= UnitsOf(p)
    BY <2>1, LinesInOrder
  <2> QED
    BY <2>2, <2>3, RateTyped
<1>2. ASSUME NEW c \in P
      PROVE  /\ c[1] \in Shipment /\ c[2].batch \in LinesOf(p)
             /\ Latest(c[1]).choice.rate = rate /\ c[2] \in Latest(c[1]).choice.rows
             /\ c[2].offset \in Nat /\ c[2].quantity \in Nat \ {0}
             /\ c[2].offset + c[2].quantity <= Line[c[2].batch].quantity
             /\ Line[c[2].batch].quantity \in Nat
             /\ Preceding(c[2].batch) \in Nat
             /\ Preceding(c[2].batch) + Line[c[2].batch].quantity <= units
             /\ offset[c] = Preceding(c[2].batch) + c[2].offset /\ quantity[c] = c[2].quantity
  <2>1. /\ c[1] \in Shipment /\ c[2].batch \in LinesOf(p)
        /\ Latest(c[1]).choice.rate = rate /\ c[2] \in Latest(c[1]).choice.rows
        /\ c[2].offset \in Nat /\ c[2].quantity \in Nat \ {0}
        /\ c[2].offset + c[2].quantity <= Line[c[2].batch].quantity
    BY <1>0, ChargeFacts
  <2>2. c[2].batch \in Batch /\ Line[c[2].batch].purchase = p
    BY <1>0, <2>1
  <2>3. Line[c[2].batch].quantity \in Nat
    BY <2>2, CostsAssumption
  <2>4. /\ Preceding(c[2].batch) \in Nat
        /\ Preceding(c[2].batch) + Line[c[2].batch].quantity <= units
    BY <2>2, LinesInOrder
  <2> QED
    BY <2>1, <2>3, <2>4
<1>3. ASSUME NEW c \in P
      PROVE  /\ offset[c] \in Nat /\ quantity[c] \in Nat \ {0} /\ offset[c] + quantity[c] <= units
             /\ fees[c] = UnitSlice(total, units, offset[c], quantity[c])
  <2>1. fees[c] = FeesOf(c[2], rate)
    BY <1>2 DEF Calculated
  <2>2. Line[c[2].batch].purchase = p
    BY <1>0, <1>2
  <2>3. FeesOf(c[2], rate) = UnitSlice(total, units, offset[c], quantity[c])
    BY <1>2, <2>2 DEF FeesOf
  <2>4. units \in Nat
    BY <1>1
  <2> HIDE DEF P, units, total, offset, quantity, fees
  <2> QED
    BY <1>2, <2>1, <2>3, <2>4
<1>4. ASSUME NEW c \in P, NEW d \in P, c # d
      PROVE  offset[c] + quantity[c] <= offset[d] \/ offset[d] + quantity[d] <= offset[c]
  <2>1. ~Overlap(c[2], d[2])
    BY <1>0, <1>4, ChargesApart
  <2>2. /\ c[2].batch \in Nat /\ c[2].batch \in Batch /\ Line[c[2].batch].purchase = p
        /\ d[2].batch \in Nat /\ d[2].batch \in Batch /\ Line[d[2].batch].purchase = p
    BY <1>0, <1>2, CostsAssumption
  <2>3. c[2].batch < d[2].batch =>
          Preceding(c[2].batch) + Line[c[2].batch].quantity <= Preceding(d[2].batch)
    BY <1>2, <2>2, LinesInOrder
  <2>4. d[2].batch < c[2].batch =>
          Preceding(d[2].batch) + Line[d[2].batch].quantity <= Preceding(c[2].batch)
    BY <1>2, <2>2, LinesInOrder
  <2> HIDE DEF P, offset, quantity
  <2>5. CASE c[2].batch = d[2].batch
    BY <1>2, <2>1, <2>5 DEF Overlap
  <2>6. CASE c[2].batch < d[2].batch
    BY <1>2, <2>3, <2>6
  <2>7. CASE d[2].batch < c[2].batch
    BY <1>2, <2>4, <2>7
  <2> QED
    BY <2>2, <2>5, <2>6, <2>7
<1>5. DOMAIN quantity = P /\ DOMAIN fees = P /\ Total(quantity) = units
  BY DEF UnitsIn
<1> HIDE DEF P, units, total, offset, quantity, fees
<1>6. Count(quantity, P) = units
  BY <1>5, TotalCount
<1>7. Count(fees, P) = total
  <2>1. Sliced(total, units, P, offset, quantity, fees)
    BY <1>1, <1>3, <1>4 DEF Sliced
  <2> QED
    BY <2>1, <1>6, SlicesCover
<1>8. Total(fees) = total
  BY <1>5, <1>7, TotalCount
<1> QED
  BY <1>8 DEF P, total, fees

(* No minor unit is lost or made: the shares of a recorded cost add up to  *)
(* it; a purchase line all of whose units are charged at one rate is       *)
(* charged its price and a purchase its fees, over however many shipments  *)
(* and rows, whatever is previewed, finalised and revised at once          *)
(* (allocateMinor, unitSlice, calculate, finalize).                        *)
THEOREM NothingLostOrMade == CostsSpec => []ChargesAddUp
<1>1. CostsInit => StoredSound /\ OpenSound
  BY DEF CostsInit, StoredSound, OpenSound, Idle
<1>2. ASSUME CostsInv, StoredSound PROVE ChargesAddUp
  <2>1. ASSUME NEW s \in Shipment, NEW n \in DOMAIN calculations[s]
        PROVE  LET source == calculations[s][n].source
                   shares == Calculated(source).shares
               IN \A component \in DOMAIN shares :
                    Total(shares[component]) = source.recorded[component]
    <3> DEFINE source == calculations[s][n].source
    <3>1. source \in Review /\ Sound(source)
      <4>1. calculations[s] \in Seq(Calculation)
        BY <1>2 DEF CostsInv, CostsTypeOK
      <4>2. calculations[s][n] \in Calculation
        BY <4>1
      <4> QED
        BY <1>2, <4>2 DEF StoredSound, Calculation
    <3> HIDE DEF source
    <3>2. DOMAIN Calculated(source).shares = Included(source.settings)
      BY DEF Calculated
    <3>3. \A component \in DOMAIN Calculated(source).shares :
            Total(Calculated(source).shares[component]) = source.recorded[component]
      BY <3>1, <3>2, SharesAddUp
    <3> QED
      BY <3>3 DEF source
  <2> QED
    BY <1>2, <2>1, PricesAddUp, FeesAddUp DEF ChargesAddUp
<1> QED
  BY <1>1, <1>2, CostsInvInit, CostsInvStep, SoundStep, PTL DEF CostsSpec
==============================================================================
