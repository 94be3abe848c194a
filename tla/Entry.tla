-------------------------------- MODULE Entry --------------------------------
(***************************************************************************)
(* The three pages on which staff enter several new items at once: the     *)
(* grid (components/admin/bulk-item-editor.tsx over                        *)
(* catalog/bulk-entry.ts), the assisted import of a page of a maker        *)
(* (assisted-importer.tsx over assisted-import) and the CSV import         *)
(* (csv-import.tsx over catalog-csv).  Each looks for items the catalogue  *)
(* may have already, shows them, and lets the administrator decide.        *)
(*                                                                         *)
(* A page keeps its rows in the browser; a request carries what they were  *)
(* when it was sent, and the grid may be edited before its answer.  What   *)
(* others do to the catalogue in the meantime is Elsewhere.                *)
(*                                                                         *)
(* A row is told apart by what detectDuplicates compares: rows and items   *)
(* that share a JAN, a name or their attributes have the same design.      *)
(*                                                                         *)
(* The transaction that creates rows locks their lineup, checks the rows   *)
(* and then creates them, in two steps: it reads what is committed, and    *)
(* the lock keeps others from entering items of that lineup only.  JANs,   *)
(* sources and images are compared with every lineup, and categories and   *)
(* sources change without the lock; such designs are Wide.                 *)
(***************************************************************************)
EXTENDS FiniteSets, Functions

CONSTANTS
  Design,       \* what the signals of detectDuplicates tell apart
  Wide,         \* designs that may enter the catalogue beside a lock
  RowKey,       \* keys of rows of the grid: MAX_ROWS of them
  Candidate     \* ids given to what an extraction or a CSV file has

ASSUME WideAssumption == Wide \subseteq Design

VARIABLES
  page,         \* the page that is open
  known,        \* the designs of the catalogue
  imported,     \* the candidates that became items
  saving        \* the transaction that has checked its rows

entryVars == <<page, known, imported, saving>>

(* BLANK: a new row, which prepare drops.  INVALID: refused by             *)
(* bulkRowSchema or by inspectBatch.                                       *)
Content == Design \cup {"BLANK", "INVALID"}
Sheet == UNION {[S -> Content] : S \in SUBSET RowKey}
Extracted == UNION {[S -> Design \cup {"INVALID"}] : S \in SUBSET Candidate}

Closed == [kind |-> "CLOSED"]
NotSent == [kind |-> "NONE", rows |-> <<>>, acknowledge |-> FALSE, agreed |-> <<>>]

(* agreed: the rows as they were when the box was ticked, which is what    *)
(* the administrator confirmed; sent: the request that has no answer yet;  *)
(* making: the rows that wait for a new character or an image.             *)
NewGrid(k) ==
  [kind |-> "GRID", rows |-> [j \in {k} |-> "BLANK"], ticked |-> FALSE, agreed |-> <<>>,
   shown |-> FALSE, sent |-> NotSent, making |-> {}]

NoReview == [rows |-> <<>>, found |-> {}]

(* found: what the check found; awaited: the page waits for the answer.    *)
Idle == [kind |-> "NONE", rows |-> <<>>, found |-> {}, awaited |-> FALSE]
Saving(kind, rows, found) ==
  [kind |-> kind, rows |-> rows, found |-> found, awaited |-> TRUE]

EntryTypeOK ==
  /\ known \subseteq Design
  /\ imported \subseteq Candidate
  /\ saving.rows \in Sheet \cup Extracted
  /\ saving.awaited => saving.kind = page.kind
  /\ \/ page = Closed
     \/ /\ page.kind = "GRID"
        /\ page.rows \in Sheet /\ page.rows # <<>>
        /\ {page.ticked, page.shown} \subseteq BOOLEAN
        /\ page.sent.kind \in {"NONE", "CHECK", "SAVE"} /\ page.sent.rows \in Sheet
        /\ page.making \subseteq RowKey
     \/ /\ page.kind = "IMPORT"
        /\ page.rows \in Extracted
        /\ page.selected \subseteq DOMAIN page.rows
        /\ page.review.rows \in Extracted
     \/ /\ page.kind = "CSV"
        /\ page.rows \in Extracted
        /\ page.selected \cup page.picked \cup page.left \cup page.late \subseteq DOMAIN page.rows

EntryInit ==
  /\ page = Closed
  /\ known \in SUBSET Design
  /\ imported = {}
  /\ saving = Idle
------------------------------------------------------------------------------
(* detectDuplicates: rows that look like an item of the catalogue, and     *)
(* rows that look like another row.                                        *)
Warnings(rows) ==
  LET valid == {k \in DOMAIN rows : rows[k] \in Design}
  IN {<<k, "CATALOGUE">> : k \in {j \in valid : rows[j] \in known}}
       \cup {<<k, "BATCH">> : k \in {j \in valid : \E i \in valid \ {j} : rows[i] = rows[j]}}

Invalid(rows) == \E k \in DOMAIN rows : rows[k] = "INVALID"

Add(rows) == known' = known \cup {rows[k] : k \in DOMAIN rows}

(* Mutant of MayEnter: the lineup is not locked.                           *)
MayAlwaysEnter(d) == TRUE

(* Entering an item of a lineup waits while the row of the lineup is       *)
(* locked (FOR UPDATE).                                                    *)
MayEnter(d) == saving = Idle \/ d \in Wide
------------------------------------------------------------------------------
(***************************************************************************)
(* The grid.                                                               *)
(***************************************************************************)
OpenGrid ==
  /\ page = Closed
  /\ \E k \in RowKey : page' = NewGrid(k)
  /\ UNCHANGED <<known, imported, saving>>

OnGrid == page.kind = "GRID" /\ UNCHANGED <<known, imported, saving>>

(* touch: whatever was confirmed is not confirmed any more.                *)
Touched == [page EXCEPT !.ticked = FALSE, !.agreed = <<>>]

(* update, of any field; fields stay open while a request is on its way.   *)
EditRow ==
  /\ OnGrid
  /\ \E k \in DOMAIN page.rows, c \in Content : page' = [Touched EXCEPT !.rows[k] = c]

(* addRow, duplicateRow and duplicatePrevious: a copy has no name.         *)
AddRow ==
  /\ OnGrid
  /\ IF RowKey \subseteq DOMAIN page.rows THEN page' = Touched
     ELSE \E k \in RowKey \ DOMAIN page.rows, c \in {"BLANK", "INVALID"} :
            page' = [Touched EXCEPT !.rows = [j \in DOMAIN @ \cup {k} |-> IF j = k THEN c ELSE @[j]]]

RemoveRow ==
  /\ OnGrid
  /\ Cardinality(DOMAIN page.rows) > 1
  /\ \E k \in DOMAIN page.rows :
       page' = [Touched EXCEPT !.rows = Restrict(@, DOMAIN @ \ {k})]

(* createCharacter and uploadImage name the row by its key; any number of  *)
(* them may be on their way.                                               *)
BeginMaking ==
  /\ OnGrid
  /\ \E k \in DOMAIN page.rows \ page.making : page' = [page EXCEPT !.making = @ \cup {k}]

(* Mutant of Completed: the row changes behind the confirmation.           *)
CompletedQuietly(k, c) ==
  [page EXCEPT !.making = @ \ {k}, !.rows = [j \in DOMAIN @ |-> IF j = k THEN c ELSE @[j]]]

(* The row, if it is still there, has the character or the image.          *)
Completed(k, c) ==
  [Touched EXCEPT !.making = @ \ {k}, !.rows = [j \in DOMAIN @ |-> IF j = k THEN c ELSE @[j]]]

EndMaking ==
  /\ OnGrid
  /\ \E k \in page.making :
       \/ page' = [page EXCEPT !.making = @ \ {k}]
       \/ \E c \in Content \ {"BLANK"} : page' = Completed(k, c)

(* The box is there while warnings are.                                    *)
TickGrid ==
  /\ OnGrid
  /\ page.shown
  /\ page' = IF page.ticked THEN Touched
             ELSE [page EXCEPT !.ticked = TRUE,
                     !.agreed = Restrict(page.rows, {k \in DOMAIN page.rows : page.rows[k] # "BLANK"})]

(* check and save; prepare drops blank rows and stops when none is left.   *)
Send(kind) ==
  LET kept == Restrict(page.rows, {k \in DOMAIN page.rows : page.rows[k] # "BLANK"})
  IN /\ OnGrid
     /\ page.sent.kind = "NONE" /\ page.making = {}
     /\ kept # <<>>
     /\ page' = [page EXCEPT
          !.rows = kept,
          !.sent = [kind |-> kind, rows |-> kept, agreed |-> page.agreed,
                    acknowledge |-> kind = "SAVE" /\ page.ticked]]

(* Mutant of Refused: a batch is refused for its invalid rows only.        *)
RefusedInvalid(request) == Invalid(request.rows)

(* save, in the transaction that locks the lineup.                         *)
Refused(request) ==
  \/ Invalid(request.rows)
  \/ Warnings(request.rows) # {} /\ ~request.acknowledge

(* reviewBulkItems or a refusal: the warnings of this answer are shown, or *)
(* none when the lineup is not available or the rows could not be created. *)
Answer ==
  /\ page.kind = "GRID"
  /\ page.sent.kind # "NONE"
  /\ \/ /\ page.sent.kind = "SAVE" => saving = Idle /\ Refused(page.sent)
        /\ page' = [page EXCEPT !.shown = Warnings(page.sent.rows) # {}, !.sent = NotSent]
        /\ UNCHANGED saving
     \/ /\ page' = [page EXCEPT !.shown = FALSE, !.sent = NotSent]
        /\ saving' = IF saving.awaited THEN Idle ELSE saving
  /\ UNCHANGED <<known, imported>>

(* saveBulkItems: the lineup is locked and the rows pass.                  *)
CheckRows ==
  /\ page.kind = "GRID" /\ page.sent.kind = "SAVE"
  /\ saving = Idle
  /\ ~Refused(page.sent)
  /\ saving' = Saving("GRID", page.sent.rows, Warnings(page.sent.rows))
  /\ UNCHANGED <<page, known, imported>>

(* The rows are created, with the redirection of the page.                 *)
SaveRows ==
  /\ saving.kind = "GRID"
  /\ Add(saving.rows)
  /\ saving' = Idle
  /\ page' = IF saving.awaited THEN Closed ELSE page
  /\ UNCHANGED imported

(* A transaction fails after its check; one of the grid whose page waits   *)
(* ends with Answer.                                                       *)
Rollback ==
  /\ saving # Idle
  /\ saving.awaited => saving.kind = "IMPORT"
  /\ saving' = Idle
  /\ UNCHANGED <<page, known, imported>>

(* Cancel, a request of the grid that failed, and Change source or Choose  *)
(* another file of an import.  The transaction goes on.                    *)
Leave ==
  /\ page # Closed
  /\ page.kind = "CSV" => page.left = {}
  /\ page' = Closed
  /\ saving' = [saving EXCEPT !.awaited = FALSE]
  /\ UNCHANGED <<known, imported>>
------------------------------------------------------------------------------
(***************************************************************************)
(* The assisted import.  The page is disabled while a request runs, so     *)
(* that one step stands for a review and its answer.                       *)
(***************************************************************************)

(* Ids are drawn at random: none that was drawn before comes again.        *)
NewIds == Candidate \ (imported \cup IF saving.kind = "IMPORT" THEN DOMAIN saving.rows ELSE {})

(* extract: new ids, of which none is selected.                            *)
Extract ==
  /\ page = Closed
  /\ \E S \in (SUBSET NewIds) \ {{}} :
       \E rows \in [S -> Design \cup {"INVALID"}] :
         page' = [kind |-> "IMPORT", rows |-> rows, selected |-> {}, review |-> NoReview,
                  ticked |-> FALSE]
  /\ UNCHANGED <<known, imported, saving>>

OnImport ==
  /\ page.kind = "IMPORT" /\ ~saving.awaited
  /\ UNCHANGED <<known, imported, saving>>

Chosen == Restrict(page.rows, page.selected)

(* Mutant of Changed: what was validated is kept.                          *)
ChangedOnly(rows, selected) == [page EXCEPT !.rows = rows, !.selected = selected]

(* change and every selection drop the review, and its form with the box.  *)
Changed(rows, selected) ==
  [page EXCEPT !.rows = rows, !.selected = selected, !.review = NoReview, !.ticked = FALSE]

ChangeCandidate ==
  /\ OnImport
  /\ \E k \in DOMAIN page.rows, c \in Design \cup {"INVALID"} :
       page' = Changed([page.rows EXCEPT ![k] = c], page.selected)

Select ==
  /\ OnImport
  /\ \E S \in SUBSET DOMAIN page.rows : page' = Changed(page.rows, S)

(* review: a token for rows without issues.  The box keeps its tick when a *)
(* review with duplicates replaces another.                                *)
Validate ==
  LET found == Warnings(Chosen)
  IN /\ OnImport
     /\ page.selected # {}
     /\ IF Invalid(Chosen)
        THEN page' = Changed(page.rows, page.selected)
        ELSE page' = [page EXCEPT
               !.review = [rows |-> Chosen, found |-> found],
               !.ticked = @ /\ page.review.found # {} /\ found # {}]

TickImport ==
  /\ OnImport
  /\ page.review.found # {}
  /\ page' = [page EXCEPT !.ticked = ~@]

(* Mutant of SameFindings: the duplicates were confirmed once.             *)
AnyFindings(review) == TRUE

(* duplicateFingerprint (IMPORT_CHANGED).                                  *)
SameFindings(review) == Warnings(review.rows) = review.found

(* commit, once for a candidate: the lineup is locked and the rows pass.   *)
CheckChosen ==
  LET review == page.review
  IN /\ page.kind = "IMPORT"
     /\ saving = Idle
     /\ review.rows # <<>>
     /\ review.found # {} => page.ticked
     /\ DOMAIN review.rows \cap imported = {}
     /\ SameFindings(review)
     /\ saving' = Saving("IMPORT", review.rows, Warnings(review.rows))
     /\ UNCHANGED <<page, known, imported>>

(* The rows are created.                                                   *)
ImportChosen ==
  /\ saving.kind = "IMPORT"
  /\ Add(saving.rows)
  /\ imported' = imported \cup DOMAIN saving.rows
  /\ saving' = Idle
  /\ page' = IF saving.awaited THEN Closed ELSE page

(* The request was interrupted: the page is enabled again with its review, *)
(* which may be submitted again, while the transaction goes on.            *)
InterruptImport ==
  /\ page.kind = "IMPORT" /\ saving.awaited
  /\ saving' = [saving EXCEPT !.awaited = FALSE]
  /\ UNCHANGED <<page, known, imported>>
------------------------------------------------------------------------------
(***************************************************************************)
(* The CSV import.  Rows are created one by one, each under the id that    *)
(* its review gave it; the page stays when the answer is lost, while the   *)
(* request may still be at work.  Rows that update an item are in module   *)
(* Catalogue; a row that may not be created (createBlocked) is INVALID.    *)
(***************************************************************************)

(* preview: what rows look like; first: the first record of each design,   *)
(* later ones match an earlier record.                                     *)
CsvFound(rows, first) ==
  {k \in DOMAIN rows : rows[k] \in Design /\ (rows[k] \in known \/ k \notin first)}

Firsts(rows) ==
  {F \in SUBSET DOMAIN rows :
     \A d \in Design : (\E k \in DOMAIN rows : rows[k] = d) =>
       \E k \in F : rows[k] = d /\ \A j \in F \ {k} : rows[j] # d}

(* Mutant of Proposed: matches within the file do not count.               *)
ProposedAlone(rows, found) == {k \in DOMAIN rows : rows[k] \in Design \ known}

(* The decision a row starts with: create it when nothing was found.       *)
Proposed(rows, found) == {k \in DOMAIN rows : rows[k] \in Design} \ found

(* picked: rows for which "Create anyway" or "Create new" was chosen;      *)
(* left: rows of the awaited request; late: rows that requests whose       *)
(* answer was lost may still create; agreed: what was picked on            *)
(* submission.                                                             *)
PreviewCsv ==
  /\ page = Closed
  /\ \E S \in (SUBSET NewIds) \ {{}} :
       \E rows \in [S -> Design \cup {"INVALID"}] : \E first \in Firsts(rows) :
         LET found == CsvFound(rows, first)
         IN page' = [kind |-> "CSV", rows |-> rows, found |-> found,
                     selected |-> Proposed(rows, found), picked |-> {}, agreed |-> {},
                     left |-> {}, late |-> {}]
  /\ UNCHANGED <<known, imported, saving>>

OnCsv == page.kind = "CSV" /\ page.left = {}

Decide ==
  /\ OnCsv
  /\ \E k \in {j \in DOMAIN page.rows : page.rows[j] # "INVALID"} :
       page' = IF k \in page.selected
               THEN [page EXCEPT !.selected = @ \ {k}, !.picked = @ \ {k}]
               ELSE [page EXCEPT !.selected = @ \cup {k}, !.picked = @ \cup {k}]
  /\ UNCHANGED <<known, imported, saving>>

SubmitCsv ==
  /\ OnCsv
  /\ page.selected # {}
  /\ page' = [page EXCEPT !.left = page.selected, !.agreed = @ \cup page.picked]
  /\ UNCHANGED <<known, imported, saving>>

(* execute, one row: an id that exists is not created again, and rows may  *)
(* be refused.  With the last row the summary replaces the page.           *)
ExecuteCsvRow(k) ==
  /\ page.kind = "CSV"
  /\ \/ k \in page.left
        /\ page' = IF page.left = {k} THEN Closed ELSE [page EXCEPT !.left = @ \ {k}]
     \/ k \in page.late /\ page' = [page EXCEPT !.late = @ \ {k}]
  /\ \/ /\ k \notin imported
        /\ MayEnter(page.rows[k])
        /\ Add([j \in {k} |-> page.rows[k]])
        /\ imported' = imported \cup {k}
     \/ UNCHANGED <<known, imported>>
  /\ UNCHANGED saving

(* The response was interrupted.                                           *)
InterruptCsv ==
  /\ page.kind = "CSV" /\ page.left # {}
  /\ page' = [page EXCEPT !.left = {}, !.late = @ \cup page.left]
  /\ UNCHANGED <<known, imported, saving>>
------------------------------------------------------------------------------
Elsewhere ==
  /\ \E d \in Design :
       \/ MayEnter(d) /\ known' = known \cup {d}
       \/ known' = known \ {d}
  /\ UNCHANGED <<page, imported, saving>>

EntryNext ==
  \/ OpenGrid \/ EditRow \/ AddRow \/ RemoveRow \/ BeginMaking \/ EndMaking \/ TickGrid
  \/ \E kind \in {"CHECK", "SAVE"} : Send(kind)
  \/ Answer \/ CheckRows \/ SaveRows \/ Rollback \/ Leave
  \/ Extract \/ ChangeCandidate \/ Select \/ Validate \/ TickImport
  \/ CheckChosen \/ ImportChosen \/ InterruptImport
  \/ PreviewCsv \/ Decide \/ SubmitCsv \/ InterruptCsv
  \/ \E k \in Candidate : ExecuteCsvRow(k)
  \/ Elsewhere

EntrySpec == EntryInit /\ [][EntryNext]_entryVars
------------------------------------------------------------------------------
(* What looks like the catalogue or another row is created as it was       *)
(* confirmed: the grid passes possible duplicates only for exactly the     *)
(* rows that were on the page when the box was ticked, through edits under *)
(* way, characters and images that arrive late and rows that come and go;  *)
(* the import passes exactly the rows that are on the page, and only while *)
(* what they look like is what the page shows.  What is created after the  *)
(* check is what was passed, and looks like nothing else but an item that  *)
(* the lock of the lineup did not keep out: one of another lineup with the *)
(* same JAN, source or image, or one that got the category or the source   *)
(* since.  A row of a CSV file that its preview found is created only for  *)
(* a decision on that row, also when an interrupted request goes on (save, *)
(* touch, commit, execute).                                                *)
DuplicatesAreConfirmed ==
  [][/\ CheckRows /\ Warnings(page.sent.rows) # {} => page.sent.agreed = page.sent.rows
     /\ CheckChosen => /\ page.review.rows = Chosen
                       /\ Warnings(Chosen) = page.review.found
     /\ SaveRows \/ ImportChosen =>
          \A w \in Warnings(saving.rows) \ saving.found : saving.rows[w[1]] \in Wide
     /\ \A k \in imported' \ imported :
          ExecuteCsvRow(k) /\ k \in page.found => k \in page.agreed]_entryVars
==============================================================================
