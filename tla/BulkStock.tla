------------------------------ MODULE BulkStock ------------------------------
(***************************************************************************)
(* Bulk receipts, transfers and adjustments of stock: the review dialog in *)
(* the browser (bulk-review-dialog) and the execution of a reviewed batch  *)
(* (src/modules/bulk-management).                                          *)
(*                                                                         *)
(* A batch is not a transaction: its rows are moved one by one, each under *)
(* an operation key made of the nonce of the review and the item.  When    *)
(* the answer is lost the dialog stays, its rows can be edited and be      *)
(* submitted again, while the first request may still be at work.          *)
(*                                                                         *)
(* A review here selects every item.  Its expiry, which only refuses, the  *)
(* costs and notes of a movement and items that were deleted are left out, *)
(* and so are the bulk actions that write no stock (module Catalogue).     *)
(***************************************************************************)
EXTENDS Inventory

CONSTANTS
  Review,       \* nonces of reviews
  BulkAction,   \* "receive", "transfer" and "adjust", or some of them
  Defaults,     \* shared locations that are submitted: a source and a destination
  MaxTries      \* bound of the model on the submissions of a review

VARIABLES
  dialog,       \* the dialog of each review, in the browser
  request       \* the submissions of each review, on the server

bulkVars == <<inventoryVars, dialog, request>>

Try == 1..MaxTries

(* What a row says: signed for adjustments, 0 when it is not included.     *)
Amount == {0} \cup Quantity \cup {-q : q \in Quantity}

(* APPLIED and EXCLUDED are both reported as skipped.                      *)
Outcome == {"NONE", "UPDATED", "APPLIED", "EXCLUDED", "FAILED"}

Done == {"UPDATED", "APPLIED", "EXCLUDED"}

NoOutcome == [i \in Item |-> "NONE"]

(* waits: the submission whose answer is awaited, 0 for none; answer: what *)
(* the server has put into it; result: what the dialog shows.              *)
NoDialog ==
  [status |-> "NONE", action |-> "none", amount |-> [i \in Item |-> 0], result |-> NoOutcome,
   answer |-> NoOutcome, tries |-> 0, waits |-> 0]

(* left: the rows that were not reached yet.                               *)
NoRequest == [left |-> {}, amount |-> [i \in Item |-> 0], places |-> CHOOSE p \in Defaults : TRUE]

BulkKey(r, i) == <<"bulk", r, i>>
BulkKeys == {BulkKey(r, i) : r \in Review, i \in Item}

ASSUME BulkAssumption ==
  /\ BulkKeys \subseteq Key
  /\ Defaults # {} /\ Defaults \subseteq {p \in Location \X Location : p[1] # p[2]}
  /\ BulkAction \subseteq {"receive", "transfer", "adjust"}
  /\ MaxTries \in Nat \ {0}

BulkTypeOK ==
  /\ dialog \in [Review -> [status : {"NONE", "OPEN", "CLOSED"}, action : BulkAction \cup {"none"},
                            amount : [Item -> Amount], result : [Item -> Outcome],
                            answer : [Item -> Outcome], tries : 0..MaxTries, waits : 0..MaxTries]]
  /\ request \in [Review \X Try -> [left : SUBSET Item, amount : [Item -> Amount],
                                    places : Defaults]]
------------------------------------------------------------------------------
BulkInit ==
  /\ dialog = [r \in Review |-> NoDialog]
  /\ request = [t \in Review \X Try |-> NoRequest]

(* prepare: the token fixes the action and the items.                      *)
Prepare(r, action) ==
  /\ dialog[r].status = "NONE"
  /\ dialog' = [dialog EXCEPT ![r] = [NoDialog EXCEPT !.status = "OPEN", !.action = action]]
  /\ UNCHANGED <<inventoryVars, request>>

(* Mutant of Locked: a row may be edited until every row is done.          *)
LockedNever(d, i) == FALSE

(* A row that was answered is fixed unless it failed.                      *)
Locked(d, i) == d.result[i] \in Done

(* The fieldset is open while nothing is awaited and something can still   *)
(* be done.                                                                *)
Editable(d) ==
  /\ d.status = "OPEN" /\ d.waits = 0
  /\ d.result = NoOutcome \/ \E i \in Item : d.result[i] = "FAILED"

(* Submit of the dialog, with whatever was edited since the last one; rows *)
(* that are done are submitted as not included.                            *)
Submit(r) ==
  LET d == dialog[r]
      n == d.tries + 1
  IN /\ Editable(d)
     /\ n <= MaxTries
     /\ \E amount \in [Item -> Amount], places \in Defaults :
          /\ \A i \in Item : Locked(d, i) => amount[i] = d.amount[i]
          /\ d.action # "adjust" => \A i \in Item : amount[i] >= 0
          /\ dialog' = [dialog EXCEPT ![r] = [d EXCEPT !.amount = amount, !.tries = n, !.waits = n]]
          /\ request' = [request EXCEPT ![<<r, n>>] =
               [left |-> Item, places |-> places,
                amount |-> [i \in Item |-> IF Locked(d, i) THEN 0 ELSE amount[i]]]]
     /\ UNCHANGED inventoryVars
------------------------------------------------------------------------------
(* Where an amount goes: an adjustment by its sign.                        *)
RouteOf(action, amount, places) ==
  CASE action = "transfer" -> places
    [] action = "adjust" /\ amount < 0 -> <<places[2], NoLocation>>
    [] OTHER -> <<NoLocation, places[2]>>

Op(r, i, amount, places) ==
  [key |-> BulkKey(r, i), item |-> i, route |-> RouteOf(dialog[r].action, amount, places),
   quantity |-> IF amount < 0 THEN -amount ELSE amount]

(* Mutant of SameContent: whatever has the key counts as the same.         *)
SameKey(op) == \E m \in movement : m.key = op.key

(* The fingerprint of the movement under this key is that of the request.  *)
SameContent(op) == op \in movement

(* A row is reached: its outcome goes into the answer, if it is awaited.   *)
Report(r, n, i, outcome) ==
  /\ LET asked == request[<<r, n>>]
     IN request' = [request EXCEPT ![<<r, n>>] =
          IF asked.left = {i} THEN NoRequest ELSE [asked EXCEPT !.left = asked.left \ {i}]]
  /\ dialog' = IF dialog[r].waits = n THEN [dialog EXCEPT ![r].answer[i] = outcome] ELSE dialog

(* execute, one row.  Rows that are refused, a key that was used for other *)
(* content among them, are reported as failed, and so is a row whose       *)
(* commit was not confirmed.                                               *)
ExecuteRow(r, n, i) ==
  LET amount == request[<<r, n>>].amount[i]
      op == Op(r, i, amount, request[<<r, n>>].places)
  IN /\ i \in request[<<r, n>>].left
     /\ \/ amount = 0 /\ Report(r, n, i, "EXCLUDED") /\ UNCHANGED inventoryVars
        \/ /\ amount # 0
           /\ ApplyInventoryOperation(op)
           /\ \E outcome \in {"UPDATED", "FAILED"} : Report(r, n, i, outcome)
        \/ /\ amount # 0
           /\ SameContent(op)
           /\ Report(r, n, i, "APPLIED")
           /\ UNCHANGED inventoryVars
        \/ amount # 0 /\ Report(r, n, i, "FAILED") /\ UNCHANGED inventoryVars

(* The account is disabled: every row that is left is reported as failed.  *)
Revoke(r, n) ==
  /\ request[<<r, n>>].left # {}
  /\ request' = [request EXCEPT ![<<r, n>>] = NoRequest]
  /\ dialog' =
       IF dialog[r].waits = n
       THEN [dialog EXCEPT ![r].answer = [i \in Item |-> IF @[i] = "NONE" THEN "FAILED" ELSE @[i]]]
       ELSE dialog
  /\ UNCHANGED inventoryVars

(* The answer: what was done before is not forgotten.                      *)
ReceiveAnswer(r) ==
  LET d == dialog[r]
  IN /\ d.waits # 0
     /\ \A i \in Item : d.answer[i] # "NONE"
     /\ dialog' = [dialog EXCEPT ![r] =
          [d EXCEPT !.waits = 0, !.answer = NoOutcome,
                    !.result = [i \in Item |-> IF Locked(d, i) THEN @[i] ELSE d.answer[i]]]]
     /\ UNCHANGED <<inventoryVars, request>>

(* The connection is interrupted: the server may go on with the request or *)
(* have died, and an answer is lost.                                       *)
Interrupt(r) ==
  LET d == dialog[r]
  IN /\ d.waits # 0
     /\ dialog' = [dialog EXCEPT ![r] = [d EXCEPT !.waits = 0, !.answer = NoOutcome]]
     /\ \/ request' = request
        \/ request' = [request EXCEPT ![<<r, d.waits>>] = NoRequest]
     /\ UNCHANGED inventoryVars

CloseDialog(r) ==
  /\ dialog[r].status = "OPEN" /\ dialog[r].waits = 0
  /\ dialog' = [dialog EXCEPT ![r].status = "CLOSED"]
  /\ UNCHANGED <<inventoryVars, request>>

BulkNext ==
  \E r \in Review :
    \/ \E action \in BulkAction : Prepare(r, action)
    \/ Submit(r) \/ ReceiveAnswer(r) \/ Interrupt(r) \/ CloseDialog(r)
    \/ \E n \in Try : Revoke(r, n) \/ \E i \in Item : ExecuteRow(r, n, i)

BulkSpec == InventoryInit /\ BulkInit /\ [][BulkNext]_bulkVars
------------------------------------------------------------------------------
(* What the dialog reports as done is in the ledger, once, with the amount *)
(* that the row shows, whatever was edited between two submissions and     *)
(* however an abandoned request and its retry overlap (execute, the        *)
(* operation keys of a review, the merge of results).                      *)
BatchesAreBooked ==
  \A r \in Review, i \in Item :
    dialog[r].result[i] \in {"UPDATED", "APPLIED"} =>
      \E places \in Defaults :
        {m \in movement : m.key = BulkKey(r, i)} = {Op(r, i, dialog[r].amount[i], places)}
==============================================================================
