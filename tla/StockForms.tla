------------------------------ MODULE StockForms ------------------------------
(***************************************************************************)
(* The page on which staff record one inventory movement: the form in the  *)
(* browser (inventory-command-form), the server action behind it and the   *)
(* command it is parsed into (src/modules/inventory/commands.ts).          *)
(*                                                                         *)
(* The form keeps its operation key while its command is refused, edited   *)
(* and submitted again; a new operation takes a new key.  When the answer  *)
(* is lost the error boundary takes the form away: the page that comes     *)
(* back is empty and has the key the server last rendered, while the first *)
(* request may still be at work.                                           *)
(*                                                                         *)
(* Movement types that the code treats alike are one type here; costs,     *)
(* references and notes, which move no stock, are left out.                *)
(***************************************************************************)
EXTENDS BulkStock

CONSTANTS
  Form,         \* pages opened to record a movement
  FormKey,      \* keys drawn at random
  Offered,      \* locations the selects of the form offer
  MaxPosts      \* bound of the model on the commands of a form that are under way

ASSUME FormAssumption ==
  /\ FormKey \subseteq Key
  /\ Offered \subseteq Location
  /\ MaxPosts \in Nat \ {0}

VARIABLES
  form,         \* the page of each form, in the browser
  post,         \* its commands on the server that were not executed yet
  drawn         \* the keys drawn so far

formVars == <<form, post, drawn>>

(* SALE is DAMAGED and LOST too, OTHER is GIFT, GACHA and RETURN too.      *)
MovementType == {"PURCHASE", "SALE", "TRANSFER", "ADJUSTMENT", "OTHER"}

(* The fields of the form: both places are the same unless the movement is *)
(* a transfer, and the browser takes negative amounts for adjustments only.*)
Command ==
  {c \in [type : MovementType, direction : {"in", "out"},
          amount : Quantity \cup {-q : q \in Quantity}, place : Offered \X Offered] :
     /\ c.type # "ADJUSTMENT" => c.amount > 0
     /\ c.type # "OTHER" => c.direction = "out"
     /\ c.type = "TRANSFER" <=> c.place[1] # c.place[2]}

NoCommand ==
  [type |-> "NONE", direction |-> "out", amount |-> 0, place |-> <<NoLocation, NoLocation>>]

(* offered: the key the server rendered; key: the one the form uses.       *)
FormPage ==
  [status : {"NONE", "OPEN", "WAITS", "DONE"}, item : Item \cup {NoLocation},
   offered : FormKey \cup {NoLocation}, key : FormKey \cup {NoLocation},
   typed : Command \cup {NoCommand}, answer : {"NONE", "RECORDED", "REFUSED"}]

FormsTypeOK ==
  /\ form \in [Form -> FormPage]
  /\ post \in [Form -> SUBSET Operation]
  /\ drawn \subseteq FormKey
------------------------------------------------------------------------------
(* What the form says a command does: the select is called a destination   *)
(* or a source.                                                            *)
Incoming(c) ==
  \/ c.type = "PURCHASE"
  \/ c.type = "OTHER" /\ c.direction = "in"
  \/ c.type = "ADJUSTMENT" /\ c.amount > 0

Labelled(c) ==
  IF c.type = "TRANSFER" THEN c.place
  ELSE IF Incoming(c) THEN <<NoLocation, c.place[2]>> ELSE <<c.place[1], NoLocation>>

(* Mutant of Delta: the direction of a gift or a return is not looked at.  *)
DeltaUndirected(c) == IF c.type \in {"SALE", "OTHER"} THEN -c.amount ELSE c.amount

(* parseInventoryCommand: the signed change of what is owned.              *)
Delta(c) ==
  IF c.type = "SALE" \/ (c.type = "OTHER" /\ c.direction = "out") THEN -c.amount ELSE c.amount

Size(c) == IF c.amount < 0 THEN -c.amount ELSE c.amount

Parsed(key, i, c) ==
  [key |-> key, item |-> i, quantity |-> Size(c),
   route |-> CASE c.type = "TRANSFER" -> c.place
               [] Delta(c) < 0 -> <<c.place[1], NoLocation>>
               [] OTHER -> <<NoLocation, c.place[2]>>]

Fresh == CHOOSE k \in FormKey : k \notin drawn

FormsInit ==
  /\ form = [f \in Form |->
       [status |-> "NONE", item |-> NoLocation, offered |-> NoLocation, key |-> NoLocation,
        typed |-> NoCommand, answer |-> "NONE"]]
  /\ post = [f \in Form |-> {}]
  /\ drawn = {}

(* The page of an item is rendered, with a key of its own.                 *)
OpenForm(f, i) ==
  /\ form[f].status = "NONE"
  /\ drawn # FormKey
  /\ form' = [form EXCEPT ![f] = [@ EXCEPT !.status = "OPEN", !.item = i, !.offered = Fresh,
                                          !.key = Fresh]]
  /\ drawn' = drawn \cup {Fresh}
  /\ UNCHANGED <<bulkVars, post>>

(* Submit, with whatever was typed since the last answer.                  *)
SubmitForm(f, c) ==
  /\ form[f].status = "OPEN"
  /\ Cardinality(post[f]) < MaxPosts
  /\ form' = [form EXCEPT ![f] = [@ EXCEPT !.status = "WAITS", !.typed = c]]
  /\ post' = [post EXCEPT ![f] = @ \cup {Parsed(form[f].key, form[f].item, c)}]
  /\ UNCHANGED <<bulkVars, drawn>>

(* The form waits for this command.                                        *)
Awaits(f, op) ==
  form[f].status = "WAITS" /\ op = Parsed(form[f].key, form[f].item, form[f].typed)

Reply(f, op, answer) ==
  /\ post' = [post EXCEPT ![f] = @ \ {op}]
  /\ form' = IF Awaits(f, op) THEN [form EXCEPT ![f].answer = answer] ELSE form

(* recordInventory: the command is recorded, found recorded before, or     *)
(* refused; a commit that was not confirmed is answered as a refusal.      *)
RecordInventory(f, op) ==
  /\ op \in post[f]
  /\ \/ /\ ApplyInventoryOperation(op)
        /\ \E answer \in {"RECORDED", "REFUSED"} : Reply(f, op, answer)
     \/ /\ SameContent(op)
        /\ Reply(f, op, "RECORDED")
        /\ UNCHANGED inventoryVars
     \/ Reply(f, op, "REFUSED") /\ UNCHANGED inventoryVars
  /\ UNCHANGED <<dialog, request, drawn>>

(* A success renders the page again, with another key, which the form does *)
(* not take; after a refusal the form goes on with what was typed.         *)
ReceiveReply(f) ==
  LET p == form[f]
  IN /\ p.status = "WAITS" /\ p.answer # "NONE"
     /\ \/ /\ p.answer = "RECORDED" /\ drawn # FormKey
           /\ form' = [form EXCEPT ![f] = [p EXCEPT !.status = "DONE", !.answer = "NONE",
                                                    !.offered = Fresh]]
           /\ drawn' = drawn \cup {Fresh}
        \/ /\ p.answer = "REFUSED"
           /\ form' = [form EXCEPT ![f] = [p EXCEPT !.status = "OPEN", !.answer = "NONE"]]
           /\ drawn' = drawn
     /\ UNCHANGED <<bulkVars, post>>

(* Start new operation: an empty form under a key of its own.              *)
StartNew(f) ==
  /\ form[f].status = "DONE"
  /\ drawn # FormKey
  /\ form' = [form EXCEPT ![f] = [@ EXCEPT !.status = "OPEN", !.typed = NoCommand, !.key = Fresh]]
  /\ drawn' = drawn \cup {Fresh}
  /\ UNCHANGED <<bulkVars, post>>

(* The answer is lost, or the page is left and returned to: an empty form  *)
(* under the key that was rendered.  The server may go on with the command *)
(* or have died.                                                           *)
Remount(f) ==
  /\ form[f].status # "NONE"
  /\ form' = [form EXCEPT ![f] = [@ EXCEPT !.status = "OPEN", !.key = form[f].offered,
                                          !.typed = NoCommand, !.answer = "NONE"]]
  /\ post' = post \/ post' = [post EXCEPT ![f] = {}]
  /\ UNCHANGED <<bulkVars, drawn>>

FormsNext ==
  \E f \in Form :
    \/ \E i \in Item : OpenForm(f, i)
    \/ \E c \in Command : SubmitForm(f, c)
    \/ \E op \in post[f] : RecordInventory(f, op)
    \/ ReceiveReply(f) \/ StartNew(f) \/ Remount(f)

(* The pages together, and whatever else happens to stock meanwhile.       *)
PagesNext ==
  \/ BulkNext /\ UNCHANGED formVars
  \/ FormsNext
  \/ InventoryNext /\ UNCHANGED <<dialog, request, formVars>>

PagesSpec == InventoryInit /\ BulkInit /\ FormsInit /\ [][PagesNext]_<<bulkVars, formVars>>
------------------------------------------------------------------------------
(* What a form shows as recorded is in the ledger, once, with its item, its*)
(* amount and the places it was labelled with, however a command was       *)
(* edited after a refusal that was none, and however an abandoned request  *)
(* and the next one overlap (the key of the form, parseInventoryCommand).  *)
FormsAreBooked ==
  \A f \in Form : form[f].status = "DONE" =>
    {m \in movement : m.key = form[f].key} =
      {[key |-> form[f].key, item |-> form[f].item, quantity |-> Size(form[f].typed),
        route |-> Labelled(form[f].typed)]}

(* What staff are shown as moved is in the ledger as it was shown: the rows*)
(* of a batch (module BulkStock) and the form of one movement.             *)
ShownIsBooked == BatchesAreBooked /\ FormsAreBooked
==============================================================================
