------------------------------ MODULE MC_Office ------------------------------
(* An instance for TLC of the modules of the back office: each behaviour is  *)
(* one of the landed costs, of the catalogue or of the pages that write a    *)
(* record, which share no state.                                             *)
(*                                                                           *)
(* Two bounds of the instance.  A record starts with the good and the origin *)
(* listed first: what starts with the others is the same up to names.  Of    *)
(* the forms opened and the changes made, or of the requests sent and the    *)
(* changes made elsewhere, two may come while both clerks have a page open,  *)
(* the third while one has.                                                  *)
EXTENDS LandedCosts, Catalogue, Paperwork, TLC

VARIABLE part

R(b, o, q) == [batch |-> b, offset |-> o, quantity |-> q]
Selections ==
  {[rows |-> c[1], method |-> c[2], rate |-> <<2, 3>>] : c \in
     {<<{R(1, 0, 2)}, "BY_WEIGHT">>, <<{R(1, 0, 1), R(1, 1, 1)}, "BY_QUANTITY">>,
      <<{R(1, 2, 1), R(2, 0, 1)}, "BY_ITEM_VALUE">>}}
TwoLines ==
  [b \in {1, 2} |->
     CASE b = 1 -> [quantity |-> 3, item |-> "i", price |-> 6, weight |-> 1, purchase |-> "p"]
       [] b = 2 -> [quantity |-> 1, item |-> "i", price |-> 3, weight |-> 3, purchase |-> "p"]]
Fee == [p \in {"p"} |-> 3]
Two == [s \in Shipment |-> [i \in {"i"} |-> 2]]
Recorded == {[c \in Component |-> IF c = "VAT" THEN 2 ELSE 5]}
Stock == [o \in Origin |-> IF o = "o1" THEN {"g1"} ELSE {"g2"}]
OneImage == [i \in Stored |-> Image]

Symmetric ==
  UNION {Permutations(S) : S \in {Clerk, CalculationId, Text}}

AtFirstOrigin(content) ==
  content.rows \subseteq {"g1"} /\ content.origin \in {None, "o1"}

OneOpen(clerks) == Cardinality(clerks) <= 1

OfficeInit ==
  /\ part \in {"costs", "catalogue", "paper"}
  /\ CostsInit
  /\ CatalogueInit
  /\ PaperInit
  /\ part # "paper" => kind = "watch" /\ paper = Unmade
  /\ AtFirstOrigin(paper.content)
  /\ \A k \in Clerk : page[k] # Away => AtFirstOrigin(page[k].content)

OfficeNext ==
  \/ part = "costs" /\ CostsNext /\ UNCHANGED <<part, catalogueVars, paperVars>>
  \/ /\ part = "catalogue" /\ CatalogueNext
     /\ edits' > 2 => OneOpen({k \in Clerk : form'[k] # NoForm})
     /\ UNCHANGED <<part, costVars, paperVars>>
  \/ /\ part = "paper" /\ PaperNext
     /\ sent' + changes' > 2 => OneOpen({k \in Clerk : page'[k] # Away})
     /\ UNCHANGED <<part, costVars, catalogueVars>>

OfficeSpec == OfficeInit /\ [][OfficeNext]_<<part, costVars, catalogueVars, paperVars>>
==============================================================================
