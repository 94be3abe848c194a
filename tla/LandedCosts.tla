----------------------------- MODULE LandedCosts -----------------------------
(***************************************************************************)
(* Landed costs (src/modules/landed-costs): what the units of a dispatched *)
(* shipment cost, from the purchase lines they were bought on and from the *)
(* costs of the shipment.  Staff preview a calculation and finalise what   *)
(* they reviewed.  A calculation is never changed; a later one of the same *)
(* shipment replaces it.                                                   *)
(*                                                                         *)
(* Finalising locks the shipment, the purchase lines and the settings, but *)
(* not the purchases, before it reads them, and stores what it calculated  *)
(* later: it is two actions here, and the locks are what keeps the others  *)
(* out between them.                                                       *)
(*                                                                         *)
(* One currency rate and two of the seven costs of a shipment stand for    *)
(* all; shares that staff enter by hand (MANUAL), which are refused unless *)
(* they add up, are left out.  The settings exist from the start.          *)
(***************************************************************************)
EXTENDS Desk, Integers, Sequences, FiniteSets

CONSTANTS
  Shipment,      \* shipments that were dispatched
  Contents,      \* units of each item in a shipment
  Batch,         \* purchase lines that were received, numbered in their order
  Purchase,      \* purchases
  Line,          \* item, quantity, price, unit weight and purchase of a purchase line
  Fees,          \* charges on a purchase as a whole
  Choice,        \* rows, method and exchange rate that staff may choose
  Costs,         \* costs that staff may record for a shipment
  CalculationId, \* ids submitted with a calculation
  MaxPolicies    \* bound of the model on the changes of the settings

VARIABLES
  settings,      \* landed_cost_settings
  recorded,      \* recorded costs of a shipment
  refunded,      \* purchases with status REFUNDED
  calculations,  \* landed_cost_calculations of a shipment in order of revision
  costing        \* the form of a clerk

costVars == <<settings, recorded, refunded, calculations, costing>>

Component == {"FREIGHT", "VAT"}
Method == {"BY_QUANTITY", "BY_WEIGHT", "BY_ITEM_VALUE"}

Row ==
  {r \in [batch : Batch, offset : Nat, quantity : Nat \ {0}] :
     r.offset + r.quantity <= Line[r.batch].quantity}

Unknown == -1

ASSUME CostsAssumption ==
  /\ Batch \subseteq Nat /\ IsFiniteSet(Batch)
  /\ \A b \in Batch :
       /\ Line[b].quantity \in Nat \ {0} /\ Line[b].price \in Nat
       /\ Line[b].weight \in Nat \ {0} /\ Line[b].purchase \in Purchase
  /\ Fees \in [Purchase -> Nat]
  /\ Costs \subseteq [Component -> Nat \cup {Unknown}]
  /\ \A c \in Choice :
       /\ c.rows \subseteq Row /\ IsFiniteSet(c.rows) /\ c.method \in Method
       /\ c.rate[1] \in Nat \ {0} /\ c.rate[2] \in Nat \ {0}
  /\ None \notin CalculationId
  /\ MaxPolicies \in Nat

(* What the hash of a review is taken over: what a calculation follows     *)
(* from.  A row that was changed and changed back would have another time  *)
(* of update; it is accepted here.                                         *)
Review ==
  [choice : Choice, revision : Nat, settings : [vat : BOOLEAN, version : Nat],
   recorded : [Component -> Nat \cup {Unknown}]]

(* The amounts of a calculation follow from its source (Calculated).       *)
Calculation == [id : CalculationId, source : Review]

Idle == [op |-> "IDLE", id |-> None, shipment |-> None, reviewed |-> None]

CostingForm ==
  {Idle} \cup
  [op : {"REVIEWED", "FINALIZE"}, id : CalculationId, shipment : Shipment, reviewed : Review]

CostsTypeOK ==
  /\ settings \in [vat : BOOLEAN, version : Nat]
  /\ recorded \in [Shipment -> [Component -> Nat \cup {Unknown}]]
  /\ refunded \subseteq Purchase
  /\ calculations \in [Shipment -> Seq(Calculation)]
  /\ costing \in [Clerk -> CostingForm]
------------------------------------------------------------------------------
(***************************************************************************)
(* Arithmetic (math.ts).                                                   *)
(***************************************************************************)
RoundRatio(numerator, denominator) == (numerator + (denominator \div 2)) \div denominator

ConvertMinor(amount, rate) == RoundRatio(amount * rate[1], rate[2])

Lesser(a, b) == IF a < b THEN a ELSE b

(* Mutant of UnitSlice: the remainder is not looked for at the offset.     *)
UnitSliceFromStart(total, units, offset, quantity) ==
  (total \div units) * quantity + Lesser(quantity, total % units)

(* The first units bear one more each until the remainder is used up.      *)
UnitSlice(total, units, offset, quantity) ==
  (total \div units) * quantity
    + Lesser(offset + quantity, total % units) - Lesser(offset, total % units)

(* The sum of the numbers f has: how many units there are, if every x has  *)
(* f[x] of its own.                                                        *)
Total(f) == Cardinality(UNION {{x} \X (1..f[x]) : x \in DOMAIN f})

Precedes(r, q) == r.batch < q.batch \/ (r.batch = q.batch /\ r.offset < q.offset)

(* Largest remainder; a tie goes to the earlier row.                       *)
AllocateMinor(total, weight) ==
  LET sum == Total(weight)
      floor == [r \in DOMAIN weight |-> (total * weight[r]) \div sum]
      remainder == [r \in DOMAIN weight |-> (total * weight[r]) % sum]
      ahead(r) == {q \in DOMAIN weight : \/ remainder[q] > remainder[r]
                                         \/ remainder[q] = remainder[r] /\ Precedes(q, r)}
  IN [r \in DOMAIN weight |->
        floor[r] + (IF Cardinality(ahead(r)) < total - Total(floor) THEN 1 ELSE 0)]
------------------------------------------------------------------------------
Overlap(r, q) ==
  /\ r.batch = q.batch
  /\ r.offset < q.offset + q.quantity
  /\ q.offset < r.offset + r.quantity

Apart(rows) == \A r, q \in rows : r # q => ~Overlap(r, q)

(* The latest calculation of a shipment, and its rows.                     *)
Latest(s) == calculations[s][Len(calculations[s])].source
Charged(s) == IF calculations[s] = <<>> THEN {} ELSE Latest(s).choice.rows

(* assignedRanges: what the latest calculations of the others charge.      *)
AssignedRanges(s) == UNION {Charged(t) : t \in Shipment \ {s}}

Fits(s, rows) ==
  \A i \in DOMAIN Contents[s] :
    Total([r \in {q \in rows : Line[q.batch].item = i} |-> r.quantity]) = Contents[s][i]

(* Mutant of Chargeable: only the rows of the form are compared.           *)
ChargeableAlone(s, rows) ==
  /\ \A r \in rows : Line[r.batch].purchase \notin refunded
  /\ Fits(s, rows)
  /\ Apart(rows)

(* The refusals of calculate that are about units.                         *)
Chargeable(s, rows) ==
  /\ \A r \in rows : Line[r.batch].purchase \notin refunded
  /\ Fits(s, rows)
  /\ Apart(rows)
  /\ \A r \in rows, q \in AssignedRanges(s) : ~Overlap(r, q)

(* The lines of one purchase are charged as one run of units.              *)
LinesOf(p) == {b \in Batch : Line[b].purchase = p}

UnitsOf(p) == Total([b \in LinesOf(p) |-> Line[b].quantity])

(* Mutant of Preceding: every line starts with the first unit.             *)
PrecedingNone(b) == 0

Preceding(b) ==
  Total([c \in {d \in LinesOf(Line[b].purchase) : d < b} |-> Line[c].quantity])

PriceOf(r, rate) ==
  UnitSlice(ConvertMinor(Line[r.batch].price, rate), Line[r.batch].quantity,
            r.offset, r.quantity)

FeesOf(r, rate) ==
  LET p == Line[r.batch].purchase
  IN UnitSlice(ConvertMinor(Fees[p], rate), UnitsOf(p), Preceding(r.batch) + r.offset,
               r.quantity)

Weights(choice) ==
  [r \in choice.rows |->
     CASE choice.method = "BY_QUANTITY" -> r.quantity
       [] choice.method = "BY_WEIGHT" -> Line[r.batch].weight * r.quantity
       [] choice.method = "BY_ITEM_VALUE" -> PriceOf(r, choice.rate)]

(* Costs of a shipment that are charged: import VAT only if the policy has *)
(* it as a cost.                                                           *)
Included(policy) == {c \in Component : c = "VAT" => policy.vat}

Source(s, choice) ==
  [choice |-> choice, revision |-> Len(calculations[s]) + 1,
   settings |-> settings, recorded |-> recorded[s]]

Blocked(source) == \E c \in Included(source.settings) : source.recorded[c] = Unknown

(* No basis to allocate a cost on refuses the review.                      *)
Allocatable(source) ==
  (\E c \in Included(source.settings) : source.recorded[c] > 0) =>
    Total(Weights(source.choice)) > 0

(* calculate, for costs that are known.                                    *)
Calculated(source) ==
  LET choice == source.choice
  IN [price |-> [r \in choice.rows |-> PriceOf(r, choice.rate)],
      fees |-> [r \in choice.rows |-> FeesOf(r, choice.rate)],
      shares |-> [c \in Included(source.settings) |->
        IF source.recorded[c] = 0 THEN [r \in choice.rows |-> 0]
        ELSE AllocateMinor(source.recorded[c], Weights(choice))]]
------------------------------------------------------------------------------
CostsInit ==
  /\ settings = [vat |-> FALSE, version |-> 0]
  /\ recorded = [s \in Shipment |-> [c \in Component |-> Unknown]]
  /\ refunded = {}
  /\ calculations = [s \in Shipment |-> <<>>]
  /\ costing = [k \in Clerk |-> Idle]

Finalizing == {k \in Clerk : costing[k].op = "FINALIZE"}
Rows(k) == costing[k].reviewed.choice.rows
Batches(rows) == {r.batch : r \in rows}

(* What a transaction that finalises keeps from the others.                *)
ShipmentFree(s) == \A k \in Finalizing : costing[k].shipment # s
SettingsFree == Finalizing = {}

(* Mutant of BatchesFree: the purchase lines are not locked.               *)
BatchesNotLocked(rows) == TRUE

BatchesFree(rows) == \A k \in Finalizing : Batches(Rows(k)) \cap Batches(rows) = {}

(* The version submitted is that of the row.                               *)
SaveSettings(vat) ==
  /\ SettingsFree
  /\ settings.version < MaxPolicies
  /\ settings' = [vat |-> vat, version |-> settings.version + 1]
  /\ UNCHANGED <<recorded, refunded, calculations, costing>>

(* What shipments and purchases do that costing looks at: shipments/update *)
(* waits for the lock, a refund does not, the purchase is not locked.      *)
RecordCosts(s, costs) ==
  /\ ShipmentFree(s)
  /\ recorded' = [recorded EXCEPT ![s] = costs]
  /\ UNCHANGED <<settings, refunded, calculations, costing>>

RefundPurchase(p) ==
  /\ refunded' = refunded \cup {p}
  /\ UNCHANGED <<settings, recorded, calculations, costing>>
------------------------------------------------------------------------------
Finished(s) == {calculations[s][n].id : n \in DOMAIN calculations[s]}
UsedIds == UNION {Finished(s) : s \in Shipment} \cup {costing[k].id : k \in Clerk}

(* preview: any clerk, for any shipment.                                   *)
Preview(k, s, choice) ==
  /\ costing[k].op = "IDLE"
  /\ Chargeable(s, choice.rows)
  /\ Allocatable(Source(s, choice))
  /\ \E id \in CalculationId \ UsedIds :
       costing' = [costing EXCEPT
         ![k] = [op |-> "REVIEWED", id |-> id, shipment |-> s,
                 reviewed |-> Source(s, choice)]]
  /\ UNCHANGED <<settings, recorded, refunded, calculations>>

(* finalize, under its locks: what was reviewed is calculated again.  A    *)
(* form whose id is stored is answered with what is stored.                *)
BeginFinalize(k) ==
  LET form == costing[k]
      s == form.shipment
  IN /\ form.op = "REVIEWED"
     /\ ShipmentFree(s)
     /\ form.id \notin Finished(s)
     /\ BatchesFree(Rows(k))
     /\ Chargeable(s, Rows(k))
     /\ Source(s, form.reviewed.choice) = form.reviewed
     /\ ~Blocked(form.reviewed)
     /\ costing' = [costing EXCEPT ![k].op = "FINALIZE"]
     /\ UNCHANGED <<settings, recorded, refunded, calculations>>

CommitFinalize(k) ==
  LET form == costing[k]
  IN /\ form.op = "FINALIZE"
     /\ calculations' = [calculations EXCEPT
          ![form.shipment] = Append(@, [id |-> form.id, source |-> form.reviewed])]
     /\ costing' = [costing EXCEPT ![k].op = "REVIEWED"]
     /\ UNCHANGED <<settings, recorded, refunded>>

(* The transaction is lost with its connection; the form may try again.    *)
RollBack(k) ==
  /\ costing[k].op = "FINALIZE"
  /\ costing' = [costing EXCEPT ![k].op = "REVIEWED"]
  /\ UNCHANGED <<settings, recorded, refunded, calculations>>

(* Editing any input drops the review, and so does leaving the page.       *)
CloseForm(k) ==
  /\ costing[k].op = "REVIEWED"
  /\ costing' = [costing EXCEPT ![k] = Idle]
  /\ UNCHANGED <<settings, recorded, refunded, calculations>>

CostsNext ==
  \/ \E vat \in BOOLEAN : SaveSettings(vat)
  \/ \E s \in Shipment, costs \in Costs : RecordCosts(s, costs)
  \/ \E p \in Purchase : RefundPurchase(p)
  \/ \E k \in Clerk :
       \/ \E s \in Shipment, choice \in Choice : Preview(k, s, choice)
       \/ BeginFinalize(k)
       \/ CommitFinalize(k)
       \/ RollBack(k)
       \/ CloseForm(k)

CostsSpec == CostsInit /\ [][CostsNext]_costVars
------------------------------------------------------------------------------
(***************************************************************************)
(* Properties.                                                             *)
(***************************************************************************)

(* A unit that was bought is charged by one row of one shipment, whatever  *)
(* is previewed, finalised and revised at the same time (assignedRanges,   *)
(* finalize).                                                              *)
UnitsChargedOnce ==
  \A s \in Shipment :
    /\ Apart(Charged(s))
    /\ \A r \in Charged(s), q \in AssignedRanges(s) : ~Overlap(r, q)

(* What the latest calculations charge for purchase lines at one rate.     *)
Charges(batches, rate) ==
  {c \in {<<s, r>> : s \in Shipment, r \in UNION {Charged(t) : t \in Shipment}} :
     /\ c[2] \in Charged(c[1]) /\ c[2].batch \in batches
     /\ Latest(c[1]).choice.rate = rate}

UnitsIn(charges) == Total([c \in charges |-> c[2].quantity])

(* No minor unit is lost or made: the shares of a recorded cost add up to  *)
(* it; a purchase line all of whose units are charged at one rate is       *)
(* charged its price, and a purchase all of whose lines are is charged its *)
(* fees, over however many shipments and rows (allocateMinor, unitSlice).  *)
ChargesAddUp ==
  /\ \A s \in Shipment : \A n \in DOMAIN calculations[s] :
       LET source == calculations[s][n].source
           shares == Calculated(source).shares
       IN \A component \in DOMAIN shares : Total(shares[component]) = source.recorded[component]
  /\ \A rate \in {c.rate : c \in Choice} :
       /\ \A b \in Batch :
            LET charges == Charges({b}, rate)
            IN UnitsIn(charges) = Line[b].quantity =>
                 Total([c \in charges |-> Calculated(Latest(c[1])).price[c[2]]])
                   = ConvertMinor(Line[b].price, rate)
       /\ \A p \in {Line[b].purchase : b \in Batch} :
            LET charges == Charges(LinesOf(p), rate)
            IN UnitsIn(charges) = UnitsOf(p) =>
                 Total([c \in charges |-> Calculated(Latest(c[1])).fees[c[2]]])
                   = ConvertMinor(Fees[p], rate)

(* A calculation is stored while the policy and the costs it was reviewed  *)
(* with are in force (finalize locks both rows).                           *)
CostsInForce ==
  [][\A s \in Shipment : calculations'[s] # calculations[s] =>
       Latest(s)'.settings = settings /\ Latest(s)'.recorded = recorded[s]]_costVars
==============================================================================
