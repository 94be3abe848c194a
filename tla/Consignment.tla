----------------------------- MODULE Consignment -----------------------------
(***************************************************************************)
(* What an international shipment promises, whatever the ledger does       *)
(* beside it: its goods leave together, exactly as packed, arrive          *)
(* together, and make each leg once.                                       *)
(***************************************************************************)
EXTENDS Naturals

CONSTANTS Item, Shipment

VARIABLES
  stage,        \* where a shipment is
  cargo,        \* what is packed, by item
  sent,         \* what has left the origin for it
  arrived       \* what has reached the destination for it

consignmentVars == <<stage, cargo, sent, arrived>>

Nothing == [i \in Item |-> 0]

ConsignmentInit ==
  /\ stage = [s \in Shipment |-> "none"]
  /\ cargo = [s \in Shipment |-> Nothing]
  /\ sent = [s \in Shipment |-> Nothing]
  /\ arrived = [s \in Shipment |-> Nothing]

(* Before dispatch the contents may be replaced, never emptied.            *)
Pack(s) ==
  /\ stage[s] \in {"none", "packing"}
  /\ stage' = [stage EXCEPT ![s] = "packing"]
  /\ cargo'[s] \in [Item -> Nat] \ {Nothing}
  /\ cargo' = [cargo EXCEPT ![s] = cargo'[s]]
  /\ UNCHANGED <<sent, arrived>>

Abandon(s) ==
  /\ stage[s] = "packing"
  /\ stage' = [stage EXCEPT ![s] = "abandoned"]
  /\ UNCHANGED <<cargo, sent, arrived>>

Depart(s) ==
  /\ stage[s] = "packing"
  /\ stage' = [stage EXCEPT ![s] = "away"]
  /\ sent' = [sent EXCEPT ![s] = cargo[s]]
  /\ UNCHANGED <<cargo, arrived>>

Arrive(s) ==
  /\ stage[s] = "away"
  /\ stage' = [stage EXCEPT ![s] = "home"]
  /\ arrived' = [arrived EXCEPT ![s] = cargo[s]]
  /\ UNCHANGED <<cargo, sent>>

ConsignmentNext == \E s \in Shipment : Pack(s) \/ Abandon(s) \/ Depart(s) \/ Arrive(s)

ConsignmentSpec == ConsignmentInit /\ [][ConsignmentNext]_consignmentVars
==============================================================================
