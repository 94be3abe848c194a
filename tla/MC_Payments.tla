----------------------------- MODULE MC_Payments -----------------------------
(* Instances of the payment handlers for the model checker.                *)
EXTENDS Payments
==============================================================================
