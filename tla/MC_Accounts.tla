----------------------------- MODULE MC_Accounts -----------------------------
(* An instance of the customer accounts for the model checker.             *)
EXTENDS Accounts, TLC

Lives == [RESET |-> 1, VERIFY |-> 2]
Limits == [RESET |-> 1]

Symmetric ==
  Permutations(Browser) \cup Permutations(Session) \cup Permutations(Link)
    \cup Permutations(AddressId)
==============================================================================
