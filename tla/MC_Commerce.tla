----------------------------- MODULE MC_Commerce -----------------------------
(* Instances of the shop for the model checker.  Ids are interchangeable;  *)
(* locations are not, since checkout goes through them in their order.     *)
EXTENDS Commerce, TLC

Symmetric == Permutations(Holder) \cup Permutations(Quote) \cup Permutations(EventId)
               \cup Permutations(Key) \cup Permutations(CheckoutKey)

SymmetricTerms == Symmetric \cup Permutations(Guest) \cup Permutations(Price)
==============================================================================
