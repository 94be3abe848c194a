------------------------------ MODULE MC_Gacha ------------------------------
(* An instance of the prize draws for the model checker.                   *)
EXTENDS Gacha, TLC

CONSTANT Orders

PoolHolders == (Configuration \X Item \X (1..MaxAllocation)) \cup Orders
Start == {{0}}

Symmetric == Permutations(Configuration) \cup Permutations(Pull) \cup Permutations(Key)
               \cup Permutations(Item)
=============================================================================
