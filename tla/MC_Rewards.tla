----------------------------- MODULE MC_Rewards -----------------------------
(* An instance of customer draws for the model checker.                    *)
EXTENDS Rewards, TLC

PoolHolders == Configuration \X Item \X (1..MaxAllocation)
Start == {{0}}

Symmetric == Permutations(Pull) \cup Permutations(RequestKey) \cup Permutations(Item)
               \cup Permutations(Key) \cup Permutations(Customer) \cup Permutations(Configuration)
=============================================================================
