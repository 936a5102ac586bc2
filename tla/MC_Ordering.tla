------------------------------ MODULE MC_Ordering ------------------------------
(* A small instance of OrderingQuota for TLC: two requests, each in a       *)
(* process of its own.                                                      *)
EXTENDS OrderingQuota, TLC

Hosts == [r \in Requests |-> r]
Symmetry == Permutations(Devices) \union Permutations(Requests)
=============================================================================
