----------------------------- MODULE MCKVStore -----------------------------
(***************************************************************************)
(* Three replicas.  Each run has its own clients and faults.       *)
(***************************************************************************)
EXTENDS KVStore, TLC

CONSTANTS n1, n2, n3, set1, set2, get1, get2

MCNode == {n1, n2, n3}
OneSet == {set1}
TwoSets == {set1, set2}
OneGet == {get1}
TwoGets == {get1, get2}
MCWallTime == {1, 2}
NoCrashes == {}
Minority == {n1}

\* The nodes that do not crash are alike, and so are calls of a kind.
Alike == Permutations(MCNode \ Minority) \cup Permutations(TwoSets)
AllAlike == Permutations(MCNode) \cup Permutations(TwoSets) \cup Permutations(TwoGets)
=============================================================================
