------------------------------ MODULE MCCluster -----------------------------
(* Instances of Cluster for TLC.                                           *)
EXTENDS Cluster, TLC

CONSTANTS j1, w1, w2, n1, n2

MCTerm == 1..MaxTerm
Symmetry == Permutations({n1, n2}) \cup Permutations({w1, w2})
=============================================================================
