----------------------------- MODULE MCJobStore -----------------------------
(* Instances of JobStore for TLC.                                          *)
EXTENDS JobStore, TLC

CONSTANTS j1, j2, w1, w2

MCJob == {j1, j2}
MCWorker == {w1, w2}
MCTerm == 1..2
(* One retry, none (a negative value), and the 0 that means three.         *)
MCMaxRetries == {-1, 0, 1}

Symmetry == Permutations(MCJob) \cup Permutations(MCWorker)
=============================================================================
