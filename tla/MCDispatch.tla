----------------------------- MODULE MCDispatch -----------------------------
(* Instances of Dispatch for TLC.                                          *)
EXTENDS Dispatch, TLC

CONSTANTS j1, j2, w1, w2, s1, s2

MCTerm == {1}
MCNoRetries == {-1}  \* max_retries of jobs that are never retried
Symmetry == Permutations(Job) \cup Permutations(Worker) \cup Permutations(Stream)
=============================================================================
