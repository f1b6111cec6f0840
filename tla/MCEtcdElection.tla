--------------------------- MODULE MCEtcdElection ---------------------------
(* Instances of EtcdElection for TLC.                                      *)
EXTENDS EtcdElection

CONSTANTS n1, n2, n3
=============================================================================
