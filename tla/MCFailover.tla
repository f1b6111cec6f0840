----------------------------- MODULE MCFailover -----------------------------
(* Two server processes, and a worker that knows both.                     *)
EXTENDS Failover

CONSTANTS n1, n2, s1

MCServers == <<n1, n2>>
=============================================================================
