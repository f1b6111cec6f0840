---------------------------- MODULE MCLeadership ----------------------------
(* Instances of Leadership for TLC.                                        *)
EXTENDS Leadership

CONSTANTS n1, n2, n3
=============================================================================
