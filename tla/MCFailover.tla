---------------------------- MODULE MCFailover -----------------------------
(* Three pools: the preferred one, the last one, and one between them.     *)
EXTENDS Failover
=============================================================================
