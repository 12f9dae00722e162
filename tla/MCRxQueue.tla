----------------------------- MODULE MCRxQueue ------------------------------
(* Three seeds with a seed hash each, and room for two waiting requests    *)
(* beside the one being served; three NUMA nodes.                          *)
EXTENDS RxQueue, TLC

CONSTANTS s1, s2, s3, d1, d2, d3, n1, n2, n3

MCSeeds  == {s1, s2, s3}
MCDataOf == (s1 :> d1) @@ (s2 :> d2) @@ (s3 :> d3)
=============================================================================
