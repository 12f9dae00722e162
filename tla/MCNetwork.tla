----------------------------- MODULE MCNetwork ------------------------------
(* Two jobs of the user's pools, so that a job can be newer than another.  *)
EXTENDS Network
=============================================================================
