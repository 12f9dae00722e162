------------------------------ MODULE MCShares ------------------------------
(* Two shares and a job that runs out, found by two workers through two    *)
(* sessions, and a ping, whose number could be taken for a share's.        *)
EXTENDS Shares
=============================================================================
