--------------------------- MODULE MCNonceRanges ----------------------------
(* Two workers drawing two nonces at a time out of four, from a nicehash   *)
(* pool, and a donation between the jobs of the user's pool.               *)
EXTENDS NonceRanges, TLC

CONSTANTS w1, w2, u1, u2, d1

(* The threads of the pool are alike, and so are the jobs of a pool.       *)
Symmetry == Permutations(Workers) \cup Permutations(UserJobs)
=============================================================================
