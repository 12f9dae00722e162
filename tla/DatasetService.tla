--------------------------- MODULE DatasetService ---------------------------
(***************************************************************************)
(* What the RandomX dataset queue promises its users, with no thread, lock *)
(* or queue in it: one seed is wanted at a time, and the seed served is    *)
(* either none at all or the one that is wanted.  RxQueue implements this. *)
(***************************************************************************)
CONSTANTS Seeds,  \* the seeds a job can ask for: algorithm and seed hash together
          None    \* no seed

VARIABLES wanted, \* the seed asked for last
          served, \* the seed a dataset can be obtained for now
          open    \* the service has not been shut down

vars == <<wanted, served, open>>

(* A new seed is wanted: whatever was served is withdrawn at once.         *)
Want(s) == wanted' = s /\ served' = None

(* The dataset of the wanted seed becomes available.                       *)
Grant == wanted # None /\ served = None /\ served' = wanted /\ UNCHANGED wanted

Init == wanted = None /\ served = None /\ open = TRUE

Request(s) == open /\ Want(s) /\ UNCHANGED open

Serve == open /\ Grant /\ UNCHANGED open

(* The service shuts down, for good.                                       *)
Close == open /\ open' = FALSE /\ served' = None /\ UNCHANGED wanted

Next == \/ \E s \in Seeds : Request(s)
        \/ Serve
        \/ Close

Spec == Init /\ [][Next]_vars
=============================================================================
