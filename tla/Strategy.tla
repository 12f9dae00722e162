------------------------------ MODULE Strategy ------------------------------
(***************************************************************************)
(* What a strategy promises to its listener: base/kernel/interfaces/       *)
(* IStrategy.h and IStrategyListener.h.  Network drives two of them        *)
(* without knowing how many clients they have; FailoverStrategy, with its  *)
(* clients, implements this specification (Failover!ImplementsStrategy).   *)
(*                                                                         *)
(* stop() is not the end of it: the answer of a resolver may come later    *)
(* and make a client connect, log in and be chosen.                        *)
(***************************************************************************)
VARIABLES
  status, \* see Statuses
  wanted  \* connect() has been called, and not stop() since

Statuses ==
  {"Stopped", \* nothing will be heard of it
   "Late",    \* stopped, but a client may still log in
   "Trying",  \* some client is being connected, or will be
   "Active"}  \* isActive(): it has a client, which gives jobs

Init == status = "Stopped" /\ wanted = FALSE

(* connect()                                                               *)
Connect ==
  /\ ~wanted /\ status \in {"Stopped", "Late"}
  /\ status' = "Trying" /\ wanted' = TRUE

(* onActive(), which it also calls when it turns to a client it prefers.   *)
Login ==
  /\ status # "Stopped"
  /\ status' = "Active" /\ UNCHANGED wanted

(* onPause(), after the loss of the client; also of one that came late.    *)
Lose ==
  /\ status = "Active"
  /\ status' = "Trying" /\ UNCHANGED wanted

(* stop()                                                                  *)
Stop ==
  /\ status' \in (IF status = "Stopped" THEN {"Stopped"} ELSE {"Stopped", "Late"})
  /\ wanted' = FALSE

(* The late client could not connect.                                      *)
Fade ==
  /\ status = "Late"
  /\ status' = "Stopped" /\ UNCHANGED wanted

Next == Connect \/ Login \/ Lose \/ Stop \/ Fade

Spec == Init /\ [][Next]_<<status, wanted>>
=============================================================================
