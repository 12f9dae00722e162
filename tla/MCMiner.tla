------------------------------ MODULE MCMiner -------------------------------
(* Two jobs of two RandomX seeds, and one of an algorithm without dataset  *)
(* that uses as large a scratchpad as RandomX (cn/r and rx/0: 2 MiB), for  *)
(* which the workers are kept.                                             *)
EXTENDS Miner, TLC

CONSTANTS w1, w2, j1, j2, j3, s1, s2

MCJobs   == {j1, j2, j3}
MCAlgoOf == (j1 :> "rx/0") @@ (j2 :> "rx/0") @@ (j3 :> "cn/r")
MCSeedOf == (j1 :> s1) @@ (j2 :> s2) @@ (j3 :> None)
MCL3Of   == [a \in {"rx/0", "cn/r"} |-> 2]

Plain     == [cpu |-> TRUE, profile |-> 1, pauseOnBattery |-> FALSE, pauseOnActive |-> FALSE]
MCConfigs == {Plain}

(* The same with another number of threads, in another profile.            *)
MCTwoConfigs == {Plain, [Plain EXCEPT !.profile = 2]}

(* A laptop, whose configuration file is edited: the pause on battery is   *)
(* switched, or the CPU backend disabled.  The second algorithm uses a     *)
(* smaller scratchpad (cn-lite/1: 1 MiB).                                  *)
Laptop == [Plain EXCEPT !.pauseOnBattery = TRUE, !.pauseOnActive = TRUE]
MCPowerConfigs == {Laptop, [Plain EXCEPT !.cpu = FALSE]}
MCAlgoOf2 == (j1 :> "rx/0") @@ (j3 :> "cn-lite/1")
MCL3Of2   == ("rx/0" :> 2) @@ ("cn-lite/1" :> 1)
=============================================================================
