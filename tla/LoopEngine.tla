----------------------------- MODULE LoopEngine -----------------------------
(***************************************************************************)
(* The loop engine of the RandomX processor, src/loop_engine/              *)
(* loop_engine.vhd, with the output register of the integer ALU it feeds   *)
(* (src/alu/int_alu.vhd), as the simulator runs them.                      *)
(*                                                                         *)
(* A step is an edge of the clock, or a change of the inputs between two   *)
(* edges; the delta cycles that follow it are part of the step.            *)
(*                                                                         *)
(* reg_table_s is assigned by two processes: a combinational one that is   *)
(* meant to latch it and a clocked one, sensitive to both edges.  It has   *)
(* two drivers, and its value is what std_logic resolves them to.          *)
(*                                                                         *)
(* Register tables are values told apart; what an instruction computes is  *)
(* left out, and the program is one instruction as nothing ever advances   *)
(* prog_counter_s.                                                         *)
(***************************************************************************)
CONSTANTS Tables, \* the register tables presented at reg_table_in
          U, X    \* uninitialised; some bit driven to both 0 and 1

(* A table at the port is initialised, and 'U' is not the '1' tested for.  *)
ASSUME TablesAssumption == U \notin Tables \cup {"1"}

VARIABLES
  clk, reset, start_prog, prog_in_enable, reg_table_in, \* the input ports
  prog_state,    \* prog_state_s
  latched,       \* what NextProgStateProcess drives reg_table_s to
  loaded,        \* what ProgRunProcess drives it to
  program,       \* program_s: whether an instruction was loaded
  intALU_in,     \* the table intALU_inSrc and intALU_inDst were taken from
  intALU_outDst  \* the table the registered result was computed from

inputs == <<reset, start_prog, prog_in_enable, reg_table_in>>
vars   == <<clk, inputs, prog_state, latched, loaded, program,
            intALU_in, intALU_outDst>>

-----------------------------------------------------------------------------
(* The resolution of std_logic, for a whole table.                         *)
Resolved(a, b) ==
  CASE U \in {a, b} -> U
    [] a = b        -> a
    [] OTHER        -> X

reg_table_s == Resolved(latched, loaded)

(* No statement drives prog_is_terminating: it stays at 'U'.               *)
prog_is_terminating == U

(* NextProgStateProcess has no branch for Done: the latch keeps Done.      *)
next_prog_state_s ==
  CASE reset                                       -> "Ready"
    [] ~reset /\ prog_state = "Ready"              -> IF start_prog THEN "Running" ELSE "Ready"
    [] ~reset /\ prog_state = "Running"            ->
         IF prog_is_terminating = "1" THEN "Done" ELSE "Running"
    [] OTHER                                       -> "Done"

(* The other output of NextProgStateProcess: kept while in reset, the new  *)
(* table at a start, otherwise the resolved value fed back.                *)
Latch(rst, start, state, table, l, r) ==
  IF rst THEN l
  ELSE IF state = "Ready" /\ start THEN table
  ELSE Resolved(l, r)

Init ==
  /\ clk = FALSE
  /\ reset \in BOOLEAN /\ start_prog = FALSE /\ prog_in_enable = FALSE
  /\ reg_table_in \in Tables
  /\ prog_state = "Ready"
  /\ latched = U /\ loaded = U
  /\ program = U
  /\ intALU_in = U /\ intALU_outDst = U

(* The surrounding circuit changes its outputs between two edges.          *)
Drive(rst, start, enable, table) ==
  /\ reset' = rst /\ start_prog' = start /\ prog_in_enable' = enable
  /\ reg_table_in' = table
  /\ latched' = Latch(rst, start, prog_state, table, latched, loaded)
  /\ UNCHANGED <<clk, prog_state, loaded, program, intALU_in, intALU_outDst>>

(* ProgRunProcess, at either edge.                                         *)
LoadsNothing(rising) == loaded
Loads(rising) ==
  IF prog_state = "Ready" /\ next_prog_state_s = "Running" THEN reg_table_in ELSE loaded

FetchesAtRising(rising) ==
  IF prog_state = "Running" /\ rising THEN reg_table_s ELSE intALU_in
Fetches(rising) == IF prog_state = "Running" THEN reg_table_s ELSE intALU_in

Falling ==
  /\ clk /\ clk' = FALSE
  /\ loaded' = Loads(FALSE)
  /\ intALU_in' = Fetches(FALSE)
  /\ latched' = Latch(reset, start_prog, prog_state, reg_table_in, latched, loaded')
  /\ UNCHANGED <<inputs, prog_state, program, intALU_outDst>>

(* At the rising edge also ProgStateStorageProcess, LoadProgProcess and    *)
(* the output register of IntALU.                                          *)
Rising ==
  /\ ~clk /\ clk' = TRUE
  /\ prog_state' = next_prog_state_s
  /\ program' = IF prog_in_enable /\ prog_state = "Done" THEN "loaded" ELSE program
  /\ loaded' = Loads(TRUE)
  /\ intALU_in' = Fetches(TRUE)
  /\ intALU_outDst' = intALU_in
  /\ latched' = Latch(reset, start_prog, prog_state', reg_table_in, latched, loaded')
  /\ UNCHANGED inputs

Next ==
  \/ \E rst, start, enable \in BOOLEAN, table \in Tables : Drive(rst, start, enable, table)
  \/ Falling
  \/ Rising

Spec == Init /\ [][Next]_vars
-----------------------------------------------------------------------------
(* A program runs on the register table presented when it was started:     *)
(* whatever the inputs do before and after, the two drivers agree from the *)
(* edge that starts the program until it is left.                          *)
KeepsItsTable ==
  [][/\ prog_state = "Ready" /\ prog_state' = "Running" => reg_table_s' = reg_table_in
     /\ prog_state = "Running" /\ prog_state' = "Running" => reg_table_s' = reg_table_s]_vars

(* From the second rising edge of a run on the integer ALU registers a     *)
(* result of that run's table, not of an earlier one: the operands are     *)
(* fetched at the falling edge between.                                    *)
ResultIsOfThisRun ==
  [][~clk /\ clk' /\ prog_state = "Running" => intALU_outDst' = reg_table_s]_vars
=============================================================================
