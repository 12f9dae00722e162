-------------------------- MODULE Processor_proof ---------------------------
(***************************************************************************)
(* The two blocks of the RandomX processor.  The run of the loop engine,   *)
(* for any register tables: the two drivers of reg_table_s agree, and the  *)
(* integer ALU computes from what they drive.  And what the scratchpad     *)
(* promises of its reads, for a memory of any size, any words and any      *)
(* accesses.                                                               *)
(***************************************************************************)
EXTENDS LoopEngine, Naturals, TLAPS

-----------------------------------------------------------------------------
(* The combinational driver follows the port while a start is possible, so *)
(* that the clocked one can only catch up with it; from then on both hold  *)
(* one table.  The operands are fetched before the second rising edge.     *)
States  == prog_state \in {"Ready", "Running"} /\ reg_table_in \in Tables
Follows == prog_state = "Ready" /\ ~reset /\ start_prog => latched = reg_table_in
Agree   == prog_state = "Running" => latched \in Tables /\ loaded = latched
Fetched == prog_state = "Running" /\ ~clk => intALU_in = reg_table_s

IInv == States /\ Follows /\ Agree /\ Fetched

(* Equal drivers resolve to the value they drive.                          *)
LEMMA ResolvedSame == \A t \in Tables : Resolved(t, t) = t
  BY TablesAssumption DEF Resolved

(* The state machine runs at every edge it is not in reset, for want of a  *)
(* driver of prog_is_terminating.                                          *)
LEMMA NextStates ==
  ASSUME prog_state \in {"Ready", "Running"}
  PROVE  /\ next_prog_state_s \in {"Ready", "Running"}
         /\ prog_state = "Running" /\ ~reset => next_prog_state_s = "Running"
         /\ prog_state = "Ready" /\ next_prog_state_s = "Running" => ~reset /\ start_prog
         /\ prog_state = "Ready" /\ ~reset /\ start_prog => next_prog_state_s = "Running"
         /\ next_prog_state_s = "Ready" => reset \/ ~start_prog
         /\ next_prog_state_s = "Running" => ~reset
  BY TablesAssumption DEF next_prog_state_s, prog_is_terminating

(* Changing the inputs between two edges moves no table of a run.          *)
LEMMA DriveStep ==
  ASSUME IInv, NEW rst \in BOOLEAN, NEW start \in BOOLEAN, NEW enable \in BOOLEAN,
         NEW table \in Tables, Drive(rst, start, enable, table)
  PROVE  IInv' /\ (prog_state = "Running" => reg_table_s' = reg_table_s)
<1>1. prog_state = "Running" => latched' = latched /\ loaded' = loaded
  BY ResolvedSame DEF IInv, Agree, Drive, Latch
<1>2. States' /\ Agree'
  BY <1>1 DEF IInv, States, Agree, Drive
<1>3. Follows'
  BY DEF Drive, Latch, Follows
<1>4. prog_state = "Running" => reg_table_s' = reg_table_s
  BY <1>1 DEF reg_table_s
<1>5. Fetched'
  BY <1>4 DEF IInv, Fetched, Drive
<1> QED
  BY <1>2, <1>3, <1>4, <1>5 DEF IInv

(* At the falling edge a run's operands are fetched.                       *)
LEMMA FallingStep ==
  ASSUME IInv, Falling
  PROVE  IInv' /\ (prog_state = "Running" => reg_table_s' = reg_table_s)
<1>1. prog_state = "Running" => latched' = latched /\ loaded' = loaded
  BY ResolvedSame DEF IInv, Agree, Falling, Loads, Latch
<1>2. States' /\ Agree'
  BY <1>1 DEF IInv, States, Agree, Falling, inputs
<1>3. Follows'
  BY DEF Follows, Falling, Latch, inputs
<1>4. prog_state = "Running" => reg_table_s' = reg_table_s
  BY <1>1 DEF reg_table_s
<1>5. Fetched'
  BY <1>4 DEF Fetched, Falling, Fetches
<1> QED
  BY <1>2, <1>3, <1>4, <1>5 DEF IInv

(* At the rising edge a program starts, goes on or is left.                *)
LEMMA RisingStep ==
  ASSUME IInv, Rising
  PROVE  /\ IInv'
         /\ prog_state = "Running" /\ prog_state' = "Running" => reg_table_s' = reg_table_s
         /\ prog_state = "Ready" /\ prog_state' = "Running" => reg_table_s' = reg_table_in
         /\ prog_state = "Running" => intALU_outDst' = reg_table_s
<1> USE DEF IInv
<1>1. States'
  BY NextStates DEF States, Rising, inputs
<1>2. CASE prog_state = "Running"
  <2>1. intALU_outDst' = reg_table_s
    BY <1>2 DEF Rising, Fetched
  <2>2. loaded' = loaded
    BY <1>2 DEF Rising, Loads
  <2>3. ASSUME prog_state' = "Running"
        PROVE  latched' = latched
    BY <1>2, <2>2, <2>3, ResolvedSame DEF Rising, Latch, Agree
  <2>4. prog_state' = "Running" => reg_table_s' = reg_table_s
    BY <2>2, <2>3 DEF reg_table_s
  <2>5. Agree'
    BY <1>2, <2>2, <2>3 DEF Agree
  <2>6. Follows'
    BY <1>2, NextStates DEF Follows, Rising, States, inputs
  <2>7. Fetched'
    BY DEF Fetched, Rising
  <2> QED
    BY <1>1, <1>2, <2>1, <2>4, <2>5, <2>6, <2>7
<1>3. CASE prog_state = "Ready"
  <2>1. ASSUME prog_state' = "Running"
        PROVE  latched' = reg_table_in /\ loaded' = reg_table_in
    <3>1. ~reset /\ start_prog /\ next_prog_state_s = "Running"
      BY <1>3, <2>1, NextStates DEF Rising
    <3>2. latched = reg_table_in /\ loaded' = reg_table_in
      BY <1>3, <3>1 DEF Follows, Rising, Loads
    <3> QED
      BY <2>1, <3>1, <3>2, ResolvedSame DEF Rising, Latch, States
  <2>2. prog_state' = "Running" => reg_table_s' = reg_table_in
    BY <2>1, ResolvedSame DEF reg_table_s, States
  <2>3. Agree'
    BY <2>1 DEF Agree, States
  <2>4. Follows'
    BY <1>3, NextStates DEF Follows, Rising, States, inputs
  <2>5. Fetched'
    BY DEF Fetched, Rising
  <2> QED
    BY <1>1, <1>3, <2>2, <2>3, <2>4, <2>5
<1> QED
  BY <1>2, <1>3 DEF States

LEMMA Inductive == Spec => []IInv
<1>1. Init => IInv
  BY DEF Init, IInv, States, Follows, Agree, Fetched
<1>2. IInv /\ [Next]_vars => IInv'
  <2> SUFFICES ASSUME IInv, [Next]_vars PROVE IInv'
    OBVIOUS
  <2>1. CASE Next
    BY <2>1, DriveStep, FallingStep, RisingStep DEF Next
  <2>2. CASE UNCHANGED vars
    BY <2>2 DEF vars, inputs, IInv, States, Follows, Agree, Fetched, reg_table_s
  <2> QED
    BY <2>1, <2>2
<1> QED
  BY <1>1, <1>2, PTL DEF Spec

(* A program runs on the table presented when it was started: the two      *)
(* drivers of reg_table_s never resolve to anything else during a run.     *)
THEOREM TableIsKept == Spec => KeepsItsTable
<1> DEFINE Kept ==
      /\ prog_state = "Ready" /\ prog_state' = "Running" => reg_table_s' = reg_table_in
      /\ prog_state = "Running" /\ prog_state' = "Running" => reg_table_s' = reg_table_s
<1>1. IInv /\ [Next]_vars => [Kept]_vars
  <2> SUFFICES ASSUME IInv, Next PROVE Kept
    OBVIOUS
  <2>1. ASSUME NEW rst \in BOOLEAN, NEW start \in BOOLEAN, NEW enable \in BOOLEAN,
               NEW table \in Tables, Drive(rst, start, enable, table)
        PROVE  Kept
    BY <2>1, DriveStep DEF Drive
  <2>2. CASE Falling
    BY <2>2, FallingStep DEF Falling
  <2>3. CASE Rising
    BY <2>3, RisingStep
  <2> QED
    BY <2>1, <2>2, <2>3 DEF Next
<1> QED
  BY <1>1, Inductive, PTL DEF Spec, KeepsItsTable

(* What the ALU registers during a run is computed from the run's table.   *)
THEOREM ResultsAreOfTheRun == Spec => ResultIsOfThisRun
<1> DEFINE Fresh == ~clk /\ clk' /\ prog_state = "Running" => intALU_outDst' = reg_table_s
<1>1. IInv /\ [Next]_vars => [Fresh]_vars
  <2> SUFFICES ASSUME IInv, Next PROVE Fresh
    OBVIOUS
  <2>1. ASSUME NEW rst \in BOOLEAN, NEW start \in BOOLEAN, NEW enable \in BOOLEAN,
               NEW table \in Tables, Drive(rst, start, enable, table)
        PROVE  Fresh
    BY <2>1 DEF Drive
  <2>2. CASE Falling
    BY <2>2 DEF Falling
  <2>3. CASE Rising
    BY <2>3, RisingStep
  <2> QED
    BY <2>1, <2>2, <2>3 DEF Next
<1> QED
  BY <1>1, Inductive, PTL DEF Spec, ResultIsOfThisRun

-----------------------------------------------------------------------------
(* The scratchpad, on the same clock.                                      *)
CONSTANTS Top, LastCell, Addresses, Data, DontCare
VARIABLES spad_addr, spad_rd_en, spad_wr, spad_rd, spad_rd_valid,
          memory_s, stopped, tb_scratchpad_arr

Spad == INSTANCE Scratchpad

(* What Scratchpad assumes of its constants.                               *)
SpadConstants ==
  /\ Top \in Nat /\ LastCell \in Nat
  /\ Addresses \subseteq 0..LastCell
  /\ DontCare \notin Data \cup {U}

(* The inductive invariant: CopyIsAhead, over the cells the memory and the *)
(* bench's copy have, with an address that is one of them.                 *)
SpadShape ==
  /\ spad_addr \in Spad!Cells
  /\ spad_wr \in Data \cup {U}
  /\ memory_s \in [Spad!Cells -> Data \cup {U}]
  /\ tb_scratchpad_arr \in [Spad!Cells -> Data \cup {DontCare}]

SpadInv == SpadShape /\ Spad!CopyIsAhead

(* ReadWriteProc carries the write in flight out while the stimulus notes  *)
(* the next one; no other step touches either memory.                      *)
LEMMA SpadInductive == SpadConstants => (Spad!Spec => []SpadInv)
<1> SUFFICES ASSUME SpadConstants PROVE Spad!Spec => []SpadInv
  OBVIOUS
<1>1. Spad!Init => SpadInv
  BY DEF SpadConstants, SpadInv, SpadShape, Spad!Init, Spad!CopyIsAhead, Spad!Known,
         Spad!Pending, Spad!Cells
<1>2. SpadInv /\ [Spad!Next]_Spad!vars => SpadInv'
  <2> SUFFICES ASSUME SpadInv, [Spad!Next]_Spad!vars PROVE SpadInv'
    OBVIOUS
  <2>1. ASSUME NEW addr \in Addresses, NEW rd_en \in BOOLEAN, NEW data \in Data,
               Spad!Rising(addr, rd_en, data)
        PROVE  SpadInv'
    <3>1. addr \in Spad!Cells
      BY DEF SpadConstants, Spad!Cells
    <3>2. \A a \in Spad!Cells : memory_s'[a] = IF Spad!Pending(a) THEN spad_wr ELSE memory_s[a]
      BY <2>1 DEF SpadInv, SpadShape, Spad!Rising, Spad!Written, Spad!Pending
    <3>3. \A a \in Spad!Cells : tb_scratchpad_arr'[a] =
                                  IF ~rd_en /\ a = addr THEN data ELSE tb_scratchpad_arr[a]
      BY <2>1 DEF SpadInv, SpadShape, Spad!Rising, Spad!Stimulus
    <3>4. SpadShape'
      BY <2>1, <3>1 DEF SpadInv, SpadShape, Spad!Rising, Spad!Written, Spad!Stimulus, Spad!Cells
    <3>5. Spad!CopyIsAhead'
      BY <2>1, <3>1, <3>2, <3>3
      DEF SpadConstants, SpadInv, Spad!CopyIsAhead, Spad!Known, Spad!Pending, Spad!Rising,
          Spad!Stimulus, Spad!Cells
    <3> QED
      BY <3>4, <3>5 DEF SpadInv
  <2>2. CASE Spad!Falling \/ UNCHANGED Spad!vars
    <3>1. UNCHANGED <<spad_addr, spad_rd_en, spad_wr, memory_s, tb_scratchpad_arr>>
      BY <2>2 DEF Spad!Falling, Spad!vars, Spad!inputs
    <3> QED
      BY <3>1 DEF SpadInv, SpadShape, Spad!CopyIsAhead, Spad!Known, Spad!Pending
  <2> QED
    BY <2>1, <2>2 DEF Spad!Next
<1> QED
  BY <1>1, <1>2, PTL DEF Spad!Spec

(* A valid read returns the last word written to its address, also when    *)
(* the write went in one clock before.                                     *)
THEOREM ReadsAreCurrent == SpadConstants => (Spad!Spec => Spad!ReadReturnsLastWrite)
<1> SUFFICES ASSUME SpadConstants PROVE Spad!Spec => Spad!ReadReturnsLastWrite
  OBVIOUS
<1> DEFINE Read == spad_rd_valid' /\ ~spad_rd_valid => spad_rd' = Spad!Known(spad_addr)
<1>1. SpadInv /\ [Spad!Next]_Spad!vars => [Read]_Spad!vars
  <2> SUFFICES ASSUME SpadInv, Spad!Next PROVE Read
    OBVIOUS
  <2>1. ASSUME NEW addr \in Addresses, NEW rd_en \in BOOLEAN, NEW data \in Data,
               Spad!Rising(addr, rd_en, data)
        PROVE  Read
    BY <2>1 DEF Spad!Rising, SpadInv, SpadShape, Spad!CopyIsAhead, Spad!Pending
  <2>2. CASE Spad!Falling
    BY <2>2 DEF Spad!Falling
  <2> QED
    BY <2>1, <2>2 DEF Spad!Next
<1> QED
  BY <1>1, SpadInductive, PTL DEF Spad!Spec, Spad!ReadReturnsLastWrite
=============================================================================
