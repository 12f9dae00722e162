----------------------------- MODULE Scratchpad -----------------------------
(***************************************************************************)
(* The scratchpad of the RandomX processor, src/scratchpad/scratchpad.vhd, *)
(* driven by its test bench, tests/scratchpad_tb.vhd.                      *)
(*                                                                         *)
(* A step is an edge of the clock with the delta cycles that follow it.    *)
(* The stimulus process wakes at the same rising edge as the scratchpad:   *)
(* this samples the old inputs, and the new ones are there afterwards.     *)
(* The bench's coverage goal, which ends the stimulus, is left out.        *)
(***************************************************************************)
EXTENDS Naturals

CONSTANTS Top,       \* RdxCfg.LOG2_RANDOMX_SCRATCHPAD_L3 / 8, the last addr_int
          LastCell,  \* 2 ** Common.SIZE_SPAD_ADDR - 1, the last cell of memory_s
          Addresses, \* the cells the stimulus accesses
          Data,
          U, X, DontCare \* the elements 'U', 'X' and '-', for a whole word

ASSUME AddressAssumption ==
  /\ Top \in Nat /\ LastCell \in Nat
  /\ Addresses \subseteq 0..LastCell

(* The stimulus drives words of '0' and '1' only.                          *)
ASSUME DataAssumption == DontCare \notin Data \cup {U}

VARIABLES
  clk,
  spad_addr, spad_rd_en, spad_wr, \* inputs; a 'U' enable is, as FALSE, not '1'
  spad_rd, spad_rd_valid,         \* outputs
  memory_s,
  stopped,           \* an assignment to addr_int failed its range check
  tb_scratchpad_arr  \* the bench's copy of the memory

inputs == <<spad_addr, spad_rd_en, spad_wr>>
vars   == <<clk, inputs, spad_rd, spad_rd_valid, memory_s, stopped, tb_scratchpad_arr>>

Cells == 0..LastCell

(* Undefined inputs: to_integer takes an address of 'U's for 0.            *)
Init ==
  /\ clk = FALSE
  /\ spad_addr = 0 /\ spad_rd_en = FALSE /\ spad_wr = U
  /\ spad_rd = X /\ spad_rd_valid = FALSE
  /\ memory_s = [a \in Cells |-> U]
  /\ stopped = FALSE
  /\ tb_scratchpad_arr = [a \in Cells |-> DontCare]

(* ReadWriteProc at a rising edge.                                         *)
WritesAlways == [memory_s EXCEPT ![spad_addr] = spad_wr]
Written == IF spad_rd_en THEN memory_s ELSE [memory_s EXCEPT ![spad_addr] = spad_wr]

(* addr_int follows the address as soon as it is there.                    *)
Stimulus(addr, rd_en, data) ==
  /\ spad_addr' = addr /\ spad_rd_en' = rd_en /\ spad_wr' = data
  /\ tb_scratchpad_arr' = IF rd_en THEN tb_scratchpad_arr
                          ELSE [tb_scratchpad_arr EXCEPT ![addr] = data]
  /\ stopped' = (addr > Top)

Rising(addr, rd_en, data) ==
  /\ ~stopped
  /\ ~clk /\ clk' = TRUE
  /\ memory_s' = Written
  /\ spad_rd' = IF spad_rd_en THEN memory_s[spad_addr] ELSE X
  /\ spad_rd_valid' = spad_rd_en
  /\ Stimulus(addr, rd_en, data)

(* The process wakes at the falling edge too, only to clear its outputs.   *)
Falling ==
  /\ ~stopped
  /\ clk /\ clk' = FALSE
  /\ spad_rd' = X
  /\ spad_rd_valid' = FALSE
  /\ UNCHANGED <<inputs, memory_s, stopped, tb_scratchpad_arr>>

Next ==
  \/ \E addr \in Addresses, rd_en \in BOOLEAN, data \in Data : Rising(addr, rd_en, data)
  \/ Falling

Spec == Init /\ [][Next]_vars
-----------------------------------------------------------------------------
(* The bench's copy is the memory with the access in flight carried out:   *)
(* a write reaches the memory one clock after the bench notes it.          *)
Known(a)   == IF tb_scratchpad_arr[a] = DontCare THEN U ELSE tb_scratchpad_arr[a]
Pending(a) == ~spad_rd_en /\ a = spad_addr

CopyIsAhead ==
  \A a \in Cells : Known(a) = IF Pending(a) THEN spad_wr ELSE memory_s[a]

(* A valid read is of the last word written to the address, a write in the *)
(* clock before included; for a cell nothing was written to it is unknown. *)
ReadReturnsLastWrite ==
  [][spad_rd_valid' /\ ~spad_rd_valid =>
       spad_rd' = Known(spad_addr)]_vars
=============================================================================
