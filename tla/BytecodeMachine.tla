-------------------------- MODULE BytecodeMachine ---------------------------
(***************************************************************************)
(* The interpreter of RandomX programs, crypto/randomx/bytecode_machine:   *)
(* a random program is compiled to bytecode one instruction after the      *)
(* other, and run from its start to its end.  CBRANCH is the only jump,    *)
(* and it goes back: behind the last instruction that wrote the register   *)
(* it tests.                                                               *)
(*                                                                         *)
(* What an instruction other than CBRANCH computes is any word, as what it *)
(* may have loaded from the scratchpad is; which registers it writes is    *)
(* what matters here.  Floating point registers and the scratchpad, which  *)
(* no jump depends on, are left out.                                       *)
(***************************************************************************)
EXTENDS Naturals, Sequences

CONSTANTS Registers,   \* indices into r, RegistersCount of them
          ProgramSize, \* RandomX_CurrentConfig.ProgramSize
          WordSize,    \* bits of a register
          JumpBits, JumpOffset, \* of RandomX_ConfigurationBase
          Conds        \* the values of Instruction::getModCond()

ASSUME SizeAssumption ==
  /\ ProgramSize \in Nat
  /\ {WordSize, JumpBits, JumpOffset} \subseteq Nat \ {0}
  /\ \A c \in Conds : c \in Nat /\ c + JumpOffset + JumpBits <= WordSize

VARIABLES
  bytecode,      \* the instructions compiled so far; instruction i is bytecode[i + 1]
  registerUsage, \* the last instruction that wrote a register, 0 for the code's -1
  r,             \* nreg->r
  pc,            \* the instruction to be run next; ProgramSize + 1 before the run
  runs,          \* how often each instruction was run
  loop           \* the branch that jumped last, until it lets go, and its register

vars == <<bytecode, registerUsage, r, pc, runs, loop>>

Words == 0..(2^WordSize - 1)

(* registerUsage[x], one more than in the code, is the instruction after   *)
(* the last one that wrote x.                                              *)
i == Len(bytecode)

NoLoop == [branch |-> ProgramSize, value |-> 0]

Ready    == ProgramSize + 1  \* compiled, or being compiled
Finished == ProgramSize

Init ==
  /\ bytecode = << >>
  /\ registerUsage = [x \in Registers |-> 0]
  /\ r = [x \in Registers |-> 0]
  /\ pc = Ready
  /\ runs = [k \in 0..(ProgramSize - 1) |-> 0]
  /\ loop = NoLoop

-----------------------------------------------------------------------------
(* compileInstruction().                                                   *)
Emit(ibc, used) ==
  /\ i < ProgramSize
  /\ bytecode' = Append(bytecode, ibc)
  /\ registerUsage' = [x \in Registers |-> IF x \in used THEN i + 1 ELSE registerUsage[x]]
  /\ UNCHANGED <<r, pc, runs, loop>>

Writes(registers) == [type |-> "write", registers |-> registers]
NOP == Writes({})

(* IADD_RS to IROL_R, but for IMUL_RCP.                                    *)
GenArithmetic(dst) == Emit(Writes({dst}), {dst})

(* The reciprocal of a zero or of a power of two is not multiplied by.     *)
GenMulRcp(dst, zeroOrPowerOf2) ==
  IF zeroOrPowerOf2 THEN Emit(NOP, {}) ELSE Emit(Writes({dst}), {dst})

SwapUsesDst(dst, src) == {dst}
SwapUses(dst, src) == {dst, src}
GenSwap(dst, src) ==
  IF src # dst THEN Emit(Writes({dst, src}), SwapUses(dst, src)) ELSE Emit(NOP, {})

(* FSWAP_R to FSQRT_R, CFROUND, ISTORE and NOP.                            *)
GenOther == Emit(NOP, {})

(* The constant of a CBRANCH has the lowest bit of the tested field set,   *)
(* and the bit below it clear.                                             *)
Bit(x, n) == (x \div 2^n) % 2
WithBit(x, n) == IF Bit(x, n) = 1 THEN x ELSE x + 2^n
WithoutBit(x, n) == IF Bit(x, n) = 1 THEN x - 2^n ELSE x

UnclearedConstant(imm, cond) == WithBit(imm, JumpOffset + cond)
UnsetConstant(imm, cond) == WithoutBit(imm, JumpOffset - 1 + cond)
BranchConstant(imm, cond) ==
  WithoutBit(WithBit(imm, JumpOffset + cond), JumpOffset - 1 + cond)

BranchUsesOwn(dst) == {dst}
BranchUses(dst) == Registers

GenBranch(dst, imm, cond) ==
  Emit([type |-> "branch", creg |-> dst, target |-> registerUsage[dst],
        imm |-> BranchConstant(imm, cond), shift |-> JumpOffset + cond],
       BranchUses(dst))

-----------------------------------------------------------------------------
(* executeBytecode(), on the registers the VM has loaded.                  *)
Start ==
  /\ i = ProgramSize /\ pc = Ready
  /\ r' \in [Registers -> Words]
  /\ pc' = 0
  /\ UNCHANGED <<bytecode, registerUsage, runs, loop>>

Running == pc < ProgramSize
ibc     == bytecode[pc + 1]

(* Kept for the properties; it stops at TooOften.                          *)
TooOften == 4
Counted == runs' = [runs EXCEPT ![pc] = IF @ < TooOften THEN @ + 1 ELSE @]

Write ==
  /\ Running /\ ibc.type = "write"
  /\ \E words \in [ibc.registers -> Words] :
       r' = [x \in Registers |-> IF x \in ibc.registers THEN words[x] ELSE r[x]]
  /\ pc' = pc + 1
  /\ Counted
  /\ UNCHANGED <<bytecode, registerUsage, loop>>

(* exe_CBRANCH(): the field of JumpBits bits under memMask is zero.        *)
Taken(x, shift) == (x \div 2^shift) % 2^JumpBits = 0

Branch ==
  /\ Running /\ ibc.type = "branch"
  /\ r' = [r EXCEPT ![ibc.creg] = (@ + ibc.imm) % 2^WordSize]
  /\ IF Taken(r'[ibc.creg], ibc.shift)
     THEN /\ pc' = ibc.target
          /\ loop' = [branch |-> pc, value |-> r'[ibc.creg]]
     ELSE /\ pc' = pc + 1
          /\ loop' = NoLoop
  /\ Counted
  /\ UNCHANGED <<bytecode, registerUsage>>

-----------------------------------------------------------------------------
Compile ==
  \/ \E dst \in Registers :
       \/ GenArithmetic(dst)
       \/ \E zeroOrPowerOf2 \in BOOLEAN : GenMulRcp(dst, zeroOrPowerOf2)
       \/ \E src \in Registers : GenSwap(dst, src)
       \/ \E imm \in Words, cond \in Conds : GenBranch(dst, imm, cond)
  \/ GenOther

Next == Compile \/ Start \/ Write \/ Branch

(* The compiler and the interpreter are loops nothing interrupts.          *)
Spec == Init /\ [][Next]_vars /\ WF_vars(Next)
-----------------------------------------------------------------------------
(* A branch that jumped finds its register as it left it: nothing between  *)
(* its target and the branch writes it, in whatever way, a swap included,  *)
(* and no other branch lies between to leave by.                           *)
LoopKeepsItsRegister ==
  Running /\ loop # NoLoop =>
    LET branch == bytecode[loop.branch + 1]
    IN pc \in branch.target..loop.branch /\ r[branch.creg] = loop.value

(* No instruction runs more than three times: a branch jumps at most twice *)
(* in a row, since its constant leaves the tested field zero at most once  *)
(* more, by a carry; and no branch jumps back over another.                *)
RunsAtMostThrice == \A k \in DOMAIN runs : runs[k] < TooOften

(* Every program comes to its end, whatever its instructions, its          *)
(* constants and the data it loads.                                        *)
Terminates == <>(pc = Finished)
=============================================================================
