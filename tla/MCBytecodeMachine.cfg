SPECIFICATION Spec
CONSTANTS
  Registers = {0, 1}
  ProgramSize = 3
  WordSize = 3
  JumpBits = 1
  JumpOffset = 1
  Conds = {1}
INVARIANTS
  LoopKeepsItsRegister
  RunsAtMostThrice
PROPERTIES
  Terminates
CHECK_DEADLOCK FALSE
