SPECIFICATION Spec
CONSTANTS
  Top = 2
  LastCell = 3
  Addresses = {0, 1, 2, 3}
  Data = {w1, w2}
  U = U
  X = X
  DontCare = DontCare
PROPERTIES
  ReadReturnsLastWrite
CHECK_DEADLOCK FALSE
