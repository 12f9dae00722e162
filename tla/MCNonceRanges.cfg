SPECIFICATION Spec
CONSTANTS
  w1 = w1
  w2 = w2
  u1 = u1
  u2 = u2
  d1 = d1
  None = None
  Workers = {w1, w2}
  UserJobs = {u1, u2}
  DonateJobs = {d1}
  Reserve = 2
  Mask = 3
  PoolByte = 1
  Hasty = FALSE
  UserPauses = FALSE
  Exhaustible = FALSE
INVARIANTS
  RangesAreGapless
  NoNonceOverflow
PROPERTIES
  TestedOnce
CHECK_DEADLOCK FALSE
SYMMETRY Symmetry
