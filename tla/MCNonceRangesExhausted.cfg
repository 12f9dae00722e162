SPECIFICATION Spec
CONSTANTS
  w1 = w1
  w2 = w2
  u1 = u1
  u2 = u2
  d1 = d1
  None = None
  Workers = {w1, w2}
  UserJobs = {u1, u2}
  DonateJobs = {}
  Reserve = 1
  Mask = 1
  PoolByte = 0
  Hasty = TRUE
  UserPauses = TRUE
  Exhaustible = TRUE
INVARIANTS
  TypeOK
PROPERTIES
  OnlyLateCopiesAreStale
CHECK_DEADLOCK FALSE
SYMMETRY Symmetry
