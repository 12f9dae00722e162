SPECIFICATION FairSpec
CONSTANTS
  None = None
  Workers = {w1, w2}
  Found = {s1, s2}
  Done = {d1}
  MaxSessions = 2
  MaxPings = 4
INVARIANTS
  TypeOK
  CountedAsAnswered
  NoForeignShare
PROPERTIES
  EveryResultIsSettled
CHECK_DEADLOCK FALSE
