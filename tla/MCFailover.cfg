SPECIFICATION FairSpec
CONSTANTS
  Last = 2
  Retries = 2
INVARIANTS
  OneSession
  ActiveIsServed
  KeepsTrying
PROPERTIES
  ReturnsToFirst
  ReachableIsFound
  OthersFallSilent
  ImplementsStrategy
