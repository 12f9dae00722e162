SPECIFICATION Spec
CONSTANTS
  w1 = w1
  w2 = w2
  j1 = j1
  j2 = j2
  j3 = j3
  s1 = s1
  s2 = s2
  None = None
  Workers = {w1}
  Jobs = {j1, j3}
  AlgoOf <- MCAlgoOf2
  SeedOf <- MCSeedOf
  L3Of <- MCL3Of2
  Seeds = {s1, s2}
  Configs <- MCPowerConfigs
  FirstConfig <- Laptop
  Inputs = {"pool lost", "user", "rpc stop", "config", "power"}
  Exhaustible = TRUE
INVARIANTS
  TypeOK
  PausedOnBattery
PROPERTIES
  AutomaticResumeWaits
