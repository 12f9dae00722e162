SPECIFICATION FairSpec
CONSTANTS
  w1 = w1
  w2 = w2
  j1 = j1
  j2 = j2
  j3 = j3
  s1 = s1
  s2 = s2
  None = None
  Workers = {w1}
  Jobs <- MCJobs
  AlgoOf <- MCAlgoOf
  SeedOf <- MCSeedOf
  L3Of <- MCL3Of
  Seeds = {s1, s2}
  Configs <- MCConfigs
  FirstConfig <- Plain
  Inputs = {}
  Exhaustible = FALSE
PROPERTIES
  SwitchDoesNotFreeze
