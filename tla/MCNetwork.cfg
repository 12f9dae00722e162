SPECIFICATION FairSpec
CONSTANTS
  None = None
  UserJobs = {"job 1", "job 2"}
  ProxyDonate = "auto"
INVARIANTS
  UserJobIsMined
  NoPoolNoMining
  DonationIsExclusive
PROPERTIES
  UserIsServed
