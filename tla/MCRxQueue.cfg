SPECIFICATION FairSpec
CONSTANTS
  s1 = s1
  s2 = s2
  s3 = s3
  d1 = d1
  d2 = d2
  d3 = d3
  None = None
  Partial = Partial
  Absent = Absent
  n1 = n1
  n2 = n2
  n3 = n3
  Nodes = {n1, n2, n3}
  Front = n1
  MaxQueue = 2
  Seeds <- MCSeeds
  DataOf <- MCDataOf
INVARIANTS
  GrantedIsBuilt
  ReadyMeansGranted
  LastRequestKept
PROPERTIES
  ImplementsService
  RequestAnswered
  SettlesWhenLeftAlone
  DestructorReturns
