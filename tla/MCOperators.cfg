SPECIFICATION Spec
CONSTANTS
  o1 = o1
  o2 = o2
  c1 = c1
  c2 = c2
  g = g
  g1 = g1
  g2 = g2
  m1 = m1
  shared = shared
  r = r
  n1 = n1
  n2 = n2
  None = None
  Operators = {o1, o2}
  Names = {n1, n2}
  CRDsOf <- Definitions
  GroupOf <- DefinitionGroups
  JobGroup <- Jobs
  PathsOf <- Paths
  ReleaseOf <- Releases
  MaxLives = 1
  MaxMishaps = 1
INVARIANTS
  TypeOK
  NothingLeftBehind
  RoleCoversGroups
PROPERTIES
  InstalledInTheEnd
CHECK_DEADLOCK FALSE
