SPECIFICATION Spec
CONSTANTS
  b1 = b1
  b2 = b2
  a1 = a1
  a2 = a2
  c1 = c1
  n1 = n1
  n2 = n2
  None = None
  Benchmarks = {b1, b2}
  Names = {n1, n2}
  Jobs = {a1, a2, c1}
  NameOf <- Unique
  JobsOf <- TwoBenchmarks
  MaxLives <- Lives
  MaxTrackers = 3
  MayMiss = {b1}
INVARIANTS
  TypeOK
  TrackerFollowsSubscribers
  OrphansBounded
  SequentialUnlessRecreated
CHECK_DEADLOCK FALSE
PROPERTIES
  SurvivorFinishes
