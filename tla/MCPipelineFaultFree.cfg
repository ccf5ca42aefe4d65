SPECIFICATION FairSpec
CONSTANTS
    b1 = b1  b2 = b2
    s1 = s1  s2 = s2  s3 = s3  t1 = t1
    p1 = p1  p2 = p2  p3 = p3  p4 = p4
    None = None
    Benchmarks = {b1, b2}
    Jobs = {s1, s2, s3, p1, p2, p3, p4}
    JobsOf <- MixedJobsOf
    Eager <- MixedEager
    QSize = 1
    MaxCrashes = 0
    Faults = {}
INVARIANTS
    TypeOK WaitingIsAbsent ChainAlive
PROPERTIES AllResultsRecorded ImplementsRuns
CHECK_DEADLOCK FALSE
