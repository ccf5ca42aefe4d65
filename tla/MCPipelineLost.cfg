SPECIFICATION FairSpec
CONSTANTS
    b1 = b1  b2 = b2
    s1 = s1  s2 = s2  s3 = s3  t1 = t1
    p1 = p1  p2 = p2  p3 = p3  p4 = p4
    None = None
    Benchmarks = {b1}
    Jobs = {s1, s2, s3}
    JobsOf <- OneJobsOf
    Eager = {}
    QSize = 1
    MaxCrashes = 0
    Faults = {"fast"}
PROPERTY EveryJobCreated
CHECK_DEADLOCK FALSE
