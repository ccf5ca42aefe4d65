\* The documented activation, for a benchmark with one job.
SPECIFICATION FairSpec
CONSTANTS
    t1 = t1  t2 = t2  x = x
    None = None
    Scanned <- TunedAlone
    Tuned = {t1}
    Running = {}
    RandomRounds = 1
    Rounds = 2
    QSize = 1
    Values = {1, 2}
    Minimize = FALSE
    Faults = {}
PROPERTY TuningActivated
CHECK_DEADLOCK FALSE
