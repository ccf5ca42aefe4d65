\* Random rounds under way together: each is to get its own result.
SPECIFICATION Spec
CONSTANTS
    t1 = t1  t2 = t2  x = x
    None = None
    Scanned <- TwoTuned
    Tuned = {t1, t2}
    Running = {}
    RandomRounds = 2
    Rounds = 2
    QSize = 1
    Values = {1, 2}
    Minimize = TRUE
    Faults = {}
INVARIANT RoundsGetTheirResults
CHECK_DEADLOCK FALSE
