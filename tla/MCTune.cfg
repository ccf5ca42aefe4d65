\* Two tuned jobs before one that is not; one kind of thing goes wrong, or none.
SPECIFICATION FairSpec
CONSTANTS
    t1 = t1  t2 = t2  x = x
    None = None
    Scanned <- TwoTuned
    Tuned = {t1, t2}
    Running = {}
    RandomRounds = 1
    Rounds = 2
    QSize = 1
    Values = {1, 2}
    Minimize = TRUE
    Faults = {"invalid", "profile", "create", "optimize", "nosend"}
INVARIANTS
    TypeOK RoundsBalance ResultsOfSamples NoPanic RecordedRight
PROPERTIES TuningNotInterrupted AllResultsRecorded
CHECK_DEADLOCK FALSE
