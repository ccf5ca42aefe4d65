\* The documented results, for a benchmark of two jobs.
SPECIFICATION Spec
CONSTANTS
    l1 = l1  l2 = l2  b1 = b1  b2 = b2
    InitBuild = init
    None = None
    Labels <- TwoLabels
    Builds = {}
    Shared = FALSE
    MaxRestarts = 0
INVARIANT CollectedIsRecorded
CHECK_DEADLOCK FALSE
