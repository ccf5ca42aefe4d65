SPECIFICATION FairSpec
CONSTANTS
    n1 = n1  n2 = n2
    Nodes = {n1, n2}
    NodeLabels <- MCNodeLabels
    Specs <- MCSpecs
    TrackedBuilds <- MCBuilds
    Unlabelled = "unlabelled"
    None = None
    MaxRestarts = 2
INVARIANTS
    TypeOK RunsUnderItsProfile AsksForItsNodes FiledWithItsRepetitions
PROPERTY EveryCombinationMeasured
CHECK_DEADLOCK FALSE
