\* Two combinations, a build and two restarts, next to another benchmark.
SPECIFICATION Spec
CONSTANTS
    l1 = l1  l2 = l2  b1 = b1  b2 = b2
    InitBuild = init
    None = None
    Labels <- TwoLabels
    Builds = {b1}
    Shared = TRUE
    MaxRestarts = 2
INVARIANTS TypeOK FiledIsListed CompletedAgrees
PROPERTY NothingForgotten
CHECK_DEADLOCK FALSE
