\* The documented best result, with more than one repetition.
SPECIFICATION Spec
CONSTANTS
    s1 = s1  s2 = s2  c1 = c1  c2 = c2
    Scenarios = {s1}
    Configs = {c1, c2}
    Repetitions = 2
    Values = {1, 2, 4}
    Minimize = FALSE
    MayFail = FALSE
INVARIANT BestIsBestAverage
CHECK_DEADLOCK FALSE
