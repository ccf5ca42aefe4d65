\* Two configurations, each run three times, with errors of the parser service.
SPECIFICATION Spec
CONSTANTS
    s1 = s1  s2 = s2  c1 = c1  c2 = c2
    Scenarios = {s1}
    Configs = {c1, c2}
    Repetitions = 3
    Values = {1, 2, 4}
    Minimize = TRUE
    MayFail = TRUE
INVARIANT BestIsRight
PROPERTY BestOnlyImproves
CHECK_DEADLOCK FALSE
