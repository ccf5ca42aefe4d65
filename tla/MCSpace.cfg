SPECIFICATION Spec
CONSTANTS
    always = always  never = never
    Dirs <- MCDirs
    TuneTypes = {"sysctl", "vm", "cpu"}
    SetValues = {always, never}
    SetMaxLength = 3
    RandomRounds = 1
    Rounds = 2
    Explored <- MCExplored
    Results <- MCResults
    Refused <- MCRefused
    None = None
INVARIANTS
    TunedWhereListed ValuesAsRounded TuningEnds
CHECK_DEADLOCK FALSE
