SPECIFICATION Spec
CONSTANTS
    always = always  never = never
    Dirs <- ShippedDirs
    TuneTypes = {"sysctl", "vm", "cpu"}
    SetValues = {always, never}
    SetMaxLength = 3
    RandomRounds = 1
    Rounds = 2
    Explored <- MCExplored
    Results <- MCResults
    Refused <- MCRefused
    None = None
INVARIANT IntegersInRange
CHECK_DEADLOCK FALSE
