\* Rates and the problem flag over restarts, failed scrapes and reloads.
CONSTANTS
    Missing = Missing
    Versions <- NewAndOld
    Threshold = 10
    IdleLimit = 2
    MaxWork = 3
    MaxRuns = 2
    MaxCycles = 4
SPECIFICATION Spec
INVARIANTS
    TypeOK
    RateTrue
    IdleAlarmTrue
    UnparsedNoticed
