\* Bouncers that have been silent, while the integration itself asks.
CONSTANTS
    Missing = Missing
    Versions <- NewAndOld
    Threshold = 10
    IdleLimit = 2
    MaxWork = 1
    MaxRuns = 1
    MaxCycles = 4
SPECIFICATION Spec
INVARIANT SilentBouncersNoticed
