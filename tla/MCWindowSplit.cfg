\* The split of one query while the clock runs.
CONSTANTS
    a1 = a1
    a2 = a2
    a3 = a3
    a4 = a4
    Alerts <- FourAlerts
    Spans = {2, 6}
    Minute = 3
    Limit = 2
    MaxSplits = 2
    MaxClock = 2
SPECIFICATION Spec
INVARIANTS
    TypeOK
    MissedOnlyAtSeams
    RequestBound
    PendingDisjoint
SYMMETRY Symmetry
\* the query ends
CHECK_DEADLOCK FALSE
