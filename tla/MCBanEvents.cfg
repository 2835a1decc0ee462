\* The ban events and the truncation issue, over two alerts.
CONSTANTS
    a1 = a1
    a2 = a2
    Alerts <- TwoAlerts
    Window = 1
    FullInterval = 2
    Minute = 1
    Overlap = 0
    MaxLatency = 0
    Backdate = 0
    Cap = 1
    MaxTime = 2
SPECIFICATION Spec
INVARIANTS
    TypeOK
    KnownBansAccounted
    NoSecondEvent
    TruncationReported
PROPERTY FeedKept
SYMMETRY Symmetry
