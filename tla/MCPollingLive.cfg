\* The cap delays the events of a burst: two alerts at one moment, over incremental
\* queries, reloads and rejected logins.
CONSTANTS
    a1 = a1
    a2 = a2
    Alerts <- TwoAlerts
    Window = 0
    FullInterval = 1
    Minute = 1
    Overlap = 1
    MaxLatency = 0
    Backdate = 0
    Cap = 1
    MaxTime = 0
SPECIFICATION FairSpec
PROPERTIES
    BacklogDrains
    AlertPickedUp
