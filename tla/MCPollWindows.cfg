\* The windows of full and incremental queries, over one alert and a longer time.
CONSTANTS
    a1 = a1
    a2 = a2
    Alerts <- OneAlert
    Window = 5
    FullInterval = 4
    Minute = 2
    Overlap = 2
    MaxLatency = 1
    Backdate = 2
    Cap = 1
    MaxTime = 7
SPECIFICATION Spec
INVARIANTS
    WindowComplete
    FullQueryInTime
