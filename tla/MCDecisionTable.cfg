\* The table and the report while bans end, are lifted and forgotten, and queries fail.
CONSTANTS
    None = None
    Targets <- Networks
    Covers <- Contains
    Bans <- BansOfBoth
    Window = 1
    MaxRows = 1
    Lag = 2
    MaxTime = 2
    MaxAlerts = 2
VIEW WithoutRows
SPECIFICATION Spec
INVARIANT ReportAnswers
PROPERTIES
    CutTakesThePast
    EveryBanShown
    NewestAlertDescribes
