\* Loads, unbans and lookups against a table that the poll replaces.
CONSTANTS
    Targets <- TwoTargets
    Covers <- RangeCovers
    Decisions <- ThreeDecisions
    Value <- ValueOf
    Origin <- OriginOf
    PageSize = 1
    MaxCommands = 2
SPECIFICATION Spec
INVARIANTS
    RowsAtTheirPlace
    RemovedStaysAway
    CentralKept
    ReportHonest
