SPECIFICATION FairSpec
CONSTANTS
    Apis = {a1, a2}
    poller = poller
    MaxFailures = 2
INVARIANTS
    TypeOK
    AllTablesOrNone
    RunsOnWholeSchema
PROPERTY EverythingRuns
CHECK_DEADLOCK FALSE
