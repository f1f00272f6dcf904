SPECIFICATION FairSpec
CONSTANTS
    Runs = {r1, r2}
    Pages = {p1}
    KeptLogs = 1
    MaxEdits = 1
    MaxCrashes = 1
INVARIANTS
    TypeOK
    OverlapBounded
    LogTellsRun
PROPERTIES
    WedgedOnlyBySavesAndRestarts
    DueRunsUnlessWedged
CHECK_DEADLOCK FALSE
