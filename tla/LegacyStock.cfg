SPECIFICATION Spec
CONSTANTS
    Runs = {job, schedule}
    Lookback = {schedule}
    MaxRows = 2
    MaxStarts = 2
    MaxTroubles = 1
INVARIANTS TypeOK CodesFollowHeaders CopiesBounded
PROPERTIES CompleteWhenClear RunsEnd
CHECK_DEADLOCK FALSE
