SPECIFICATION Spec
CONSTANTS
    Dealers = {d1, d2}
    HQ = hq
    Runs = {job, upload}
    Allocation = 2
    Usage = 3
    MaxGrants = 2
    MaxStarts = 3
    MaxCleans = 1
    MaxLosses = 1
INVARIANTS TypeOK CreditsAddUp RowsFollowCredits
SYMMETRY DealerRunSymmetry
PROPERTIES RunsCoverGrants
CHECK_DEADLOCK FALSE
