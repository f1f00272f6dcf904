SPECIFICATION CutsSpec
CONSTANTS
    Orgs = {shop}
    Licensed = {shop}
    BindCredits = 1
    MaxTotal = 3
    Tokens = {t1, t2}
    CutCalls = {l1, l2, l3}
    MaxFree = 1
INVARIANTS
    CutsChargedExactly
    OverdraftBounded
CHECK_DEADLOCK FALSE
