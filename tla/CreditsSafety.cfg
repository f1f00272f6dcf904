SPECIFICATION CreditsSpec
CONSTANTS
    Orgs = {hq, shop}
    Licensed = {}
    BindCredits = 1
    MaxTotal = 2
    TopOrgs = {hq}
    CreditCalls = {d1, d2}
    Amounts = {1, 2}
INVARIANTS
    RowsCovered
    TransfersConserved
PROPERTIES
    RowsTakenInFull
SYMMETRY CallSymmetry
CHECK_DEADLOCK FALSE
