SPECIFICATION Spec
CONSTANTS
    Orgs = {hq, shop}
    Licensed = {shop}
    BindCredits = 1
    MaxTotal = 1
    Packages = {starter}
    UsagePackages = {starter}
    Offers = {1}
    Orders = {i1}
    Calls = {c1}
    Distributor = hq
    MaxLost = 0
    Tokens = {t1}
    CutCalls = {l1}
    MaxFree = 0
    TopOrgs = {hq}
    CreditCalls = {d1}
    Amounts = {1}
INVARIANTS
    LedgerBalanced
    JointOverdraftBounded
CHECK_DEADLOCK FALSE
