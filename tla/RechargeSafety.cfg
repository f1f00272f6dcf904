SPECIFICATION FairRechargeSpec
CONSTANTS
    Orgs = {hq, shop}
    Licensed = {shop}
    BindCredits = 1
    MaxTotal = 9
    Packages = {starter}
    UsagePackages = {starter}
    Offers = {1, 2}
    Orders = {i1, i2}
    Calls = {c1, c2}
    Distributor = hq
    MaxLost = 1
INVARIANTS
    RechargesAccounted
    OvercreditBounded
PROPERTIES
    PaidIsCredited
CHECK_DEADLOCK FALSE
