SPECIFICATION RechargeSpec
CONSTANTS
    Orgs = {hq, shop}
    Licensed = {shop}
    BindCredits = 1
    MaxTotal = 4
    Packages = {starter, monthly}
    UsagePackages = {starter}
    Offers = {1, 2}
    Orders = {i1, i2}
    Calls = {c1}
    Distributor = hq
    MaxLost = 1
PROPERTIES
    KeepsPromise
CHECK_DEADLOCK FALSE
