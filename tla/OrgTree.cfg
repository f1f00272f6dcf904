SPECIFICATION FairSpec
CONSTANTS
    Orgs = {o1, o2, o3, o4}
    NoOrg = NoOrg
    Absent = Absent
    TreeCalls = {c1}
    MaxClimb = 3
    MaxChanges = 5
INVARIANTS
    ListExact
    ClimbExact
    RouteExact
PROPERTIES
    ReadsEnd
CHECK_DEADLOCK FALSE
