SPECIFICATION Spec
CONSTANTS
    Orgs = {hq, shop}
    Licenses = {k1}
    Hashes = {h1, h2}
    NoHash = NoHash
    Calls = {c1, c2}
    MaxHops = 2
    MaxRestarts = 1
INVARIANTS
    HeldByLastReceiver
    TrailUnbroken
PROPERTIES
    MovesAlerted
    RevocationUndone
SYMMETRY Symmetry
CHECK_DEADLOCK FALSE
