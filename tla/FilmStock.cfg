SPECIFICATION Spec
CONSTANTS
    MaxRows = 3
    MaxInward = 1
    Delivery = 2
    Calls = {c1, c2}
    Quantities = {1, 2}
    MaxEdits = 1
INVARIANTS TypeOK StockConserved OrdersAddUp OverdrawBounded
CHECK_DEADLOCK FALSE
SYMMETRY CallSymmetry
