SPECIFICATION MCSpec
CONSTANTS
    Line = {l1, l2}
    Shipment = {f1, f2}
    Inspector = {i1, i2}
    MaxFaults = 1
INVARIANTS
    TypeOK
    HoldUntilGone
    NoReversalWithoutShipment
PROPERTIES
    GoodsMovedOnce
CHECK_DEADLOCK FALSE
SYMMETRY Alike
