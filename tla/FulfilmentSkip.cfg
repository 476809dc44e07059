SPECIFICATION Spec
CONSTANTS
    Line = {l1}
    Shipment = {f1}
    Inspector = {i1}
    MaxFaults = 0
INVARIANTS
    SkippedMeansNoCost
CHECK_DEADLOCK FALSE
