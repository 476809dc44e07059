SPECIFICATION Spec
CONSTANTS
    Line = {l1}
    Shipment = {f1}
    Inspector = {i1}
    MaxFaults = 0
PROPERTIES
    RestockedOnce
CHECK_DEADLOCK FALSE
