SPECIFICATION Spec
CONSTANTS
    i1 = i1
    i2 = i2
    t1 = t1
    t2 = t2
    t3 = t3
    nobody = nobody
    Instance = {i1, i2}
    Tick = {t1, t2, t3}
    InstanceOf <- MCInstanceOf
    Nobody = nobody
    Events = 1
    DeadAfter = 2
    MaxFaults = 1
INVARIANTS
    OneSweepPerInstance
