SPECIFICATION FairSpec
CONSTANTS
    c1 = c1
    c2 = c2
    admin = admin
    cancel = cancel
    Charged = 3
    Change = {c1}
    AdminRefund = {admin}
    Cancel = cancel
    Amount <- MCAmount
    Faults = {"gateway", "stamp"}
    MaxRetries = 1
INVARIANTS
    TypeOK
    ShownNeverOverstates
    PaidOncePerStamp
    CanceledIsPaidBack
    ClosedMeansPaidBack
PROPERTIES
    JobsEnd
CHECK_DEADLOCK FALSE
