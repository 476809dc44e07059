SPECIFICATION Spec
CONSTANTS
    c1 = c1
    c2 = c2
    admin = admin
    cancel = cancel
    Charged = 3
    Change = {c1, c2}
    AdminRefund = {}
    Cancel = cancel
    Amount <- MCAmount
    Faults = {}
    MaxRetries = 1
INVARIANTS
    ConfirmedChangesPaid
CHECK_DEADLOCK FALSE
