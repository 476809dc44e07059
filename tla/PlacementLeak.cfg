SPECIFICATION Spec
CONSTANTS
    r1 = r1
    r2 = r2
    a = a
    b = b
    k1 = k1
    noKey = noKey
    noOrder = noOrder
    Sku <- MCSku
    Key = {k1}
    NoKey = noKey
    NoOrder = noOrder
    Request <- MCPair
    LineCount <- MCPairLines
    Hold <- MCPairHold
    HoldSku <- MCPairHoldSku
    HoldQty <- MCPairHoldQty
    Stock0 <- MCShort
    KeyOf <- MCPairNoKeys
    Coded = {}
    VoucherUses = 1
INVARIANTS
    NoLeakOnShortage
CHECK_DEADLOCK FALSE
