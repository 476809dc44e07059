SPECIFICATION FairSpec
CONSTANTS
    r1 = r1
    r2 = r2
    a = a
    b = b
    k1 = k1
    noKey = noKey
    noOrder = noOrder
    Sku <- MCSku
    Key = {k1}
    NoKey = noKey
    NoOrder = noOrder
    Request <- MCPair
    LineCount <- MCDuoLines
    Hold <- MCDuoHold
    HoldSku <- MCDuoHoldSku
    HoldQty <- MCDuoHoldQty
    Stock0 <- MCPlenty
    KeyOf <- MCPairKeyOf
    Coded = {}
    VoucherUses = 1
PROPERTIES
    CallsEnd
    HoldsComeBack
CHECK_DEADLOCK FALSE
