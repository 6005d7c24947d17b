SPECIFICATION Spec
CONSTANTS
    Orders <- mcSingleOrders
    SelfOrders <- mcSingleOrders
    Txs <- mcSingleTxs
    Addrs = {"a"}
    None = None
    Workers = {w1}
    OrderOf <- mcSingleOrderOf
    ChainOf <- mcSingleChainOf
    Good <- mcSingleGood
    RefundFlag <- mcTronOff
    Ambiguous = FALSE
    MaxFaults = 0
    MaxCrashes = 0
    MaxMined = 3
INVARIANTS
    FlagRespected
CHECK_DEADLOCK FALSE
