SPECIFICATION Spec
CONSTANTS
    Orders <- mcOrders
    SelfOrders <- mcOrders
    Txs <- mcTxs
    Addrs = {"a", "b"}
    None = None
    OrderInfo <- mcOrderInfo
    TxInfo <- mcTxInfo
    Workers = {w1}
    Good <- mcTxs
    RefundFlag <- mcFlag
    Ambiguous = FALSE
    MaxFaults = 1
    MaxCrashes = 1
    MaxMined = 2
INVARIANTS
    PaidOrdersBacked
    SentBackOnlyForAnother
PROPERTIES
    KeepsPromise
CHECK_DEADLOCK FALSE
