SPECIFICATION Spec
CONSTANTS
    Orders <- mcDogeOrders
    SelfOrders <- mcDogeSelf
    Txs <- mcDogeTxs
    Addrs = {"a", "b"}
    None = None
    OrderInfo <- mcDogeOrderInfo
    TxInfo <- mcDogeTxInfo
INVARIANTS
    PaidOrdersBacked
PROPERTIES
    KeptLostOnlyByReplay
CHECK_DEADLOCK FALSE
