SPECIFICATION Spec
CONSTANTS
    Orders <- mcMemoOrders
    SelfOrders <- mcMemoSelf
    Txs <- mcMemoTxs
    Addrs = {"a", "b"}
    None = None
    OrderInfo <- mcMemoOrderInfo
    TxInfo <- mcMemoTxInfo
INVARIANTS
    TypeOK
    AtMostOneKept
    RefundsGoToThePayer
    PaidOrdersBacked
PROPERTIES
    KeptLostOnlyByReplay
    RegisterNeverRewound
    RefundNeverForgotten
    ImplementsPromise
CHECK_DEADLOCK FALSE
