SPECIFICATION FairSpec
CONSTANTS
    Orders <- mcBatchOrders
    SelfOrders <- mcBatchOrders
    Txs <- mcBatchTxs
    Addrs = {"a"}
    None = None
    Workers = {w1}
    OrderOf <- mcBatchOrderOf
    ChainOf <- mcBatchChainOf
    Good <- mcBatchGood
    RefundFlag <- mcAllOn
    Ambiguous = FALSE
    MaxFaults = 1
    MaxCrashes = 1
    MaxMined = 1
INVARIANTS
    NoDoubleRefund
PROPERTIES
    RefundedEventually
CHECK_DEADLOCK FALSE
