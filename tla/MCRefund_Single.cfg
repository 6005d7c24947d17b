SPECIFICATION FairSpec
CONSTANTS
    Orders <- mcSingleOrders
    SelfOrders <- mcSingleOrders
    Txs <- mcSingleTxs
    Addrs = {"a"}
    None = None
    Workers = {w1}
    OrderOf <- mcSingleOrderOf
    ChainOf <- mcSingleChainOf
    Good <- mcSingleGood
    RefundFlag <- mcAllOn
    Ambiguous = FALSE
    MaxFaults = 2
    MaxCrashes = 1
    MaxMined = 3
INVARIANTS
    TypeOK
    NoDoubleRefund
    NothingLost
PROPERTIES
    RefundedEventually
CHECK_DEADLOCK FALSE
