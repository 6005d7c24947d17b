SPECIFICATION Spec
CONSTANTS
    Orders <- mcOverlapOrders
    SelfOrders <- mcOverlapOrders
    Txs <- mcOverlapTxs
    Addrs = {"a"}
    None = None
    Workers = {w1, w2}
    OrderOf <- mcOverlapOrderOf
    ChainOf <- mcOverlapChainOf
    Good <- mcOverlapGood
    RefundFlag <- mcAllOn
    Ambiguous = TRUE
    MaxFaults = 1
    MaxCrashes = 1
    MaxMined = 3
INVARIANTS
    SentStaysMarked
    DoubleOnlyIfRisky
    NothingLost
CHECK_DEADLOCK FALSE
