SPECIFICATION FairSpec
CONSTANTS
    Orders <- mcOrders
    TokenOf <- mcTokenOf
    Prices = {"eth_eth", "ckb_ckb"}
    None = None
    HedgeUrl = TRUE
    MaxFaults = 1
    MaxStops = 1
    MaxPrices = 1
INVARIANTS
    HedgedOnce
    HedgeLostOnlyByFailure
PROPERTIES
    HedgedEventually
    StopsUnlessHung
CHECK_DEADLOCK FALSE
