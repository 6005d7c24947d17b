----------------------------- MODULE MCDasTimer -----------------------------
(***************************************************************************)
(* An instance of DasTimer: an order paid in ETH, one paid in a token that *)
(* goes by the price of CKB, and one by coupon.                            *)
(***************************************************************************)
EXTENDS DasTimer

mcOrders == {"o1", "o2", "o3"}
mcTokenOf ==
    [o \in mcOrders |->
        CASE o = "o1" -> "eth_eth" [] o = "o2" -> "ckb_das" [] o = "o3" -> "coupon"]

=============================================================================
