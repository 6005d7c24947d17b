------------------------------ MODULE MCDasPay ------------------------------
(***************************************************************************)
(* An instance of DasPay: an order on eth paid twice, and once more on bsc *)
(* by mistake, and an order on Tron.                                       *)
(***************************************************************************)
EXTENDS DasPay

mcOrder(token, amount, addr) == [token |-> token, amount |-> amount, addr |-> addr]

mcTx(chain, from, memo, value) ==
    [chain |-> chain, from |-> from, vinOk |-> TRUE,
     outs |-> <<[mine |-> TRUE, memo |-> memo, value |-> value]>>]

mcOrders == {"o1", "o2"}
mcOrderInfo ==
    [o \in mcOrders |->
        IF o = "o1" THEN mcOrder("eth_eth", 1, "a") ELSE mcOrder("tron_trx", 2, "b")]

mcTxs == {"t1", "t2", "t3", "t4"}
mcTxInfo ==
    [t \in mcTxs |->
        CASE t = "t1" -> mcTx("eth", "a", "o1", 1)
          [] t = "t2" -> mcTx("eth", "b", "o1", 2)
          [] t = "t3" -> mcTx("bsc", "b", "o1", 2)
          [] t = "t4" -> mcTx("tron", "b", "o2", 2)]

mcFlag == [c \in {"eth", "bsc", "polygon", "tron", "ckb", "doge"} |-> TRUE]

=============================================================================
