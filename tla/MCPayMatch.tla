----------------------------- MODULE MCPayMatch -----------------------------
(***************************************************************************)
(* Instances of PayMatch: a CKB one, where payments carry the order id,    *)
(* and a Doge one, where they may carry only an amount. MCDasPay has EVM   *)
(* and Tron payments, together with their refunds.                         *)
(***************************************************************************)
EXTENDS PayMatch

mcOut(mine, memo, value) == [mine |-> mine, memo |-> memo, value |-> value]

mcOrder(token, amount, addr) == [token |-> token, amount |-> amount, addr |-> addr]

mcTx(chain, from, outs) == [chain |-> chain, from |-> from, vinOk |-> TRUE, outs |-> outs]

\* three orders on ckb, of which o3 is not of order_type Self
mcMemoOrders == {"o1", "o2", "o3"}
mcMemoSelf == {"o1", "o2"}
mcMemoOrderInfo ==
    [o \in mcMemoOrders |->
        IF o = "o2" THEN mcOrder("ckb_das", 2, "a") ELSE mcOrder("ckb_ckb", 2, "b")]

\* t1: short for o1, then enough for o2; t2, t3: both for o1, t3 then also for o2;
\* t4: on Tron for o2
mcMemoTxs == {"t1", "t2", "t3", "t4"}
mcMemoTxInfo ==
    [t \in mcMemoTxs |->
        CASE t = "t1" -> mcTx("ckb", "a", <<mcOut(TRUE, "o1", 1), mcOut(TRUE, "o2", 2)>>)
          [] t = "t2" -> mcTx("ckb", "b", <<mcOut(FALSE, "o1", 2), mcOut(TRUE, "o1", 2)>>)
          [] t = "t3" -> mcTx("ckb", "a", <<mcOut(TRUE, "o1", 3), mcOut(TRUE, "o2", 2)>>)
          [] t = "t4" -> mcTx("tron", "b", <<mcOut(TRUE, "o2", 2)>>)]

\* o1 and o2 of the same payer and amount, o3 of another token on that
\* address, and o4, which is not of order_type Self
mcDogeOrders == {"o1", "o2", "o3", "o4"}
mcDogeSelf == {"o1", "o2", "o3"}
mcDogeOrderInfo ==
    [o \in mcDogeOrders |->
        mcOrder(IF o = "o3" THEN "eth_eth" ELSE "doge_doge", 1, "a")]

\* t1: names o3, which is of another token, so it counts by amount only; t2: the
\* last of two OP_RETURNs names o1; t3: pays o3 on its own chain
mcDogeTxs == {"t1", "t2", "t3"}
mcDogeTxInfo ==
    [t \in mcDogeTxs |->
        CASE t = "t1" -> mcTx("doge", "a", <<mcOut(FALSE, None, 3), mcOut(TRUE, None, 1),
                                             mcOut(FALSE, "o3", 0)>>)
          [] t = "t2" -> mcTx("doge", "b", <<mcOut(TRUE, None, 1), mcOut(FALSE, "o2", 0),
                                             mcOut(FALSE, "o1", 0)>>)
          [] t = "t3" -> mcTx("eth", "b", <<mcOut(TRUE, "o3", 1)>>)]

=============================================================================
