------------------------------ MODULE MCRefund ------------------------------
(***************************************************************************)
(* Instances of Refund. Every payment is of an order of its own, of        *)
(* order_type Self; payment and order go by one name.                      *)
(***************************************************************************)
EXTENDS Refund

mcOwn(S) == [t \in S |-> t]

mcAllOn  == [c \in Chains |-> TRUE]

\* two on one EVM chain and one on Tron
mcSingleTxs == {"t1", "t2", "t3"}
mcSingleOrders == mcSingleTxs
mcSingleOrderOf == mcOwn(mcSingleTxs)
mcSingleChainOf == [t \in mcSingleTxs |-> IF t = "t3" THEN "tron" ELSE "bsc"]
mcSingleGood == mcSingleTxs

\* two on CKB, of which no refund can be built for one, and two on Doge
mcBatchTxs == {"t1", "t2", "t3", "t4"}
mcBatchOrders == mcBatchTxs
mcBatchOrderOf == mcOwn(mcBatchTxs)
mcBatchChainOf == [t \in mcBatchTxs |-> IF t \in {"t1", "t2"} THEN "ckb" ELSE "doge"]
mcBatchGood == mcBatchTxs \ {"t2"}

\* one payment on an EVM chain and one on CKB
mcOverlapTxs == {"t1", "t2"}
mcOverlapOrders == mcOverlapTxs
mcOverlapOrderOf == mcOwn(mcOverlapTxs)
mcOverlapChainOf == [t \in mcOverlapTxs |-> IF t = "t1" THEN "bsc" ELSE "ckb"]
mcOverlapGood == mcOverlapTxs

\* the same payments as in mcSingle, with the refunds of Tron switched off
mcTronOff == [c \in Chains |-> c # "tron"]

=============================================================================
