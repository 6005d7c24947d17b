----------------------------- MODULE PayTables -----------------------------
(***************************************************************************)
(* The two tables every part of das-pay reads and writes, and the database *)
(* calls of dao/ on them.                                                  *)
(*                                                                         *)
(*   orders   t_das_order_info: one row per order, written by das-register *)
(*            and marked paid by the parsers.                              *)
(*   pays     t_das_order_pay_info: one row per payment transaction; the   *)
(*            transaction hash is its key (the table INSERT IGNOREs on it).*)
(*                                                                         *)
(* A call is one SQL statement or one transaction, so each is atomic here. *)
(* chain_type, account_id, timestamp and the order's wording are dropped:  *)
(* no property tells them apart (chain_type follows the payment's chain).  *)
(***************************************************************************)
EXTENDS Naturals, FiniteSets

CONSTANTS
    Orders,      \* order ids
    SelfOrders,  \* those of order_type Self, the only ones das-pay looks up
    Txs,         \* hashes of transactions on the payment chains
    Addrs,       \* addresses of payers
    None         \* "no order", "no address": the empty string of the code

ASSUME OrdersAssumption == SelfOrders \subseteq Orders /\ IsFiniteSet(Orders)
ASSUME NoneAssumption   == None \notin Orders /\ None \notin Addrs

VARIABLES orders, pays

tables == <<orders, pays>>

\* tables.TxStatus: pay_status, refund_status and hedge_status
TxStatusDefault == 0
TxStatusSending == 1
TxStatusOk      == 2
TxStatus == {TxStatusDefault, TxStatusSending, TxStatusOk}

\* tables.OrderTxStatus: the status of a payment row (Rejected is never
\* written by das-pay)
OrderTxStatusDefault == 0
OrderTxStatusConfirm == 1
OrderTxStatus == {OrderTxStatusDefault, OrderTxStatusConfirm}

\* tables.RegisterStatus: das-pay writes ApplyRegister, das-register the rest
RegisterStatusDefault       == 0
RegisterStatusApplyRegister == 2
RegisterStatusRegistered    == 6
RegisterStatus == 0 .. RegisterStatusRegistered

\* id is the auto-increment key of the row, 0 before das-register inserts it
Order == [id : Nat, pay : TxStatus, reg : RegisterStatus]
Row   == [order : Orders \cup {None}, addr : Addrs \cup {None},
          status : OrderTxStatus, refund : TxStatus]

NoOrder == [id |-> 0, pay |-> TxStatusDefault, reg |-> RegisterStatusDefault]
NoRow   == [order |-> None, addr |-> None,
            status |-> OrderTxStatusDefault, refund |-> TxStatusDefault]

TablesType == orders \in [Orders -> Order] /\ pays \in [Txs -> Row]
TablesInit == orders = [o \in Orders |-> NoOrder] /\ pays = [t \in Txs |-> NoRow]

-----------------------------------------------------------------------------
\* Queries

\* dao.GetOrderByOrderId finds a row (order.Id # 0)
Found(o) == o \in SelfOrders /\ orders[o].id > 0

\* dao.GetPayInfoByHash finds a row
HasRow(t) == pays[t].order # None

\* the payments confirmed for an order, and those not (yet) to be refunded
Confirmed(o) == {t \in Txs : pays[t].order = o /\ pays[t].status = OrderTxStatusConfirm}
Kept(o)      == {t \in Confirmed(o) : pays[t].refund = TxStatusDefault}

Paid(o) == orders[o].pay # TxStatusDefault

\* dao.GetNeedRefundOrderList
NeedRefund == {t \in Txs : /\ pays[t].refund = TxStatusSending
                           /\ pays[t].status = OrderTxStatusConfirm
                           /\ pays[t].order \in SelfOrders
                           /\ Found(pays[t].order)}

-----------------------------------------------------------------------------
\* dao.UpdatePayStatus: four statements in one database transaction

\* Broken variant: the pay_status condition of the UPDATE is missing.
MarkPaidAgain(os, o) ==
    IF o \in SelfOrders
    THEN [os EXCEPT ![o].pay = TxStatusSending,
                    ![o].reg = RegisterStatusApplyRegister]
    ELSE os

MarkPaid(os, o) ==
    IF o \in SelfOrders /\ os[o].pay = TxStatusDefault
    THEN [os EXCEPT ![o].pay = TxStatusSending,
                    ![o].reg = RegisterStatusApplyRegister]
    ELSE os

\* Broken variants: no payment is refunded; the payment itself is, too.
RefundNoOther(ps, t, o) == ps

RefundAll(ps, t, o) ==
    [u \in Txs |-> IF u \in Confirmed(o) /\ ps[u].refund = TxStatusDefault
                   THEN [ps[u] EXCEPT !.refund = TxStatusSending]
                   ELSE ps[u]]

RefundOthers(ps, t, o) ==
    [u \in Txs |->
        IF /\ u # t
           /\ ps[u].order = o
           /\ ps[u].status = OrderTxStatusConfirm
           /\ ps[u].refund = TxStatusDefault
        THEN [ps[u] EXCEPT !.refund = TxStatusSending]
        ELSE ps[u]]

\* Broken variant: an upsert instead of the INSERT IGNORE.
InsertUpdate(ps, t, row) == [ps EXCEPT ![t] = row]

InsertIgnore(ps, t, row) ==
    IF ps[t].order = None THEN [ps EXCEPT ![t] = row] ELSE ps

\* Broken variants: the address stays as filed; it is overwritten with the order.
ConfirmStatusOnly(ps, t, o, a) ==
    IF ps[t].order = o THEN [ps EXCEPT ![t].status = OrderTxStatusConfirm] ELSE ps

ConfirmSwapped(ps, t, o, a) ==
    IF ps[t].order = o
    THEN [ps EXCEPT ![t].addr = o, ![t].status = OrderTxStatusConfirm]
    ELSE ps

ConfirmRow(ps, t, o, a) ==
    IF ps[t].order = o
    THEN [ps EXCEPT ![t].addr = a, ![t].status = OrderTxStatusConfirm]
    ELSE ps

UpdatePayStatus(t, o, a) ==
    LET row == [order |-> o, addr |-> a,
                status |-> OrderTxStatusConfirm, refund |-> TxStatusDefault]
    IN /\ orders' = MarkPaid(orders, o)
       /\ pays' = ConfirmRow(InsertIgnore(RefundOthers(pays, t, o), t, row), t, o, a)

\* dao.UpdateRefundStatus
UpdateRefundStatus(ts, old, new) ==
    pays' = [t \in Txs |->
                IF /\ t \in ts
                   /\ pays[t].status = OrderTxStatusConfirm
                   /\ pays[t].refund = old
                THEN [pays[t] EXCEPT !.refund = new]
                ELSE pays[t]]

=============================================================================
