-------------------------- MODULE PayPromiseProofs --------------------------
(***************************************************************************)
(* PayMatch implements PayPromise, for every set of orders and payments:   *)
(* each step of a parser is an Accept or a Displace, a filed hash is a     *)
(* File, and everything else changes nothing the promise is about.         *)
(***************************************************************************)
EXTENDS PayMatchProofs

\* What the refinement mapping makes of the tables.
KeptPays == UNION {Kept(o) : o \in Orders}
OwedPays == UNION {Confirmed(o) \ Kept(o) : o \in Orders}

\* A payment is kept, or owed, by its row alone.
IsKept(r) == r.order \in Orders /\ r.status = OrderTxStatusConfirm /\ r.refund = TxStatusDefault
IsOwed(r) == r.order \in Orders /\ r.status = OrderTxStatusConfirm /\ r.refund # TxStatusDefault

LEMMA PaysByRow ==
    /\ KeptPays = {u \in Txs : IsKept(pays[u])}
    /\ OwedPays = {u \in Txs : IsOwed(pays[u])}
    /\ KeptPays' = {u \in Txs : IsKept(pays'[u])}
    /\ OwedPays' = {u \in Txs : IsOwed(pays'[u])}
<1>1. KeptPays = {u \in Txs : IsKept(pays[u])}
  BY DEF KeptPays, Kept, Confirmed, IsKept
<1>2. OwedPays = {u \in Txs : IsOwed(pays[u])}
  BY DEF OwedPays, Kept, Confirmed, IsOwed
<1>3. KeptPays' = {u \in Txs : IsKept(pays'[u])}
  BY DEF KeptPays, Kept, Confirmed, IsKept
<1>4. OwedPays' = {u \in Txs : IsOwed(pays'[u])}
  BY DEF OwedPays, Kept, Confirmed, IsOwed
<1> QED
  BY <1>1, <1>2, <1>3, <1>4

-----------------------------------------------------------------------------
\* Only a confirmed row is put in refund.
RefundMeansConfirmed ==
    \A t \in Txs : pays[t].refund # TxStatusDefault => pays[t].status = OrderTxStatusConfirm

\* The four statements of dao.UpdatePayStatus seen from the order and the
\* payment: what is IsKept and IsOwed of each row, and which orders are paid.
LEMMA UpdatePromise ==
    ASSUME IInv, NEW t \in Txs, NEW o \in SelfOrders, Updates(t, o)
    PROVE  /\ \A u \in Txs \ {t} :
                 /\ pays'[u].order = pays[u].order
                 /\ pays'[u].status = pays[u].status
                 /\ pays'[u].refund = IF u \in Kept(o) THEN TxStatusSending ELSE pays[u].refund
           /\ pays[t].order \in {None, o} =>
                 /\ pays'[t].order = o /\ pays'[t].status = OrderTxStatusConfirm
                 /\ pays'[t].refund = pays[t].refund
           /\ pays[t].order \notin {None, o} => pays'[t] = pays[t]
           /\ {p \in Orders : Paid(p)}' = {p \in Orders : Paid(p)} \cup {o}
<1> USE OrdersAssumption
<1>1. TxInfo[t].from \in Addrs
  BY InfoAssumption
<1>2. /\ TablesType'
      /\ \A u \in Txs \ {t} :
            pays'[u] = IF u \in Kept(o) THEN [pays[u] EXCEPT !.refund = TxStatusSending]
                       ELSE pays[u]
      /\ pays[t].order \in {None, o} => RowIs(pays'[t], o, TxInfo[t].from, pays[t].refund)
      /\ pays[t].order \notin {None, o} => pays'[t] = pays[t]
      /\ Paid(o)'
      /\ \A p \in Orders : p # o \/ Paid(o) => orders'[p] = orders[p]
  BY <1>1, UpdateEffect DEF Updates, IInv, TypeOK, NoRowYet
<1>3. pays \in [Txs -> Row]
  BY DEF IInv, TypeOK, TablesType
<1>4. \A u \in Txs \ {t} :
         /\ pays'[u].order = pays[u].order
         /\ pays'[u].status = pays[u].status
         /\ pays'[u].refund = IF u \in Kept(o) THEN TxStatusSending ELSE pays[u].refund
  BY <1>2, <1>3 DEF Row
<1>5. \A p \in Orders : Paid(p)' <=> Paid(p) \/ p = o
  BY <1>2 DEF Paid
<1>6. {p \in Orders : Paid(p)}' = {p \in Orders : Paid(p)} \cup {o}
  BY <1>5
<1> QED
  BY <1>2, <1>4, <1>6 DEF RowIs

LEMMA RefundConfirmedStep ==
    ASSUME IInv, RefundMeansConfirmed, [Next]_vars
    PROVE  RefundMeansConfirmed'
<1> USE DEF RefundMeansConfirmed
<1>1. pays \in [Txs -> Row]
  BY DEF IInv, TypeOK, TablesType
<1>2. ASSUME NEW t \in Txs, Parse(t)
      PROVE  RefundMeansConfirmed'
  <2>1. CASE UNCHANGED tables
    BY <2>1 DEF tables
  <2>2. ASSUME NEW o \in SelfOrders, Updates(t, o)
        PROVE  RefundMeansConfirmed'
    BY <2>2, UpdatePromise DEF Kept, Confirmed
  <2> QED
    BY <1>2, <2>1, <2>2, ParseStep DEF IInv
<1>3. ASSUME NEW t \in Txs, TakeRefund(t) \/ PutBackRefund(t)
      PROVE  RefundMeansConfirmed'
  BY <1>1, <1>3 DEF TakeRefund, PutBackRefund, UpdateRefundStatus, Row
<1>4. ASSUME NEW o \in Orders, NEW t \in Txs, SubmitHash(o, t)
      PROVE  RefundMeansConfirmed'
  <2> DEFINE row == [NoRow EXCEPT !.order = o, !.addr = OrderInfo[o].addr]
  <2>1. row.refund = TxStatusDefault
    BY DEF NoRow
  <2>2. pays' = [pays EXCEPT ![t] = row]
    BY <1>4 DEF SubmitHash
  <2> HIDE DEF row
  <2> QED
    BY <1>1, <2>1, <2>2
<1> QED
  BY <1>2, <1>3, <1>4 DEF Next, CreateOrder, RegisterOk, vars

-----------------------------------------------------------------------------
\* Parsing keeps the promise.
LEMMA ParsePromise ==
    ASSUME IInv, RefundMeansConfirmed, NEW t \in Txs, NEW o \in SelfOrders, Updates(t, o)
    PROVE  Promise!Accept(o, t) \/ Promise!Displace(o, t)
<1> USE OrdersAssumption, NoneAssumption
<1> DEFINE of == {u \in Txs : pays[u].order = o}
<1>1. pays \in [Txs -> Row]
  BY DEF IInv, TypeOK, TablesType
<1>2. /\ \A u \in Txs \ {t} :
            /\ pays'[u].order = pays[u].order
            /\ pays'[u].status = pays[u].status
            /\ pays'[u].refund = IF u \in Kept(o) THEN TxStatusSending ELSE pays[u].refund
      /\ pays[t].order \in {None, o} =>
            /\ pays'[t].order = o /\ pays'[t].status = OrderTxStatusConfirm
            /\ pays'[t].refund = pays[t].refund
      /\ pays[t].order \notin {None, o} => pays'[t] = pays[t]
      /\ {p \in Orders : Paid(p)}' = {p \in Orders : Paid(p)} \cup {o}
  BY UpdatePromise
<1>3. \A u \in Txs : u \in Kept(o) <=> IsKept(pays[u]) /\ u \in of
  BY DEF Kept, Confirmed, IsKept
<1>4. \A u \in Txs \ {t} : /\ IsKept(pays'[u]) <=> IsKept(pays[u]) /\ u \notin of
                           /\ IsOwed(pays'[u]) <=> \/ IsOwed(pays[u])
                                                   \/ IsKept(pays[u]) /\ u \in of
  BY <1>2, <1>3 DEF IsKept, IsOwed, TxStatusSending, TxStatusDefault
<1>5. CASE pays[t].order \in {None, o} /\ t \notin OwedPays
  <2>1. pays[t].refund = TxStatusDefault
    <3>1. pays[t].order = None => pays[t].refund = TxStatusDefault
      BY DEF IInv, NoRowYet, NoRow
    <3> QED
      BY <1>5, <3>1, PaysByRow DEF RefundMeansConfirmed, IsOwed
  <2>2. IsKept(pays'[t]) /\ ~IsOwed(pays'[t])
    BY <1>2, <1>5, <2>1 DEF IsKept, IsOwed
  <2>3. KeptPays' = (KeptPays \ of) \cup {t}
    BY <1>4, <2>2, PaysByRow
  <2>4. OwedPays' = OwedPays \cup ((KeptPays \cap of) \ {t})
    BY <1>4, <1>5, <2>2, PaysByRow
  <2>5. [u \in Txs |-> pays[u].order]' = [[u \in Txs |-> pays[u].order] EXCEPT ![t] = o]
    BY <1>2, <1>5
  <2>6. Promise!Accept(o, t)
    BY <1>2, <1>5, <2>3, <2>4, <2>5 DEF Promise!Accept, Promise!Of, KeptPays, OwedPays
  <2> QED
    BY <2>6
<1>6. CASE ~(pays[t].order \in {None, o} /\ t \notin OwedPays)
  <2>1. pays[t].order # None /\ (pays[t].order = o => t \in OwedPays)
    <3>1. pays[t].order = None => t \notin OwedPays
      BY PaysByRow DEF IsOwed
    <3> QED
      BY <1>6, <3>1
  <2>2. /\ IsKept(pays'[t]) <=> IsKept(pays[t]) /\ t \notin of
        /\ IsOwed(pays'[t]) <=> IsOwed(pays[t]) \/ (IsKept(pays[t]) /\ t \in of)
        /\ pays'[t].order = pays[t].order
    <3>1. CASE pays[t].order = o
      BY <1>2, <2>1, <3>1, PaysByRow DEF IsKept, IsOwed
    <3>2. CASE pays[t].order # o
      BY <1>2, <2>1, <3>2
    <3> QED
      BY <3>1, <3>2
  <2>3. KeptPays' = KeptPays \ of
    BY <1>4, <2>2, PaysByRow
  <2>4. OwedPays' = OwedPays \cup (KeptPays \cap of)
    BY <1>4, <2>2, PaysByRow
  <2>5. [u \in Txs |-> pays[u].order]' = [u \in Txs |-> pays[u].order]
    BY <1>2, <2>2
  <2>6. Promise!Displace(o, t)
    BY <1>2, <2>1, <2>3, <2>4, <2>5 DEF Promise!Displace, Promise!Of, KeptPays, OwedPays
  <2> QED
    BY <2>6
<1> QED
  BY <1>5, <1>6

\* A filed hash is a row of no status.
LEMMA SubmitPromise ==
    ASSUME IInv, NEW o \in Orders, NEW t \in Txs, SubmitHash(o, t)
    PROVE  Promise!File(o, t)
<1> USE NoneAssumption
<1> DEFINE row == [NoRow EXCEPT !.order = o, !.addr = OrderInfo[o].addr]
<1>1. pays \in [Txs -> Row]
  BY DEF IInv, TypeOK, TablesType
<1>2. row.order = o /\ row.status # OrderTxStatusConfirm
  BY DEF NoRow, OrderTxStatusDefault, OrderTxStatusConfirm
<1>3. pays' = [pays EXCEPT ![t] = row] /\ pays[t].order = None /\ orders' = orders
  BY DEF SubmitHash, HasRow
<1> HIDE DEF row
<1>4. \A u \in Txs : /\ IsKept(pays'[u]) <=> IsKept(pays[u])
                     /\ IsOwed(pays'[u]) <=> IsOwed(pays[u])
  BY <1>1, <1>2, <1>3 DEF IsKept, IsOwed
<1>5. KeptPays' = KeptPays /\ OwedPays' = OwedPays
  BY <1>4, PaysByRow
<1>6. [u \in Txs |-> pays[u].order]' = [[u \in Txs |-> pays[u].order] EXCEPT ![t] = o]
  BY <1>1, <1>2, <1>3
<1>7. {p \in Orders : Paid(p)}' = {p \in Orders : Paid(p)}
  BY <1>3 DEF Paid
<1> QED
  BY <1>3, <1>5, <1>6, <1>7 DEF Promise!File, KeptPays, OwedPays

\* The other steps leave alone what the promise is about.
LEMMA QuietPromise ==
    ASSUME \A u \in Txs : /\ pays'[u].order = pays[u].order
                          /\ pays'[u].status = pays[u].status
                          /\ pays'[u].refund = TxStatusDefault <=> pays[u].refund = TxStatusDefault,
           \A p \in Orders : orders'[p].pay = orders[p].pay
    PROVE  UNCHANGED Promise!vars
<1>1. KeptPays' = KeptPays /\ OwedPays' = OwedPays
  BY PaysByRow DEF IsKept, IsOwed
<1>2. [u \in Txs |-> pays[u].order]' = [u \in Txs |-> pays[u].order]
  OBVIOUS
<1>3. {p \in Orders : Paid(p)}' = {p \in Orders : Paid(p)}
  BY DEF Paid
<1> QED
  BY <1>1, <1>2, <1>3 DEF Promise!vars, KeptPays, OwedPays

LEMMA PromiseStep ==
    ASSUME IInv, RefundMeansConfirmed, [Next]_vars
    PROVE  [Promise!Next]_(Promise!vars)
<1> USE OrdersAssumption
<1>1. pays \in [Txs -> Row] /\ orders \in [Orders -> Order]
  BY DEF IInv, TypeOK, TablesType
<1>2. ASSUME NEW t \in Txs, Parse(t)
      PROVE  [Promise!Next]_(Promise!vars)
  <2>1. CASE UNCHANGED tables
    BY <2>1, QuietPromise DEF tables
  <2>2. ASSUME NEW o \in SelfOrders, Updates(t, o)
        PROVE  Promise!Next
    BY <2>2, ParsePromise DEF Promise!Next
  <2> QED
    BY <1>2, <2>1, <2>2, ParseStep DEF IInv
<1>3. ASSUME NEW t \in Txs, TakeRefund(t) \/ PutBackRefund(t)
      PROVE  UNCHANGED Promise!vars
  <2>1. orders' = orders
    BY <1>3 DEF TakeRefund, PutBackRefund
  <2>2. \A u \in Txs : /\ pays'[u].order = pays[u].order
                       /\ pays'[u].status = pays[u].status
                       /\ pays'[u].refund = TxStatusDefault <=> pays[u].refund = TxStatusDefault
    BY <1>1, <1>3 DEF TakeRefund, PutBackRefund, UpdateRefundStatus, Row, TxStatusDefault,
                      TxStatusSending, TxStatusOk
  <2> QED
    BY <2>1, <2>2, QuietPromise
<1>4. ASSUME NEW o \in Orders, NEW t \in Txs, SubmitHash(o, t)
      PROVE  Promise!Next
  BY <1>4, SubmitPromise DEF Promise!Next
<1>5. ASSUME NEW o \in Orders, CreateOrder(o) \/ RegisterOk(o)
      PROVE  UNCHANGED Promise!vars
  <2>1. pays' = pays /\ \A p \in Orders : orders'[p].pay = orders[p].pay
    BY <1>1, <1>5 DEF CreateOrder, RegisterOk, Order
  <2> QED
    BY <2>1, QuietPromise
<1>6. CASE UNCHANGED vars
  BY <1>6, QuietPromise DEF vars
<1> QED
  BY <1>2, <1>3, <1>4, <1>5, <1>6 DEF Next

LEMMA InitPromise == Init => Promise!Init /\ RefundMeansConfirmed
<1> SUFFICES ASSUME Init PROVE Promise!Init /\ RefundMeansConfirmed
  OBVIOUS
<1> USE NoneAssumption
<1>1. \A t \in Txs : pays[t] = NoRow
  BY DEF Init, TablesInit
<1>2. \A t \in Txs : /\ pays[t].order = None /\ pays[t].status # OrderTxStatusConfirm
                     /\ pays[t].refund = TxStatusDefault
  BY <1>1 DEF NoRow, OrderTxStatusDefault, OrderTxStatusConfirm
<1>3. KeptPays = {} /\ OwedPays = {}
  BY <1>2, PaysByRow DEF IsKept, IsOwed
<1>4. {p \in Orders : Paid(p)} = {}
  BY DEF Init, TablesInit, NoOrder, Paid
<1>5. [u \in Txs |-> pays[u].order] = [u \in Txs |-> None]
  BY <1>2
<1> QED
  BY <1>2, <1>3, <1>4, <1>5 DEF Promise!Init, KeptPays, OwedPays, RefundMeansConfirmed

-----------------------------------------------------------------------------
\* Whatever the parsers, das-register and the refund marks do, the tables keep
\* the promise: one payment kept per order, every other owed back for good.
THEOREM Implements == Spec => ImplementsPromise
<1>1. IInv /\ RefundMeansConfirmed /\ [Next]_vars => RefundMeansConfirmed'
  BY RefundConfirmedStep
<1>2. IInv /\ RefundMeansConfirmed /\ [Next]_vars => [Promise!Next]_(Promise!vars)
  BY PromiseStep
<1> QED
  BY <1>1, <1>2, InitPromise, Invariance, PTL DEF Spec, ImplementsPromise, Promise!Spec

=============================================================================
