--------------------------- MODULE PayMatchProofs ---------------------------
(***************************************************************************)
(* What holds of PayMatch for every set of orders and payments.            *)
(***************************************************************************)
EXTENDS PayMatch, FiniteSetTheorems, TLAPS

\* One UpdatePayStatus for an order that das-pay looked up.
Updates(t, o) == Found(o) /\ UpdatePayStatus(t, o, TxInfo[t].from)

\* An order some parser credits is always one it looked up in the table.
LEMMA CreditFound ==
    ASSUME NEW t \in Txs
    PROVE  /\ CkbCredit(t)  # None => Found(CkbCredit(t))
           /\ EvmCredit(t)  # None => Found(EvmCredit(t))
           /\ TronCredit(t) # None => Found(TronCredit(t))
           /\ OpReturnCredit(t) # None => Found(OpReturnCredit(t))
           /\ AmountCredit(t) # None => Found(AmountCredit(t))
           /\ FiledCredit(t) \in {None, pays[t].order}
<1>1. CkbCredit(t) # None => Found(CkbCredit(t))
  <2> DEFINE first == {i \in DOMAIN Outs(t) :
                         /\ OutCovers(t, Outs(t)[i])
                         /\ \A j \in 1 .. i - 1 : ~OutCovers(t, Outs(t)[j])}
             i1 == CHOOSE i \in first : TRUE
  <2>1. CASE first = {}
    BY <2>1 DEF CkbCredit
  <2>2. CASE first # {}
    <3>1. i1 \in first
      BY <2>2
    <3>2. CkbCredit(t) = Outs(t)[i1].memo
      BY <2>2 DEF CkbCredit
    <3> QED
      BY <3>1, <3>2 DEF OutCovers
  <2> QED
    BY <2>1, <2>2
<1>2. EvmCredit(t) # None => Found(EvmCredit(t))
  BY DEF EvmCredit, OutCovers
<1>3. TronCredit(t) # None => Found(TronCredit(t))
  BY DEF TronCredit, OutCovers
<1>4. OpReturnCredit(t) # None => Found(OpReturnCredit(t))
  BY DEF OpReturnCredit
<1>5. NewestOrder(t) # None => Found(NewestOrder(t))
  <2> DEFINE fits   == {o \in Orders : /\ Found(o)
                                       /\ OrderInfo[o].addr = TxInfo[t].from
                                       /\ OrderInfo[o].amount = DogeValue(t)}
             newest == {o \in fits : \A p \in fits : orders[p].id <= orders[o].id}
  <2>1. NewestOrder(t) = IF newest = {} THEN None ELSE CHOOSE o \in newest : TRUE
    BY DEF NewestOrder
  <2>2. newest # {} => (CHOOSE o \in newest : TRUE) \in newest
    OBVIOUS
  <2> QED
    BY <2>1, <2>2
<1>6. AmountCredit(t) # None => Found(AmountCredit(t))
  BY <1>5 DEF AmountCredit
<1>7. FiledCredit(t) \in {None, pays[t].order}
  BY DEF FiledCredit
<1> QED
  BY <1>1, <1>2, <1>3, <1>4, <1>6, <1>7

\* A Doge parser is about to confirm a payment only for an order it looked up.
DealFound == \A t \in Txs : deal[t].order # None => Found(deal[t].order)

\* Parsing a transaction touches nothing of another one a parser holds, and, for
\* the tables, either does nothing or credits one order that das-pay looked up,
\* which marks the transaction parsed.
LEMMA ParseStep ==
    ASSUME TypeOK, DealFound, NEW t \in Txs, Parse(t)
    PROVE  /\ parsed' \in {parsed, parsed \cup {t}}
           /\ \/ UNCHANGED tables
              \/ t \in parsed' /\ \E o \in SelfOrders : Updates(t, o)
           /\ deal' \in [Txs -> Deal] /\ overtaken' \in [Txs -> Orders \cup {None}]
           /\ \A u \in Txs : deal'[u].order # None => Found(deal'[u].order)
           /\ \A u \in Txs \ {t} : deal'[u] = deal[u] /\ overtaken'[u] = overtaken[u]
<1> DEFINE Goal == /\ parsed' \in {parsed, parsed \cup {t}}
                   /\ \/ UNCHANGED tables
                      \/ t \in parsed' /\ \E o \in SelfOrders : Updates(t, o)
                   /\ deal' \in [Txs -> Deal] /\ overtaken' \in [Txs -> Orders \cup {None}]
                   /\ \A u \in Txs : deal'[u].order # None => Found(deal'[u].order)
                   /\ \A u \in Txs \ {t} : deal'[u] = deal[u] /\ overtaken'[u] = overtaken[u]
<1> USE OrdersAssumption, NoneAssumption
<1>1. deal \in [Txs -> Deal] /\ overtaken \in [Txs -> Orders \cup {None}]
  BY DEF TypeOK
<1>2. \A d \in Deal : d.order \in Orders \cup {None}
  BY DEF Deal
<1>3. Idle \in Deal /\ Idle.order = None
  BY DEF Idle, Deal
<1>4. ASSUME NEW c, Credit(t, c), c # None => Found(c)
      PROVE  /\ parsed' = parsed \cup {t}
             /\ \/ UNCHANGED tables
                \/ t \in parsed' /\ \E o \in SelfOrders : Updates(t, o)
  BY <1>4 DEF Credit, Updates, Found
<1>5. ASSUME NEW c, CreditNamed(t, c), c # None => Found(c)
      PROVE  Goal
  <2>1. /\ parsed' = parsed \cup {t}
        /\ \/ UNCHANGED tables
           \/ t \in parsed' /\ \E o \in SelfOrders : Updates(t, o)
    BY <1>4, <1>5 DEF CreditNamed
  <2>2. deal' = deal /\ overtaken' = overtaken
    BY <1>5 DEF CreditNamed
  <2> QED
    BY <1>1, <2>1, <2>2 DEF DealFound
<1>6. ASSUME NEW d \in Deal, d.order # None => Found(d.order),
             deal' = [deal EXCEPT ![t] = d], UNCHANGED <<tables, parsed, overtaken>>
      PROVE  Goal
  <2>1. deal' \in [Txs -> Deal] /\ deal'[t] = d /\ \A u \in Txs \ {t} : deal'[u] = deal[u]
    BY <1>1, <1>6
  <2>2. \A u \in Txs : deal'[u].order # None => Found(deal'[u].order)
    BY <1>6, <2>1 DEF DealFound
  <2> QED
    BY <1>1, <1>6, <2>1, <2>2
<1>7. ASSUME ParseCkb(t) \/ ParseEvm(t) \/ ParseTron(t) PROVE Goal
  BY <1>5, <1>7, CreditFound DEF ParseCkb, ParseEvm, ParseTron
<1>8. ASSUME DealWithOpReturn(t) PROVE Goal
  BY <1>5, <1>8, CreditFound DEF DealWithOpReturn
<1>9. ASSUME GetPayInfo(t) PROVE Goal
  <2> DEFINE d == IF HasRow(t) /\ Found(pays[t].order)
                  THEN [at |-> "update", filed |-> TRUE, order |-> FiledCredit(t)]
                  ELSE [at |-> "order", filed |-> HasRow(t), order |-> None]
  <2>1. d.order # None => Found(d.order)
    BY CreditFound
  <2>2. d \in Deal
    BY CreditFound DEF Deal, Found, HasRow
  <2>3. deal' = [deal EXCEPT ![t] = d] /\ UNCHANGED <<tables, parsed, overtaken>>
    BY <1>9 DEF GetPayInfo
  <2> HIDE DEF d
  <2> QED
    BY <1>6, <2>1, <2>2, <2>3
<1>10. ASSUME GetOrder(t) PROVE Goal
  <2> DEFINE d == [deal[t] EXCEPT !.at = "update", !.order = AmountCredit(t)]
  <2>1. d \in Deal /\ d.order = AmountCredit(t)
    BY <1>1, CreditFound DEF Deal, Found
  <2>2. deal' = [deal EXCEPT ![t] = d] /\ UNCHANGED <<tables, parsed, overtaken>>
    BY <1>1, <1>10 DEF GetOrder
  <2> HIDE DEF d
  <2> QED
    BY <1>6, <2>1, <2>2, CreditFound
<1>11. ASSUME UpdateDeal(t) PROVE Goal
  <2>1. Credit(t, deal[t].order) /\ (deal[t].order # None => Found(deal[t].order))
    BY <1>11 DEF UpdateDeal, DealFound
  <2>2. /\ parsed' = parsed \cup {t}
        /\ \/ UNCHANGED tables
           \/ t \in parsed' /\ \E o \in SelfOrders : Updates(t, o)
    BY <1>4, <2>1
  <2>3. /\ deal' = [deal EXCEPT ![t] = Idle]
        /\ overtaken' \in {overtaken, [overtaken EXCEPT ![t] = deal[t].order]}
    BY <1>11 DEF UpdateDeal
  <2>4. deal[t].order \in Orders \cup {None}
    BY <1>1, <1>2
  <2> HIDE DEF Idle
  <2> QED
    BY <1>1, <1>3, <2>2, <2>3, <2>4 DEF DealFound
<1>12. ASSUME DealFails(t) PROVE Goal
  BY <1>3, <1>6, <1>12 DEF DealFails
<1> QED
  BY <1>7, <1>8, <1>9, <1>10, <1>11, <1>12 DEF Parse, ParseDoge

-----------------------------------------------------------------------------
\* A row as UpdatePayStatus leaves it.
RowIs(r, o, a, refund) ==
    r.order = o /\ r.addr = a /\ r.status = OrderTxStatusConfirm /\ r.refund = refund

\* One UpdatePayStatus, row by row: every other kept payment of the order goes
\* to refund, and the payment's own row is inserted, confirmed or left alone.
LEMMA UpdateEffect ==
    ASSUME TablesType, NEW t \in Txs, NEW o \in SelfOrders, NEW a \in Addrs,
           pays[t].order = None => pays[t] = NoRow,
           UpdatePayStatus(t, o, a)
    PROVE  /\ TablesType'
           /\ \A u \in Txs \ {t} :
                 pays'[u] = IF u \in Kept(o) THEN [pays[u] EXCEPT !.refund = TxStatusSending]
                            ELSE pays[u]
           /\ pays[t].order \in {None, o} => RowIs(pays'[t], o, a, pays[t].refund)
           /\ pays[t].order \notin {None, o} => pays'[t] = pays[t]
           /\ Paid(o)'
           /\ \A p \in Orders : p # o \/ Paid(o) => orders'[p] = orders[p]
<1> DEFINE row == [order |-> o, addr |-> a, status |-> OrderTxStatusConfirm,
                   refund |-> TxStatusDefault]
           ps1 == RefundOthers(pays, t, o)
           ps2 == InsertIgnore(ps1, t, row)
<1> USE OrdersAssumption, NoneAssumption
<1>1. /\ ps1 \in [Txs -> Row]
      /\ ps1[t] = pays[t]
      /\ \A u \in Txs \ {t} :
            ps1[u] = IF u \in Kept(o) THEN [pays[u] EXCEPT !.refund = TxStatusSending]
                     ELSE pays[u]
  <2>1. ps1 \in [Txs -> Row]
    BY DEF TablesType, RefundOthers, Row, TxStatus, TxStatusSending
  <2> QED
    BY <2>1 DEF RefundOthers, Kept, Confirmed
<1>2. row \in Row
  BY DEF Row, OrderTxStatus, TxStatus, TxStatusDefault, OrderTxStatusConfirm
<1>3. /\ ps2 \in [Txs -> Row]
      /\ \A u \in Txs \ {t} : ps2[u] = ps1[u]
      /\ ps2[t] = IF pays[t].order = None THEN row ELSE pays[t]
  BY <1>1, <1>2 DEF InsertIgnore
<1>4. pays' = ConfirmRow(ps2, t, o, a)
  BY DEF UpdatePayStatus
<1>5. /\ pays' \in [Txs -> Row]
      /\ \A u \in Txs \ {t} : pays'[u] = ps2[u]
      /\ pays'[t] = IF ps2[t].order = o
                    THEN [ps2[t] EXCEPT !.addr = a, !.status = OrderTxStatusConfirm]
                    ELSE ps2[t]
  <2> HIDE DEF ps2
  <2> QED
    BY <1>3, <1>4 DEF ConfirmRow, Row, OrderTxStatus, OrderTxStatusConfirm
<1>6. /\ orders' \in [Orders -> Order]
      /\ Paid(o)'
      /\ \A p \in Orders : p # o \/ Paid(o) => orders'[p] = orders[p]
  BY DEF UpdatePayStatus, MarkPaid, TablesType, Order, Paid, TxStatus, TxStatusDefault,
         TxStatusSending, RegisterStatus, RegisterStatusApplyRegister, RegisterStatusRegistered
<1>7. pays[t].order \in {None, o} => RowIs(pays'[t], o, a, pays[t].refund)
  <2>1. CASE pays[t].order = None
    <3>1. ps2[t] = row /\ ps2[t].order = o /\ pays[t].refund = TxStatusDefault
      BY <2>1, <1>3 DEF NoRow
    <3>2. ps2[t].refund = TxStatusDefault
      BY <3>1
    <3> HIDE DEF row, ps2
    <3> QED
      BY <2>1, <3>1, <3>2, <1>3, <1>5 DEF RowIs, Row
  <2>2. CASE pays[t].order = o
    <3>1. ps2[t] = pays[t]
      BY <2>2, <1>3
    <3> HIDE DEF row, ps2
    <3> QED
      BY <2>2, <3>1, <1>3, <1>5 DEF RowIs, Row
  <2> QED
    BY <2>1, <2>2
<1>8. pays[t].order \notin {None, o} => pays'[t] = pays[t]
  BY <1>3, <1>5
<1> QED
  BY <1>1, <1>3, <1>5, <1>6, <1>7, <1>8 DEF TablesType

-----------------------------------------------------------------------------
\* A transaction without an order id has no row at all.
NoRowYet == \A t \in Txs : pays[t].order = None => pays[t] = NoRow

\* Only a parsed transaction is confirmed, let alone put in refund.
Touched(t) == pays[t].status = OrderTxStatusConfirm \/ pays[t].refund # TxStatusDefault
TouchedMeansParsed == \A t \in Txs : Touched(t) => t \in parsed

\* Registration starts with the payment.
RegMeansPaid == \A o \in Orders : orders[o].reg # RegisterStatusDefault => Paid(o)

\* The inductive invariant.
IInv ==
    /\ TypeOK
    /\ NoRowYet
    /\ TouchedMeansParsed
    /\ RegMeansPaid
    /\ AtMostOneKept
    /\ RefundsGoToThePayer
    /\ ConfirmedMeansPaid
    /\ DealFound

\* What one UpdatePayStatus does to the payments an order has and keeps.
LEMMA UpdateSets ==
    ASSUME TypeOK, NoRowYet, NEW t \in Txs, NEW o \in SelfOrders, Updates(t, o)
    PROVE  /\ TablesType' /\ NoRowYet'
           /\ Kept(o)' \subseteq {t}
           /\ \A p \in Orders \ {o} : Kept(p)' = Kept(p) /\ Confirmed(p)' = Confirmed(p)
           /\ Confirmed(o)' \subseteq Confirmed(o) \cup {t}
           /\ \A p \in Orders : Paid(p) \/ p = o => Paid(p)'
           /\ \A p \in Orders : \A u \in Confirmed(p)' :
                 \/ u = t /\ p = o /\ pays'[u].addr = TxInfo[t].from
                 \/ u \in Confirmed(p) /\ pays'[u].addr = pays[u].addr
           /\ pays[t].order \in {None, o} /\ pays[t].refund = TxStatusDefault => t \in Kept(o)'
           /\ \A u \in Txs : pays[u].refund # TxStatusDefault => pays'[u].refund # TxStatusDefault
           /\ \A u \in Txs : Touched(u)' => Touched(u) \/ u = t
           /\ \A p \in Orders : p # o \/ Paid(o) => orders'[p] = orders[p]
<1> USE OrdersAssumption, NoneAssumption
<1>1. TxInfo[t].from \in Addrs
  BY InfoAssumption
<1>2. UpdatePayStatus(t, o, TxInfo[t].from)
  BY DEF Updates
<1>3. /\ TablesType'
      /\ \A u \in Txs \ {t} :
            pays'[u] = IF u \in Kept(o) THEN [pays[u] EXCEPT !.refund = TxStatusSending]
                       ELSE pays[u]
      /\ pays[t].order \in {None, o} => RowIs(pays'[t], o, TxInfo[t].from, pays[t].refund)
      /\ pays[t].order \notin {None, o} => pays'[t] = pays[t]
      /\ Paid(o)'
      /\ \A p \in Orders : p # o \/ Paid(o) => orders'[p] = orders[p]
  BY <1>1, <1>2, UpdateEffect DEF TypeOK, NoRowYet
<1>4. /\ pays \in [Txs -> Row] /\ pays' \in [Txs -> Row]
  BY <1>3 DEF TypeOK, TablesType
<1>5. \A u \in Txs \ {t} : /\ pays'[u].order = pays[u].order
                           /\ pays'[u].addr = pays[u].addr
                           /\ pays'[u].status = pays[u].status
                           /\ pays'[u].refund = IF u \in Kept(o) THEN TxStatusSending
                                                ELSE pays[u].refund
  BY <1>3, <1>4 DEF Row
<1>6. /\ pays'[t].order # o => pays'[t] = pays[t] /\ pays[t].order \notin {None, o}
      /\ pays'[t].order = o => pays'[t].addr = TxInfo[t].from /\ pays[t].order \in {None, o}
  BY <1>3 DEF RowIs
<1>7. \A p \in Orders \ {o} : t \in Confirmed(p)' <=> t \in Confirmed(p)
  BY <1>6 DEF Confirmed
<1>8. \A p \in Orders \ {o} : t \in Kept(p)' <=> t \in Kept(p)
  BY <1>6 DEF Kept, Confirmed
<1>9. \A p \in Orders : \A u \in Txs \ {t} :
         /\ u \in Confirmed(p)' <=> u \in Confirmed(p)
         /\ p # o => (u \in Kept(p)' <=> u \in Kept(p))
         /\ u \notin Kept(o)'
  BY <1>5 DEF Kept, Confirmed, TxStatusSending, TxStatusDefault
<1>10. \A p \in Orders : Kept(p)' \subseteq Txs /\ Confirmed(p)' \subseteq Txs
                         /\ Kept(p) \subseteq Txs /\ Confirmed(p) \subseteq Txs
  BY DEF Kept, Confirmed
<1>11. /\ Kept(o)' \subseteq {t}
       /\ \A p \in Orders \ {o} : Kept(p)' = Kept(p) /\ Confirmed(p)' = Confirmed(p)
       /\ Confirmed(o)' \subseteq Confirmed(o) \cup {t}
  <2>1. Kept(o)' \subseteq {t}
    BY <1>9, <1>10
  <2>2. Confirmed(o)' \subseteq Confirmed(o) \cup {t}
    BY <1>9, <1>10
  <2>3. ASSUME NEW p \in Orders \ {o}
        PROVE  \A u \in Txs : /\ u \in Kept(p)' <=> u \in Kept(p)
                              /\ u \in Confirmed(p)' <=> u \in Confirmed(p)
    BY <1>7, <1>8, <1>9
  <2>4. ASSUME NEW p \in Orders \ {o}
        PROVE  Kept(p)' = Kept(p) /\ Confirmed(p)' = Confirmed(p)
    BY <2>3, <1>10
  <2> QED
    BY <2>1, <2>2, <2>4
<1>12. \A p \in Orders : Paid(p) \/ p = o => Paid(p)'
  BY <1>3 DEF Paid
<1>13. \A p \in Orders : \A u \in Confirmed(p)' :
          \/ u = t /\ p = o /\ pays'[u].addr = TxInfo[t].from
          \/ u \in Confirmed(p) /\ pays'[u].addr = pays[u].addr
  <2> TAKE p \in Orders
  <2> TAKE u \in Confirmed(p)'
  <2>1. CASE u = t /\ p = o
    BY <2>1, <1>6 DEF Confirmed
  <2>2. CASE u = t /\ p # o
    BY <2>2, <1>6, <1>7 DEF Confirmed
  <2>3. CASE u # t
    BY <2>3, <1>5, <1>9, <1>10
  <2> QED
    BY <2>1, <2>2, <2>3
<1>14. NoRowYet'
  <2>1. ASSUME NEW u \in Txs, pays'[u].order = None
        PROVE  u # t /\ pays[u].order = None /\ u \notin Kept(o)
    BY <2>1, <1>5, <1>6 DEF Kept, Confirmed
  <2> QED
    BY <2>1, <1>3 DEF NoRowYet, NoRow
<1>15. pays[t].order \in {None, o} /\ pays[t].refund = TxStatusDefault => t \in Kept(o)'
  BY <1>3 DEF RowIs, Kept, Confirmed
<1>16. \A u \in Txs : pays[u].refund # TxStatusDefault => pays'[u].refund # TxStatusDefault
  <2>1. pays[t].refund # TxStatusDefault => pays'[t].refund # TxStatusDefault
    BY <1>3 DEF RowIs, TypeOK, TablesType, Row
  <2> QED
    BY <2>1, <1>5 DEF TxStatusSending, TxStatusDefault
<1>17. \A u \in Txs : Touched(u)' => Touched(u) \/ u = t
  BY <1>5 DEF Touched, Kept, Confirmed
<1> QED
  BY <1>3, <1>11, <1>12, <1>13, <1>14, <1>15, <1>16, <1>17

\* Moving refund_status between Sending and Ok changes no payment an order has
\* or keeps.
LEMMA RefundSets ==
    ASSUME TypeOK, NoRowYet, NEW ts \in SUBSET Txs,
           NEW old \in {TxStatusSending, TxStatusOk}, NEW new \in {TxStatusSending, TxStatusOk},
           UpdateRefundStatus(ts, old, new)
    PROVE  /\ pays' \in [Txs -> Row] /\ NoRowYet'
           /\ \A p \in Orders : Kept(p)' = Kept(p) /\ Confirmed(p)' = Confirmed(p)
           /\ \A u \in Txs : /\ pays'[u].addr = pays[u].addr
                             /\ pays[u].refund # TxStatusDefault => pays'[u].refund # TxStatusDefault
                             /\ Touched(u)' => Touched(u)
<1>1. pays \in [Txs -> Row]
  BY DEF TypeOK, TablesType
<1>2. pays' \in [Txs -> Row]
  BY <1>1 DEF UpdateRefundStatus, Row, TxStatus, TxStatusSending, TxStatusOk
<1>3. \A u \in Txs : /\ pays'[u].order = pays[u].order
                     /\ pays'[u].addr = pays[u].addr
                     /\ pays'[u].status = pays[u].status
                     /\ pays'[u].refund = TxStatusDefault <=> pays[u].refund = TxStatusDefault
                     /\ pays[u].status # OrderTxStatusConfirm => pays'[u] = pays[u]
  BY <1>1, <1>2 DEF UpdateRefundStatus, Row, TxStatusDefault, TxStatusSending, TxStatusOk
<1>4. NoRowYet'
  BY <1>3 DEF NoRowYet, NoRow, OrderTxStatusConfirm, OrderTxStatusDefault
<1>5. \A p \in Orders : Kept(p)' = Kept(p) /\ Confirmed(p)' = Confirmed(p)
  <2> TAKE p \in Orders
  <2>1. \A u \in Txs : /\ u \in Kept(p)' <=> u \in Kept(p)
                       /\ u \in Confirmed(p)' <=> u \in Confirmed(p)
    BY <1>3 DEF Kept, Confirmed
  <2>2. Kept(p)' \subseteq Txs /\ Kept(p) \subseteq Txs
        /\ Confirmed(p)' \subseteq Txs /\ Confirmed(p) \subseteq Txs
    BY DEF Kept, Confirmed
  <2> QED
    BY <2>1, <2>2
<1>6. \A u \in Txs : Touched(u)' => Touched(u)
  BY <1>3 DEF Touched
<1> QED
  BY <1>2, <1>3, <1>4, <1>5, <1>6

\* Empty tables satisfy the invariant.
LEMMA InitIInv == Init => IInv
<1> SUFFICES ASSUME Init PROVE IInv
  OBVIOUS
<1> USE NoneAssumption
<1>1. \A t \in Txs : pays[t] = NoRow
  BY DEF Init, TablesInit
<1>2. \A o \in Orders : Confirmed(o) = {} /\ Kept(o) = {}
  BY <1>1 DEF Confirmed, Kept, NoRow, OrderTxStatusConfirm, OrderTxStatusDefault
<1>3. TypeOK
  BY DEF Init, TablesInit, TypeOK, TablesType, NoRow, NoOrder, Row, Order, TxStatus,
         TxStatusDefault, OrderTxStatus, OrderTxStatusDefault, RegisterStatus,
         RegisterStatusDefault, RegisterStatusRegistered, Idle, Deal
<1>4. TouchedMeansParsed
  BY <1>1 DEF TouchedMeansParsed, Touched, NoRow, OrderTxStatusConfirm, OrderTxStatusDefault
<1>5. RegMeansPaid
  BY DEF Init, TablesInit, NoOrder, RegMeansPaid
<1>6. DealFound
  BY DEF Init, DealFound, Idle
<1> QED
  BY <1>1, <1>2, <1>3, <1>4, <1>5, <1>6
     DEF IInv, NoRowYet, AtMostOneKept, RefundsGoToThePayer, ConfirmedMeansPaid

\* Parsing, the step that matters: one payment kept, to its real payer.
LEMMA ParseIInv ==
    ASSUME IInv, NEW t \in Txs, Parse(t)
    PROVE  IInv'
<1> USE DEF IInv
<1>1. /\ parsed' \in {parsed, parsed \cup {t}}
      /\ \/ UNCHANGED tables
         \/ t \in parsed' /\ \E o \in SelfOrders : Updates(t, o)
      /\ deal' \in [Txs -> Deal] /\ overtaken' \in [Txs -> Orders \cup {None}]
      /\ \A u \in Txs : deal'[u].order # None => Found(deal'[u].order)
  BY ParseStep
<1>2. CASE UNCHANGED tables
  <2>1. \A o \in Orders : /\ Kept(o)' = Kept(o) /\ Confirmed(o)' = Confirmed(o)
                          /\ Paid(o)' = Paid(o)
    BY <1>2 DEF tables, Kept, Confirmed, Paid
  <2>2. DealFound'
    BY <1>1, <1>2 DEF tables, DealFound, Found
  <2>3. AtMostOneKept' /\ ConfirmedMeansPaid' /\ RegMeansPaid'
    BY <1>2, <2>1 DEF tables, AtMostOneKept, ConfirmedMeansPaid, RegMeansPaid
  <2>4. RefundsGoToThePayer'
    BY <1>2, <2>1 DEF tables, RefundsGoToThePayer
  <2>5. TypeOK' /\ NoRowYet' /\ TouchedMeansParsed'
    BY <1>1, <1>2 DEF tables, TypeOK, TablesType, NoRowYet, TouchedMeansParsed, Touched
  <2> QED
    BY <2>2, <2>3, <2>4, <2>5
<1>3. ASSUME NEW o \in SelfOrders, Updates(t, o), t \in parsed'
      PROVE  IInv'
  <2>1. /\ TablesType' /\ NoRowYet'
        /\ Kept(o)' \subseteq {t}
        /\ \A p \in Orders \ {o} : Kept(p)' = Kept(p) /\ Confirmed(p)' = Confirmed(p)
        /\ Confirmed(o)' \subseteq Confirmed(o) \cup {t}
        /\ \A p \in Orders : Paid(p) \/ p = o => Paid(p)'
        /\ \A p \in Orders : \A u \in Confirmed(p)' :
              \/ u = t /\ p = o /\ pays'[u].addr = TxInfo[t].from
              \/ u \in Confirmed(p) /\ pays'[u].addr = pays[u].addr
        /\ \A u \in Txs : Touched(u)' => Touched(u) \/ u = t
        /\ \A p \in Orders : p # o \/ Paid(o) => orders'[p] = orders[p]
    BY <1>3, UpdateSets
  <2>2. TypeOK'
    BY <1>1, <2>1 DEF TypeOK
  <2>3. AtMostOneKept'
    BY <2>1 DEF AtMostOneKept
  <2>4. RefundsGoToThePayer'
    BY <2>1 DEF RefundsGoToThePayer
  <2>5. ConfirmedMeansPaid'
    BY <2>1 DEF ConfirmedMeansPaid
  <2>6. TouchedMeansParsed'
    BY <1>1, <1>3, <2>1 DEF TouchedMeansParsed
  <2>7. RegMeansPaid'
    BY <2>1 DEF RegMeansPaid
  <2>8. DealFound'
    <3>1. \A p \in SelfOrders : Found(p) => Found(p)'
      BY <1>3, OrdersAssumption
         DEF Updates, UpdatePayStatus, MarkPaid, Found, TypeOK, TablesType, Order
    <3> QED
      BY <1>1, <3>1 DEF DealFound, Found
  <2> QED
    BY <2>1, <2>2, <2>3, <2>4, <2>5, <2>6, <2>7, <2>8
<1> QED
  BY <1>1, <1>2, <1>3

\* The steps that change only order rows keep every payment as it was.
LEMMA OrderStepIInv ==
    ASSUME IInv, UNCHANGED <<pays, parsed, deal, overtaken>>, orders' \in [Orders -> Order],
           \A o \in Orders : /\ Found(o) => Found(o)'
                             /\ orders'[o].pay = orders[o].pay
                             /\ orders'[o].reg # RegisterStatusDefault
                                   => orders[o].reg # RegisterStatusDefault
    PROVE  IInv'
BY DEF IInv, TypeOK, TablesType, NoRowYet, TouchedMeansParsed, Touched, RegMeansPaid,
       AtMostOneKept, RefundsGoToThePayer, ConfirmedMeansPaid, Kept, Confirmed, Paid, DealFound,
       Deal

\* The steps of the refund job change only how far a refund has come.
LEMMA RefundStepIInv ==
    ASSUME IInv, UNCHANGED <<orders, parsed, deal, overtaken>>, NEW ts \in SUBSET Txs,
           NEW old \in {TxStatusSending, TxStatusOk}, NEW new \in {TxStatusSending, TxStatusOk},
           UpdateRefundStatus(ts, old, new)
    PROVE  IInv'
<1> USE DEF IInv
<1>1. /\ pays' \in [Txs -> Row] /\ NoRowYet'
      /\ \A p \in Orders : Kept(p)' = Kept(p) /\ Confirmed(p)' = Confirmed(p)
      /\ \A u \in Txs : pays'[u].addr = pays[u].addr /\ (Touched(u)' => Touched(u))
  BY RefundSets
<1>3. TypeOK'
  BY <1>1 DEF TypeOK, TablesType
<1>4. RefundsGoToThePayer'
  BY <1>1 DEF RefundsGoToThePayer, Confirmed
<1>5. AtMostOneKept' /\ ConfirmedMeansPaid'
  BY <1>1 DEF AtMostOneKept, ConfirmedMeansPaid, Paid
<1>6. TouchedMeansParsed' /\ RegMeansPaid' /\ DealFound'
  BY <1>1 DEF TouchedMeansParsed, RegMeansPaid, Paid, DealFound, Found
<1> QED
  BY <1>1, <1>3, <1>4, <1>5, <1>6

\* A hash filed by das-register is a row of no status yet.
LEMMA SubmitIInv ==
    ASSUME IInv, NEW o \in Orders, NEW t \in Txs, SubmitHash(o, t)
    PROVE  IInv'
<1> USE NoneAssumption DEF IInv
<1> DEFINE row == [NoRow EXCEPT !.order = o, !.addr = OrderInfo[o].addr]
<1>1. OrderInfo[o].addr \in Addrs
  BY InfoAssumption
<1>2. /\ row \in Row /\ row.order = o
      /\ row.status # OrderTxStatusConfirm /\ row.refund = TxStatusDefault
  <2>1. NoRow \in Row
    BY DEF NoRow, Row, TxStatus, TxStatusDefault, OrderTxStatus, OrderTxStatusDefault
  <2>2. row \in Row /\ row.order = o /\ row.status = NoRow.status /\ row.refund = NoRow.refund
    <3> HIDE DEF NoRow
    <3> QED
      BY <1>1, <2>1 DEF Row
  <2>3. NoRow.status # OrderTxStatusConfirm /\ NoRow.refund = TxStatusDefault
    BY DEF NoRow, OrderTxStatusDefault, OrderTxStatusConfirm
  <2> HIDE DEF row
  <2> QED
    BY <2>2, <2>3
<1>3. /\ pays' = [pays EXCEPT ![t] = row] /\ pays[t].order = None
      /\ UNCHANGED <<orders, parsed, deal, overtaken>>
  BY DEF SubmitHash, HasRow
<1> HIDE DEF row
<1>4. pays[t].status # OrderTxStatusConfirm
  BY <1>3 DEF NoRowYet, NoRow, OrderTxStatusConfirm, OrderTxStatusDefault
<1>5. TypeOK' /\ NoRowYet'
  BY <1>2, <1>3 DEF TypeOK, TablesType, NoRowYet
<1>6. \A u \in Txs : Touched(u)' => Touched(u)
  BY <1>2, <1>3 DEF TypeOK, TablesType, Touched
<1>7. \A p \in Orders : Confirmed(p)' = Confirmed(p) /\ Kept(p)' = Kept(p)
  <2> TAKE p \in Orders
  <2>1. \A u \in Txs : /\ u \in Confirmed(p)' <=> u \in Confirmed(p)
                       /\ u \in Kept(p)' <=> u \in Kept(p)
    BY <1>2, <1>3, <1>4 DEF TypeOK, TablesType, Confirmed, Kept
  <2>2. Kept(p)' \subseteq Txs /\ Kept(p) \subseteq Txs
        /\ Confirmed(p)' \subseteq Txs /\ Confirmed(p) \subseteq Txs
    BY DEF Kept, Confirmed
  <2> QED
    BY <2>1, <2>2
<1>8. RefundsGoToThePayer'
  <2>1. \A p \in Orders : \A u \in Confirmed(p) : u # t /\ pays'[u] = pays[u]
    BY <1>3, <1>4 DEF Confirmed, TypeOK, TablesType
  <2> QED
    BY <2>1, <1>7 DEF RefundsGoToThePayer
<1>9. AtMostOneKept' /\ ConfirmedMeansPaid' /\ TouchedMeansParsed' /\ RegMeansPaid'
  BY <1>3, <1>6, <1>7 DEF AtMostOneKept, ConfirmedMeansPaid, TouchedMeansParsed, RegMeansPaid,
                          Paid
<1>10. DealFound'
  BY <1>3 DEF DealFound, Found
<1> QED
  BY <1>5, <1>8, <1>9, <1>10

\* Every step keeps the invariant: the steps above, put together.
LEMMA NextIInv == IInv /\ [Next]_vars => IInv'
<1> SUFFICES ASSUME IInv, [Next]_vars PROVE IInv'
  OBVIOUS
<1> USE OrdersAssumption
<1>1. orders \in [Orders -> Order]
  BY DEF IInv, TypeOK, TablesType
<1>2. ASSUME NEW t \in Txs, Parse(t) PROVE IInv'
  BY <1>2, ParseIInv
<1>3. ASSUME NEW t \in Txs, TakeRefund(t) PROVE IInv'
  BY <1>3, RefundStepIInv DEF TakeRefund
<1>4. ASSUME NEW t \in Txs, PutBackRefund(t) PROVE IInv'
  BY <1>4, RefundStepIInv DEF PutBackRefund
<1>5. ASSUME NEW o \in Orders, CreateOrder(o) PROVE IInv'
  <2> DEFINE n == Cardinality({p \in Orders : orders[p].id > 0})
  <2>1. n \in Nat
    BY FS_Subset, FS_CardinalityType
  <2>2. orders' = [orders EXCEPT ![o].id = 1 + n]
    BY <1>5 DEF CreateOrder
  <2>3. 1 + n \in Nat /\ 1 + n > 0
    BY <2>1
  <2> HIDE DEF n
  <2>4. orders' \in [Orders -> Order]
    BY <1>1, <2>2, <2>3 DEF Order
  <2>5. \A p \in Orders : /\ Found(p) => Found(p)'
                          /\ orders'[p].pay = orders[p].pay /\ orders'[p].reg = orders[p].reg
    BY <1>1, <2>2, <2>3 DEF Order, Found
  <2> QED
    BY <1>5, <2>4, <2>5, OrderStepIInv DEF CreateOrder
<1>6. ASSUME NEW o \in Orders, RegisterOk(o) PROVE IInv'
  <2>1. orders' \in [Orders -> Order]
    BY <1>1, <1>6 DEF RegisterOk, Order, RegisterStatus, RegisterStatusRegistered
  <2>2. \A p \in Orders : /\ Found(p) => Found(p)'
                          /\ orders'[p].pay = orders[p].pay
                          /\ orders'[p].reg # RegisterStatusDefault
                                => orders[p].reg # RegisterStatusDefault
    BY <1>1, <1>6 DEF RegisterOk, Order, RegisterStatusDefault, RegisterStatusApplyRegister, Found
  <2> QED
    BY <1>6, <2>1, <2>2, OrderStepIInv DEF RegisterOk
<1>7. ASSUME NEW o \in Orders, NEW t \in Txs, SubmitHash(o, t) PROVE IInv'
  BY <1>7, SubmitIInv
<1>8. CASE UNCHANGED vars
  BY <1>1, <1>8, OrderStepIInv DEF vars, Found
<1> QED
  BY <1>2, <1>3, <1>4, <1>5, <1>6, <1>7, <1>8 DEF Next

\* The invariant holds in every reachable state.
THEOREM Invariance == Spec => []IInv
BY InitIInv, NextIInv, PTL DEF Spec

-----------------------------------------------------------------------------
\* Type correctness of the tables, whatever the parsers, das-register and the
\* refund job do.
THEOREM TypeCorrect == Spec => []TypeOK
<1>1. IInv => TypeOK
  BY DEF IInv
<1> QED
  BY <1>1, Invariance, PTL

\* dao.UpdatePayStatus: an order never keeps two payments.
THEOREM OneKept == Spec => []AtMostOneKept
<1>1. IInv => AtMostOneKept
  BY DEF IInv
<1> QED
  BY <1>1, Invariance, PTL

\* dao.UpdatePayStatus: a confirmed row names the address that paid.
THEOREM PayerRefunded == Spec => []RefundsGoToThePayer
<1>1. IInv => RefundsGoToThePayer
  BY DEF IInv
<1> QED
  BY <1>1, Invariance, PTL

\* dao.UpdatePayStatus: no payment is confirmed for an unpaid order.
THEOREM NoConfirmedUnpaid == Spec => []ConfirmedMeansPaid
<1>1. IInv => ConfirmedMeansPaid
  BY DEF IInv
<1> QED
  BY <1>1, Invariance, PTL

\* timer/refund.go and dao.UpdatePayStatus: a payment once put in refund is
\* never a kept payment again.
THEOREM RefundStays == Spec => RefundNeverForgotten
<1>1. ASSUME IInv, [Next]_vars, NEW t \in Txs, pays[t].refund # TxStatusDefault
      PROVE  pays'[t].refund # TxStatusDefault
  <2> USE <1>1 DEF IInv
  <2>1. ASSUME NEW u \in Txs, Parse(u)
        PROVE  pays'[t].refund # TxStatusDefault
    <3>1. UNCHANGED tables \/ \E o \in SelfOrders : Updates(u, o)
      BY <2>1, ParseStep
    <3> QED
      BY <3>1, UpdateSets DEF tables
  <2>2. ASSUME NEW u \in Txs, TakeRefund(u) \/ PutBackRefund(u)
        PROVE  pays'[t].refund # TxStatusDefault
    BY <2>2, RefundSets DEF TakeRefund, PutBackRefund
  <2>3. ASSUME NEW o \in Orders, NEW u \in Txs, SubmitHash(o, u)
        PROVE  pays'[t].refund # TxStatusDefault
    <3>1. t # u
      BY <2>3, NoneAssumption DEF SubmitHash, HasRow, NoRowYet, NoRow
    <3> QED
      BY <2>3, <3>1 DEF SubmitHash, TypeOK, TablesType
  <2> QED
    BY <1>1, <2>1, <2>2, <2>3 DEF Next, CreateOrder, RegisterOk, vars
<1>2. IInv /\ [Next]_vars =>
         [\A t \in Txs : pays[t].refund # TxStatusDefault => pays'[t].refund # TxStatusDefault]_vars
  BY <1>1
<1> QED
  BY <1>2, Invariance, PTL DEF Spec, RefundNeverForgotten

\* dao.UpdatePayStatus, first statement: no payment, however late, sends a
\* registered account back to ApplyRegister.
THEOREM RegisterStays == Spec => RegisterNeverRewound
<1>1. ASSUME IInv, [Next]_vars, NEW o \in Orders, orders[o].reg = RegisterStatusRegistered
      PROVE  orders'[o].reg = RegisterStatusRegistered
  <2> USE <1>1, OrdersAssumption DEF IInv
  <2>1. Paid(o)
    BY DEF RegMeansPaid, RegisterStatusRegistered, RegisterStatusDefault
  <2>2. ASSUME NEW t \in Txs, Parse(t)
        PROVE  orders'[o].reg = RegisterStatusRegistered
    <3>1. UNCHANGED tables \/ \E p \in SelfOrders : Updates(t, p)
      BY <2>2, ParseStep
    <3> QED
      BY <2>1, <3>1, UpdateSets DEF tables
  <2>3. ASSUME NEW p \in Orders, CreateOrder(p) \/ RegisterOk(p)
        PROVE  orders'[o].reg = RegisterStatusRegistered
    BY <2>3 DEF CreateOrder, RegisterOk, TypeOK, TablesType, Order
  <2> QED
    BY <1>1, <2>2, <2>3 DEF Next, TakeRefund, PutBackRefund, SubmitHash, vars
<1>2. IInv /\ [Next]_vars =>
         [\A o \in Orders : orders[o].reg = RegisterStatusRegistered
                               => orders'[o].reg = RegisterStatusRegistered]_vars
  BY <1>1
<1> QED
  BY <1>2, Invariance, PTL DEF Spec, RegisterNeverRewound

\* A paid order is left without a payment only by parsing again a payment that
\* is already in refund, or one filed under another order.
THEOREM KeptLost == Spec => KeptLostOnlyByReplay
<1>1. ASSUME IInv, [Next]_vars, NEW o \in Orders, Kept(o) # {}, Kept(o)' = {}
      PROVE  \E t \in Txs : /\ Parse(t)
                            /\ \/ t \in parsed /\ pays[t].refund # TxStatusDefault
                               \/ pays[t].order \notin {None, o}
  <2> USE <1>1 DEF IInv
  <2>1. ASSUME NEW t \in Txs, Parse(t)
        PROVE  \/ t \in parsed /\ pays[t].refund # TxStatusDefault
               \/ pays[t].order \notin {None, o}
    <3>1. PICK p \in SelfOrders : Updates(t, p)
      <4>1. ~ UNCHANGED tables
        BY DEF tables, Kept, Confirmed
      <4> QED
        BY <2>1, <4>1, ParseStep
    <3>2. p = o
      BY <3>1, UpdateSets
    <3>3. pays[t].order \in {None, o} => pays[t].refund # TxStatusDefault
      BY <3>1, <3>2, UpdateSets
    <3> QED
      BY <3>3 DEF TouchedMeansParsed, Touched
  <2>2. ASSUME NEW t \in Txs, TakeRefund(t) \/ PutBackRefund(t)
        PROVE  FALSE
    BY <2>2, RefundSets DEF TakeRefund, PutBackRefund
  <2>3. ASSUME NEW p \in Orders, NEW t \in Txs, SubmitHash(p, t)
        PROVE  FALSE
    <3>1. PICK u \in Kept(o) : TRUE
      OBVIOUS
    <3>2. u # t
      BY <2>3, NoneAssumption
         DEF SubmitHash, HasRow, Kept, Confirmed
    <3>3. u \in Kept(o)'
      BY <2>3, <3>2 DEF SubmitHash, Kept, Confirmed, TypeOK, TablesType
    <3> QED
      BY <3>3
  <2>4. ASSUME UNCHANGED pays
        PROVE  FALSE
    BY <2>4 DEF Kept, Confirmed
  <2> QED
    BY <1>1, <2>1, <2>2, <2>3, <2>4 DEF Next, CreateOrder, RegisterOk, vars
<1>2. IInv /\ [Next]_vars =>
         [\A o \in Orders :
            Kept(o) # {} /\ Kept(o)' = {} =>
                \E t \in Txs : /\ Parse(t)
                               /\ \/ t \in parsed /\ pays[t].refund # TxStatusDefault
                                  \/ pays[t].order \notin {None, o}]_vars
  BY <1>1
<1> QED
  BY <1>2, Invariance, PTL DEF Spec, KeptLostOnlyByReplay

=============================================================================
