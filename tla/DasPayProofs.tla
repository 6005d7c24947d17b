---------------------------- MODULE DasPayProofs ----------------------------
(***************************************************************************)
(* The parsers and the refund job on the same tables, for every set of     *)
(* orders and payments. What is proved of PayMatch and of Refund apart is  *)
(* put together here: for the parsers, the job is marks that come and go;  *)
(* for the job, the parsers put confirmed payments in refund (Around).     *)
(***************************************************************************)
EXTENDS DasPay, TLAPS

\* the lemmas about the parts
P == INSTANCE PayBackedProofs
Q == INSTANCE RefundProofs WITH
    ChainOf <- [t \in Txs |-> TxInfo[t].chain],
    OrderOf <- [t \in Txs |-> CHOOSE o \in SelfOrders : TRUE]

-----------------------------------------------------------------------------
\* P and Q name what M and R name in DasPay.

LEMMA SameAssumptions ==
    /\ P!OrdersAssumption /\ P!NoneAssumption /\ P!InfoAssumption
    /\ Q!OrdersAssumption /\ Q!NoneAssumption /\ Q!RefundAssumption
<1>1. P!OrdersAssumption /\ Q!OrdersAssumption
  BY OrdersAssumption DEF P!OrdersAssumption, Q!OrdersAssumption, P!IsFiniteSet, Q!IsFiniteSet,
                          IsFiniteSet
<1>2. P!NoneAssumption /\ Q!NoneAssumption
  BY NoneAssumption DEF P!NoneAssumption, Q!NoneAssumption
<1>3. P!InfoAssumption
  BY DasPayAssumption DEF M!InfoAssumption, P!InfoAssumption, M!Out, P!Out
<1>4. Q!RefundAssumption
  BY DasPayAssumption DEF R!RefundAssumption, Q!RefundAssumption, R!Chains, Q!Chains,
                          R!EvmChains, Q!EvmChains
<1> QED
  BY <1>1, <1>2, <1>3, <1>4

LEMMA SameStatus ==
    /\ P!TxStatusDefault = TxStatusDefault /\ Q!TxStatusDefault = TxStatusDefault
    /\ P!TxStatusSending = TxStatusSending /\ Q!TxStatusSending = TxStatusSending
    /\ P!TxStatusOk = TxStatusOk /\ Q!TxStatusOk = TxStatusOk
    /\ P!OrderTxStatusConfirm = OrderTxStatusConfirm /\ Q!OrderTxStatusConfirm = OrderTxStatusConfirm
BY DEF P!TxStatusDefault, Q!TxStatusDefault, TxStatusDefault, P!TxStatusSending, Q!TxStatusSending,
       TxStatusSending, P!TxStatusOk, Q!TxStatusOk, TxStatusOk, P!OrderTxStatusConfirm,
       Q!OrderTxStatusConfirm, OrderTxStatusConfirm

LEMMA SameTables ==
    /\ P!TablesType <=> TablesType
    /\ Q!TablesType <=> TablesType
    /\ P!TablesType' <=> TablesType'
    /\ Q!TablesType' <=> TablesType'
BY DEF P!TablesType, Q!TablesType, TablesType, P!Order, Q!Order, Order, P!Row, Q!Row, Row,
       P!TxStatus, Q!TxStatus, TxStatus, P!TxStatusDefault, Q!TxStatusDefault, TxStatusDefault,
       P!TxStatusSending, Q!TxStatusSending, TxStatusSending, P!TxStatusOk, Q!TxStatusOk,
       TxStatusOk, P!OrderTxStatus, Q!OrderTxStatus, OrderTxStatus, P!OrderTxStatusDefault,
       Q!OrderTxStatusDefault, OrderTxStatusDefault, P!OrderTxStatusConfirm,
       Q!OrderTxStatusConfirm, OrderTxStatusConfirm, P!RegisterStatus, Q!RegisterStatus,
       RegisterStatus, P!RegisterStatusRegistered, Q!RegisterStatusRegistered,
       RegisterStatusRegistered

LEMMA SameQueries ==
    /\ \A o \in Orders : /\ P!Paid(o) <=> Paid(o)
                         /\ P!Confirmed(o) = Confirmed(o)
                         /\ P!Kept(o) = Kept(o)
    /\ \A t \in Txs : \A o : M!Covers(t, o) <=> P!Covers(t, o)
BY SameStatus
   DEF P!Paid, Paid, P!Confirmed, Confirmed, P!Kept, Kept, M!Covers, P!Covers, M!TokenMatch,
       P!TokenMatch, M!TokensOf, P!TokensOf, M!Chain, P!Chain, M!Outs, P!Outs

LEMMA SameBacked == P!PaidOrdersBacked <=> PaidOrdersBacked
BY SameQueries
   DEF P!PaidOrdersBacked, PaidOrdersBacked, M!PaidOrdersBacked, P!Paid, M!Paid, P!Confirmed,
       M!Confirmed, P!TxStatusDefault, M!TxStatusDefault, P!OrderTxStatusConfirm,
       M!OrderTxStatusConfirm, M!Covers, P!Covers, M!TokenMatch,
       P!TokenMatch, M!TokensOf, P!TokensOf, M!Chain, P!Chain, M!Outs, P!Outs, M!MayPayBoth,
       P!MayPayBoth

LEMMA SameParse ==
    ASSUME NEW t \in Txs
    PROVE  M!Parse(t) <=> P!Parse(t)
<1>1. \A c : M!Credit(t, c) <=> P!Credit(t, c)
  BY DEF M!Credit, P!Credit, M!UpdatePayStatus, P!UpdatePayStatus, M!MarkPaid, P!MarkPaid,
         M!ConfirmRow, P!ConfirmRow, M!InsertIgnore, P!InsertIgnore, M!RefundOthers,
         P!RefundOthers, M!tables, P!tables, M!TxStatusDefault, P!TxStatusDefault,
         M!TxStatusSending, P!TxStatusSending, M!OrderTxStatusConfirm, P!OrderTxStatusConfirm,
         M!RegisterStatusApplyRegister, P!RegisterStatusApplyRegister
<1>2. /\ M!CkbCredit(t) = P!CkbCredit(t) /\ M!EvmCredit(t) = P!EvmCredit(t)
      /\ M!TronCredit(t) = P!TronCredit(t) /\ M!OpReturnCredit(t) = P!OpReturnCredit(t)
      /\ M!AmountCredit(t) = P!AmountCredit(t) /\ M!FiledCredit(t) = P!FiledCredit(t)
      /\ M!DogeOurs(t) = P!DogeOurs(t)
  BY DEF M!CkbCredit, P!CkbCredit, M!EvmCredit, P!EvmCredit, M!TronCredit, P!TronCredit,
         M!AmountCredit, P!AmountCredit, M!FiledCredit, P!FiledCredit, M!OutCovers, P!OutCovers, M!Outs, P!Outs, M!Chain, P!Chain,
         M!Found, P!Found, M!TokenMatch, P!TokenMatch, M!TokensOf, P!TokensOf, M!DogeOurs,
         P!DogeOurs, M!DogeValue, P!DogeValue, M!OpReturnCredit, P!OpReturnCredit,
         M!NewestOrder, P!NewestOrder, M!Min, P!Min, M!Max, P!Max
<1>3. \A c : M!CreditNamed(t, c) <=> P!CreditNamed(t, c)
  BY <1>1 DEF M!CreditNamed, P!CreditNamed
<1>4. M!DealWithOpReturn(t) <=> P!DealWithOpReturn(t)
  BY <1>2, <1>3 DEF M!DealWithOpReturn, P!DealWithOpReturn, M!Idle, P!Idle
<1>5. M!GetPayInfo(t) <=> P!GetPayInfo(t)
  BY <1>2 DEF M!GetPayInfo, P!GetPayInfo, M!Idle, P!Idle, M!HasRow, P!HasRow, M!Found, P!Found,
              M!tables, P!tables
<1>6. M!GetOrder(t) <=> P!GetOrder(t)
  BY <1>2 DEF M!GetOrder, P!GetOrder, M!tables, P!tables
<1>7. M!UpdateDeal(t) <=> P!UpdateDeal(t)
  BY <1>1 DEF M!UpdateDeal, P!UpdateDeal, M!Idle, P!Idle
<1>8. M!DealFails(t) <=> P!DealFails(t)
  BY DEF M!DealFails, P!DealFails, M!Idle, P!Idle, M!tables, P!tables
<1>9. /\ M!ParseCkb(t) <=> P!ParseCkb(t)
      /\ M!ParseEvm(t) <=> P!ParseEvm(t)
      /\ M!ParseTron(t) <=> P!ParseTron(t)
  BY <1>2, <1>3 DEF M!ParseCkb, P!ParseCkb, M!ParseEvm, P!ParseEvm, M!ParseTron, P!ParseTron,
                    M!Chain, P!Chain
<1> QED
  BY <1>4, <1>5, <1>6, <1>7, <1>8, <1>9
     DEF M!Parse, P!Parse, M!ParseDoge, P!ParseDoge, M!Chain, P!Chain

LEMMA SameRegister ==
    ASSUME NEW o \in Orders
    PROVE  /\ M!CreateOrder(o) <=> P!CreateOrder(o)
           /\ M!RegisterOk(o) <=> P!RegisterOk(o)
           /\ \A t \in Txs : M!SubmitHash(o, t) <=> P!SubmitHash(o, t)
<1>1. M!CreateOrder(o) <=> P!CreateOrder(o)
  BY DEF M!CreateOrder, P!CreateOrder, M!Named, P!Named, M!Outs, P!Outs, M!Cardinality,
         P!Cardinality, M!Idle, P!Idle
<1>2. M!RegisterOk(o) <=> P!RegisterOk(o)
  BY DEF M!RegisterOk, P!RegisterOk, M!RegisterStatusApplyRegister, P!RegisterStatusApplyRegister,
         M!RegisterStatusRegistered, P!RegisterStatusRegistered
<1>3. \A t \in Txs : M!SubmitHash(o, t) <=> P!SubmitHash(o, t)
  BY DEF M!SubmitHash, P!SubmitHash, M!HasRow, P!HasRow, M!NoRow, P!NoRow, M!TxStatusDefault,
         P!TxStatusDefault, M!OrderTxStatusDefault, P!OrderTxStatusDefault
<1> QED
  BY <1>1, <1>2, <1>3

LEMMA SameRefunds ==
    /\ R!EvmChains = Q!EvmChains
    /\ \A t \in Txs : R!Refunds(t) = Q!Refunds(t) /\ R!Refunds(t)' = Q!Refunds(t)'
BY DEF R!Refunds, Q!Refunds, R!Pending, Q!Pending, R!EvmChains, Q!EvmChains, R!Cardinality,
       Q!Cardinality

LEMMA SameRun ==
    ASSUME NEW w \in Workers
    PROVE  (R!Step(w) <=> Q!Step(w)) /\ (R!Trouble(w) <=> Q!Trouble(w))
<1> USE DEF R!tables, Q!tables, R!run, Q!run, R!node, Q!node, R!past, Q!past, R!count, Q!count
<1>1. R!List(w) <=> Q!List(w)
  BY DEF R!List, Q!List, R!NeedRefund, Q!NeedRefund, R!Found, Q!Found, R!TxStatusSending,
         Q!TxStatusSending, R!OrderTxStatusConfirm, Q!OrderTxStatusConfirm
<1>2. R!ReadNonce(w) <=> Q!ReadNonce(w)
  BY DEF R!ReadNonce, Q!ReadNonce
<1>3. \A all, S, fits : R!TakeUp(w, all, S, fits) <=> Q!TakeUp(w, all, S, fits)
  BY DEF R!TakeUp, Q!TakeUp
<1>4. \A t \in Txs : R!NextSingle(w, t) <=> Q!NextSingle(w, t)
  BY <1>3, SameRefunds DEF R!NextSingle, Q!NextSingle, R!Singles, Q!Singles, R!SingleFits,
                           Q!SingleFits
<1>5. R!NextCkb(w) <=> Q!NextCkb(w)
  BY <1>3, SameRefunds DEF R!NextCkb, Q!NextCkb, R!Singles, Q!Singles, R!CkbFits, Q!CkbFits,
                           R!OnChain, Q!OnChain
<1>6. R!NextDoge(w) <=> Q!NextDoge(w)
  BY <1>3 DEF R!NextDoge, Q!NextDoge, R!DogeBatch, Q!DogeBatch, R!DogeFits, Q!DogeFits,
              R!OnChain, Q!OnChain, R!Registered, Q!Registered, R!RegisterStatusRegistered,
              Q!RegisterStatusRegistered
<1>7. R!EndRun(w) <=> Q!EndRun(w)
  BY DEF R!EndRun, Q!EndRun
<1>8. R!Mark(w) <=> Q!Mark(w)
  BY DEF R!Mark, Q!Mark, R!UpdateRefundStatus, Q!UpdateRefundStatus, R!TxStatusSending,
         Q!TxStatusSending, R!TxStatusOk, Q!TxStatusOk, R!OrderTxStatusConfirm,
         Q!OrderTxStatusConfirm
<1>9. R!Revert(w) <=> Q!Revert(w)
  BY DEF R!Revert, Q!Revert, R!Finish, Q!Finish, R!UpdateRefundStatus, Q!UpdateRefundStatus,
         R!TxStatusSending, Q!TxStatusSending, R!TxStatusOk, Q!TxStatusOk,
         R!OrderTxStatusConfirm, Q!OrderTxStatusConfirm, R!Refunds, Q!Refunds, R!Pending,
         Q!Pending, R!EvmChains, Q!EvmChains, R!Cardinality, Q!Cardinality
<1>10. R!SendPlain(w) <=> Q!SendPlain(w)
  BY SameRefunds DEF R!SendPlain, Q!SendPlain, R!Sent, Q!Sent, R!SendFailed, Q!SendFailed,
                     R!Fault, Q!Fault
<1>11. R!SendEvm(w) <=> Q!SendEvm(w)
  BY SameRefunds DEF R!SendEvm, Q!SendEvm, R!Sent, Q!Sent, R!SendFailed, Q!SendFailed, R!Fault,
                     Q!Fault, R!PoolTakes, Q!PoolTakes, R!PoolRefuses, Q!PoolRefuses,
                     R!NextNonce, Q!NextNonce
<1>12. R!WriteHash(w) <=> Q!WriteHash(w)
  BY DEF R!WriteHash, Q!WriteHash, R!Finish, Q!Finish
<1>13. R!Trouble(w) <=> Q!Trouble(w)
  BY DEF R!Trouble, Q!Trouble, R!NonceFails, Q!NonceFails, R!BuildFails, Q!BuildFails,
         R!RevertFails, Q!RevertFails, R!HashFails, Q!HashFails, R!Crash, Q!Crash, R!Finish,
         Q!Finish, R!Fault, Q!Fault
<1>14. R!Step(w) <=> Q!Step(w)
  BY <1>1, <1>2, <1>4, <1>5, <1>6, <1>7, <1>8, <1>9, <1>10, <1>11, <1>12 DEF R!Step, Q!Step
<1> QED
  BY <1>13, <1>14

LEMMA SameMine == \A c \in R!EvmChains : R!Mine(c) <=> Q!Mine(c)
BY DEF R!Mine, Q!Mine, R!tables, Q!tables, R!run, Q!run, R!past, Q!past, R!count, Q!count

LEMMA SameInit == Init => P!Init /\ Q!JobInit
BY DEF Init, M!Init, P!Init, M!TablesInit, P!TablesInit, M!NoOrder, P!NoOrder, M!NoRow, P!NoRow,
       M!TxStatusDefault, P!TxStatusDefault, M!RegisterStatusDefault, P!RegisterStatusDefault,
       M!OrderTxStatusDefault, P!OrderTxStatusDefault, M!Idle, P!Idle, R!JobInit, Q!JobInit, R!EvmChains,
       Q!EvmChains

-----------------------------------------------------------------------------
\* The inductive invariant: those of the two parts, and what only both together
\* see to. For a payment in refund there is another one, parsed, that covers
\* the order.
AnotherPaid ==
    \A t \in Txs : pays[t].refund # TxStatusDefault =>
        \E u \in parsed \ {t} : P!Covers(u, pays[t].order)

IInv ==
    /\ P!IInv /\ P!BackedInv
    /\ Q!Shape /\ Q!Held /\ Q!Owed
    /\ AnotherPaid

LEMMA SameConfirmed ==
    /\ P!RefundMeansConfirmed <=> Q!RefundsConfirmed
    /\ P!RefundMeansConfirmed' <=> Q!RefundsConfirmed'
BY SameStatus DEF P!RefundMeansConfirmed, Q!RefundsConfirmed

\* What the invariant says in terms of the tables of DasPay.
LEMMA TableFacts ==
    ASSUME IInv
    PROVE  /\ orders \in [Orders -> Order] /\ pays \in [Txs -> Row]
           /\ P!RefundMeansConfirmed
           /\ \A t \in Txs : pays[t].refund # TxStatusDefault =>
                                 pays[t].order \in Orders /\ pays[t].status = OrderTxStatusConfirm
<1>1. TablesType
  BY SameTables DEF IInv, P!IInv, P!TypeOK
<1>2. P!RefundMeansConfirmed
  BY SameConfirmed DEF IInv, Q!Shape
<1>3. ASSUME NEW t \in Txs, pays[t].refund # TxStatusDefault
      PROVE  pays[t].order \in Orders /\ pays[t].status = OrderTxStatusConfirm
  <2>1. pays[t].order # None
    BY <1>3, SameStatus DEF IInv, P!IInv, P!NoRowYet, P!NoRow
  <2> QED
    BY <1>1, <1>2, <1>3, <2>1, SameStatus DEF TablesType, Row, P!RefundMeansConfirmed
<1> QED
  BY <1>1, <1>2, <1>3 DEF TablesType

\* What only happens to the tables as PayMatch has it is Around the job.
LEMMA AroundJob ==
    ASSUME IInv, P!Next, UNCHANGED job,
           \A t \in Txs : \/ pays'[t].refund = pays[t].refund
                          \/ /\ pays[t].refund = TxStatusDefault
                             /\ pays'[t].refund = TxStatusSending
    PROVE  P!IInv' /\ P!BackedInv' /\ Q!Around
<1>1. P!IInv' /\ P!BackedInv'
  BY SameAssumptions, P!NextIInv, P!NextBacked DEF IInv
<1>2. P!RefundMeansConfirmed'
  BY TableFacts, SameAssumptions, P!RefundConfirmedStep DEF IInv
<1>3. Q!TablesType' /\ Q!RefundsConfirmed'
  BY <1>1, <1>2, SameConfirmed, SameTables DEF P!IInv, P!TypeOK
<1>4. UNCHANGED <<Q!run, Q!node, Q!past, Q!count>>
  BY DEF job, Q!run, Q!node, Q!past, Q!count
<1> QED
  BY <1>1, <1>3, <1>4, SameStatus DEF Q!Around

\* A parser puts a payment in refund only as it credits another one that covers
\* the same order.
LEMMA ParserStep ==
    ASSUME IInv, NEW t \in Txs, Parser(t)
    PROVE  P!IInv' /\ P!BackedInv' /\ Q!Around /\ AnotherPaid'
<1>1. P!Parse(t) /\ UNCHANGED job
  BY SameParse DEF Parser
<1>2. P!Next
  BY <1>1 DEF P!Next
<1>3. /\ parsed \subseteq parsed'
      /\ \/ UNCHANGED P!tables
         \/ t \in parsed' /\ \E o \in SelfOrders : P!Credits(t, o)
  BY <1>1, SameAssumptions, P!ParseCredits DEF IInv
<1>4. CASE UNCHANGED P!tables
  <2>1. pays' = pays
    BY <1>4 DEF P!tables
  <2> QED
    BY <1>1, <1>2, <1>3, <2>1, AroundJob DEF IInv, AnotherPaid
<1>5. ASSUME NEW o \in SelfOrders, P!Credits(t, o), t \in parsed'
      PROVE  P!IInv' /\ P!BackedInv' /\ Q!Around /\ AnotherPaid'
  <2>1. /\ \A u \in Txs \ {t} :
              /\ pays'[u].order = pays[u].order
              /\ pays'[u].refund = IF u \in P!Kept(o) THEN P!TxStatusSending ELSE pays[u].refund
        /\ pays[t].order \in {None, o} => pays'[t].order = o /\ pays'[t].refund = pays[t].refund
        /\ pays[t].order \notin {None, o} => pays'[t] = pays[t]
    BY <1>5, SameAssumptions, P!UpdatePromise DEF P!Credits, IInv
  <2>2. \A u \in P!Kept(o) : pays[u].order = o /\ pays[u].refund = TxStatusDefault
    BY SameStatus DEF P!Kept, P!Confirmed
  <2>3. \A u \in Txs : \/ pays'[u].refund = pays[u].refund
                       \/ /\ pays[u].refund = TxStatusDefault
                          /\ pays'[u].refund = TxStatusSending
    BY <2>1, <2>2, SameStatus
  <2>4. AnotherPaid'
    <3> SUFFICES ASSUME NEW u \in Txs, pays'[u].refund # TxStatusDefault
                 PROVE  \E v \in parsed' \ {u} : P!Covers(v, pays'[u].order)
      BY DEF AnotherPaid
    <3>1. CASE pays[u].refund # TxStatusDefault
      <4>1. pays'[u].order = pays[u].order
        BY <2>1, <3>1, TableFacts, OrdersAssumption, NoneAssumption
      <4> QED
        BY <1>3, <3>1, <4>1 DEF IInv, AnotherPaid
    <3>2. CASE pays[u].refund = TxStatusDefault
      <4>1. u # t /\ u \in P!Kept(o)
        BY <2>1, <3>2
      <4>2. P!Covers(t, pays'[u].order)
        BY <1>5, <2>1, <2>2, <4>1 DEF P!Credits
      <4> QED
        BY <1>5, <4>1, <4>2
    <3> QED
      BY <3>1, <3>2
  <2> QED
    BY <1>1, <1>2, <2>3, <2>4, AroundJob
<1> QED
  BY <1>3, <1>4, <1>5

\* das-register puts nothing in refund.
LEMMA RegisterStep ==
    ASSUME IInv, DasRegister
    PROVE  P!IInv' /\ P!BackedInv' /\ Q!Around /\ AnotherPaid'
<1>1. P!Next /\ UNCHANGED <<parsed, deal, overtaken>> /\ UNCHANGED job
  BY SameRegister DEF DasRegister, P!Next, P!CreateOrder, P!RegisterOk, P!SubmitHash
<1>2. \A t \in Txs : /\ pays'[t].refund = pays[t].refund
                     /\ pays[t].refund # TxStatusDefault => pays'[t].order = pays[t].order
  <2>1. ASSUME NEW o \in Orders, P!CreateOrder(o) \/ P!RegisterOk(o) PROVE pays' = pays
    BY <2>1 DEF P!CreateOrder, P!RegisterOk
  <2>2. ASSUME NEW o \in Orders, NEW u \in Txs, P!SubmitHash(o, u), NEW t \in Txs
        PROVE  /\ pays'[t].refund = pays[t].refund
               /\ pays[t].refund # TxStatusDefault => pays'[t].order = pays[t].order
    <3> DEFINE row == [P!NoRow EXCEPT !.order = o, !.addr = OrderInfo[o].addr]
    <3>1. row.refund = TxStatusDefault
      BY SameStatus DEF P!NoRow
    <3>2. pays[u] = P!NoRow
      BY <2>2 DEF P!SubmitHash, P!HasRow, IInv, P!IInv, P!NoRowYet
    <3>3. pays[u].refund = TxStatusDefault
      BY <3>2, SameStatus DEF P!NoRow
    <3>4. pays' = [pays EXCEPT ![u] = row]
      BY <2>2 DEF P!SubmitHash
    <3> HIDE DEF row
    <3> QED
      BY <3>1, <3>3, <3>4, TableFacts
  <2> QED
    BY <2>1, <2>2, SameRegister DEF DasRegister
<1>3. AnotherPaid'
  BY <1>1, <1>2 DEF IInv, AnotherPaid
<1> QED
  BY <1>1, <1>2, <1>3, AroundJob

\* The job changes refund_status between Sending and Ok, and nothing else of the
\* tables.
LEMMA JobTables ==
    ASSUME IInv, UNCHANGED <<orders, parsed, deal, overtaken>>, NEW S \in SUBSET Txs,
           NEW old \in {Q!TxStatusSending, Q!TxStatusOk},
           NEW new \in {Q!TxStatusSending, Q!TxStatusOk}, Q!UpdateRefundStatus(S, old, new)
    PROVE  /\ P!IInv' /\ P!BackedInv' /\ AnotherPaid'
           /\ \A t \in Txs : /\ pays'[t].order = pays[t].order
                             /\ pays'[t].status = pays[t].status
                             /\ pays'[t].refund = TxStatusDefault
                                   <=> pays[t].refund = TxStatusDefault
<1>1. P!UpdateRefundStatus(S, old, new)
  BY SameStatus DEF P!UpdateRefundStatus, Q!UpdateRefundStatus
<1>2. old \in {P!TxStatusSending, P!TxStatusOk} /\ new \in {P!TxStatusSending, P!TxStatusOk}
  BY SameStatus
<1>3. P!IInv' /\ P!BackedInv'
  BY <1>1, <1>2, SameAssumptions, P!RefundStepIInv, P!RefundMarkBacked DEF IInv
<1>4. \A t \in Txs : /\ pays'[t].order = pays[t].order
                     /\ pays'[t].status = pays[t].status
                     /\ pays'[t].refund = TxStatusDefault <=> pays[t].refund = TxStatusDefault
  BY <1>1, <1>2, TableFacts DEF P!UpdateRefundStatus, Row, TxStatusDefault, P!TxStatusSending,
                                P!TxStatusOk
<1>5. AnotherPaid'
  BY <1>4 DEF IInv, AnotherPaid
<1> QED
  BY <1>3, <1>4, <1>5

LEMMA UnchangedTables ==
    ASSUME IInv, UNCHANGED <<orders, pays, parsed, deal, overtaken>>
    PROVE  P!IInv' /\ P!BackedInv' /\ AnotherPaid'
<1>1. UNCHANGED P!vars
  BY DEF P!vars
<1>2. P!IInv' /\ P!BackedInv'
  BY <1>1, SameAssumptions, P!NextIInv, P!NextBacked DEF IInv
<1> QED
  BY <1>2 DEF IInv, AnotherPaid

\* A step of the job, or of an EVM chain.
LEMMA JobStep ==
    ASSUME IInv, (\E w \in Workers : RefundJob(w)) \/ Chains
    PROVE  P!IInv' /\ P!BackedInv' /\ AnotherPaid' /\ Q!JobNext
<1>1. ASSUME NEW w \in Workers, RefundJob(w)
      PROVE  P!IInv' /\ P!BackedInv' /\ AnotherPaid' /\ Q!JobNext
  <2>1. (Q!Step(w) \/ Q!Trouble(w)) /\ UNCHANGED <<parsed, deal, overtaken>>
    BY <1>1, SameRun DEF RefundJob, parsers
  <2>2. ts[w] \in SUBSET Txs
    BY DEF IInv, Q!Shape, Q!TypeOK
  <2>3. \/ UNCHANGED <<orders, pays>>
        \/ /\ orders' = orders
           /\ \E old, new \in {Q!TxStatusSending, Q!TxStatusOk} :
                 Q!UpdateRefundStatus(ts[w], old, new)
    BY <2>1, SameAssumptions, Q!JobEffect DEF Q!tables
  <2> QED
    BY <2>1, <2>2, <2>3, JobTables, UnchangedTables DEF Q!JobNext
<1>2. CASE Chains
  <2>1. PICK c \in R!EvmChains : R!Mine(c) /\ UNCHANGED <<parsed, deal, overtaken>>
    BY <1>2 DEF Chains, parsers
  <2>2. c \in Q!EvmChains /\ Q!Mine(c)
    BY <2>1, SameMine, SameRefunds
  <2>3. UNCHANGED <<orders, pays>>
    BY <2>2 DEF Q!Mine, Q!tables
  <2> QED
    BY <2>1, <2>2, <2>3, UnchangedTables DEF Q!JobNext
<1> QED
  BY <1>1, <1>2

\* Every step is one that the job has around it or of the job itself.
LEMMA NextSteps ==
    ASSUME IInv, [Next]_vars
    PROVE  P!IInv' /\ P!BackedInv' /\ AnotherPaid' /\ [Q!JobNext]_(Q!vars)
<1>1. Q!Around => Q!JobNext
  BY DEF Q!JobNext
<1>2. CASE UNCHANGED vars
  <2>1. UNCHANGED Q!vars /\ UNCHANGED <<orders, pays, parsed, deal, overtaken>>
    BY <1>2 DEF vars, tables, parsers, job, Q!vars, Q!tables, Q!run, Q!node, Q!past, Q!count
  <2> QED
    BY <2>1, UnchangedTables
<1> QED
  BY <1>1, <1>2, ParserStep, RegisterStep, JobStep DEF Next

LEMMA NextIInv == IInv /\ [Next]_vars => IInv'
<1> SUFFICES ASSUME IInv, [Next]_vars PROVE IInv'
  OBVIOUS
<1>1. P!IInv' /\ P!BackedInv' /\ AnotherPaid' /\ [Q!JobNext]_(Q!vars)
  BY NextSteps
<1>2. Q!Shape' /\ Q!Held' /\ Q!Owed'
  BY <1>1, SameAssumptions, Q!ShapeStep, Q!HeldStep, Q!OwedStep DEF IInv
<1> QED
  BY <1>1, <1>2 DEF IInv

LEMMA InitIInv == Init => IInv
<1> SUFFICES ASSUME Init PROVE IInv
  OBVIOUS
<1>1. P!IInv /\ P!BackedInv
  BY SameInit, SameAssumptions, P!InitIInv, P!InitBacked
<1>2. \A t \in Txs : pays[t].refund = TxStatusDefault
  BY SameInit, SameStatus DEF P!Init, P!TablesInit, P!NoRow
<1>3. Q!TablesType /\ Q!JobInit
  BY <1>1, SameInit, SameTables DEF P!IInv, P!TypeOK
<1>4. Q!Shape /\ Q!Held /\ \A t \in Txs : Q!Refunds(t) = 0
  BY <1>2, <1>3, SameStatus, SameAssumptions, Q!JobStarts
<1>5. Q!Owed
  BY <1>3, <1>4 DEF Q!Owed, Q!JobInit
<1> QED
  BY <1>1, <1>2, <1>4, <1>5 DEF IInv, AnotherPaid

\* The invariant holds in every reachable state of parsers and job together.
THEOREM Invariance == Spec => []IInv
BY InitIInv, NextIInv, PTL DEF Spec

-----------------------------------------------------------------------------
\* Every paid order has a payment of its own, also while the refund job marks,
\* sends and puts back, with any number of runs at once; a payment counts for two
\* orders only where MayPayBoth says so (see PayBackedProofs).
THEOREM OrdersBacked == Spec => []PaidOrdersBacked
<1>1. IInv => PaidOrdersBacked
  BY SameAssumptions, SameBacked, P!BackedIsMatching DEF IInv
<1> QED
  BY <1>1, Invariance, PTL

\* Money goes back only where an order was paid more than once: parsers and job
\* together never send back the only payment of an order, also with runs that
\* overlap and answers that are lost.
THEOREM OnlyForAnother == Spec => []SentBackOnlyForAnother
<1>1. ASSUME IInv PROVE SentBackOnlyForAnother
  <2> SUFFICES ASSUME NEW t \in Txs, R!Refunds(t) > 0
               PROVE  \E u \in parsed \ {t} : M!Covers(u, pays[t].order)
    BY DEF SentBackOnlyForAnother
  <2>1. pays[t].refund # TxStatusDefault
    BY <1>1, SameRefunds, SameStatus DEF IInv, Q!Owed
  <2>2. PICK u \in parsed \ {t} : P!Covers(u, pays[t].order)
    BY <1>1, <2>1 DEF IInv, AnotherPaid
  <2>3. u \in Txs
    BY <1>1 DEF IInv, P!IInv, P!TypeOK
  <2> QED
    BY <2>2, <2>3, SameQueries
<1> QED
  BY <1>1, Invariance, PTL

-----------------------------------------------------------------------------
\* What Refund promises, where it only assumes that payments come into refund,
\* holds of the job beside the real parsers and das-register as well: a refund
\* that is out stays marked, only the two risky steps pay twice, and no mark
\* without a refund is left but in hand, dropped or replaced.
THEOREM JobBesideParsers ==
    Spec => [](R!SentStaysMarked /\ R!DoubleOnlyIfRisky /\ R!NothingLost)
<1>1. ASSUME IInv PROVE R!SentStaysMarked /\ R!DoubleOnlyIfRisky /\ R!NothingLost
  <2>1. Q!SentStaysMarked /\ Q!DoubleOnlyIfRisky /\ Q!NothingLost
    BY <1>1 DEF IInv, Q!Held
  <2>2. Q!TxStatusOk = R!TxStatusOk
    BY DEF Q!TxStatusOk, R!TxStatusOk
  <2>3. \A t \in Txs : Q!InHand(t) <=> R!InHand(t)
    BY DEF Q!InHand, R!InHand
  <2> QED
    BY <2>1, <2>2, <2>3, SameRefunds
       DEF Q!SentStaysMarked, R!SentStaysMarked, Q!DoubleOnlyIfRisky, R!DoubleOnlyIfRisky,
           Q!NothingLost, R!NothingLost
<1> QED
  BY <1>1, Invariance, PTL

-----------------------------------------------------------------------------
(***************************************************************************)
(* DasPay implements PayPromise.                                           *)
(***************************************************************************)

\* What the refinement mapping makes of the tables and of what is out.
PaidOrders == {o \in Orders : Paid(o)}
Filed      == [t \in Txs |-> pays[t].order]
KeptPays   == UNION {Kept(o) : o \in Orders}
OwedPays   == UNION {Confirmed(o) \ Kept(o) : o \in Orders}
SentPays   == [t \in Txs |-> R!Refunds(t)]

LEMMA SameMapping ==
    /\ {o \in Orders : P!Paid(o)} = PaidOrders /\ {o \in Orders : P!Paid(o)}' = PaidOrders'
    /\ P!KeptPays = KeptPays /\ P!KeptPays' = KeptPays'
    /\ P!OwedPays = OwedPays /\ P!OwedPays' = OwedPays'
<1>1. {o \in Orders : P!Paid(o)} = PaidOrders /\ {o \in Orders : P!Paid(o)}' = PaidOrders'
  BY SameStatus DEF P!Paid, Paid, PaidOrders
<1>2. \A o \in Orders : /\ P!Kept(o) = Kept(o) /\ P!Confirmed(o) = Confirmed(o)
                        /\ P!Kept(o)' = Kept(o)' /\ P!Confirmed(o)' = Confirmed(o)'
  BY SameStatus DEF P!Kept, Kept, P!Confirmed, Confirmed
<1>3. P!KeptPays = KeptPays /\ P!KeptPays' = KeptPays'
  BY <1>2 DEF P!KeptPays, KeptPays
<1>4. P!OwedPays = OwedPays /\ P!OwedPays' = OwedPays'
  BY <1>2 DEF P!OwedPays, OwedPays
<1> QED
  BY <1>1, <1>3, <1>4

\* Where nothing is sent, DasPay keeps the promise as PayMatch does.
LEMMA SamePromise ==
    ASSUME \A u \in Txs : R!Refunds(u)' = R!Refunds(u), NEW o \in Orders, NEW t \in Txs
    PROVE  /\ P!Promise!File(o, t) => Promise!File(o, t)
           /\ P!Promise!Accept(o, t) => Promise!Accept(o, t)
           /\ P!Promise!Displace(o, t) => Promise!Displace(o, t)
<1>1. SentPays' = SentPays
  BY DEF SentPays
<1>2. P!Promise!File(o, t) => Promise!File(o, t)
  BY <1>1, SameMapping DEF P!Promise!File, Promise!File, P!KeptPays, P!OwedPays, KeptPays,
                           OwedPays, PaidOrders, SentPays
<1>3. P!Promise!Accept(o, t) => Promise!Accept(o, t)
  BY <1>1, SameMapping DEF P!Promise!Accept, Promise!Accept, P!Promise!Of, Promise!Of,
                           P!KeptPays, P!OwedPays, KeptPays, OwedPays, PaidOrders, SentPays
<1>4. P!Promise!Displace(o, t) => Promise!Displace(o, t)
  BY <1>1, SameMapping DEF P!Promise!Displace, Promise!Displace, P!Promise!Of, Promise!Of,
                           P!KeptPays, P!OwedPays, KeptPays, OwedPays, PaidOrders, SentPays
<1> QED
  BY <1>2, <1>3, <1>4

\* Which rows are there, confirmed and in refund, and which orders are paid.
Quiet ==
    /\ \A u \in Txs : /\ pays'[u].order = pays[u].order
                      /\ pays'[u].status = pays[u].status
                      /\ pays'[u].refund = TxStatusDefault <=> pays[u].refund = TxStatusDefault
    /\ \A p \in Orders : orders'[p].pay = orders[p].pay

LEMMA QuietMapping ==
    ASSUME Quiet
    PROVE  UNCHANGED <<PaidOrders, Filed, KeptPays, OwedPays>>
<1>1. UNCHANGED P!Promise!vars
  BY SameStatus, SameAssumptions, P!QuietPromise DEF Quiet
<1>2. /\ {o \in Orders : P!Paid(o)}' = {o \in Orders : P!Paid(o)}
      /\ P!KeptPays' = P!KeptPays /\ P!OwedPays' = P!OwedPays
  BY <1>1 DEF P!Promise!vars, P!KeptPays, P!OwedPays
<1>3. Filed' = Filed
  BY DEF Quiet, Filed
<1> QED
  BY <1>2, <1>3, SameMapping

LEMMA QuietPromise ==
    ASSUME Quiet, \A u \in Txs : R!Refunds(u)' = R!Refunds(u)
    PROVE  UNCHANGED Promise!vars
BY QuietMapping DEF Promise!vars, PaidOrders, Filed, KeptPays, OwedPays

\* Neither the parsers nor das-register send.
LEMMA NothingSent ==
    ASSUME UNCHANGED job
    PROVE  \A u \in Txs : R!Refunds(u)' = R!Refunds(u)
<1>1. pool' = pool /\ paid' = paid
  BY DEF job
<1> QED
  BY <1>1, SameRefunds, SameAssumptions, Q!RefundsSame

LEMMA ParserPromise ==
    ASSUME IInv, NEW t \in Txs, Parser(t)
    PROVE  [Promise!Next]_(Promise!vars)
<1>1. P!Parse(t) /\ UNCHANGED job
  BY SameParse DEF Parser
<1>2. \A u \in Txs : R!Refunds(u)' = R!Refunds(u)
  BY <1>1, NothingSent
<1>3. CASE UNCHANGED P!tables
  BY <1>2, <1>3, QuietPromise DEF P!tables, Quiet
<1>4. ASSUME NEW o \in SelfOrders, P!Updates(t, o) PROVE Promise!Next
  <2>1. o \in Orders
    BY OrdersAssumption
  <2>2. P!Promise!Accept(o, t) \/ P!Promise!Displace(o, t)
    BY <1>4, TableFacts, SameAssumptions, P!ParsePromise DEF IInv
  <2> QED
    BY <1>2, <2>1, <2>2, SamePromise DEF Promise!Next
<1> QED
  BY <1>1, <1>3, <1>4, SameAssumptions, P!ParseStep DEF IInv, P!IInv

LEMMA RegisterPromise ==
    ASSUME IInv, DasRegister
    PROVE  [Promise!Next]_(Promise!vars)
<1>1. \A u \in Txs : R!Refunds(u)' = R!Refunds(u)
  BY NothingSent DEF DasRegister
<1>2. ASSUME NEW o \in Orders, NEW t \in Txs, P!SubmitHash(o, t) PROVE Promise!Next
  <2>1. P!Promise!File(o, t)
    BY <1>2, SameAssumptions, P!SubmitPromise DEF IInv
  <2> QED
    BY <1>1, <2>1, SamePromise DEF Promise!Next
<1>3. ASSUME NEW o \in Orders, P!CreateOrder(o) \/ P!RegisterOk(o) PROVE UNCHANGED Promise!vars
  <2>1. pays' = pays /\ \A p \in Orders : orders'[p].pay = orders[p].pay
    BY <1>3, TableFacts DEF P!CreateOrder, P!RegisterOk, Order
  <2> QED
    BY <1>1, <2>1, QuietPromise DEF Quiet
<1> QED
  BY <1>2, <1>3, SameRegister DEF DasRegister

\* What is sent is owed: das-pay sends nothing back that an order keeps.
LEMMA InHandIsOwed ==
    ASSUME IInv, NEW w \in Workers, NEW t \in ts[w]
    PROVE  t \in Txs /\ t \in OwedPays
<1>1. t \in Txs
  BY DEF IInv, Q!Shape, Q!TypeOK
<1>2. pays[t].refund # TxStatusDefault
  BY SameStatus DEF IInv, Q!Owed
<1>3. pays[t].order \in Orders /\ pays[t].status = OrderTxStatusConfirm
  BY <1>1, <1>2, TableFacts
<1>4. t \in Confirmed(pays[t].order) \ Kept(pays[t].order)
  BY <1>1, <1>2, <1>3 DEF Confirmed, Kept
<1> QED
  BY <1>1, <1>3, <1>4 DEF OwedPays

LEMMA SendPromise ==
    ASSUME Q!OneRun, IInv, Q!Solo, Q!Shape', NEW w \in Workers, UNCHANGED <<orders, pays>>,
           Q!SendPlain(w) \/ Q!SendEvm(w)
    PROVE  [Promise!Next]_(Promise!vars)
<1>1. Q!SendsFirst(w)
  BY SameAssumptions, Q!SendIsFirst DEF IInv
<1>2. Quiet /\ UNCHANGED <<PaidOrders, Filed, KeptPays, OwedPays>>
  BY QuietMapping DEF Quiet
<1>3. \A t \in ts[w] : t \in Txs /\ t \in OwedPays
  BY InHandIsOwed
<1>4. CASE \A t \in Txs : Q!Refunds(t)' = Q!Refunds(t)
  BY <1>2, <1>4, SameRefunds, QuietPromise
<1>5. ASSUME NEW S \in SUBSET ts[w],
             \A t \in S : Q!Refunds(t) = 0,
             \A t \in Txs : Q!Refunds(t)' = IF t \in S THEN 1 ELSE Q!Refunds(t)
      PROVE  Promise!Next
  <2>1. S \in SUBSET Txs /\ S \subseteq OwedPays
    BY <1>3
  <2>2. \A t \in S : SentPays[t] = 0
    BY <1>5, <2>1, SameRefunds DEF SentPays
  <2>3. SentPays' = [t \in Txs |-> IF t \in S THEN 1 ELSE SentPays[t]]
    BY <1>5, SameRefunds DEF SentPays
  <2>4. Promise!SendBack(S)
    BY <1>2, <2>1, <2>2, <2>3 DEF Promise!SendBack, SentPays, PaidOrders, Filed, KeptPays, OwedPays
  <2> QED
    BY <2>1, <2>4 DEF Promise!Next
<1>6. ASSUME NEW t \in ts[w], NEW u \in Txs, u # t,
             Q!Refunds(t) = 0, Q!Refunds(t)' = 1, Q!Refunds(u)' = 0,
             \A v \in Txs \ {t, u} : Q!Refunds(v)' = Q!Refunds(v)
      PROVE  Promise!Next
  <2>1. t \in Txs /\ t \in OwedPays
    BY <1>3
  <2>2. SentPays[t] = 0
    BY <1>6, <2>1, SameRefunds DEF SentPays
  <2>3. SentPays' = [SentPays EXCEPT ![t] = 1, ![u] = 0]
    BY <1>6, <2>1, SameRefunds DEF SentPays
  <2>4. Promise!Supplant(t, u)
    BY <1>2, <2>1, <2>2, <2>3 DEF Promise!Supplant, SentPays, PaidOrders, Filed, KeptPays, OwedPays
  <2> QED
    BY <2>1, <2>4 DEF Promise!Next
<1> QED
  BY <1>1, <1>4, <1>5, <1>6 DEF Q!SendsFirst

LEMMA JobPromise ==
    ASSUME Q!OneRun, IInv, Q!Solo, IInv', NEW w \in Workers, RefundJob(w)
    PROVE  [Promise!Next]_(Promise!vars)
<1>1. (Q!Step(w) \/ Q!Trouble(w)) /\ UNCHANGED <<parsed, deal, overtaken>>
  BY SameRun DEF RefundJob, parsers
<1>2. ts[w] \in SUBSET Txs
  BY DEF IInv, Q!Shape, Q!TypeOK
<1>3. UNCHANGED <<pool, paid>> => \A u \in Txs : R!Refunds(u)' = R!Refunds(u)
  BY SameRefunds, SameAssumptions, Q!RefundsSame
<1>4. CASE UNCHANGED <<Q!tables, pool, paid>>
  BY <1>3, <1>4, QuietPromise DEF Q!tables, Quiet
<1>5. ASSUME UNCHANGED <<orders, pool, paid>>,
             NEW old \in {Q!TxStatusSending, Q!TxStatusOk},
             NEW new \in {Q!TxStatusSending, Q!TxStatusOk},
             Q!UpdateRefundStatus(ts[w], old, new)
      PROVE  UNCHANGED Promise!vars
  <2>1. Quiet
    BY <1>1, <1>2, <1>5, JobTables DEF Quiet
  <2> QED
    BY <1>3, <1>5, <2>1, QuietPromise
<1>6. CASE (Q!SendPlain(w) \/ Q!SendEvm(w)) /\ UNCHANGED Q!tables
  BY <1>6, SendPromise DEF IInv, Q!tables
<1> QED
  BY <1>1, <1>4, <1>5, <1>6, SameAssumptions, Q!JobEffect

LEMMA ChainsPromise ==
    ASSUME IInv, IInv', Chains
    PROVE  UNCHANGED Promise!vars
<1>1. PICK c \in R!EvmChains : R!Mine(c)
  BY DEF Chains
<1>2. c \in Q!EvmChains /\ Q!Mine(c)
  BY <1>1, SameMine, SameRefunds
<1>3. \A u \in Txs : R!Refunds(u)' = R!Refunds(u)
  <2>1. Q!TypeOK /\ Q!TypeOK' /\ Q!PoolOK
    BY DEF IInv, Q!Shape
  <2>2. \A u \in Txs : Q!Refunds(u)' = Q!Refunds(u)
    BY <1>2, <2>1, SameAssumptions, Q!MineRefunds
  <2> QED
    BY <2>2, SameRefunds
<1>4. Quiet
  BY <1>2 DEF Q!Mine, Q!tables, Quiet
<1> QED
  BY <1>3, <1>4, QuietPromise

LEMMA PromiseStep ==
    ASSUME Q!OneRun, IInv, Q!Solo, IInv', [Next]_vars
    PROVE  [Promise!Next]_(Promise!vars)
<1>1. CASE UNCHANGED vars
  <2>1. Quiet /\ UNCHANGED job
    BY <1>1 DEF vars, tables, Quiet
  <2> QED
    BY <2>1, NothingSent, QuietPromise
<1> QED
  BY <1>1, ParserPromise, RegisterPromise, JobPromise, ChainsPromise DEF Next

LEMMA InitPromise == Init => Promise!Init /\ Q!Solo
<1> SUFFICES ASSUME Init PROVE Promise!Init /\ Q!Solo
  OBVIOUS
<1>1. P!Init /\ Q!JobInit
  BY SameInit
<1>2. P!Promise!Init
  BY <1>1, SameAssumptions, P!InitPromise
<1>3. Q!Solo
  BY <1>1 DEF Q!JobInit, Q!Solo
<1>4. \A t \in Txs : R!Refunds(t) = 0
  <2>1. \A t \in Txs : pays[t].refund = TxStatusDefault
    BY <1>1, SameStatus DEF P!Init, P!TablesInit, P!NoRow
  <2>2. IInv
    BY InitIInv
  <2>3. Q!TablesType
    BY <2>2 DEF IInv, Q!Shape, Q!TypeOK
  <2> QED
    BY <1>1, <2>1, <2>3, SameRefunds, SameStatus, SameAssumptions, Q!JobStarts
<1>5. Promise!Init
  BY <1>2, <1>4, SameMapping
     DEF P!Promise!Init, Promise!Init, P!KeptPays, P!OwedPays, KeptPays, OwedPays, PaidOrders
<1> QED
  BY <1>3, <1>5

LEMMA NextSolo == Q!OneRun /\ IInv /\ Q!Solo /\ [Next]_vars => Q!Solo'
BY NextSteps, SameAssumptions, Q!SoloStep DEF IInv

\* With one run of the job at a time and sends that fail only when they failed,
\* parsers and job together keep the promise, for any orders and payments: what
\* an order keeps is never sent back, what it does not keep is owed for good,
\* and each payment owed is sent back once at most, however calls fail, runs
\* end and nonces go stale.
THEOREM Implements == Q!OneRun /\ Spec => KeepsPromise
<1> SUFFICES ASSUME Q!OneRun PROVE Spec => KeepsPromise
  OBVIOUS
<1>1. IInv /\ Q!Solo /\ IInv' /\ [Next]_vars => [Promise!Next]_(Promise!vars)
  BY PromiseStep
<1>2. IInv /\ Q!Solo /\ [Next]_vars => Q!Solo'
  BY NextSolo
<1> QED
  BY <1>1, <1>2, InitPromise, Invariance, PTL DEF Spec, KeepsPromise, Promise!Spec

=============================================================================
