--------------------------- MODULE PayBackedProofs ---------------------------
(***************************************************************************)
(* PaidOrdersBacked, for every set of orders and payments: every paid      *)
(* order has a payment of its own. The payment is found by what the code   *)
(* looks at, the order id a transaction carries and the order its hash is  *)
(* filed under, both of which stay as they are once it has been parsed.    *)
(* A Doge parser goes by what it looked up before, so the invariant also   *)
(* says what it holds is good for until the update (DealKnown), and what   *)
(* becomes of a payment that das-register filed meanwhile (OvertakenKnown).*)
(***************************************************************************)
EXTENDS PayPromiseProofs, WellFoundedInduction

\* An output of a transaction.
LEMMA OutType ==
    ASSUME NEW t \in Txs
    PROVE  /\ DOMAIN Outs(t) = 1 .. Len(Outs(t)) /\ Len(Outs(t)) \in Nat
           /\ \A i \in DOMAIN Outs(t) : Outs(t)[i] \in Out
<1>1. Outs(t) \in Seq(Out)
  BY InfoAssumption DEF Outs
<1> QED
  BY <1>1

\* Every order in the table has an amount.
LEMMA AmountType == \A o \in Orders : OrderInfo[o].amount \in Nat
BY InfoAssumption

\* There is a first one among the outputs of a transaction that fit.
LEMMA MinIn ==
    ASSUME NEW S \in SUBSET Nat, S # {}
    PROVE  Min(S) \in S
<1>1. PICK x \in S : \A y \in S : ~(<<y, x>> \in OpToRel(<, Nat))
  BY NatLessThanWellFounded, WFMin
<1>2. \A y \in S : ~(y < x)
  BY <1>1 DEF OpToRel
<1>3. \A y \in S : x =< y
  BY <1>2
<1> QED
  BY <1>1, <1>3 DEF Min

\* There is a last one, because there are finitely many.
LEMMA MaxIn ==
    ASSUME NEW n \in Nat, NEW S \in SUBSET (1 .. n), S # {}
    PROVE  Max(S) \in S
<1> DEFINE T == {n - i : i \in S}
<1>1. T \in SUBSET Nat /\ T # {}
  <2>1. \A i \in S : n - i \in Nat
    OBVIOUS
  <2>2. PICK i \in S : TRUE
    OBVIOUS
  <2>3. n - i \in T
    BY <2>2
  <2> QED
    BY <2>1, <2>3
<1> HIDE DEF T
<1>2. PICK x \in T : \A y \in T : ~(<<y, x>> \in OpToRel(<, Nat))
  BY <1>1, NatLessThanWellFounded, WFMin
<1>3. \A y \in T : ~(y < x)
  BY <1>1, <1>2 DEF OpToRel
<1>4. PICK i \in S : x = n - i
  BY <1>2 DEF T
<1>5. ASSUME NEW j \in S PROVE i >= j
  <2>1. ~(n - j < x)
    BY <1>3 DEF T
  <2> QED
    BY <1>4, <2>1
<1> QED
  BY <1>5 DEF Max

-----------------------------------------------------------------------------
\* The order a transaction names and pays for, by the rules of its chain.
MemoCredit(t) ==
    IF Chain(t) = "ckb" THEN CkbCredit(t)
    ELSE IF Chain(t) = "tron" THEN TronCredit(t)
    ELSE IF Chain(t) = "doge" THEN OpReturnCredit(t)
    ELSE IF Chain(t) \in {"eth", "bsc", "polygon"} THEN EvmCredit(t)
    ELSE None

\* The outputs CkbCredit looks for, and those OpReturnCredit does.
FirstCover(t) ==
    {i \in DOMAIN Outs(t) : /\ OutCovers(t, Outs(t)[i])
                            /\ \A j \in 1 .. i - 1 : ~OutCovers(t, Outs(t)[j])}
Memos(t) == {i \in DOMAIN Outs(t) : Outs(t)[i].memo # None}

\* An output that covers an order makes the transaction cover it.
LEMMA OutCoversCovers ==
    ASSUME NEW t \in Txs, NEW i \in DOMAIN Outs(t), OutCovers(t, Outs(t)[i])
    PROVE  Covers(t, Outs(t)[i].memo)
BY DEF OutCovers, Covers

\* What a Doge transaction pays is the value of an output to das-pay.
LEMMA DogeCovers ==
    ASSUME NEW t \in Txs, NEW o \in Orders, Chain(t) = "doge", DogeOurs(t) # {},
           TokenMatch(t, o), DogeValue(t) = OrderInfo[o].amount
    PROVE  Covers(t, o)
<1>1. DogeOurs(t) \in SUBSET Nat
  BY OutType DEF DogeOurs
<1>2. Min(DogeOurs(t)) \in DogeOurs(t)
  BY <1>1, MinIn
<1>3. OrderInfo[o].amount >= OrderInfo[o].amount
  BY AmountType
<1> QED
  BY <1>2, <1>3 DEF DogeOurs, DogeValue, Covers

\* The order that a transaction names exists and is covered.
LEMMA MemoCovers ==
    ASSUME NEW t \in Txs, MemoCredit(t) # None,
           Chain(t) = "doge" => DogeOurs(t) # {}
    PROVE  Covers(t, MemoCredit(t)) /\ Found(MemoCredit(t))
<1> USE OrdersAssumption
<1>1. CASE Chain(t) = "ckb"
  <2> DEFINE i1 == CHOOSE i \in FirstCover(t) : TRUE
  <2>1. FirstCover(t) # {} /\ MemoCredit(t) = Outs(t)[i1].memo
    BY <1>1 DEF MemoCredit, CkbCredit, FirstCover
  <2>2. i1 \in FirstCover(t)
    BY <2>1
  <2>3. i1 \in DOMAIN Outs(t) /\ OutCovers(t, Outs(t)[i1])
    BY <2>2 DEF FirstCover
  <2> HIDE DEF i1
  <2> QED
    BY <2>1, <2>3, OutCoversCovers DEF OutCovers
<1>2. CASE Chain(t) = "tron"
  <2>1. MemoCredit(t) = Outs(t)[1].memo /\ Len(Outs(t)) = 1 /\ OutCovers(t, Outs(t)[1])
    BY <1>2 DEF MemoCredit, TronCredit
  <2> QED
    BY <2>1, OutType, OutCoversCovers DEF OutCovers
<1>3. CASE Chain(t) = "doge"
  <2>1. MemoCredit(t) = OpReturnCredit(t)
    BY <1>3 DEF MemoCredit
  <2>2. /\ Found(MemoCredit(t)) /\ TokenMatch(t, MemoCredit(t))
        /\ DogeValue(t) = OrderInfo[MemoCredit(t)].amount
    BY <2>1 DEF OpReturnCredit
  <2> QED
    BY <1>3, <2>2, DogeCovers DEF Found
<1>4. CASE Chain(t) \notin {"ckb", "tron", "doge"}
  <2>1. Chain(t) \in {"eth", "bsc", "polygon"}
    BY <1>4 DEF MemoCredit
  <2>2. Outs(t) # <<>>
    BY <2>1, InfoAssumption DEF Chain, Outs
  <2>3. 1 \in DOMAIN Outs(t)
    BY <2>2, InfoAssumption DEF Outs
  <2>4. MemoCredit(t) = Outs(t)[1].memo /\ OutCovers(t, Outs(t)[1])
    BY <1>4, <2>1 DEF MemoCredit, EvmCredit
  <2> QED
    BY <2>3, <2>4, OutCoversCovers DEF OutCovers
<1> QED
  BY <1>1, <1>2, <1>3, <1>4

\* Without an id of its own a transaction is credited to the order its hash is
\* filed under, or to the newest one that fits; either way it covers it.
LEMMA FiledCovers ==
    ASSUME NEW t \in Txs, Chain(t) = "doge", DogeOurs(t) # {}, Found(pays[t].order),
           FiledCredit(t) # None
    PROVE  FiledCredit(t) = pays[t].order /\ Covers(t, FiledCredit(t))
<1>1. /\ FiledCredit(t) = pays[t].order
      /\ TokenMatch(t, pays[t].order)
      /\ DogeValue(t) = OrderInfo[pays[t].order].amount
  BY DEF FiledCredit
<1>2. pays[t].order \in Orders
  BY OrdersAssumption DEF Found
<1> QED
  BY <1>1, <1>2, DogeCovers

LEMMA AmountCovers ==
    ASSUME NEW t \in Txs, Chain(t) = "doge", DogeOurs(t) # {}, AmountCredit(t) # None
    PROVE  Covers(t, AmountCredit(t))
<1> DEFINE fits   == {o \in Orders : /\ Found(o)
                                     /\ OrderInfo[o].addr = TxInfo[t].from
                                     /\ OrderInfo[o].amount = DogeValue(t)}
           newest == {o \in fits : \A p \in fits : orders[p].id <= orders[o].id}
<1>1. NewestOrder(t) # None => NewestOrder(t) \in fits
  <2>1. NewestOrder(t) = IF newest = {} THEN None ELSE CHOOSE o \in newest : TRUE
    BY DEF NewestOrder
  <2>2. newest # {} => (CHOOSE o \in newest : TRUE) \in newest
    OBVIOUS
  <2> QED
    BY <2>1, <2>2
<1>2. AmountCredit(t) = NewestOrder(t) /\ TokenMatch(t, AmountCredit(t))
  BY DEF AmountCredit
<1>3. AmountCredit(t) \in Orders /\ DogeValue(t) = OrderInfo[AmountCredit(t)].amount
  BY <1>1, <1>2
<1> QED
  BY <1>2, <1>3, DogeCovers

-----------------------------------------------------------------------------
\* As long as no order it names appears in the table, a transaction names the
\* same order.
LEMMA MemoStays ==
    ASSUME NEW t \in Txs, \A o \in Named(t) : Found(o)' <=> Found(o)
    PROVE  MemoCredit(t)' = MemoCredit(t)
<1>1. \A i \in DOMAIN Outs(t) : OutCovers(t, Outs(t)[i])' <=> OutCovers(t, Outs(t)[i])
  BY DEF OutCovers, Named, TokenMatch
<1>2. CASE Chain(t) = "ckb"
  <2>1. FirstCover(t)' = FirstCover(t)
    <3>1. \A i \in DOMAIN Outs(t) : 1 .. i - 1 \subseteq DOMAIN Outs(t)
      BY OutType
    <3> QED
      BY <1>1, <3>1 DEF FirstCover
  <2>2. /\ CkbCredit(t) = IF FirstCover(t) = {} THEN None
                          ELSE Outs(t)[CHOOSE i \in FirstCover(t) : TRUE].memo
        /\ CkbCredit(t)' = IF FirstCover(t)' = {} THEN None
                           ELSE Outs(t)[CHOOSE i \in FirstCover(t)' : TRUE].memo
    BY DEF CkbCredit, FirstCover
  <2> QED
    BY <1>2, <2>1, <2>2 DEF MemoCredit
<1>3. CASE Chain(t) = "tron"
  <2>1. Len(Outs(t)) = 1 => 1 \in DOMAIN Outs(t)
    BY OutType
  <2> QED
    BY <1>1, <1>3, <2>1 DEF MemoCredit, TronCredit
<1>4. CASE Chain(t) = "doge"
  <2> DEFINE o == Outs(t)[Max(Memos(t))].memo
  <2>1. Memos(t) # {} => Max(Memos(t)) \in Memos(t)
    BY OutType, MaxIn DEF Memos
  <2>2. Memos(t) # {} => o \in Named(t)
    BY <2>1 DEF Memos, Named
  <2>3. /\ OpReturnCredit(t) = IF /\ Memos(t) # {} /\ Found(o) /\ TokenMatch(t, o)
                                  /\ DogeValue(t) = OrderInfo[o].amount
                               THEN o ELSE None
        /\ OpReturnCredit(t)' = IF /\ Memos(t) # {} /\ Found(o)' /\ TokenMatch(t, o)
                                   /\ DogeValue(t) = OrderInfo[o].amount
                                THEN o ELSE None
    BY DEF OpReturnCredit, Memos
  <2> HIDE DEF o
  <2> QED
    BY <1>4, <2>2, <2>3 DEF MemoCredit
<1>5. CASE Chain(t) \in {"eth", "bsc", "polygon"}
  <2>1. Outs(t) # <<>>
    BY <1>5, InfoAssumption DEF Chain, Outs
  <2>2. 1 \in DOMAIN Outs(t)
    BY <2>1, InfoAssumption DEF Outs
  <2> QED
    BY <1>1, <1>5, <2>2 DEF MemoCredit, EvmCredit
<1>6. CASE Chain(t) \notin {"ckb", "tron", "doge", "eth", "bsc", "polygon"}
  BY <1>6 DEF MemoCredit
<1> QED
  BY <1>2, <1>3, <1>4, <1>5, <1>6

-----------------------------------------------------------------------------
\* The payment counts for the order: it covers it, and it is confirmed for it
\* or filed under another order although it names this one, or although it was
\* credited to this one after a look-up that did not find the other.
Backs(t, o) ==
    /\ t \in parsed
    /\ Covers(t, o)
    /\ \/ t \in Confirmed(o)
       \/ /\ pays[t].order \notin {None, o}
          /\ pays[t].order \in SelfOrders => MemoCredit(t) = o \/ overtaken[t] = o

\* Every paid order has a payment that counts for it.
PaidBacked == \A o \in Orders : Paid(o) => \E t \in Txs : Backs(t, o)

\* A payment is confirmed for the order it names, if it names one.
ConfirmedAsNamed == \A o \in Orders : \A t \in Confirmed(o) : MemoCredit(t) \in {None, o}

\* A hash is filed only under an order that exists.
RowsFound == \A t \in Txs : pays[t].order \in SelfOrders => Found(pays[t].order)

\* A Doge parser between its calls has a payment to us that names no order, is
\* about to credit it only to one it covers, and, when the look-up found the
\* hash filed under an order, only to that one.
DealKnown ==
    \A t \in Txs : deal[t] # Idle =>
        /\ Chain(t) = "doge" /\ DogeOurs(t) # {}
        /\ MemoCredit(t) = None
        /\ deal[t].order # None => Covers(t, deal[t].order)
        /\ deal[t].filed => HasRow(t)
        /\ deal[t].filed /\ pays[t].order \in SelfOrders =>
              deal[t].at = "update" /\ deal[t].order \in {None, pays[t].order}

\* A payment is overtaken once: its hash is filed by then, and every later
\* look-up finds it.
OvertakenKnown ==
    \A t \in Txs : overtaken[t] # None =>
        /\ MemoCredit(t) = None
        /\ t \in parsed /\ HasRow(t)
        /\ deal[t] # Idle => deal[t].filed

\* The inductive invariant, on top of that of PayMatchProofs.
BackedInv ==
    /\ parsed \subseteq Txs
    /\ PaidBacked
    /\ ConfirmedAsNamed
    /\ RowsFound
    /\ DealKnown
    /\ OvertakenKnown

\* A payment counts for one order only, unless its hash was filed between look-up
\* and update, or under an order das-pay does not look up.
LEMMA BacksOne ==
    ASSUME BackedInv, NEW t \in Txs, NEW o \in Orders, NEW p \in Orders,
           Backs(t, o), Backs(t, p), o # p
    PROVE  MayPayBoth(t, o, p) \/ pays[t].order \notin Orders
<1> USE OrdersAssumption, NoneAssumption
<1> SUFFICES ASSUME pays[t].order \in SelfOrders PROVE {o, p} = {overtaken[t], pays[t].order}
  BY DEF MayPayBoth
<1>1. t \in Confirmed(o) \/ MemoCredit(t) = o \/ overtaken[t] = o
  BY DEF Backs
<1>2. t \in Confirmed(p) \/ MemoCredit(t) = p \/ overtaken[t] = p
  BY DEF Backs
<1>3. \A q \in Orders : t \in Confirmed(q) => q = pays[t].order /\ MemoCredit(t) \in {None, q}
  BY DEF BackedInv, ConfirmedAsNamed, Confirmed
<1>4. overtaken[t] # None => MemoCredit(t) = None
  BY DEF BackedInv, OvertakenKnown
<1>5. \/ overtaken[t] = o /\ pays[t].order = p
      \/ overtaken[t] = p /\ pays[t].order = o
  BY <1>1, <1>2, <1>3, <1>4
<1> QED
  BY <1>5

\* So the payments that count for the paid orders are a matching.
LEMMA BackedIsMatching == IInv /\ BackedInv => PaidOrdersBacked
<1> SUFFICES ASSUME IInv, BackedInv PROVE PaidOrdersBacked
  OBVIOUS
<1> USE NoneAssumption
<1> DEFINE paidOrders == {o \in Orders : Paid(o)}
           f == [o \in paidOrders |-> CHOOSE t \in Txs : Backs(t, o)]
<1>1. \A o \in paidOrders : f[o] \in Txs /\ Backs(f[o], o)
  BY DEF BackedInv, PaidBacked
<1>2. f \in [paidOrders -> parsed]
  BY <1>1 DEF Backs
<1>3. DOMAIN f = paidOrders
  OBVIOUS
<1> HIDE DEF f
<1>4. \A o \in paidOrders : pays[f[o]].order \in Orders
  BY <1>1 DEF Backs, Confirmed, IInv, TypeOK, TablesType, Row
<1>5. ASSUME NEW o \in paidOrders, NEW p \in paidOrders, f[o] = f[p], o # p
      PROVE  MayPayBoth(f[o], o, p)
  BY <1>1, <1>4, <1>5, BacksOne
<1>6. ASSUME NEW o \in paidOrders
      PROVE  /\ Covers(f[o], o)
             /\ f[o] \in Confirmed(o) \/ pays[f[o]].order \notin {None, o}
  BY <1>1 DEF Backs
<1> QED
  BY <1>2, <1>3, <1>5, <1>6 DEF PaidOrdersBacked

-----------------------------------------------------------------------------
\* What no step takes away: a payment that counts for an order goes on to, as
\* long as the transaction names the same order.
LEMMA BacksStays ==
    ASSUME NEW t \in Txs, NEW o \in Orders, Backs(t, o),
           t \in parsed', MemoCredit(t)' = MemoCredit(t),
           overtaken[t] # None => overtaken'[t] = overtaken[t],
           pays[t].order # None => pays'[t].order = pays[t].order,
           pays[t].status = OrderTxStatusConfirm => pays'[t].status = OrderTxStatusConfirm
    PROVE  Backs(t, o)'
<1> USE NoneAssumption
<1>1. Covers(t, o)'
  BY DEF Backs, Covers, TokenMatch
<1>2. CASE t \in Confirmed(o)
  BY <1>1, <1>2 DEF Backs, Confirmed
<1>3. CASE t \notin Confirmed(o)
  BY <1>1, <1>3 DEF Backs
<1> QED
  BY <1>2, <1>3

\* What a parser credits an order with covers it, and it is the order the
\* transaction names if it names one that exists, and else the one its hash is
\* filed under, unless that was filed after the look-up.
Credits(t, o) ==
    /\ Updates(t, o)
    /\ Covers(t, o)
    /\ MemoCredit(t) \in {None, o}
    /\ MemoCredit(t) = None /\ pays[t].order \in SelfOrders =>
          o = pays[t].order \/ overtaken'[t] = o

LEMMA ParseCredits ==
    ASSUME IInv, BackedInv, NEW t \in Txs, Parse(t)
    PROVE  /\ parsed' \in {parsed, parsed \cup {t}}
           /\ \/ UNCHANGED tables
              \/ t \in parsed' /\ \E o \in SelfOrders : Credits(t, o)
<1> DEFINE Goal == \/ UNCHANGED tables
                   \/ t \in parsed' /\ \E o \in SelfOrders : Credits(t, o)
<1>1. ASSUME CreditNamed(t, MemoCredit(t)), Chain(t) = "doge" => DogeOurs(t) # {}
      PROVE  Goal
  <2>1. CASE MemoCredit(t) = None
    BY <1>1, <2>1 DEF CreditNamed, Credit
  <2>2. CASE MemoCredit(t) # None
    <3>1. Covers(t, MemoCredit(t)) /\ Found(MemoCredit(t))
      BY <1>1, <2>2, MemoCovers
    <3> QED
      BY <1>1, <2>2, <3>1 DEF CreditNamed, Credit, Credits, Updates, Found
  <2> QED
    BY <2>1, <2>2
<1>2. ASSUME ParseCkb(t) PROVE Goal
  BY <1>1, <1>2 DEF ParseCkb, MemoCredit
<1>3. ASSUME ParseEvm(t) PROVE Goal
  BY <1>1, <1>3 DEF ParseEvm, MemoCredit
<1>4. ASSUME ParseTron(t) PROVE Goal
  BY <1>1, <1>4 DEF ParseTron, MemoCredit
<1>5. ASSUME Chain(t) = "doge", DealWithOpReturn(t)
      PROVE  Goal
  <2>1. MemoCredit(t) = OpReturnCredit(t)
    BY <1>5 DEF MemoCredit
  <2>2. CASE DogeOurs(t) = {}
    BY <1>5, <2>2 DEF DealWithOpReturn, CreditNamed, Credit
  <2>3. CASE DogeOurs(t) # {}
    BY <1>1, <1>5, <2>1, <2>3 DEF DealWithOpReturn
  <2> QED
    BY <2>2, <2>3
<1>6. ASSUME UpdateDeal(t)
      PROVE  Goal
  <2> DEFINE o == deal[t].order
  <2>1. CASE o = None
    BY <1>6, <2>1 DEF UpdateDeal, Credit
  <2>2. CASE o # None
    <3>1. deal[t] # Idle
      BY <1>6 DEF UpdateDeal, Idle
    <3>2. Found(o) /\ Covers(t, o) /\ MemoCredit(t) = None
      BY <2>2, <3>1 DEF IInv, DealFound, BackedInv, DealKnown
    <3>3. Updates(t, o) /\ t \in parsed'
      BY <1>6, <2>2, <3>2 DEF UpdateDeal, Credit, Updates
    <3>4. ASSUME pays[t].order \in SelfOrders, o # pays[t].order
          PROVE  overtaken'[t] = o
      <4>1. ~deal[t].filed
        BY <2>2, <3>1, <3>4 DEF BackedInv, DealKnown
      <4>2. pays[t].order \notin {None, o}
        BY <3>4, OrdersAssumption, NoneAssumption
      <4>3. overtaken' = [overtaken EXCEPT ![t] = o]
        BY <1>6, <2>2, <4>1, <4>2 DEF UpdateDeal
      <4> QED
        BY <4>3 DEF IInv, TypeOK
    <3> QED
      BY <3>2, <3>3, <3>4 DEF Credits, Found
  <2> QED
    BY <2>1, <2>2
<1>7. ASSUME GetPayInfo(t) \/ GetOrder(t) \/ DealFails(t)
      PROVE  Goal
  BY <1>7 DEF GetPayInfo, GetOrder, DealFails
<1>8. Goal
  BY <1>2, <1>3, <1>4, <1>5, <1>6, <1>7 DEF Parse, ParseDoge
<1> QED
  BY <1>8, ParseStep DEF IInv

\* What a Doge parser holds stays good through its own calls, and what has been
\* overtaken stays so.
LEMMA ParseDeals ==
    ASSUME IInv, BackedInv, NEW t \in Txs, Parse(t),
           \A u \in Txs : MemoCredit(u)' = MemoCredit(u),
           \A u \in Txs : pays[u].order # None => pays'[u].order = pays[u].order
    PROVE  /\ DealKnown' /\ OvertakenKnown'
           /\ \A u \in Txs : overtaken[u] # None => overtaken'[u] = overtaken[u]
<1> DEFINE Goal == /\ DealKnown' /\ OvertakenKnown'
                   /\ \A u \in Txs : overtaken[u] # None => overtaken'[u] = overtaken[u]
           Good(u, d) == /\ Chain(u) = "doge" /\ DogeOurs(u) # {}
                         /\ MemoCredit(u) = None
                         /\ d.order # None => Covers(u, d.order)
                         /\ d.filed => HasRow(u)
                         /\ d.filed /\ pays[u].order \in SelfOrders =>
                               d.at = "update" /\ d.order \in {None, pays[u].order}
<1> USE OrdersAssumption, NoneAssumption
<1>1. /\ deal \in [Txs -> Deal] /\ overtaken \in [Txs -> Orders \cup {None}]
      /\ \A u \in Txs : deal[u] # Idle => Good(u, deal[u])
  BY DEF IInv, TypeOK, BackedInv, DealKnown
<1>2. /\ parsed \subseteq parsed'
      /\ \A u \in Txs \ {t} : deal'[u] = deal[u] /\ overtaken'[u] = overtaken[u]
  BY ParseStep DEF IInv
<1>3. \A u \in Txs : /\ HasRow(u) => HasRow(u)'
                     /\ HasRow(u) => pays'[u].order = pays[u].order
  BY DEF HasRow
<1>4. ASSUME \A u \in Txs : deal'[u] # Idle => Good(u, deal'[u])
      PROVE  DealKnown'
  BY <1>3, <1>4 DEF DealKnown, Covers, TokenMatch
<1>5. ASSUME \A u \in Txs : overtaken'[u] # None =>
                 /\ MemoCredit(u) = None
                 /\ u \in parsed' /\ HasRow(u)
                 /\ deal'[u] # Idle => deal'[u].filed
      PROVE  OvertakenKnown'
  BY <1>3, <1>5 DEF OvertakenKnown
<1>6. ASSUME UNCHANGED <<deal, overtaken>> PROVE Goal
  BY <1>1, <1>2, <1>4, <1>5, <1>6 DEF BackedInv, OvertakenKnown
<1>7. ASSUME NEW d, deal' = [deal EXCEPT ![t] = d], overtaken' = overtaken,
             d # Idle => Good(t, d) /\ (overtaken[t] # None => d.filed)
      PROVE  Goal
  <2>1. deal'[t] = d
    BY <1>1, <1>7
  <2>2. DealKnown'
    BY <1>1, <1>2, <1>4, <1>7, <2>1
  <2>3. OvertakenKnown'
    BY <1>2, <1>5, <1>7, <2>1 DEF BackedInv, OvertakenKnown
  <2> QED
    BY <1>7, <2>2, <2>3
<1>8. ASSUME GetPayInfo(t), Chain(t) = "doge" PROVE Goal
  <2> DEFINE d == IF HasRow(t) /\ Found(pays[t].order)
                  THEN [at |-> "update", filed |-> TRUE, order |-> FiledCredit(t)]
                  ELSE [at |-> "order", filed |-> HasRow(t), order |-> None]
  <2>1. /\ deal' = [deal EXCEPT ![t] = d] /\ overtaken' = overtaken
        /\ DogeOurs(t) # {} /\ MemoCredit(t) = None
    BY <1>8 DEF GetPayInfo, MemoCredit
  <2>2. d.order # None => Covers(t, d.order) /\ d.order = pays[t].order
    BY <1>8, <2>1, FiledCovers
  <2>3. d.filed <=> HasRow(t)
    OBVIOUS
  <2>4. pays[t].order \in SelfOrders => d.at = "update"
    BY DEF BackedInv, RowsFound, HasRow
  <2>5. overtaken[t] # None => d.filed
    BY <2>3 DEF BackedInv, OvertakenKnown
  <2> HIDE DEF d
  <2>6. Good(t, d)
    BY <1>8, <2>1, <2>2, <2>3, <2>4
  <2> QED
    BY <1>7, <2>1, <2>5, <2>6
<1>9. ASSUME GetOrder(t) PROVE Goal
  <2> DEFINE d == [deal[t] EXCEPT !.at = "update", !.order = AmountCredit(t)]
  <2>1. deal' = [deal EXCEPT ![t] = d] /\ overtaken' = overtaken
    BY <1>1, <1>9 DEF GetOrder
  <2>2. deal[t].at = "order" /\ deal[t] # Idle
    BY <1>9 DEF GetOrder, Idle
  <2>3. d.filed = deal[t].filed /\ d.order = AmountCredit(t)
    BY <1>1 DEF Deal
  <2>4. Good(t, deal[t])
    BY <1>1, <2>2
  <2>5. overtaken[t] # None => deal[t].filed
    BY <2>2 DEF BackedInv, OvertakenKnown
  <2> HIDE DEF d
  <2>6. Good(t, d)
    BY <2>2, <2>3, <2>4, AmountCovers
  <2> QED
    BY <1>7, <2>1, <2>3, <2>5, <2>6
<1>10. ASSUME UpdateDeal(t) PROVE Goal
  <2>1. deal[t] # Idle
    BY <1>10 DEF UpdateDeal, Idle
  <2>2. deal' = [deal EXCEPT ![t] = Idle] /\ t \in parsed'
    BY <1>10 DEF UpdateDeal, Credit
  <2>3. CASE overtaken' = overtaken
    BY <1>7, <2>2, <2>3
  <2>4. CASE overtaken' # overtaken
    <3>1. /\ ~deal[t].filed /\ pays[t].order # None
          /\ overtaken' = [overtaken EXCEPT ![t] = deal[t].order]
      BY <1>10, <2>4 DEF UpdateDeal
    <3>2. overtaken[t] = None
      BY <2>1, <3>1 DEF BackedInv, OvertakenKnown
    <3>3. MemoCredit(t) = None /\ HasRow(t)
      BY <1>1, <2>1, <3>1 DEF HasRow
    <3>4. deal'[t] = Idle
      BY <1>1, <2>2
    <3>5. DealKnown'
      BY <1>1, <1>2, <1>4, <3>4
    <3>6. OvertakenKnown'
      BY <1>2, <1>5, <2>2, <3>3, <3>4 DEF BackedInv, OvertakenKnown
    <3> QED
      BY <1>2, <3>2, <3>5, <3>6
  <2> QED
    BY <2>3, <2>4
<1>11. ASSUME DealFails(t) PROVE Goal
  BY <1>7, <1>11 DEF DealFails
<1> QED
  BY <1>6, <1>8, <1>9, <1>10, <1>11
     DEF Parse, ParseCkb, ParseEvm, ParseTron, ParseDoge, DealWithOpReturn, CreditNamed

\* Parsing: the order credited has the payment that was parsed.
LEMMA ParseBacked ==
    ASSUME IInv, BackedInv, NEW t \in Txs, Parse(t)
    PROVE  BackedInv'
<1> USE OrdersAssumption, NoneAssumption
<1>1. /\ parsed \subseteq parsed' /\ parsed' \subseteq Txs
      /\ \/ UNCHANGED tables
         \/ t \in parsed' /\ \E o \in SelfOrders : Credits(t, o)
  BY ParseCredits DEF BackedInv
<1>2. CASE UNCHANGED tables
  <2>1. /\ \A u \in Txs : MemoCredit(u)' = MemoCredit(u)
        /\ \A o \in Orders : Confirmed(o)' = Confirmed(o)
        /\ \A o \in Orders : (Paid(o)' <=> Paid(o)) /\ (Found(o)' <=> Found(o))
    BY <1>2 DEF tables, MemoCredit, CkbCredit, TronCredit, EvmCredit, OpReturnCredit, OutCovers,
                Found, Confirmed, Paid
  <2>0. /\ DealKnown' /\ OvertakenKnown'
        /\ \A u \in Txs : overtaken[u] # None => overtaken'[u] = overtaken[u]
    BY <1>2, <2>1, ParseDeals DEF tables
  <2>2. \A o \in Orders, u \in Txs : Backs(u, o) => Backs(u, o)'
    BY <1>1, <1>2, <2>0, <2>1, BacksStays DEF tables, Backs
  <2>3. PaidBacked'
    BY <2>1, <2>2 DEF BackedInv, PaidBacked
  <2>4. ConfirmedAsNamed'
    BY <2>1 DEF BackedInv, ConfirmedAsNamed, Confirmed
  <2>5. RowsFound'
    BY <1>2, <2>1 DEF tables, BackedInv, RowsFound
  <2> QED
    BY <1>1, <2>0, <2>3, <2>4, <2>5 DEF BackedInv
<1>3. ASSUME NEW o \in SelfOrders, Credits(t, o), t \in parsed'
      PROVE  BackedInv'
  <2>1. /\ \A u \in Txs \ {t} : pays'[u].order = pays[u].order /\ pays'[u].status = pays[u].status
        /\ pays[t].order \in {None, o} =>
              pays'[t].order = o /\ pays'[t].status = OrderTxStatusConfirm
        /\ pays[t].order \notin {None, o} => pays'[t] = pays[t]
        /\ {p \in Orders : Paid(p)}' = {p \in Orders : Paid(p)} \cup {o}
    BY <1>3, UpdatePromise DEF Credits
  <2>2. \A p \in Orders : Found(p)' <=> Found(p)
    BY <1>3 DEF Credits, Updates, UpdatePayStatus, MarkPaid, Found, IInv, TypeOK, TablesType, Order
  <2>3. \A u \in Txs : Named(u) \subseteq Orders
    BY OutType DEF Named, Out
  <2>4. \A u \in Txs : MemoCredit(u)' = MemoCredit(u)
    BY <2>2, <2>3, MemoStays
  <2>0. /\ DealKnown' /\ OvertakenKnown'
        /\ \A u \in Txs : overtaken[u] # None => overtaken'[u] = overtaken[u]
    <3>1. \A u \in Txs : pays[u].order # None => pays'[u].order = pays[u].order
      BY <2>1
    <3> QED
      BY <2>4, <3>1, ParseDeals
  <2>5. \A p \in Orders, u \in Txs : Backs(u, p) => Backs(u, p)'
    BY <1>1, <2>0, <2>1, <2>4, BacksStays DEF Backs
  <2>6. Backs(t, o)'
    <3>1. Covers(t, o)'
      BY <1>3 DEF Credits, Covers, TokenMatch
    <3>2. CASE pays[t].order \in {None, o}
      BY <1>3, <2>1, <3>1, <3>2 DEF Backs, Confirmed
    <3>3. CASE pays[t].order \notin {None, o}
      <4>1. pays[t].order \in SelfOrders => MemoCredit(t) = o \/ overtaken'[t] = o
        BY <1>3, <3>3 DEF Credits
      <4> QED
        BY <1>3, <2>1, <2>4, <3>1, <3>3, <4>1 DEF Backs
    <3> QED
      BY <3>2, <3>3
  <2>7. PaidBacked'
    BY <2>1, <2>5, <2>6 DEF BackedInv, PaidBacked
  <2>8. ConfirmedAsNamed'
    <3>1. ASSUME NEW p \in Orders, NEW u \in Confirmed(p)'
          PROVE  u \in Confirmed(p) \/ (u = t /\ p = o)
      BY <2>1 DEF Confirmed
    <3> QED
      BY <1>3, <2>4, <3>1 DEF BackedInv, ConfirmedAsNamed, Credits, Confirmed
  <2>9. RowsFound'
    BY <1>3, <2>1, <2>2 DEF BackedInv, RowsFound, Credits, Updates
  <2> QED
    BY <1>1, <2>0, <2>7, <2>8, <2>9 DEF BackedInv
<1> QED
  BY <1>1, <1>2, <1>3

\* The other steps: no order is paid, no payment confirmed, and what a parsed
\* transaction names stays.
LEMMA QuietBacked ==
    ASSUME IInv, BackedInv, UNCHANGED <<parsed, deal, overtaken>>,
           \A o \in Orders : Paid(o)' <=> Paid(o),
           \A o \in Orders : Found(o) => Found(o)',
           \A t \in Txs : t \in parsed \/ deal[t] # Idle =>
                             \A o \in Named(t) : Found(o)' <=> Found(o),
           \A t \in Txs : /\ pays[t].order # None => pays'[t].order = pays[t].order
                          /\ pays'[t].status = pays[t].status
                          /\ pays[t].status = OrderTxStatusConfirm => pays'[t].order = pays[t].order,
           RowsFound'
    PROVE  BackedInv'
<1>1. \A t \in Txs : t \in parsed \/ deal[t] # Idle => MemoCredit(t)' = MemoCredit(t)
  BY MemoStays
<1>2. \A o \in Orders, t \in Txs : Backs(t, o) => Backs(t, o)'
  BY <1>1, BacksStays DEF Backs
<1>3. PaidBacked'
  BY <1>2 DEF BackedInv, PaidBacked
<1>4. ConfirmedAsNamed'
  <2>1. \A o \in Orders : \A t \in Confirmed(o)' : t \in Confirmed(o)
    BY DEF Confirmed
  <2>2. \A o \in Orders : \A t \in Confirmed(o) : t \in parsed
    BY DEF Confirmed, IInv, TouchedMeansParsed, Touched
  <2> QED
    BY <1>1, <2>1, <2>2 DEF BackedInv, ConfirmedAsNamed
<1>5. DealKnown'
  <2> SUFFICES ASSUME NEW t \in Txs, deal[t] # Idle
               PROVE  /\ Chain(t) = "doge" /\ DogeOurs(t) # {}
                      /\ MemoCredit(t)' = None
                      /\ deal[t].order # None => Covers(t, deal[t].order)
                      /\ deal[t].filed => HasRow(t)'
                      /\ deal[t].filed /\ pays'[t].order \in SelfOrders =>
                            deal[t].at = "update" /\ deal[t].order \in {None, pays'[t].order}
    BY DEF DealKnown, Covers, TokenMatch
  <2> QED
    BY <1>1 DEF BackedInv, DealKnown, HasRow
<1>6. OvertakenKnown'
  BY <1>1 DEF BackedInv, OvertakenKnown, HasRow
<1> QED
  BY <1>3, <1>4, <1>5, <1>6 DEF BackedInv

LEMMA SubmitBacked ==
    ASSUME IInv, BackedInv, NEW o \in Orders, NEW t \in Txs, SubmitHash(o, t)
    PROVE  BackedInv'
<1> USE NoneAssumption
<1> DEFINE row == [NoRow EXCEPT !.order = o, !.addr = OrderInfo[o].addr]
<1>1. pays \in [Txs -> Row]
  BY DEF IInv, TypeOK, TablesType
<1>2. row.order = o /\ row.status = NoRow.status
  BY DEF NoRow
<1>3. /\ pays' = [pays EXCEPT ![t] = row] /\ pays[t] = NoRow /\ pays[t].order = None
      /\ orders[o].id > 0
      /\ orders' = orders /\ UNCHANGED <<parsed, deal, overtaken>>
  BY DEF SubmitHash, HasRow, IInv, NoRowYet
<1>4. NoRow.status # OrderTxStatusConfirm
  BY DEF NoRow, OrderTxStatusDefault, OrderTxStatusConfirm
<1> HIDE DEF row
<1>5. \A p \in Orders : (Found(p)' <=> Found(p)) /\ (Paid(p)' <=> Paid(p))
  BY <1>3 DEF Found, Paid
<1>6. RowsFound'
  BY <1>1, <1>2, <1>3 DEF BackedInv, RowsFound, Found
<1>7. \A u \in Txs : /\ pays[u].order # None => pays'[u].order = pays[u].order
                     /\ pays'[u].status = pays[u].status
                     /\ pays[u].status = OrderTxStatusConfirm => pays'[u].order = pays[u].order
  BY <1>1, <1>2, <1>3, <1>4
<1>8. \A u \in Txs : Named(u) \subseteq Orders
  BY OutType DEF Named, Out
<1> QED
  BY <1>3, <1>5, <1>6, <1>7, <1>8, QuietBacked DEF BackedInv

\* Marks of the refund job leave order and status of a row alone.
LEMMA RefundMarkBacked ==
    ASSUME IInv, BackedInv, UNCHANGED <<orders, parsed, deal, overtaken>>, NEW ts \in SUBSET Txs,
           NEW old, NEW new, UpdateRefundStatus(ts, old, new)
    PROVE  BackedInv'
<1>1. \A p \in Orders : (Found(p)' <=> Found(p)) /\ (Paid(p)' <=> Paid(p))
  BY DEF Found, Paid
<1>2. \A u \in Txs : pays'[u].order = pays[u].order /\ pays'[u].status = pays[u].status
  BY DEF UpdateRefundStatus, IInv, TypeOK, TablesType, Row
<1>3. RowsFound'
  BY <1>1, <1>2, OrdersAssumption DEF BackedInv, RowsFound
<1>4. \A u \in Txs : Named(u) \subseteq Orders
  BY OutType DEF Named, Out
<1> QED
  BY <1>1, <1>2, <1>3, <1>4, QuietBacked DEF BackedInv

\* das-register: a new order is named by no payment parsed before.
LEMMA OrderBacked ==
    ASSUME IInv, BackedInv, NEW o \in Orders, CreateOrder(o) \/ RegisterOk(o)
    PROVE  BackedInv'
<1> USE OrdersAssumption
<1> DEFINE n == 1 + Cardinality({p \in Orders : orders[p].id > 0})
<1>1. orders \in [Orders -> Order] /\ pays \in [Txs -> Row]
  BY DEF IInv, TypeOK, TablesType
<1>2. n > 0
  <2>1. Cardinality({p \in Orders : orders[p].id > 0}) \in Nat
    BY FS_Subset, FS_CardinalityType
  <2> QED
    BY <2>1
<1>3. CreateOrder(o) => orders' = [orders EXCEPT ![o].id = n]
  BY DEF CreateOrder
<1> HIDE DEF n
<1>4. \A p \in Orders : Paid(p)' <=> Paid(p)
  BY <1>1, <1>3 DEF RegisterOk, Paid, Order
<1>5. \A p \in Orders : /\ Found(p) => Found(p)'
                        /\ (p # o \/ RegisterOk(o)) => (Found(p)' <=> Found(p))
  BY <1>1, <1>2, <1>3 DEF RegisterOk, Found, Order
<1>6. pays' = pays /\ UNCHANGED <<parsed, deal, overtaken>>
  BY DEF CreateOrder, RegisterOk
<1>7. \A t \in Txs : t \in parsed \/ deal[t] # Idle =>
                        \A p \in Named(t) : Found(p)' <=> Found(p)
  <2>1. \A t \in Txs : Named(t) \subseteq Orders
    BY OutType DEF Named, Out
  <2> QED
    BY <1>5, <2>1 DEF CreateOrder, BackedInv
<1>8. RowsFound'
  BY <1>5, <1>6 DEF BackedInv, RowsFound
<1> QED
  BY <1>4, <1>5, <1>6, <1>7, <1>8, QuietBacked

LEMMA InitBacked == Init => BackedInv
<1> SUFFICES ASSUME Init PROVE BackedInv
  OBVIOUS
<1> USE NoneAssumption
<1>1. \A t \in Txs : pays[t].order = None /\ pays[t].status # OrderTxStatusConfirm
  BY DEF Init, TablesInit, NoRow, OrderTxStatusDefault, OrderTxStatusConfirm
<1>2. \A o \in Orders : ~Paid(o)
  BY DEF Init, TablesInit, NoOrder, Paid
<1> QED
  BY <1>1, <1>2, OrdersAssumption
     DEF Init, BackedInv, PaidBacked, ConfirmedAsNamed, RowsFound, Confirmed, DealKnown,
         OvertakenKnown

LEMMA NextBacked == IInv /\ BackedInv /\ [Next]_vars => BackedInv'
<1> SUFFICES ASSUME IInv, BackedInv, [Next]_vars PROVE BackedInv'
  OBVIOUS
<1>1. ASSUME NEW t \in Txs, Parse(t) PROVE BackedInv'
  BY <1>1, ParseBacked
<1>2. ASSUME NEW t \in Txs, TakeRefund(t) \/ PutBackRefund(t) PROVE BackedInv'
  BY <1>2, RefundMarkBacked DEF TakeRefund, PutBackRefund
<1>3. ASSUME NEW o \in Orders, CreateOrder(o) \/ RegisterOk(o) PROVE BackedInv'
  BY <1>3, OrderBacked
<1>4. ASSUME NEW o \in Orders, NEW t \in Txs, SubmitHash(o, t) PROVE BackedInv'
  BY <1>4, SubmitBacked
<1>5. CASE UNCHANGED vars
  <2>1. \A t \in Txs : Named(t) \subseteq Orders
    BY OutType DEF Named, Out
  <2>2. \A o \in Orders : (Found(o)' <=> Found(o)) /\ (Paid(o)' <=> Paid(o))
    BY <1>5 DEF vars, Found, Paid
  <2>3. RowsFound'
    BY <1>5, <2>2, OrdersAssumption DEF vars, BackedInv, RowsFound
  <2> QED
    BY <1>5, <2>1, <2>2, <2>3, QuietBacked DEF vars, BackedInv
<1> QED
  BY <1>1, <1>2, <1>3, <1>4, <1>5 DEF Next

\* Every paid order has a payment of its own, on every chain, in whatever order
\* payments are parsed, filed, parsed again and refunded. One payment counts for
\* two orders only where MayPayBoth says so: its hash was filed under one after
\* the look-up and before the update for the other, or under an order das-pay
\* does not look up.
THEOREM OrdersBacked == Spec => []PaidOrdersBacked
<1>1. IInv /\ BackedInv => PaidOrdersBacked
  BY BackedIsMatching
<1>2. IInv /\ BackedInv /\ [Next]_vars => BackedInv'
  BY NextBacked
<1> QED
  BY <1>1, <1>2, InitBacked, Invariance, PTL DEF Spec

=============================================================================
