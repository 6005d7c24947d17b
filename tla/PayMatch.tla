------------------------------ MODULE PayMatch ------------------------------
(***************************************************************************)
(* How a payment transaction found in a block is matched to an order and   *)
(* recorded, on each of the chains das-pay parses.                         *)
(*                                                                         *)
(* A block is parsed transaction by transaction, and parsed again after an *)
(* error, a crash or a rollback, while the blocks of a batch are parsed in *)
(* parallel: so here any transaction may be parsed at any time, any number *)
(* of times. BlockParser says which blocks the loop reads.                 *)
(*                                                                         *)
(* Only UpdatePayStatus is a database transaction; what a parser looks up  *)
(* before it is not part of it. Of an order, nothing a parser looks up     *)
(* ever changes, and no order a transaction names appears once it is seen, *)
(* so where the order id decides, look-up and update are one step. A Doge  *)
(* transaction without one is matched by its hash and amount in three      *)
(* calls, with das-register free to write between any two of them.         *)
(*                                                                         *)
(* das-register (another program) creates the orders, files the hash a     *)
(* user submits and registers the account; timer/refund.go moves           *)
(* refund_status between Sending and Ok (module Refund has its steps).     *)
(***************************************************************************)
EXTENDS PayTables, Sequences, FiniteSetsExt

CONSTANTS
    OrderInfo,  \* order -> [token, amount, addr]: what das-register writes in it
    TxInfo      \* transaction -> [chain, from, vinOk, outs]

(***************************************************************************)
(* outs is what the transaction carries, in order: [mine, memo, value].    *)
(* mine: it pays das-pay's address. memo: the order id attached to it, or  *)
(* None: the data of a CKB output, the input of an EVM call, the memo of a *)
(* Tron contract (None when longer than 64), a Doge OP_RETURN output. An   *)
(* EVM transaction is a call, so it has one.                               *)
(* vinOk: the payer of a Doge transaction can be read from its first input.*)
(***************************************************************************)
Out == [mine : BOOLEAN, memo : Orders \cup {None}, value : Nat]

ASSUME InfoAssumption ==
    /\ \A o \in Orders : OrderInfo[o].amount \in Nat /\ OrderInfo[o].addr \in Addrs
    /\ \A t \in Txs : /\ TxInfo[t].from \in Addrs /\ TxInfo[t].outs \in Seq(Out)
                      /\ TxInfo[t].chain \in {"eth", "bsc", "polygon"} => TxInfo[t].outs # <<>>

VARIABLES
    parsed,    \* the transactions parsed at least once (history)
    deal,      \* transaction -> what dealWithHashAndAmount holds between its calls
    overtaken  \* transaction -> the order it was credited to although das-register
               \* had filed it under another one since its look-up, or None (history)

vars == <<orders, pays, parsed, deal, overtaken>>

\* at: the call it is at. filed: returnHash, the look-up of the hash found a row.
\* order: the order whose payment it is about to confirm, or None.
Deal == [at : {"idle", "order", "update"}, filed : BOOLEAN, order : Orders \cup {None}]
Idle == [at |-> "idle", filed |-> FALSE, order |-> None]

Chain(t) == TxInfo[t].chain
Outs(t)  == TxInfo[t].outs
Named(t) == {Outs(t)[i].memo : i \in DOMAIN Outs(t)} \ {None}

\* the pay_token_id each parser takes
TokensOf(chain) ==
    CASE chain = "ckb"     -> {"ckb_ckb", "ckb_das"}
      [] chain = "eth"     -> {"eth_eth"}
      [] chain = "bsc"     -> {"bsc_bnb"}
      [] chain = "polygon" -> {"polygon_matic"}
      [] chain = "tron"    -> {"tron_trx"}
      [] chain = "doge"    -> {"doge_doge"}

TokenMatch(t, o) == OrderInfo[o].token \in TokensOf(Chain(t))

-----------------------------------------------------------------------------
(***************************************************************************)
(* The order a transaction is credited to, or None.                        *)
(***************************************************************************)

\* Broken variants: the amount is not compared; the token is not.
OutNames(t, out) ==
    out.mine /\ out.memo # None /\ Found(out.memo) /\ TokenMatch(t, out.memo)

OutCoversAnyToken(t, out) ==
    /\ out.mine /\ out.memo # None /\ Found(out.memo)
    /\ out.value >= OrderInfo[out.memo].amount

\* the output pays us, names an order of this chain, and covers its amount
OutCovers(t, out) ==
    /\ out.mine
    /\ out.memo # None
    /\ Found(out.memo)
    /\ TokenMatch(t, out.memo)
    /\ out.value >= OrderInfo[out.memo].amount

\* ParserCkb.parsingBlockData: the first output that fits, then break
CkbCredit(t) ==
    LET first == {i \in DOMAIN Outs(t) :
                    /\ OutCovers(t, Outs(t)[i])
                    /\ \A j \in 1 .. i - 1 : ~OutCovers(t, Outs(t)[j])}
    IN IF first = {} THEN None ELSE Outs(t)[CHOOSE i \in first : TRUE].memo

\* ParserEvm.parsingBlockData: a transaction is a single call
EvmCredit(t) == IF OutCovers(t, Outs(t)[1]) THEN Outs(t)[1].memo ELSE None

\* ParserTron.parsingBlockData: only a transaction of exactly one contract
TronCredit(t) ==
    IF Len(Outs(t)) = 1 /\ OutCovers(t, Outs(t)[1]) THEN Outs(t)[1].memo ELSE None

\* ParserBitcoin.parsingBlockData2: what the first output to us is worth
DogeOurs(t)  == {i \in DOMAIN Outs(t) : Outs(t)[i].mine}
DogeValue(t) == Outs(t)[Min(DogeOurs(t))].value

\* ParserBitcoin.dealWithOpReturn: the last OP_RETURN names the order, and
\* the value has to be its amount exactly
OpReturnCredit(t) ==
    LET memos == {i \in DOMAIN Outs(t) : Outs(t)[i].memo # None}
        o     == Outs(t)[Max(memos)].memo
    IN IF /\ memos # {}
          /\ Found(o)
          /\ TokenMatch(t, o)
          /\ DogeValue(t) = OrderInfo[o].amount
       THEN o ELSE None

\* dao.GetOrderByAddrWithPayAmount: the newest order of this payer and amount,
\* whatever its token (an address belongs to one chain_type)
NewestOrder(t) ==
    LET fits   == {o \in Orders : /\ Found(o)
                                  /\ OrderInfo[o].addr = TxInfo[t].from
                                  /\ OrderInfo[o].amount = DogeValue(t)}
        newest == {o \in fits : \A p \in fits : orders[p].id <= orders[o].id}
    IN IF newest = {} THEN None ELSE CHOOSE o \in newest : TRUE

\* ParserBitcoin.dealWithHashAndAmount without such an order: the newest one
AmountCredit(t) ==
    LET o == NewestOrder(t)
    IN IF o # None /\ TokenMatch(t, o) THEN o ELSE None

\* ParserBitcoin.dealWithHashAndAmount with the order the hash is filed under:
\* payer and value have to match
FiledCredit(t) ==
    LET o == pays[t].order
    IN IF /\ pays[t].addr = TxInfo[t].from
          /\ OrderInfo[o].addr = TxInfo[t].from
          /\ DogeValue(t) = OrderInfo[o].amount
          /\ TokenMatch(t, o)
       THEN o ELSE None

-----------------------------------------------------------------------------
Init ==
    /\ TablesInit
    /\ parsed = {}
    /\ deal = [t \in Txs |-> Idle]
    /\ overtaken = [t \in Txs |-> None]

\* what every parser does with a transaction once it knows the order
Credit(t, o) ==
    /\ parsed' = parsed \cup {t}
    /\ IF o = None
       THEN UNCHANGED tables
       ELSE UpdatePayStatus(t, o, TxInfo[t].from)

\* ... at once, when the transaction names the order
CreditNamed(t, o) == Credit(t, o) /\ UNCHANGED <<deal, overtaken>>

ParseCkb(t)  == Chain(t) = "ckb" /\ CreditNamed(t, CkbCredit(t))
ParseEvm(t)  == Chain(t) \in {"eth", "bsc", "polygon"} /\ CreditNamed(t, EvmCredit(t))
ParseTron(t) == Chain(t) = "tron" /\ CreditNamed(t, TronCredit(t))

\* a Doge transaction that does not pay us is passed over
DealWithOpReturn(t) ==
    /\ deal[t] = Idle
    /\ DogeOurs(t) = {} \/ OpReturnCredit(t) # None
    /\ CreditNamed(t, IF DogeOurs(t) = {} THEN None ELSE OpReturnCredit(t))

\* dealWithHashAndAmount, first call: the hash, and the order it is filed under.
\* (Broken variant: that order is left aside.)
GetPayInfoUnused(t) ==
    /\ deal[t] = Idle
    /\ DogeOurs(t) # {} /\ OpReturnCredit(t) = None
    /\ deal' = [deal EXCEPT ![t] = [at |-> "order", filed |-> HasRow(t), order |-> None]]
    /\ UNCHANGED <<tables, parsed, overtaken>>

GetPayInfo(t) ==
    /\ deal[t] = Idle
    /\ DogeOurs(t) # {} /\ OpReturnCredit(t) = None
    /\ deal' = [deal EXCEPT ![t] =
                   IF HasRow(t) /\ Found(pays[t].order)
                   THEN [at |-> "update", filed |-> TRUE, order |-> FiledCredit(t)]
                   ELSE [at |-> "order", filed |-> HasRow(t), order |-> None]]
    /\ UNCHANGED <<tables, parsed, overtaken>>

\* second call, without such an order: the newest one of this payer and amount
GetOrder(t) ==
    /\ deal[t].at = "order"
    /\ deal' = [deal EXCEPT ![t] = [@ EXCEPT !.at = "update", !.order = AmountCredit(t)]]
    /\ UNCHANGED <<tables, parsed, overtaken>>

\* third call: the update, on whatever the tables hold by now
UpdateDeal(t) ==
    LET o == deal[t].order
    IN /\ deal[t].at = "update"
       /\ Credit(t, o)
       /\ deal' = [deal EXCEPT ![t] = Idle]
       /\ overtaken' = IF ~deal[t].filed /\ o # None /\ pays[t].order \notin {None, o}
                       THEN [overtaken EXCEPT ![t] = o]
                       ELSE overtaken

\* a call fails, or the process stops, between two of the calls
DealFails(t) ==
    /\ deal[t] # Idle
    /\ deal' = [deal EXCEPT ![t] = Idle]
    /\ UNCHANGED <<tables, parsed, overtaken>>

\* an unreadable first input is an error before anything is looked up
ParseDoge(t) ==
    /\ Chain(t) = "doge"
    /\ TxInfo[t].vinOk
    /\ DealWithOpReturn(t) \/ GetPayInfo(t) \/ GetOrder(t) \/ UpdateDeal(t) \/ DealFails(t)

Parse(t) == ParseCkb(t) \/ ParseEvm(t) \/ ParseTron(t) \/ ParseDoge(t)

\* das-register inserts an order; its id is generated there, so no payment
\* seen before names it
CreateOrder(o) ==
    /\ orders[o].id = 0
    /\ \A t \in Txs : t \in parsed \/ deal[t] # Idle => o \notin Named(t)
    /\ orders' = [orders EXCEPT ![o].id = 1 + Cardinality({p \in Orders : orders[p].id > 0})]
    /\ UNCHANGED <<pays, parsed, deal, overtaken>>

\* das-register files the hash a user gives for an order, with the order's payer
SubmitHash(o, t) ==
    /\ orders[o].id > 0
    /\ ~HasRow(t)
    /\ pays' = [pays EXCEPT ![t] = [NoRow EXCEPT !.order = o, !.addr = OrderInfo[o].addr]]
    /\ UNCHANGED <<orders, parsed, deal, overtaken>>

\* das-register registers the account of a paid order
RegisterOk(o) ==
    /\ orders[o].reg = RegisterStatusApplyRegister
    /\ orders' = [orders EXCEPT ![o].reg = RegisterStatusRegistered]
    /\ UNCHANGED <<pays, parsed, deal, overtaken>>

\* timer/refund.go takes a refund up, and puts it back when sending fails
TakeRefund(t) ==
    /\ t \in NeedRefund
    /\ UpdateRefundStatus({t}, TxStatusSending, TxStatusOk)
    /\ UNCHANGED <<orders, parsed, deal, overtaken>>

PutBackRefund(t) ==
    /\ pays[t].refund = TxStatusOk
    /\ UpdateRefundStatus({t}, TxStatusOk, TxStatusSending)
    /\ UNCHANGED <<orders, parsed, deal, overtaken>>

Next ==
    \/ \E t \in Txs : Parse(t) \/ TakeRefund(t) \/ PutBackRefund(t)
    \/ \E o \in Orders : CreateOrder(o) \/ RegisterOk(o)
    \/ \E o \in Orders, t \in Txs : SubmitHash(o, t)

Spec == Init /\ [][Next]_vars

-----------------------------------------------------------------------------
(***************************************************************************)
(* Correctness                                                             *)
(***************************************************************************)

\* Types of the tables, of what a Doge parser holds and of the histories.
TypeOK ==
    /\ TablesType
    /\ parsed \subseteq Txs
    /\ deal \in [Txs -> Deal]
    /\ overtaken \in [Txs -> Orders \cup {None}]

\* An order keeps at most one payment: whatever the order in which payments
\* of one order are parsed, filed, parsed again and refunded, all but one are
\* on their way back to the payers (dao.UpdatePayStatus, second statement).
AtMostOneKept == \A o \in Orders : \A t, u \in Kept(o) : t = u

\* A refund goes to rows' address, so a confirmed row holds the address that
\* really paid, even when das-register filed the hash with another one
\* (dao.UpdatePayStatus, third and fourth statement).
RefundsGoToThePayer == \A o \in Orders : \A t \in Confirmed(o) : pays[t].addr = TxInfo[t].from

\* The payment is enough: right token, and one output to us of at least the
\* amount that names the order, which only a Doge payment need not do.
Covers(t, o) ==
    /\ TokenMatch(t, o)
    /\ \E i \in DOMAIN Outs(t) : /\ Outs(t)[i].mine
                                 /\ Outs(t)[i].value >= OrderInfo[o].amount
                                 /\ Outs(t)[i].memo = o \/ Chain(t) = "doge"

\* What dealWithHashAndAmount leaves open. das-register files the hash under one
\* order after the look-up found no row and before the update credits another:
\* parsed again, the payment pays the first one, too. And a hash filed under an
\* order that is not of order_type Self is matched afresh each time it is parsed.
MayPayBoth(t, o, p) ==
    \/ {o, p} = {overtaken[t], pays[t].order}
    \/ pays[t].order \in Orders \ SelfOrders

\* Every paid order has a payment of its own: one that covers it, that no
\* other paid order counts on, but for those two gaps, and that is confirmed for
\* it unless its hash is filed under another order. So however often a payment
\* is parsed, and whatever orders appear meanwhile, it pays for one order only,
\* or for two once das-register has come between look-up and update.
PaidOrdersBacked ==
    \E f \in [{o \in Orders : Paid(o)} -> parsed] :
        /\ \A o, p \in DOMAIN f : f[o] = f[p] => o = p \/ MayPayBoth(f[o], o, p)
        /\ \A o \in DOMAIN f : /\ Covers(f[o], o)
                               /\ f[o] \in Confirmed(o) \/ pays[f[o]].order \notin {None, o}

\* A payment is confirmed, and a refund under way, only for a paid order: the
\* first payment of an order is never the one sent back unpaid for.
ConfirmedMeansPaid ==
    \A o \in Orders : Confirmed(o) # {} => Paid(o)

\* A paid order loses the payment it keeps only when a payment is parsed that
\* is itself in refund already (so it is parsed a second time), or whose hash
\* das-register filed under another order. Nothing else takes it away.
KeptLostOnlyByReplay ==
    [][\A o \in Orders :
          Kept(o) # {} /\ Kept(o)' = {} =>
              \E t \in Txs : /\ Parse(t)
                             /\ \/ t \in parsed /\ pays[t].refund # TxStatusDefault
                                \/ pays[t].order \notin {None, o}]_vars

\* A second payment never starts the registration of a registered account
\* again: ApplyRegister is written only over an unpaid order.
RegisterNeverRewound ==
    [][\A o \in Orders : orders[o].reg = RegisterStatusRegistered
                            => orders'[o].reg = RegisterStatusRegistered]_vars

\* What is in refund or refunded is never a kept payment again, however often
\* its block is parsed: no order is registered on money that went back.
RefundNeverForgotten ==
    [][\A t \in Txs : pays[t].refund # TxStatusDefault => pays'[t].refund # TxStatusDefault]_vars

\* PayMatch implements PayPromise, which knows no chains, amounts or statuses:
\* no step of any parser, of das-register or of the refund marks takes a payment
\* off the books, keeps two for an order, or keeps one that is owed back.
Promise == INSTANCE PayPromise WITH
    paid  <- {o \in Orders : Paid(o)},
    filed <- [t \in Txs |-> pays[t].order],
    kept  <- UNION {Kept(o) : o \in Orders},
    owed  <- UNION {Confirmed(o) \ Kept(o) : o \in Orders},
    sent  <- [t \in Txs |-> 0]

ImplementsPromise == Promise!Spec

=============================================================================
