------------------------------- MODULE DasPay -------------------------------
(***************************************************************************)
(* das_pay_server at work: the parsers (PayMatch) and the refund job       *)
(* (Refund) on the same two tables, with das-register beside them. What    *)
(* Refund alone takes for given, that payments appear in refund, is here   *)
(* what the parsers do, and what PayMatch alone takes for given, that      *)
(* refund marks come and go, is what the job does.                         *)
(***************************************************************************)
EXTENDS PayTables

CONSTANTS
    OrderInfo, TxInfo,                       \* see PayMatch
    Workers, Good, RefundFlag, Ambiguous,    \* see Refund
    MaxFaults, MaxCrashes, MaxMined          \* bounds, see Refund

VARIABLES
    parsed, deal, overtaken,                 \* see PayMatch
    pc, todo, ts, nonce, mined, pool, paid,  \* see Refund
    hashed, replaced, dropped, risky, faults, crashes

parsers == <<parsed, deal, overtaken>>
job  == <<pc, todo, ts, nonce, mined, pool, paid, hashed, replaced, dropped, risky,
          faults, crashes>>
vars == <<tables, parsers, job>>

M == INSTANCE PayMatch

\* the parsers credit a payment only to an order in a token of its own chain;
\* OrderOf is read by Refund's Init alone, which is not that of DasPay
R == INSTANCE Refund WITH
    ChainOf <- [t \in Txs |-> TxInfo[t].chain],
    OrderOf <- [t \in Txs |-> CHOOSE o \in SelfOrders : TRUE]

\* what PayMatch and Refund assume of the orders, the payments and the config
ASSUME DasPayAssumption == M!InfoAssumption /\ R!RefundAssumption

Init ==
    /\ M!Init
    /\ R!JobInit

Parser(t) == M!Parse(t) /\ UNCHANGED job

DasRegister ==
    /\ \/ \E o \in Orders : M!CreateOrder(o) \/ M!RegisterOk(o)
       \/ \E o \in Orders, t \in Txs : M!SubmitHash(o, t)
    /\ UNCHANGED job

RefundJob(w) == (R!Step(w) \/ R!Trouble(w)) /\ UNCHANGED parsers

Chains == \E c \in R!EvmChains : R!Mine(c) /\ UNCHANGED parsers

Next ==
    \/ \E t \in Txs : Parser(t)
    \/ DasRegister
    \/ \E w \in Workers : RefundJob(w)
    \/ Chains

Spec == Init /\ [][Next]_vars

-----------------------------------------------------------------------------
(***************************************************************************)
(* Correctness                                                             *)
(***************************************************************************)

\* Every paid order has a payment of its own, also while the job sends others
\* back (see PayMatch).
PaidOrdersBacked == M!PaidOrdersBacked

\* Money goes back only where an order was paid more than once: for a payment
\* that is sent back there is another one, seen by the parsers, that covers
\* the same order (dao.UpdatePayStatus and doOrderRefund together).
SentBackOnlyForAnother ==
    \A t \in Txs : R!Refunds(t) > 0 =>
        \E u \in parsed \ {t} : M!Covers(u, pays[t].order)

\* Parsers and job together implement PayPromise: what an order keeps is never
\* sent back, what it does not keep is owed for good, and each payment owed
\* is sent back once at most, also across failing sends, stops of the job and
\* nonces used again.
Promise == INSTANCE PayPromise WITH
    paid  <- {o \in Orders : Paid(o)},
    filed <- [t \in Txs |-> pays[t].order],
    kept  <- UNION {Kept(o) : o \in Orders},
    owed  <- UNION {Confirmed(o) \ Kept(o) : o \in Orders},
    sent  <- [t \in Txs |-> R!Refunds(t)]

KeepsPromise == Promise!Spec

=============================================================================
