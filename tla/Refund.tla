------------------------------- MODULE Refund -------------------------------
(***************************************************************************)
(* The refund job, timer/refund.go: a run of doOrderRefund lists the       *)
(* payments to refund and sends them back, EVM and Tron payments one by    *)
(* one, CKB and Doge payments each as one batch. Every refund is built and *)
(* signed, marked Ok in the table, and only then sent; when sending fails  *)
(* it is marked Sending again.                                             *)
(*                                                                         *)
(* A worker is a run of the job. Cron starts a run whether or not the last *)
(* one has ended, and das_pay_server and das_refund may run at once, so    *)
(* there may be several. Stopping the process does not wait for a run.     *)
(***************************************************************************)
EXTENDS PayTables

CONSTANTS
    Workers,     \* runs of the job that may overlap
    OrderOf,     \* payment -> the order it was credited to, for Init
    ChainOf,     \* payment -> chain of its order's token
    Good,        \* payments a refund can be built for: chain type and amount
                 \* right, address readable, fee not above the amount
    RefundFlag,  \* chain -> config refund
    Ambiguous,   \* a send may fail although the transaction got through
    MaxFaults, MaxCrashes, \* bounds: failing calls, dying runs
    MaxMined     \* bound: refunds executed on one EVM chain

EvmChains == {"eth", "bsc", "polygon"}
Chains == EvmChains \cup {"tron", "ckb", "doge"}
OnChain(c) == {t \in Txs : ChainOf[t] = c}

ASSUME RefundAssumption ==
    /\ OrderOf \in [Txs -> SelfOrders]
    /\ ChainOf \in [Txs -> Chains]
    /\ Good \subseteq Txs
    /\ RefundFlag \in [Chains -> BOOLEAN]
    /\ Ambiguous \in BOOLEAN
    /\ {MaxFaults, MaxCrashes, MaxMined} \subseteq Nat

VARIABLES
    pc,       \* worker -> where its run is
    todo,     \* worker -> payments of its list still to do
    ts,       \* worker -> payments of the refund in hand
    nonce,    \* worker -> EVM chain -> nonce of its next transaction
    mined,    \* EVM chain -> next nonce of das-pay's account on the chain
    pool,     \* EVM chain -> refunds pending on the node: <<nonce, payment>>
    paid,     \* payment -> how often its refund was executed (history)
    hashed,   \* payments whose refund_hash is written
    replaced, \* payments whose pending refund another one replaced (history)
    dropped,  \* payments left Ok unsent by a dying run or a failing database (history)
    risky,    \* see Mark and Revert (history)
    faults, crashes

run   == <<pc, todo, ts, nonce>>
node  == <<mined, pool, paid>>
past  == <<hashed, replaced, dropped, risky>>
count == <<faults, crashes>>
vars  == <<tables, run, node, past, count>>

Fault == faults < MaxFaults /\ faults' = faults + 1 /\ UNCHANGED crashes

\* refunds of a payment that were executed or are about to be
Pending(t) == {p \in pool[ChainOf[t]] : p[2] = t}
Refunds(t) == paid[t] + IF ChainOf[t] \in EvmChains THEN Cardinality(Pending(t)) ELSE 0

Registered(t) == orders[pays[t].order].reg = RegisterStatusRegistered

-----------------------------------------------------------------------------
\* The list and the nonces of a run

\* dao.GetNeedRefundOrderList; an empty list ends the run at once
List(w) ==
    /\ pc[w] = "idle"
    /\ NeedRefund # {}
    /\ todo' = [todo EXCEPT ![w] = NeedRefund]
    /\ pc' = [pc EXCEPT ![w] = "nonce"]
    /\ UNCHANGED <<tables, ts, nonce, node, past, count>>

\* NonceAt: the next nonce by mined blocks; pending refunds do not count
ReadNonce(w) ==
    /\ pc[w] = "nonce"
    /\ nonce' = [nonce EXCEPT ![w] = mined]
    /\ pc' = [pc EXCEPT ![w] = "next"]
    /\ UNCHANGED <<tables, todo, ts, node, past, count>>

\* NonceAt fails: the whole run is off
NonceFails(w) ==
    /\ pc[w] = "nonce"
    /\ Fault
    /\ todo' = [todo EXCEPT ![w] = {}]
    /\ pc' = [pc EXCEPT ![w] = "idle"]
    /\ UNCHANGED <<tables, ts, nonce, node, past>>

-----------------------------------------------------------------------------
\* Choosing what to refund next

Singles(w) == {t \in todo[w] : ChainOf[t] \in EvmChains \cup {"tron"}}

\* doOrderRefundEvm and doOrderRefundTrx return without doing anything unless
\* this holds; Tron looks at the flag of CKB
SingleFits(t) ==
    /\ t \in Good
    /\ IF ChainOf[t] = "tron" THEN RefundFlag["ckb"] ELSE RefundFlag[ChainOf[t]]

\* doOrderRefundCkb gives up the batch on the first payment that does not fit
CkbFits(S) == RefundFlag["ckb"] /\ S \subseteq Good

\* doOrderRefundDoge leaves out registered orders (of action apply_register, as
\* all are here), then as for CKB; no flag
DogeBatch(S) == {t \in S : ~Registered(t)}
DogeFits(S)  == S # {} /\ S \subseteq Good

TakeUp(w, all, S, fits) ==
    /\ pc[w] = "next"
    /\ todo' = [todo EXCEPT ![w] = @ \ all]
    /\ IF fits THEN ts' = [ts EXCEPT ![w] = S] /\ pc' = [pc EXCEPT ![w] = "mark"]
               ELSE UNCHANGED <<ts, pc>>
    /\ UNCHANGED <<tables, nonce, node, past, count>>

NextSingle(w, t) == t \in Singles(w) /\ TakeUp(w, {t}, {t}, SingleFits(t))

NextCkb(w) ==
    LET S == todo[w] \cap OnChain("ckb")
    IN Singles(w) = {} /\ S # {} /\ TakeUp(w, S, S, CkbFits(S))

NextDoge(w) ==
    LET S == todo[w] \cap OnChain("doge")
    IN todo[w] = S /\ S # {} /\ TakeUp(w, S, DogeBatch(S), DogeFits(DogeBatch(S)))

EndRun(w) ==
    /\ pc[w] = "next" /\ todo[w] = {}
    /\ pc' = [pc EXCEPT ![w] = "idle"]
    /\ UNCHANGED <<tables, todo, ts, nonce, node, past, count>>

-----------------------------------------------------------------------------
\* Mark, send, and mark back or write the hash

\* Broken variant: the payment is marked before its refund is built.
BuildFailsMarked(w) ==
    /\ pc[w] = "mark"
    /\ Fault
    /\ UpdateRefundStatus(ts[w], TxStatusSending, TxStatusOk)
    /\ pc' = [pc EXCEPT ![w] = "next"]
    /\ ts' = [ts EXCEPT ![w] = {}]
    /\ UNCHANGED <<orders, todo, nonce, node, past>>

\* estimating, building, signing or marking fails: nothing was done
BuildFails(w) ==
    /\ pc[w] = "mark"
    /\ Fault
    /\ pc' = [pc EXCEPT ![w] = "next"]
    /\ ts' = [ts EXCEPT ![w] = {}]
    /\ UNCHANGED <<tables, todo, nonce, node, past>>

\* Broken variants: nothing is marked; only the first payment of a batch is;
\* the statuses are swapped.
MarkRows(w, S, old, new) ==
    /\ pc[w] = "mark"
    /\ UpdateRefundStatus(S, old, new)
    /\ pc' = [pc EXCEPT ![w] = "send"]
    /\ risky' = risky \cup {t \in ts[w] : pays[t].refund # TxStatusSending}
    /\ UNCHANGED <<orders, todo, ts, nonce, node, hashed, replaced, dropped, count>>

MarkNone(w)    == MarkRows(w, {}, TxStatusSending, TxStatusOk)
MarkFirst(w)   == MarkRows(w, {CHOOSE t \in ts[w] : TRUE}, TxStatusSending, TxStatusOk)
MarkSwapped(w) == MarkRows(w, ts[w], TxStatusOk, TxStatusSending)

\* UpdateRefundStatus(Sending -> Ok). How many rows it changed is not looked
\* at: a payment another run has marked meanwhile is sent all the same (risky)
Mark(w) ==
    /\ pc[w] = "mark"
    /\ UpdateRefundStatus(ts[w], TxStatusSending, TxStatusOk)
    /\ pc' = [pc EXCEPT ![w] = "send"]
    /\ risky' = risky \cup {t \in ts[w] : pays[t].refund # TxStatusSending}
    /\ UNCHANGED <<orders, todo, ts, nonce, node, hashed, replaced, dropped, count>>

\* Broken variant: the nonce is counted down.
PreviousNonce(w, c) == nonce' = [nonce EXCEPT ![w][c] = @ - 1]

\* the result of a send: on success the run counts its nonce up, and a bsc run
\* also when the node says "nonce too low"
Sent(w)        == pc' = [pc EXCEPT ![w] = "hash"]
SendFailed(w)  == pc' = [pc EXCEPT ![w] = "revert"]
NextNonce(w, c) == nonce' = [nonce EXCEPT ![w][c] = @ + 1]

\* Tron, CKB and Doge: the refund is executed, and reported as sent or, when
\* the answer is lost, as failed; or it is not sent
SendPlain(w) ==
    /\ pc[w] = "send"
    /\ \A t \in ts[w] : ChainOf[t] \notin EvmChains
    /\ \/ /\ paid' = [t \in Txs |-> paid[t] + IF t \in ts[w] THEN 1 ELSE 0]
          /\ \/ Sent(w) /\ UNCHANGED count
             \/ Ambiguous /\ SendFailed(w) /\ Fault
       \/ SendFailed(w) /\ Fault /\ UNCHANGED paid
    /\ UNCHANGED <<tables, todo, ts, nonce, mined, pool, past>>

\* the node takes the transaction into its pool, maybe in place of the one
\* pending with this nonce
PoolTakes(c, n, t) ==
    /\ n >= mined[c]
    /\ pool' = [pool EXCEPT ![c] = {p \in @ : p[1] # n} \cup {<<n, t>>}]
    /\ replaced' = replaced \cup {p[2] : p \in {q \in pool[c] : q[1] = n /\ q[2] # t}}

\* the node turns it down: nonce used, or not enough to replace the pending one
PoolRefuses(c, n) == n < mined[c] \/ \E p \in pool[c] : p[1] = n

SendEvm(w) == \E t \in ts[w] :
    LET c == ChainOf[t]
        n == nonce[w][c]
    IN /\ pc[w] = "send"
       /\ c \in EvmChains
       /\ \/ PoolTakes(c, n, t) /\ Sent(w) /\ NextNonce(w, c) /\ UNCHANGED count
          \/ PoolTakes(c, n, t) /\ Ambiguous /\ SendFailed(w) /\ Fault /\ UNCHANGED nonce
          \/ /\ PoolRefuses(c, n)
             /\ SendFailed(w)
             /\ IF c = "bsc" /\ n < mined[c] THEN NextNonce(w, c) ELSE UNCHANGED nonce
             /\ UNCHANGED <<pool, replaced, count>>
          \/ SendFailed(w) /\ Fault /\ UNCHANGED <<pool, nonce, replaced>>
       /\ UNCHANGED <<tables, todo, ts, mined, paid, hashed, dropped, risky>>

Finish(w) ==
    /\ pc' = [pc EXCEPT ![w] = "next"]
    /\ ts' = [ts EXCEPT ![w] = {}]
    /\ UNCHANGED <<todo, nonce>>

\* Broken variant: the statuses are swapped.
RevertSwapped(w) ==
    /\ pc[w] = "revert"
    /\ Finish(w)
    /\ UpdateRefundStatus(ts[w], TxStatusSending, TxStatusOk)
    /\ risky' = risky \cup {t \in ts[w] : Refunds(t) > 0}
    /\ UNCHANGED <<orders, node, hashed, replaced, dropped, count>>

\* UpdateRefundStatus(Ok -> Sending), whoever's Ok that is: risky where a
\* refund is out, of this run or of another
Revert(w) ==
    /\ pc[w] = "revert"
    /\ Finish(w)
    /\ UpdateRefundStatus(ts[w], TxStatusOk, TxStatusSending)
    /\ risky' = risky \cup {t \in ts[w] : Refunds(t) > 0}
    /\ UNCHANGED <<orders, node, hashed, replaced, dropped, count>>

\* the database fails: the payment stays Ok though it was not sent
RevertFails(w) ==
    /\ pc[w] = "revert"
    /\ Finish(w)
    /\ Fault
    /\ dropped' = dropped \cup ts[w]
    /\ UNCHANGED <<tables, node, hashed, replaced, risky>>

\* UpdateRefundHash; a failure is only logged
WriteHash(w) ==
    /\ pc[w] = "hash"
    /\ Finish(w)
    /\ hashed' = hashed \cup ts[w]
    /\ UNCHANGED <<tables, node, replaced, dropped, risky, count>>

HashFails(w) ==
    /\ pc[w] = "hash"
    /\ Finish(w)
    /\ Fault
    /\ UNCHANGED <<tables, node, past>>

\* the process is stopped or dies; what was marked and not sent is left behind
Crash(w) ==
    /\ pc[w] # "idle"
    /\ crashes < MaxCrashes
    /\ crashes' = crashes + 1
    /\ dropped' = dropped \cup IF pc[w] \in {"send", "revert"} THEN ts[w] ELSE {}
    /\ pc' = [pc EXCEPT ![w] = "idle"]
    /\ todo' = [todo EXCEPT ![w] = {}]
    /\ ts' = [ts EXCEPT ![w] = {}]
    /\ UNCHANGED <<tables, nonce, node, hashed, replaced, risky, faults>>

-----------------------------------------------------------------------------
\* Around the job

\* a block of an EVM chain executes the refund whose turn it is
Mine(c) == \E p \in pool[c] :
    /\ p[1] = mined[c]
    /\ mined[c] < MaxMined
    /\ mined' = [mined EXCEPT ![c] = @ + 1]
    /\ pool' = [pool EXCEPT ![c] = @ \ {p}]
    /\ paid' = [paid EXCEPT ![p[2]] = @ + 1]
    /\ UNCHANGED <<tables, run, past, count>>

\* a parser puts a payment in refund (PayMatch)
NewRefund(t) ==
    /\ pays[t].refund = TxStatusDefault
    /\ pays' = [pays EXCEPT ![t].refund = TxStatusSending]
    /\ UNCHANGED <<orders, run, node, past, count>>

\* das-register registers the account of the order
RegisterOk(o) ==
    /\ orders[o].reg = RegisterStatusApplyRegister
    /\ orders' = [orders EXCEPT ![o].reg = RegisterStatusRegistered]
    /\ UNCHANGED <<pays, run, node, past, count>>

\* no run under way, nothing sent
JobInit ==
    /\ pc = [w \in Workers |-> "idle"]
    /\ todo = [w \in Workers |-> {}]
    /\ ts = [w \in Workers |-> {}]
    /\ nonce = [w \in Workers |-> [c \in EvmChains |-> 0]]
    /\ mined = [c \in EvmChains |-> 0]
    /\ pool = [c \in EvmChains |-> {}]
    /\ paid = [t \in Txs |-> 0]
    /\ hashed = {} /\ replaced = {} /\ dropped = {} /\ risky = {}
    /\ faults = 0 /\ crashes = 0

\* payments confirmed for paid orders, none in refund yet
Init ==
    /\ JobInit
    /\ orders = [o \in Orders |-> [id |-> 1, pay |-> TxStatusSending,
                                   reg |-> RegisterStatusApplyRegister]]
    /\ pays \in {[t \in Txs |-> [order |-> OrderOf[t], addr |-> a,
                                 status |-> OrderTxStatusConfirm,
                                 refund |-> TxStatusDefault]] : a \in Addrs}

Step(w) ==
    \/ List(w) \/ ReadNonce(w) \/ \E t \in Txs : NextSingle(w, t)
    \/ NextCkb(w) \/ NextDoge(w) \/ EndRun(w)
    \/ Mark(w) \/ SendPlain(w) \/ SendEvm(w) \/ Revert(w) \/ WriteHash(w)

Trouble(w) == NonceFails(w) \/ BuildFails(w) \/ RevertFails(w) \/ HashFails(w) \/ Crash(w)

Next ==
    \/ \E w \in Workers : Step(w) \/ Trouble(w)
    \/ \E c \in EvmChains : Mine(c)
    \/ \E t \in Txs : NewRefund(t)
    \/ \E o \in Orders : RegisterOk(o)

Spec == Init /\ [][Next]_vars

\* cron starts the job again and again, and every call of a run returns;
\* the EVM chains go on making blocks
Fairness ==
    /\ \A w \in Workers : WF_vars(Step(w))
    /\ \A c \in EvmChains : WF_vars(Mine(c))
FairSpec == Spec /\ Fairness

-----------------------------------------------------------------------------
(***************************************************************************)
(* Correctness                                                             *)
(***************************************************************************)

\* Types.
TypeOK ==
    /\ TablesType
    /\ pc \in [Workers -> {"idle", "nonce", "next", "mark", "send", "revert", "hash"}]
    /\ todo \in [Workers -> SUBSET Txs] /\ ts \in [Workers -> SUBSET Txs]
    /\ nonce \in [Workers -> [EvmChains -> Nat]]
    /\ mined \in [EvmChains -> Nat]
    /\ pool \in [EvmChains -> SUBSET (Nat \X Txs)]
    /\ paid \in [Txs -> Nat]
    /\ hashed \cup replaced \cup dropped \cup risky \subseteq Txs
    /\ faults \in 0 .. MaxFaults /\ crashes \in 0 .. MaxCrashes

\* No payment is refunded twice: it never has two refunds executed or about to
\* be, across failing sends, dying runs, reused nonces and later runs. Holds
\* for one run at a time whose send reports a failure only when it failed.
NoDoubleRefund == \A t \in Txs : Refunds(t) <= 1

\* With runs that overlap and lost answers, only two things pay twice: a run
\* marks and sends what another has marked already (doOrderRefund* do not look
\* at how many rows UpdateRefundStatus changed), or a run whose send failed
\* puts back to Sending what is out.
DoubleOnlyIfRisky == \A t \in Txs : Refunds(t) > 1 => t \in risky

\* A refund that is out stays marked Ok, so no later list has it: marking comes
\* before sending, and only a risky step takes the mark away.
SentStaysMarked ==
    \A t \in Txs : Refunds(t) > 0 /\ t \notin risky => pays[t].refund = TxStatusOk

\* A payment marked Ok without a refund is in the hands of a run that is about
\* to send it or to put it back; otherwise the run died there, its database
\* call failed, or another refund with its nonce took its place.
InHand(t) == \E w \in Workers : t \in ts[w] /\ pc[w] \in {"send", "revert"}

NothingLost ==
    \A t \in Txs : pays[t].refund = TxStatusOk /\ Refunds(t) = 0
                      => InHand(t) \/ t \in dropped \cup replaced

\* a payment that waits for something the job does not do by itself: the flag,
\* a payment of its CKB or Doge batch that does not fit, a registered Doge order
Blocked(t) ==
    \/ t \notin Good
    \/ ChainOf[t] \in EvmChains \cup {"tron", "ckb"} /\ ~SingleFits(t)
    \/ ChainOf[t] = "ckb" /\ ~CkbFits(NeedRefund \cap OnChain("ckb"))
    \/ ChainOf[t] = "doge" /\ (Registered(t) \/ ~DogeFits(DogeBatch(NeedRefund \cap OnChain("doge"))))

\* Whoever is owed a refund gets it, unless it is blocked or was lost in one of
\* the ways NothingLost names.
RefundedEventually ==
    \A t \in Txs : t \in NeedRefund ~> \/ Refunds(t) > 0
                                       \/ Blocked(t)
                                       \/ t \in dropped \cup replaced

\* A chain is refunded only if its refund flag in the config is on.
FlagRespected == \A t \in Txs : Refunds(t) > 0 => RefundFlag[ChainOf[t]]

=============================================================================
