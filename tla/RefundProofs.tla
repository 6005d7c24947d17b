---------------------------- MODULE RefundProofs ----------------------------
(***************************************************************************)
(* What holds of the refund job for every set of payments, any number of   *)
(* overlapping runs, failing calls and stops.                              *)
(***************************************************************************)
EXTENDS Refund, FiniteSetTheorems, TLAPS

PcStates == {"idle", "nonce", "next", "mark", "send", "revert", "hash"}

\* The pool of a chain is finite and holds refunds of payments on that chain,
\* one for each nonce.
PoolOK == \A c \in EvmChains : /\ IsFiniteSet(pool[c])
                               /\ \A p \in pool[c] : ChainOf[p[2]] = c
                               /\ \A p, q \in pool[c] : p[1] = q[1] => p = q

-----------------------------------------------------------------------------
\* How Refunds, a count, changes when a pool does.

\* Refunds counts, and is zero exactly when nothing is out.
LEMMA RefundsCount ==
    ASSUME TypeOK, PoolOK, NEW t \in Txs
    PROVE  /\ Refunds(t) \in Nat
           /\ ChainOf[t] \in EvmChains => /\ IsFiniteSet(Pending(t))
                                          /\ Cardinality(Pending(t)) \in Nat
                                          /\ Cardinality(Pending(t)) = 0 <=> Pending(t) = {}
           /\ Refunds(t) = 0 <=> paid[t] = 0 /\ (ChainOf[t] \in EvmChains => Pending(t) = {})
<1>1. paid[t] \in Nat
  BY DEF TypeOK
<1>2. ASSUME ChainOf[t] \in EvmChains
      PROVE  /\ IsFiniteSet(Pending(t))
             /\ Cardinality(Pending(t)) \in Nat
             /\ Cardinality(Pending(t)) = 0 <=> Pending(t) = {}
  <2>1. IsFiniteSet(Pending(t))
    BY <1>2, FS_Subset DEF Pending, PoolOK
  <2> QED
    BY <2>1, FS_CardinalityType, FS_EmptySet
<1> QED
  BY <1>1, <1>2 DEF Refunds

\* The same of the next state.
LEMMA RefundsCountNext ==
    ASSUME TypeOK', PoolOK', NEW t \in Txs
    PROVE  /\ Refunds(t)' \in Nat
           /\ Refunds(t)' = 0 <=> paid'[t] = 0 /\ (ChainOf[t] \in EvmChains => Pending(t)' = {})
<1>1. paid'[t] \in Nat
  BY DEF TypeOK
<1>2. ASSUME ChainOf[t] \in EvmChains
      PROVE  /\ Cardinality(Pending(t)') \in Nat
             /\ Cardinality(Pending(t)') = 0 <=> Pending(t)' = {}
  <2>1. IsFiniteSet(Pending(t)')
    BY <1>2, FS_Subset DEF Pending, PoolOK
  <2> QED
    BY <2>1, FS_CardinalityType, FS_EmptySet
<1> QED
  BY <1>1, <1>2 DEF Refunds

LEMMA RefundsSame ==
    ASSUME UNCHANGED <<pool, paid>>, NEW t \in Txs
    PROVE  Refunds(t)' = Refunds(t)
BY DEF Refunds, Pending

\* A block moves one refund from the pool to the account: the count stays.
LEMMA MineRefunds ==
    ASSUME TypeOK, TypeOK', PoolOK, NEW c \in EvmChains, Mine(c)
    PROVE  /\ PoolOK'
           /\ \A t \in Txs : Refunds(t)' = Refunds(t)
<1>1. PICK p \in pool[c] : /\ pool' = [pool EXCEPT ![c] = @ \ {p}]
                           /\ paid' = [paid EXCEPT ![p[2]] = @ + 1]
  BY DEF Mine
<1>2. p[2] \in Txs /\ ChainOf[p[2]] = c /\ pool \in [EvmChains -> SUBSET (Nat \X Txs)]
      /\ paid \in [Txs -> Nat]
  BY DEF TypeOK, PoolOK
<1>3. /\ pool'[c] = pool[c] \ {p}
      /\ \A d \in EvmChains \ {c} : pool'[d] = pool[d]
  BY <1>1, <1>2
<1>4. PoolOK'
  <2>1. IsFiniteSet(pool[c] \ {p})
    BY FS_RemoveElement DEF PoolOK
  <2> QED
    BY <1>3, <2>1 DEF PoolOK
<1>5. ASSUME NEW t \in Txs PROVE Refunds(t)' = Refunds(t)
  <2>1. CASE t = p[2]
    <3>1. Pending(t)' = Pending(t) \ {p} /\ p \in Pending(t)
      BY <1>2, <1>3, <2>1 DEF Pending
    <3>2. IsFiniteSet(Pending(t)) /\ Cardinality(Pending(t)) \in Nat
      BY <1>2, <2>1, RefundsCount
    <3>3. Cardinality(Pending(t) \ {p}) = Cardinality(Pending(t)) - 1
      BY <3>1, <3>2, FS_RemoveElement
    <3>4. paid'[t] = paid[t] + 1 /\ paid[t] \in Nat
      BY <1>1, <1>2, <2>1
    <3>5. Refunds(t) = paid[t] + Cardinality(Pending(t))
      BY <1>2, <2>1 DEF Refunds
    <3>6. Refunds(t)' = paid'[t] + Cardinality(Pending(t)')
      BY <1>2, <2>1 DEF Refunds
    <3> QED
      BY <3>1, <3>2, <3>3, <3>4, <3>5, <3>6
  <2>2. CASE t # p[2]
    <3>1. paid'[t] = paid[t]
      BY <1>1, <1>2, <2>2
    <3>2. ChainOf[t] \in EvmChains => Pending(t)' = Pending(t)
      BY <1>3, <2>2 DEF Pending
    <3> QED
      BY <3>1, <3>2 DEF Refunds
  <2> QED
    BY <2>1, <2>2
<1> QED
  BY <1>4, <1>5

\* A node that takes a refund into its pool adds one for that payment, and may
\* take one away from payments it then counts as replaced.
LEMMA PoolTakesRefunds ==
    ASSUME TypeOK, TypeOK', PoolOK, NEW t \in Txs, ChainOf[t] \in EvmChains, NEW n \in Nat,
           PoolTakes(ChainOf[t], n, t), paid' = paid
    PROVE  /\ PoolOK'
           /\ Refunds(t)' > 0
           /\ Refunds(t) = 0 => Refunds(t)' = 1
           /\ \A u \in Txs \ {t} : /\ Refunds(u)' <= Refunds(u)
                                   /\ Refunds(u)' = 0 /\ Refunds(u) > 0 => u \in replaced'
<1> DEFINE c == ChainOf[t]
           left == {p \in pool[c] : p[1] # n}
<1>1. /\ pool'[c] = left \cup {<<n, t>>}
      /\ \A d \in EvmChains \ {c} : pool'[d] = pool[d]
      /\ replaced' = replaced \cup {p[2] : p \in {q \in pool[c] : q[1] = n /\ q[2] # t}}
  BY DEF PoolTakes, TypeOK
<1>2. PoolOK'
  <2>1. IsFiniteSet(left)
    BY FS_Subset DEF PoolOK
  <2>2. IsFiniteSet(left \cup {<<n, t>>})
    BY <2>1, FS_AddElement
  <2>3. \A p \in left \cup {<<n, t>>} : ChainOf[p[2]] = c
    BY DEF PoolOK
  <2>4. \A p, q \in left \cup {<<n, t>>} : p[1] = q[1] => p = q
    BY DEF PoolOK
  <2> QED
    BY <1>1, <2>2, <2>3, <2>4 DEF PoolOK
<1>3. \A u \in Txs : /\ Refunds(u) \in Nat /\ Refunds(u)' \in Nat /\ paid[u] \in Nat
                     /\ Refunds(u) = 0 <=> paid[u] = 0 /\ (ChainOf[u] \in EvmChains => Pending(u) = {})
                     /\ Refunds(u)' = 0 <=> paid'[u] = 0
                                            /\ (ChainOf[u] \in EvmChains => Pending(u)' = {})
  <2>1. \A u \in Txs : /\ Refunds(u) \in Nat
                       /\ Refunds(u) = 0 <=> paid[u] = 0
                                             /\ (ChainOf[u] \in EvmChains => Pending(u) = {})
    BY RefundsCount
  <2>2. \A u \in Txs : /\ Refunds(u)' \in Nat
                       /\ Refunds(u)' = 0 <=> paid'[u] = 0
                                              /\ (ChainOf[u] \in EvmChains => Pending(u)' = {})
    BY <1>2, RefundsCountNext
  <2> QED
    BY <2>1, <2>2 DEF TypeOK
<1>4. <<n, t>> \in Pending(t)'
  BY <1>1 DEF Pending
<1>5. Refunds(t)' > 0
  BY <1>3, <1>4
<1>6. Refunds(t) = 0 => Refunds(t)' = 1
  <2> SUFFICES ASSUME Refunds(t) = 0 PROVE Refunds(t)' = 1
    OBVIOUS
  <2>1. paid[t] = 0 /\ Pending(t) = {}
    BY <1>3
  <2>2. Pending(t)' = {<<n, t>>}
    BY <1>1, <2>1 DEF Pending
  <2>3. Cardinality({<<n, t>>}) = 1
    BY FS_Singleton
  <2> QED
    BY <2>1, <2>2, <2>3 DEF Refunds
<1>7. ASSUME NEW u \in Txs \ {t}
      PROVE  /\ Refunds(u)' <= Refunds(u)
             /\ Refunds(u)' = 0 /\ Refunds(u) > 0 => u \in replaced'
  <2>1. CASE ChainOf[u] \notin EvmChains
    BY <1>3, <2>1 DEF Refunds
  <2>2. CASE ChainOf[u] \in EvmChains \ {c}
    <3>1. Pending(u)' = Pending(u)
      BY <1>1, <2>2 DEF Pending
    <3>2. Refunds(u)' = Refunds(u)
      BY <3>1 DEF Refunds
    <3> QED
      BY <1>3, <3>2
  <2>3. CASE ChainOf[u] = c
    <3>1. Pending(u)' = {p \in Pending(u) : p[1] # n}
      BY <1>1, <2>3 DEF Pending
    <3>2. IsFiniteSet(Pending(u)) /\ Cardinality(Pending(u)) \in Nat
      BY <2>3, RefundsCount
    <3>3. Pending(u)' \subseteq Pending(u)
      BY <3>1
    <3>4. Cardinality(Pending(u)') <= Cardinality(Pending(u)) /\ Cardinality(Pending(u)') \in Nat
      BY <3>2, <3>3, FS_Subset, FS_CardinalityType
    <3>5. Refunds(u)' <= Refunds(u)
      <4>1. Refunds(u) = paid[u] + Cardinality(Pending(u))
        BY <2>3 DEF Refunds
      <4>2. Refunds(u)' = paid[u] + Cardinality(Pending(u)')
        BY <2>3 DEF Refunds
      <4> QED
        BY <1>3, <3>2, <3>4, <4>1, <4>2
    <3>6. ASSUME Refunds(u)' = 0, Refunds(u) > 0
          PROVE  u \in replaced'
      <4>1. Pending(u) # {} /\ Pending(u)' = {}
        BY <1>3, <2>3, <3>6
      <4>2. PICK q \in Pending(u) : q[1] = n
        BY <3>1, <4>1
      <4>3. q \in pool[c] /\ q[2] = u /\ q[2] # t
        BY <2>3, <4>2 DEF Pending
      <4> QED
        BY <1>1, <4>2, <4>3
    <3> QED
      BY <3>5, <3>6
  <2> QED
    BY <2>1, <2>2, <2>3
<1> QED
  BY <1>2, <1>5, <1>6, <1>7

-----------------------------------------------------------------------------
\* The inductive invariant, in two parts: the shape of the state, and who holds
\* which payment.

Hot(w) == pc[w] \in {"send", "revert"}

\* Only a confirmed payment is in refund: the parsers see to that.
RefundsConfirmed ==
    \A t \in Txs : pays[t].refund # TxStatusDefault => pays[t].status = OrderTxStatusConfirm

\* A refund on an EVM chain is of one payment.
Whole == \A w \in Workers : \A t \in ts[w] : ChainOf[t] \in EvmChains => ts[w] = {t}

Shape == TypeOK /\ PoolOK /\ Whole /\ RefundsConfirmed

\* What a run is about to send or to put back is marked Ok.
MarkHeld == \A w \in Workers : Hot(w) => \A t \in ts[w] :
                pays[t].refund = TxStatusOk \/ t \in risky

\* Two runs hold the same payment only if it is risky.
OneHolder == \A v, w \in Workers : Hot(v) /\ Hot(w) /\ v # w =>
                \A t \in ts[v] \cap ts[w] : t \in risky

\* What a run is about to send is not out yet.
Unsent == \A w \in Workers : pc[w] = "send" => \A t \in ts[w] :
                Refunds(t) = 0 \/ t \in risky

Held == /\ MarkHeld /\ OneHolder /\ Unsent
        /\ SentStaysMarked /\ DoubleOnlyIfRisky /\ NothingLost

\* What the parsers and das-register do meanwhile, seen from the job: at most,
\* they put confirmed payments in refund.
Around ==
    /\ UNCHANGED <<run, node, past, count>>
    /\ TablesType' /\ RefundsConfirmed'
    /\ \A t \in Txs : \/ pays'[t].refund = pays[t].refund
                      \/ /\ pays[t].refund = TxStatusDefault
                         /\ pays'[t].refund = TxStatusSending

JobNext ==
    \/ \E w \in Workers : Step(w) \/ Trouble(w)
    \/ \E c \in EvmChains : Mine(c)
    \/ Around

-----------------------------------------------------------------------------
\* The shape of the state.

\* A job that has not started, over tables with nothing in refund.
LEMMA JobStarts ==
    ASSUME JobInit, TablesType, \A t \in Txs : pays[t].refund = TxStatusDefault
    PROVE  Shape /\ Held /\ \A t \in Txs : Refunds(t) = 0
<1>1. TypeOK
  BY RefundAssumption DEF JobInit, TypeOK
<1>2. PoolOK
  BY FS_EmptySet DEF JobInit, PoolOK
<1>3. Whole /\ RefundsConfirmed
  BY DEF JobInit, Whole, RefundsConfirmed
<1>4. \A t \in Txs : Refunds(t) = 0
  BY <1>1, <1>2, RefundsCount DEF JobInit, Pending
<1>5. Held
  BY <1>4 DEF JobInit, Held, Hot, MarkHeld, OneHolder, Unsent, SentStaysMarked,
              DoubleOnlyIfRisky, NothingLost, TxStatusDefault, TxStatusOk
<1> QED
  BY <1>1, <1>2, <1>3, <1>4, <1>5 DEF Shape

\* UpdateRefundStatus leaves the rows well-formed and their status alone, and
\* moves the given payments from one refund status to the other.
LEMMA UpdateRefund ==
    ASSUME TablesType, RefundsConfirmed, NEW S \in SUBSET Txs,
           NEW old \in {TxStatusSending, TxStatusOk}, NEW new \in {TxStatusSending, TxStatusOk},
           UpdateRefundStatus(S, old, new)
    PROVE  /\ pays' \in [Txs -> Row]
           /\ RefundsConfirmed'
           /\ \A t \in Txs : /\ pays'[t].status = pays[t].status
                             /\ pays'[t].refund = IF t \in S /\ pays[t].refund = old
                                                  THEN new ELSE pays[t].refund
<1>1. old \in TxStatus /\ new \in TxStatus /\ old # TxStatusDefault
  BY DEF TxStatus, TxStatusDefault, TxStatusSending, TxStatusOk
<1>2. ASSUME NEW t \in Txs
      PROVE  /\ pays'[t] \in Row
             /\ pays'[t].status = pays[t].status
             /\ pays'[t].refund = IF t \in S /\ pays[t].refund = old
                                  THEN new ELSE pays[t].refund
  <2>1. pays[t] \in Row
    BY DEF TablesType
  <2>2. pays'[t] = IF t \in S /\ pays[t].refund = old
                   THEN [pays[t] EXCEPT !.refund = new] ELSE pays[t]
    BY <1>1 DEF UpdateRefundStatus, RefundsConfirmed
  <2> QED
    BY <1>1, <2>1, <2>2 DEF Row
<1>3. pays' = [t \in Txs |-> pays'[t]]
  BY DEF UpdateRefundStatus
<1>4. RefundsConfirmed'
  BY <1>1, <1>2 DEF RefundsConfirmed
<1> QED
  BY <1>2, <1>3, <1>4

LEMMA StatusFacts ==
    /\ {TxStatusDefault, TxStatusSending, TxStatusOk} \subseteq TxStatus
    /\ TxStatusSending # TxStatusOk /\ TxStatusDefault # TxStatusOk /\ TxStatusDefault # TxStatusSending
BY DEF TxStatus, TxStatusDefault, TxStatusSending, TxStatusOk

\* A node that takes or keeps a refund leaves the types as they are.
LEMMA PoolTakesType ==
    ASSUME TypeOK, NEW c \in EvmChains, NEW n \in Nat, NEW t \in Txs, PoolTakes(c, n, t)
    PROVE  pool' \in [EvmChains -> SUBSET (Nat \X Txs)] /\ replaced' \subseteq Txs
<1>1. pool \in [EvmChains -> SUBSET (Nat \X Txs)]
  BY DEF TypeOK
<1>2. <<n, t>> \in Nat \X Txs /\ \A p \in pool[c] : p \in Nat \X Txs /\ p[2] \in Txs
  BY <1>1
<1> QED
  BY <1>1, <1>2 DEF PoolTakes, TypeOK

\* What sending does on an EVM chain: the run goes on, with one payment t, and
\* the node has taken t into its pool or has changed nothing.
LEMMA SendEvmCases ==
    ASSUME Shape, NEW w \in Workers, SendEvm(w)
    PROVE  \E t \in ts[w] :
              /\ ts[w] = {t} /\ ChainOf[t] \in EvmChains
              /\ pc[w] = "send"
              /\ nonce' \in [Workers -> [EvmChains -> Nat]]
              /\ faults' \in 0 .. MaxFaults
              /\ UNCHANGED <<tables, todo, ts, mined, paid, hashed, dropped, risky, crashes>>
              /\ \/ /\ PoolTakes(ChainOf[t], nonce[w][ChainOf[t]], t)
                    /\ Sent(w) \/ SendFailed(w)
                 \/ SendFailed(w) /\ UNCHANGED <<pool, replaced>>
<1>1. PICK t \in ts[w] :
        LET c == ChainOf[t]
            n == nonce[w][c]
        IN /\ pc[w] = "send"
           /\ c \in EvmChains
           /\ \/ PoolTakes(c, n, t) /\ Sent(w) /\ NextNonce(w, c) /\ UNCHANGED count
              \/ PoolTakes(c, n, t) /\ Ambiguous /\ SendFailed(w) /\ Fault /\ UNCHANGED nonce
              \/ /\ PoolRefuses(c, n)
                 /\ SendFailed(w)
                 /\ IF c = "bsc" /\ n < mined[c] THEN NextNonce(w, c) ELSE UNCHANGED nonce
                 /\ UNCHANGED <<pool, replaced, count>>
              \/ SendFailed(w) /\ Fault /\ UNCHANGED <<pool, nonce, replaced>>
           /\ UNCHANGED <<tables, todo, ts, mined, paid, hashed, dropped, risky>>
  BY DEF SendEvm
<1> DEFINE c == ChainOf[t]
<1>2. nonce \in [Workers -> [EvmChains -> Nat]] /\ c \in EvmChains
  BY <1>1 DEF Shape, TypeOK
<1>3. NextNonce(w, c) => nonce' \in [Workers -> [EvmChains -> Nat]]
  <2> SUFFICES ASSUME NextNonce(w, c) PROVE nonce' \in [Workers -> [EvmChains -> Nat]]
    OBVIOUS
  <2>1. [nonce[w] EXCEPT ![c] = @ + 1] \in [EvmChains -> Nat]
    BY <1>2
  <2>2. nonce' = [nonce EXCEPT ![w] = [nonce[w] EXCEPT ![c] = @ + 1]]
    BY <1>2 DEF NextNonce
  <2> QED
    BY <1>2, <2>1, <2>2
<1>4. nonce' \in [Workers -> [EvmChains -> Nat]]
  BY <1>1, <1>2, <1>3
<1>5. faults' \in 0 .. MaxFaults /\ crashes' = crashes
  BY <1>1, RefundAssumption DEF Fault, count, Shape, TypeOK
<1>6. ts[w] = {t}
  BY <1>1 DEF Shape, Whole
<1>7. \/ PoolTakes(c, nonce[w][c], t) /\ (Sent(w) \/ SendFailed(w))
      \/ SendFailed(w) /\ UNCHANGED <<pool, replaced>>
  BY <1>1
<1> QED
  BY <1>1, <1>4, <1>5, <1>6, <1>7

\* Every step keeps the shape.
LEMMA TypeStep == Shape /\ [JobNext]_vars => TypeOK'
<1> SUFFICES ASSUME Shape, [JobNext]_vars PROVE TypeOK'
  OBVIOUS
<1> USE RefundAssumption
<1>1. ASSUME NEW w \in Workers, List(w) PROVE TypeOK'
  BY <1>1 DEF Shape, List, TypeOK, TablesType, NeedRefund, tables, node, past, count
<1>2. ASSUME NEW w \in Workers, ReadNonce(w) PROVE TypeOK'
  BY <1>2 DEF Shape, ReadNonce, TypeOK, TablesType, tables, node, past, count
<1>3. ASSUME NEW w \in Workers, NonceFails(w) PROVE TypeOK'
  BY <1>3 DEF Shape, NonceFails, Fault, TypeOK, TablesType, tables, node, past
<1>4. ASSUME NEW w \in Workers, NEW all, NEW S \in SUBSET Txs, NEW fits, TakeUp(w, all, S, fits)
      PROVE  TypeOK'
  BY <1>4 DEF Shape, TakeUp, TypeOK, TablesType, tables, node, past, count
<1>5. ASSUME NEW w \in Workers, EndRun(w) PROVE TypeOK'
  BY <1>5 DEF Shape, EndRun, TypeOK, TablesType, tables, node, past, count
<1>6. ASSUME NEW w \in Workers, BuildFails(w) PROVE TypeOK'
  BY <1>6 DEF Shape, BuildFails, Fault, TypeOK, TablesType, tables, node, past
<1>7. ASSUME NEW w \in Workers, Mark(w) PROVE TypeOK'
  <2>1. pays' \in [Txs -> Row]
    BY <1>7, UpdateRefund DEF Mark, Shape, TypeOK
  <2> QED
    BY <1>7, <2>1 DEF Shape, Mark, TypeOK, TablesType, node, count
<1>8. ASSUME NEW w \in Workers, SendPlain(w) PROVE TypeOK'
  <2>1. paid' \in [Txs -> Nat]
    <3>1. CASE paid' = [t \in Txs |-> paid[t] + IF t \in ts[w] THEN 1 ELSE 0]
      BY <3>1 DEF Shape, TypeOK
    <3>2. CASE paid' = paid
      BY <3>2 DEF Shape, TypeOK
    <3> QED
      BY <1>8, <3>1, <3>2 DEF SendPlain
  <2>2. pc' \in [Workers -> PcStates]
    BY <1>8 DEF Shape, SendPlain, Sent, SendFailed, TypeOK, PcStates
  <2>3. faults' \in 0 .. MaxFaults /\ crashes' = crashes
    BY <1>8 DEF Shape, SendPlain, Fault, TypeOK, count
  <2> QED
    BY <1>8, <2>1, <2>2, <2>3 DEF Shape, SendPlain, TypeOK, TablesType, tables, past, PcStates
<1>9. ASSUME NEW w \in Workers, SendEvm(w) PROVE TypeOK'
  <2>1. PICK t \in ts[w] :
              /\ ChainOf[t] \in EvmChains
              /\ nonce' \in [Workers -> [EvmChains -> Nat]]
              /\ faults' \in 0 .. MaxFaults
              /\ UNCHANGED <<tables, todo, ts, mined, paid, hashed, dropped, risky, crashes>>
              /\ \/ /\ PoolTakes(ChainOf[t], nonce[w][ChainOf[t]], t)
                    /\ Sent(w) \/ SendFailed(w)
                 \/ SendFailed(w) /\ UNCHANGED <<pool, replaced>>
    BY <1>9, SendEvmCases
  <2>2. t \in Txs /\ nonce[w][ChainOf[t]] \in Nat
    BY <2>1 DEF Shape, TypeOK
  <2>3. pool' \in [EvmChains -> SUBSET (Nat \X Txs)] /\ replaced' \subseteq Txs
    BY <2>1, <2>2, PoolTakesType DEF Shape, TypeOK
  <2>4. pc' \in [Workers -> PcStates]
    BY <2>1 DEF Shape, TypeOK, Sent, SendFailed, PcStates
  <2> QED
    BY <2>1, <2>3, <2>4 DEF Shape, TypeOK, TablesType, tables, PcStates
<1>10. ASSUME NEW w \in Workers, Revert(w) PROVE TypeOK'
  <2>1. pays' \in [Txs -> Row]
    BY <1>10, UpdateRefund DEF Revert, Shape, TypeOK
  <2> QED
    BY <1>10, <2>1 DEF Shape, Revert, Finish, TypeOK, TablesType, node, count
<1>11. ASSUME NEW w \in Workers, RevertFails(w) PROVE TypeOK'
  BY <1>11 DEF Shape, RevertFails, Finish, Fault, TypeOK, TablesType, tables, node
<1>12. ASSUME NEW w \in Workers, WriteHash(w) PROVE TypeOK'
  BY <1>12 DEF Shape, WriteHash, Finish, TypeOK, TablesType, tables, node, count
<1>13. ASSUME NEW w \in Workers, HashFails(w) PROVE TypeOK'
  BY <1>13 DEF Shape, HashFails, Finish, Fault, TypeOK, TablesType, tables, node, past
<1>14. ASSUME NEW w \in Workers, Crash(w) PROVE TypeOK'
  BY <1>14 DEF Shape, Crash, TypeOK, TablesType, tables, node
<1>15. ASSUME NEW c \in EvmChains, Mine(c) PROVE TypeOK'
  <2>1. PICK p \in pool[c] : /\ mined' = [mined EXCEPT ![c] = @ + 1]
                             /\ pool' = [pool EXCEPT ![c] = @ \ {p}]
                             /\ paid' = [paid EXCEPT ![p[2]] = @ + 1]
                             /\ UNCHANGED <<tables, run, past, count>>
    BY <1>15 DEF Mine
  <2>2. p[2] \in Txs
    BY DEF Shape, TypeOK
  <2> QED
    BY <2>1, <2>2 DEF Shape, TypeOK, TablesType, tables, run, past, count
<1>16. CASE Around
  BY <1>16 DEF Around, Shape, TypeOK, run, node, past, count
<1>18. CASE UNCHANGED vars
  BY <1>18 DEF Shape, TypeOK, TablesType, vars, tables, run, node, past, count
<1>19. ASSUME NEW w \in Workers, Step(w) PROVE TypeOK'
  <2>1. ASSUME NEW t \in Txs, NextSingle(w, t) PROVE TypeOK'
    BY <1>4, <2>1 DEF NextSingle
  <2>2. NextCkb(w) \/ NextDoge(w) => TypeOK'
    BY <1>4 DEF NextCkb, NextDoge, OnChain, DogeBatch
  <2> QED
    BY <1>1, <1>2, <1>5, <1>7, <1>8, <1>9, <1>10, <1>12, <1>19, <2>1, <2>2 DEF Step
<1>20. ASSUME NEW w \in Workers, Trouble(w) PROVE TypeOK'
  BY <1>3, <1>6, <1>11, <1>13, <1>14, <1>20 DEF Trouble
<1> QED
  BY <1>15, <1>16, <1>18, <1>19, <1>20 DEF JobNext

\* The pool stays finite and every refund stays on its chain, a refund on an EVM
\* chain stays single, and what is in refund stays confirmed.
LEMMA ShapeStep == Shape /\ [JobNext]_vars => Shape'
<1> SUFFICES ASSUME Shape, [JobNext]_vars PROVE Shape'
  OBVIOUS
<1>0. TypeOK'
  BY TypeStep
<1>1. Whole'
  <2>1. ASSUME NEW w \in Workers, NEW all, NEW S, NEW fits, TakeUp(w, all, S, fits),
               \A t \in S : ChainOf[t] \in EvmChains => S = {t}
        PROVE  Whole'
    <3>1. ts \in [Workers -> SUBSET Txs]
      BY DEF Shape, TypeOK
    <3> QED
      BY <2>1, <3>1 DEF TakeUp, Shape, Whole
  <2>2. ASSUME NEW w \in Workers, NEW t \in Txs, NextSingle(w, t) PROVE Whole'
    BY <2>1, <2>2 DEF NextSingle
  <2>3. ASSUME NEW w \in Workers, NextCkb(w) PROVE Whole'
    <3> DEFINE S == todo[w] \cap OnChain("ckb")
    <3>1. \A t \in S : ChainOf[t] \notin EvmChains
      BY DEF OnChain, EvmChains
    <3> QED
      BY <2>1, <2>3, <3>1 DEF NextCkb
  <2>4. ASSUME NEW w \in Workers, NextDoge(w) PROVE Whole'
    <3> DEFINE S == todo[w] \cap OnChain("doge")
    <3>1. \A t \in DogeBatch(S) : ChainOf[t] \notin EvmChains
      BY DEF OnChain, EvmChains, DogeBatch
    <3> QED
      BY <2>1, <2>4, <3>1 DEF NextDoge
  <2>5. ASSUME NEW w \in Workers, ts' = ts \/ ts' = [ts EXCEPT ![w] = {}] PROVE Whole'
    BY <2>5 DEF Shape, TypeOK, Whole
  <2>6. ASSUME NEW w \in Workers, Step(w) PROVE Whole'
    BY <2>2, <2>3, <2>4, <2>5, <2>6
       DEF Step, List, ReadNonce, EndRun, Mark, SendPlain, SendEvm, Revert, WriteHash, Finish
  <2>7. ASSUME NEW w \in Workers, Trouble(w) PROVE Whole'
    BY <2>5, <2>7 DEF Trouble, NonceFails, BuildFails, RevertFails, HashFails, Crash, Finish
  <2>8. ts' = ts => Whole'
    BY DEF Shape, Whole
  <2> QED
    BY <2>6, <2>7, <2>8 DEF JobNext, Mine, Around, run, vars
<1>2. PoolOK'
  <2>1. ASSUME NEW c \in EvmChains, Mine(c) PROVE PoolOK'
    BY <1>0, <2>1, MineRefunds DEF Shape
  <2>2. ASSUME NEW w \in Workers, SendEvm(w) PROVE PoolOK'
    <3>1. PICK t \in ts[w] :
              /\ ChainOf[t] \in EvmChains
              /\ paid' = paid
              /\ \/ PoolTakes(ChainOf[t], nonce[w][ChainOf[t]], t)
                 \/ pool' = pool
      BY <2>2, SendEvmCases
    <3>2. t \in Txs /\ nonce[w][ChainOf[t]] \in Nat
      BY <3>1 DEF Shape, TypeOK
    <3>3. CASE pool' = pool
      BY <3>3 DEF Shape, PoolOK
    <3> QED
      BY <1>0, <3>1, <3>2, <3>3, PoolTakesRefunds DEF Shape
  <2>3. pool' = pool => PoolOK'
    BY DEF Shape, PoolOK
  <2>4. ASSUME NEW w \in Workers, Step(w) PROVE PoolOK'
    BY <2>2, <2>3, <2>4
       DEF Step, List, ReadNonce, NextSingle, NextCkb, NextDoge, TakeUp, EndRun, Mark, SendPlain,
           Revert, WriteHash, node
  <2>5. ASSUME NEW w \in Workers, Trouble(w) PROVE PoolOK'
    BY <2>3, <2>5 DEF Trouble, NonceFails, BuildFails, RevertFails, HashFails, Crash, node
  <2> QED
    BY <2>1, <2>3, <2>4, <2>5 DEF JobNext, Around, node, vars
<1>3. RefundsConfirmed'
  <2>1. pays' = pays => RefundsConfirmed'
    BY DEF Shape, RefundsConfirmed
  <2>2. ASSUME NEW w \in Workers, Mark(w) \/ Revert(w) PROVE RefundsConfirmed'
    <3>1. ts[w] \in SUBSET Txs
      BY DEF Shape, TypeOK
    <3> QED
      BY <2>2, <3>1, UpdateRefund DEF Mark, Revert, Shape, TypeOK
  <2>4. ASSUME NEW w \in Workers, SendEvm(w) PROVE RefundsConfirmed'
    BY <2>1, <2>4, SendEvmCases DEF tables
  <2>5. ASSUME NEW w \in Workers, Step(w) PROVE RefundsConfirmed'
    BY <2>1, <2>2, <2>4, <2>5
       DEF Step, List, ReadNonce, NextSingle, NextCkb, NextDoge, TakeUp, EndRun, SendPlain,
           WriteHash, tables
  <2>6. ASSUME NEW w \in Workers, Trouble(w) PROVE RefundsConfirmed'
    BY <2>1, <2>6 DEF Trouble, NonceFails, BuildFails, RevertFails, HashFails, Crash, tables
  <2> QED
    BY <2>1, <2>5, <2>6 DEF JobNext, Around, Mine, vars, tables
<1> QED
  BY <1>0, <1>1, <1>2, <1>3 DEF Shape

-----------------------------------------------------------------------------
\* Who holds which payment.

\* A step that changes no refund status and no refund, and that takes payments
\* out of a run's hands only by counting them as dropped.
Quiet ==
    /\ \A t \in Txs : pays'[t].refund = pays[t].refund /\ Refunds(t)' = Refunds(t)
    /\ risky' = risky /\ replaced' = replaced /\ dropped \subseteq dropped'
    /\ \A w \in Workers :
          \/ ~Hot(w)' /\ (Hot(w) => ts[w] \subseteq dropped')
          \/ Hot(w)' /\ pc'[w] = pc[w] /\ ts'[w] = ts[w]

LEMMA QuietHolds ==
    ASSUME Shape, Held, Shape', Quiet
    PROVE  Held'
<1>1. ts \in [Workers -> SUBSET Txs]
  BY DEF Shape, TypeOK
<1>2. \A w \in Workers : Hot(w)' => Hot(w) /\ pc'[w] = pc[w] /\ ts'[w] = ts[w]
  BY DEF Quiet, Hot
<1>3. MarkHeld'
  BY <1>1, <1>2 DEF Held, MarkHeld, Quiet
<1>4. OneHolder'
  BY <1>1, <1>2 DEF Held, OneHolder, Quiet
<1>5. Unsent'
  <2>1. \A w \in Workers : pc'[w] = "send" => Hot(w)'
    BY DEF Hot
  <2> QED
    BY <1>1, <1>2, <2>1 DEF Held, Unsent, Quiet
<1>6. SentStaysMarked' /\ DoubleOnlyIfRisky'
  BY DEF Held, SentStaysMarked, DoubleOnlyIfRisky, Quiet
<1>7. NothingLost'
  <2> SUFFICES ASSUME NEW t \in Txs, pays'[t].refund = TxStatusOk, Refunds(t)' = 0
               PROVE  InHand(t)' \/ t \in dropped' \cup replaced'
    BY DEF NothingLost
  <2>1. InHand(t) \/ t \in dropped \cup replaced
    BY DEF Held, NothingLost, Quiet
  <2>2. ASSUME NEW w \in Workers, t \in ts[w], Hot(w)
        PROVE  InHand(t)' \/ t \in dropped'
    BY <2>2 DEF Quiet, Hot, InHand
  <2> QED
    BY <2>1, <2>2 DEF Quiet, InHand, Hot
<1> QED
  BY <1>3, <1>4, <1>5, <1>6, <1>7 DEF Held

\* Marking: what was not Sending is risky, the rest is Ok and not out.
LEMMA MarkHolds ==
    ASSUME Shape, Held, Shape', NEW w \in Workers, Mark(w)
    PROVE  Held'
<1>1. /\ ts \in [Workers -> SUBSET Txs]
      /\ \A t \in Txs : Refunds(t) \in Nat /\ Refunds(t)' = Refunds(t)
  BY RefundsCount, RefundsSame DEF Shape, TypeOK, Mark, node
<1>2. /\ ts' = ts /\ pc[w] = "mark" /\ pc'[w] = "send"
      /\ \A v \in Workers \ {w} : pc'[v] = pc[v]
      /\ risky' = risky \cup {t \in ts[w] : pays[t].refund # TxStatusSending}
      /\ dropped' = dropped /\ replaced' = replaced
  BY DEF Mark, Shape, TypeOK
<1>3. \A t \in Txs : pays'[t].refund = IF t \in ts[w] /\ pays[t].refund = TxStatusSending
                                       THEN TxStatusOk ELSE pays[t].refund
  <2>1. /\ TablesType /\ RefundsConfirmed /\ ts[w] \in SUBSET Txs
        /\ UpdateRefundStatus(ts[w], TxStatusSending, TxStatusOk)
    BY <1>1 DEF Mark, Shape, TypeOK
  <2> QED
    BY <2>1, UpdateRefund
<1>4. ~Hot(w) /\ \A v \in Workers \ {w} : Hot(v)' <=> Hot(v)
  BY <1>2 DEF Hot
<1>5. \A t \in ts[w] : pays[t].refund = TxStatusSending \/ t \in risky'
  BY <1>2
<1>6. MarkHeld'
  BY <1>1, <1>2, <1>3, <1>4, <1>5, StatusFacts DEF Held, MarkHeld
<1>7. OneHolder'
  <2> SUFFICES ASSUME NEW u \in Workers, NEW v \in Workers, Hot(u)', Hot(v)', u # v,
                      NEW t \in ts[u] \cap ts[v]
               PROVE  t \in risky'
    BY <1>2 DEF OneHolder
  <2>1. ASSUME NEW x \in Workers \ {w}, Hot(x), t \in ts[x], t \in ts[w] PROVE t \in risky'
    BY <1>1, <1>2, <1>5, <2>1, StatusFacts DEF Held, MarkHeld
  <2>2. CASE u # w /\ v # w
    BY <1>2, <1>4, <2>2 DEF Held, OneHolder
  <2> QED
    BY <1>4, <2>1, <2>2
<1>8. Unsent'
  <2> SUFFICES ASSUME NEW v \in Workers, pc'[v] = "send", NEW t \in ts[v]
               PROVE  Refunds(t)' = 0 \/ t \in risky'
    BY <1>2 DEF Unsent
  <2>1. CASE v = w
    BY <1>1, <1>2, <1>5, <2>1, StatusFacts DEF Held, SentStaysMarked
  <2>2. CASE v # w
    BY <1>1, <1>2, <2>2 DEF Held, Unsent
  <2> QED
    BY <2>1, <2>2
<1>9. SentStaysMarked' /\ DoubleOnlyIfRisky'
  BY <1>1, <1>2, <1>3 DEF Held, SentStaysMarked, DoubleOnlyIfRisky
<1>10. NothingLost'
  <2> SUFFICES ASSUME NEW t \in Txs, pays'[t].refund = TxStatusOk, Refunds(t)' = 0
               PROVE  InHand(t)' \/ t \in dropped' \cup replaced'
    BY DEF NothingLost
  <2>1. CASE t \in ts[w]
    BY <1>2, <2>1 DEF InHand
  <2>2. CASE t \notin ts[w]
    <3>1. InHand(t) \/ t \in dropped \cup replaced
      BY <1>1, <1>3, <2>2 DEF Held, NothingLost
    <3> QED
      BY <1>2, <2>2, <3>1 DEF InHand
  <2> QED
    BY <2>1, <2>2
<1> QED
  BY <1>6, <1>7, <1>8, <1>9, <1>10 DEF Held

\* Sending: the payments of the run, and only they, may get one refund more;
\* others may lose one, and are then replaced. SendPlain and SendEvm are both so.
SendsOut(w) ==
    /\ pc[w] = "send" /\ pc'[w] \in {"hash", "revert"} /\ ts' = ts
    /\ \A v \in Workers \ {w} : pc'[v] = pc[v]
    /\ risky' = risky /\ dropped' = dropped /\ replaced \subseteq replaced'
    /\ pays' = pays
    /\ \A t \in Txs : Refunds(t)' \in Nat
    /\ \A t \in ts[w] : /\ Refunds(t) = 0 => Refunds(t)' \in {0, 1}
                        /\ Refunds(t)' = 0 => pc'[w] = "revert"
    /\ \A t \in Txs \ ts[w] : /\ Refunds(t)' <= Refunds(t)
                              /\ Refunds(t)' = 0 /\ Refunds(t) > 0 => t \in replaced'

LEMMA SendHolds ==
    ASSUME Shape, Held, NEW w \in Workers, SendsOut(w)
    PROVE  Held'
<1>1. /\ ts \in [Workers -> SUBSET Txs]
      /\ \A t \in Txs : Refunds(t) \in Nat
  BY RefundsCount DEF Shape, TypeOK
<1>2. Hot(w) /\ \A v \in Workers : Hot(v)' => Hot(v)
  BY DEF SendsOut, Hot
<1>3. MarkHeld'
  BY <1>1, <1>2 DEF Held, MarkHeld, SendsOut
<1>4. OneHolder'
  BY <1>1, <1>2 DEF Held, OneHolder, SendsOut
<1>5. Unsent'
  <2> SUFFICES ASSUME NEW v \in Workers, pc'[v] = "send", NEW t \in ts[v], t \notin risky
               PROVE  Refunds(t)' = 0
    BY DEF Unsent, SendsOut
  <2>1. v # w /\ pc[v] = "send" /\ Hot(v)
    BY DEF SendsOut, Hot
  <2>2. t \notin ts[w]
    BY <1>2, <2>1 DEF Held, OneHolder
  <2>3. t \in Txs /\ Refunds(t) = 0
    BY <1>1, <2>1 DEF Held, Unsent
  <2>4. Refunds(t)' <= Refunds(t) /\ Refunds(t)' \in Nat
    BY <2>2, <2>3 DEF SendsOut
  <2> QED
    BY <2>3, <2>4
<1>6. SentStaysMarked'
  <2> SUFFICES ASSUME NEW t \in Txs, Refunds(t)' > 0, t \notin risky
               PROVE  pays[t].refund = TxStatusOk
    BY DEF SentStaysMarked, SendsOut
  <2>1. CASE t \in ts[w]
    BY <1>2, <2>1 DEF Held, MarkHeld
  <2>2. CASE t \notin ts[w]
    <3>1. Refunds(t) > 0
      BY <1>1, <2>2 DEF SendsOut
    <3> QED
      BY <3>1 DEF Held, SentStaysMarked
  <2> QED
    BY <2>1, <2>2
<1>7. DoubleOnlyIfRisky'
  <2> SUFFICES ASSUME NEW t \in Txs, Refunds(t)' > 1, t \notin risky
               PROVE  FALSE
    BY DEF DoubleOnlyIfRisky, SendsOut
  <2>1. CASE t \in ts[w]
    <3>1. Refunds(t) = 0
      BY <2>1 DEF Held, Unsent, SendsOut
    <3> QED
      BY <2>1, <3>1 DEF SendsOut
  <2>2. CASE t \notin ts[w]
    <3>1. Refunds(t) > 1
      BY <1>1, <2>2 DEF SendsOut
    <3> QED
      BY <3>1 DEF Held, DoubleOnlyIfRisky
  <2> QED
    BY <2>1, <2>2
<1>8. NothingLost'
  <2> SUFFICES ASSUME NEW t \in Txs, pays[t].refund = TxStatusOk, Refunds(t)' = 0,
                      t \notin dropped \cup replaced'
               PROVE  InHand(t)'
    BY DEF NothingLost, SendsOut
  <2>1. CASE t \in ts[w]
    BY <2>1 DEF SendsOut, InHand
  <2>2. CASE t \notin ts[w]
    <3>1. Refunds(t) = 0 /\ t \notin replaced
      BY <1>1, <2>2 DEF SendsOut
    <3>2. InHand(t)
      BY <3>1 DEF Held, NothingLost
    <3> QED
      BY <2>2, <3>2 DEF SendsOut, InHand
  <2> QED
    BY <2>1, <2>2
<1> QED
  BY <1>3, <1>4, <1>5, <1>6, <1>7, <1>8 DEF Held

LEMMA SendPlainSendsOut ==
    ASSUME Shape, Shape', NEW w \in Workers, SendPlain(w)
    PROVE  SendsOut(w)
<1>1. \A t \in Txs : Refunds(t) \in Nat /\ Refunds(t)' \in Nat /\ paid[t] \in Nat
  BY RefundsCount, RefundsCountNext DEF Shape, TypeOK
<1>2. pc \in [Workers -> PcStates] /\ ts \in [Workers -> SUBSET Txs]
  BY DEF Shape, TypeOK, PcStates
<1>3. ASSUME NEW t \in ts[w] PROVE Refunds(t) = paid[t] /\ Refunds(t)' = paid'[t]
  <2>1. t \in Txs /\ ChainOf[t] \notin EvmChains /\ paid[t] \in Nat /\ paid'[t] \in Nat
    BY <1>2 DEF SendPlain, Shape, TypeOK
  <2> QED
    BY <2>1 DEF Refunds
<1>4. \A t \in Txs : Pending(t)' = Pending(t)
  BY DEF SendPlain, Pending
<1>5. CASE paid' = [t \in Txs |-> paid[t] + IF t \in ts[w] THEN 1 ELSE 0]
  <2>1. \A t \in ts[w] : Refunds(t)' = Refunds(t) + 1
    BY <1>1, <1>2, <1>3, <1>5
  <2>2. \A t \in Txs \ ts[w] : paid'[t] = paid[t]
    BY <1>1, <1>5
  <2>3. \A t \in Txs \ ts[w] : Refunds(t)' = Refunds(t)
    BY <1>4, <2>2 DEF Refunds
  <2> QED
    BY <1>1, <1>2, <2>1, <2>3 DEF SendPlain, Sent, SendFailed, SendsOut, tables, past
<1>6. CASE SendFailed(w) /\ paid' = paid
  <2>1. \A t \in Txs : Refunds(t)' = Refunds(t)
    BY <1>4, <1>6 DEF Refunds
  <2> QED
    BY <1>1, <1>2, <1>6, <2>1 DEF SendPlain, SendFailed, SendsOut, tables, past
<1> QED
  BY <1>5, <1>6 DEF SendPlain

LEMMA SendEvmSendsOut ==
    ASSUME Shape, Shape', NEW w \in Workers, SendEvm(w)
    PROVE  SendsOut(w)
<1>1. PICK t \in ts[w] :
              /\ ts[w] = {t} /\ ChainOf[t] \in EvmChains
              /\ pc[w] = "send"
              /\ UNCHANGED <<tables, todo, ts, mined, paid, hashed, dropped, risky, crashes>>
              /\ \/ /\ PoolTakes(ChainOf[t], nonce[w][ChainOf[t]], t)
                    /\ Sent(w) \/ SendFailed(w)
                 \/ SendFailed(w) /\ UNCHANGED <<pool, replaced>>
  BY SendEvmCases
<1>2. \A u \in Txs : Refunds(u) \in Nat /\ Refunds(u)' \in Nat
  BY RefundsCount, RefundsCountNext DEF Shape
<1>3. pc \in [Workers -> PcStates] /\ ts \in [Workers -> SUBSET Txs]
      /\ t \in Txs /\ nonce[w][ChainOf[t]] \in Nat
  BY <1>1 DEF Shape, TypeOK, PcStates
<1>4. CASE PoolTakes(ChainOf[t], nonce[w][ChainOf[t]], t) /\ (Sent(w) \/ SendFailed(w))
  <2>1. /\ Refunds(t)' > 0
        /\ Refunds(t) = 0 => Refunds(t)' = 1
        /\ \A u \in Txs \ {t} : /\ Refunds(u)' <= Refunds(u)
                                /\ Refunds(u)' = 0 /\ Refunds(u) > 0 => u \in replaced'
    BY <1>1, <1>3, <1>4, PoolTakesRefunds DEF Shape
  <2>2. replaced \subseteq replaced'
    BY <1>4 DEF PoolTakes
  <2> QED
    BY <1>1, <1>2, <1>3, <1>4, <2>1, <2>2 DEF Sent, SendFailed, SendsOut, tables
<1>5. CASE SendFailed(w) /\ UNCHANGED <<pool, replaced>>
  <2>1. \A u \in Txs : Refunds(u)' = Refunds(u)
    BY <1>1, <1>5, RefundsSame
  <2> QED
    BY <1>1, <1>2, <1>3, <1>5, <2>1 DEF SendFailed, SendsOut, tables
<1> QED
  BY <1>1, <1>4, <1>5

\* Putting back: what is out becomes risky, the rest waits for the next list.
LEMMA RevertHolds ==
    ASSUME Shape, Held, Shape', NEW w \in Workers, Revert(w)
    PROVE  Held'
<1>1. /\ ts \in [Workers -> SUBSET Txs]
      /\ \A t \in Txs : Refunds(t) \in Nat /\ Refunds(t)' = Refunds(t)
  BY RefundsCount, RefundsSame DEF Shape, TypeOK, Revert, node
<1>2. /\ pc[w] = "revert" /\ pc'[w] = "next" /\ ts'[w] = {}
      /\ \A v \in Workers \ {w} : pc'[v] = pc[v] /\ ts'[v] = ts[v]
      /\ risky' = risky \cup {t \in ts[w] : Refunds(t) > 0}
      /\ dropped' = dropped /\ replaced' = replaced
  BY DEF Revert, Finish, Shape, TypeOK
<1>3. \A t \in Txs : pays'[t].refund = IF t \in ts[w] /\ pays[t].refund = TxStatusOk
                                       THEN TxStatusSending ELSE pays[t].refund
  <2>1. /\ TablesType /\ RefundsConfirmed /\ ts[w] \in SUBSET Txs
        /\ UpdateRefundStatus(ts[w], TxStatusOk, TxStatusSending)
    BY <1>1 DEF Revert, Shape, TypeOK
  <2> QED
    BY <2>1, UpdateRefund
<1>4. Hot(w) /\ ~Hot(w)' /\ \A v \in Workers \ {w} : Hot(v)' <=> Hot(v)
  BY <1>2 DEF Hot
<1>5. MarkHeld'
  <2> SUFFICES ASSUME NEW v \in Workers, Hot(v)', NEW t \in ts'[v], t \notin risky'
               PROVE  pays'[t].refund = TxStatusOk
    BY DEF MarkHeld
  <2>1. v # w /\ Hot(v) /\ t \in ts[v] /\ t \notin risky
    BY <1>2, <1>4
  <2>2. t \notin ts[w]
    BY <1>4, <2>1 DEF Held, OneHolder
  <2> QED
    BY <1>1, <1>3, <2>1, <2>2 DEF Held, MarkHeld
<1>6. OneHolder'
  BY <1>2, <1>4 DEF Held, OneHolder
<1>7. Unsent'
  <2> SUFFICES ASSUME NEW v \in Workers, pc'[v] = "send", NEW t \in ts'[v]
               PROVE  Refunds(t)' = 0 \/ t \in risky'
    BY DEF Unsent
  <2>1. v # w /\ pc[v] = "send" /\ t \in ts[v]
    BY <1>2
  <2> QED
    BY <1>1, <1>2, <2>1 DEF Held, Unsent
<1>8. SentStaysMarked' /\ DoubleOnlyIfRisky'
  BY <1>1, <1>2, <1>3 DEF Held, SentStaysMarked, DoubleOnlyIfRisky
<1>9. NothingLost'
  <2> SUFFICES ASSUME NEW t \in Txs, pays'[t].refund = TxStatusOk, Refunds(t)' = 0
               PROVE  InHand(t)' \/ t \in dropped' \cup replaced'
    BY DEF NothingLost
  <2>1. t \notin ts[w] /\ pays[t].refund = TxStatusOk
    BY <1>3, StatusFacts
  <2>2. InHand(t) \/ t \in dropped \cup replaced
    BY <1>1, <2>1 DEF Held, NothingLost
  <2> QED
    BY <1>2, <2>1, <2>2 DEF InHand
<1> QED
  BY <1>5, <1>6, <1>7, <1>8, <1>9 DEF Held

\* A payment put in refund was not marked, and is not.
LEMMA AroundHolds ==
    ASSUME Shape, Held, Around
    PROVE  Held'
<1>1. \A u \in Txs : Refunds(u)' = Refunds(u)
  BY RefundsSame DEF Around, node
<1>2. /\ ts' = ts /\ pc' = pc /\ risky' = risky /\ dropped' = dropped /\ replaced' = replaced
      /\ ts \in [Workers -> SUBSET Txs]
  BY DEF Around, run, past, Shape, TypeOK
<1>3. \A u \in Txs : pays'[u].refund = TxStatusOk <=> pays[u].refund = TxStatusOk
  BY StatusFacts DEF Around
<1>4. MarkHeld' /\ OneHolder'
  BY <1>2, <1>3 DEF Held, MarkHeld, OneHolder, Hot
<1>5. Unsent'
  BY <1>1, <1>2 DEF Held, Unsent
<1>6. SentStaysMarked' /\ DoubleOnlyIfRisky'
  BY <1>1, <1>2, <1>3 DEF Held, SentStaysMarked, DoubleOnlyIfRisky
<1>7. NothingLost'
  BY <1>1, <1>2, <1>3 DEF Held, NothingLost, InHand
<1> QED
  BY <1>4, <1>5, <1>6, <1>7 DEF Held

-----------------------------------------------------------------------------
\* The theorems.

LEMMA HeldStep == Shape /\ Held /\ [JobNext]_vars => Held'
<1> SUFFICES ASSUME Shape, Held, [JobNext]_vars PROVE Held'
  OBVIOUS
<1>1. Shape'
  BY ShapeStep
<1>2. pc \in [Workers -> PcStates] /\ ts \in [Workers -> SUBSET Txs]
  BY DEF Shape, TypeOK, PcStates
<1>3. ASSUME UNCHANGED <<pays, pool, paid, risky, replaced>>,
             dropped \subseteq dropped',
             \A w \in Workers :
                \/ ~Hot(w)' /\ (Hot(w) => ts[w] \subseteq dropped')
                \/ Hot(w)' /\ pc'[w] = pc[w] /\ ts'[w] = ts[w]
      PROVE  Held'
  <2>1. pays' = pays /\ \A t \in Txs : Refunds(t)' = Refunds(t)
    BY <1>3, RefundsSame
  <2>2. Quiet
    BY <1>3, <2>1 DEF Quiet
  <2> QED
    BY <1>1, <2>2, QuietHolds
<1>4. ASSUME NEW w \in Workers, UNCHANGED <<tables, pool, paid, risky, replaced>>,
             dropped \subseteq dropped', ~Hot(w)', Hot(w) => ts[w] \subseteq dropped',
             \A v \in Workers \ {w} : pc'[v] = pc[v] /\ ts'[v] = ts[v]
      PROVE  Held'
  <2>1. ASSUME NEW v \in Workers
        PROVE  \/ ~Hot(v)' /\ (Hot(v) => ts[v] \subseteq dropped')
               \/ Hot(v)' /\ pc'[v] = pc[v] /\ ts'[v] = ts[v]
    <3>1. CASE v = w
      BY <1>4, <3>1
    <3>2. CASE v # w
      BY <1>4, <3>2 DEF Hot
    <3> QED
      BY <3>1, <3>2
  <2> QED
    BY <1>3, <1>4, <2>1 DEF tables
<1>5. ASSUME NEW w \in Workers,
             \/ List(w) \/ ReadNonce(w) \/ NonceFails(w) \/ EndRun(w)
             \/ BuildFails(w) \/ WriteHash(w) \/ HashFails(w) \/ RevertFails(w) \/ Crash(w)
      PROVE  Held'
  <2>1. \/ List(w) \/ ReadNonce(w) \/ NonceFails(w) \/ EndRun(w) => Held'
    BY <1>2, <1>4 DEF List, ReadNonce, NonceFails, EndRun, Hot, node, past
  <2>2. BuildFails(w) \/ WriteHash(w) \/ HashFails(w) => Held'
    BY <1>2, <1>4 DEF BuildFails, WriteHash, HashFails, Finish, Hot, node, past
  <2>3. RevertFails(w) => Held'
    BY <1>2, <1>4 DEF RevertFails, Finish, Hot, node
  <2>4. Crash(w) => Held'
    BY <1>2, <1>4 DEF Crash, Hot, node
  <2> QED
    BY <1>5, <2>1, <2>2, <2>3, <2>4
<1>6. ASSUME NEW w \in Workers, NEW all, NEW S, NEW fits, TakeUp(w, all, S, fits)
      PROVE  Held'
  BY <1>2, <1>4, <1>6 DEF TakeUp, Hot, node, past
<1>7. ASSUME NEW w \in Workers, Step(w) PROVE Held'
  <2>1. SendPlain(w) \/ SendEvm(w) => Held'
    BY <1>1, SendPlainSendsOut, SendEvmSendsOut, SendHolds
  <2>2. Mark(w) \/ Revert(w) => Held'
    BY <1>1, MarkHolds, RevertHolds
  <2>3. (\E t \in Txs : NextSingle(w, t)) \/ NextCkb(w) \/ NextDoge(w) => Held'
    BY <1>6 DEF NextSingle, NextCkb, NextDoge
  <2> QED
    BY <1>5, <1>7, <2>1, <2>2, <2>3 DEF Step
<1>8. ASSUME NEW w \in Workers, Trouble(w) PROVE Held'
  BY <1>5, <1>8 DEF Trouble
<1>9. ASSUME NEW c \in EvmChains, Mine(c) PROVE Held'
  <2>1. \A t \in Txs : Refunds(t)' = Refunds(t)
    BY <1>1, <1>9, MineRefunds DEF Shape
  <2>2. Quiet
    BY <1>9, <2>1 DEF Mine, Quiet, Hot, tables, run, past
  <2> QED
    BY <1>1, <2>2, QuietHolds
<1>11. CASE UNCHANGED vars
  BY <1>3, <1>11 DEF vars, Hot, tables, run, node, past
<1> QED
  BY <1>7, <1>8, <1>9, <1>11, AroundHolds DEF JobNext

\* The payments of Refund's own Init are all confirmed.
AllConfirmed == \A t \in Txs : pays[t].status = OrderTxStatusConfirm

IInv == Shape /\ AllConfirmed /\ Held

LEMMA InitTables ==
    ASSUME Init
    PROVE  TablesType /\ AllConfirmed /\ \A t \in Txs : pays[t].refund = TxStatusDefault
<1>1. PICK a \in Addrs : pays = [t \in Txs |-> [order |-> OrderOf[t], addr |-> a,
                                                status |-> OrderTxStatusConfirm,
                                                refund |-> TxStatusDefault]]
  BY DEF Init
<1>2. orders \in [Orders -> Order]
  BY DEF Init, Order, TxStatus, TxStatusDefault, TxStatusSending, TxStatusOk, RegisterStatus,
         RegisterStatusApplyRegister, RegisterStatusRegistered
<1>3. pays \in [Txs -> Row]
  BY <1>1, RefundAssumption, OrdersAssumption
     DEF Row, TxStatus, TxStatusDefault, TxStatusSending, TxStatusOk, OrderTxStatus,
         OrderTxStatusDefault, OrderTxStatusConfirm
<1>4. AllConfirmed /\ \A t \in Txs : pays[t].refund = TxStatusDefault
  BY <1>1 DEF AllConfirmed
<1> QED
  BY <1>2, <1>3, <1>4 DEF TablesType

\* As all are confirmed, what Refund does around the job is what Around allows.
LEMMA NextIsJobNext ==
    ASSUME Shape, AllConfirmed, [Next]_vars
    PROVE  [JobNext]_vars /\ AllConfirmed'
<1>1. pays \in [Txs -> Row] /\ orders \in [Orders -> Order]
  BY DEF Shape, TypeOK, TablesType
<1>2. ASSUME NEW t \in Txs, NewRefund(t) PROVE Around /\ AllConfirmed'
  <2>1. pays' = [pays EXCEPT ![t] = [pays[t] EXCEPT !.refund = TxStatusSending]]
    BY <1>1, <1>2 DEF NewRefund
  <2>2. [pays[t] EXCEPT !.refund = TxStatusSending] \in Row
    BY <1>1, StatusFacts DEF Row
  <2>3. TablesType'
    BY <1>1, <1>2, <2>1, <2>2 DEF NewRefund, TablesType
  <2>4. AllConfirmed'
    BY <1>1, <2>1 DEF AllConfirmed, Row
  <2>5. \A u \in Txs : \/ pays'[u].refund = pays[u].refund
                       \/ /\ pays[u].refund = TxStatusDefault
                          /\ pays'[u].refund = TxStatusSending
    BY <1>1, <1>2, <2>1 DEF NewRefund, Row
  <2> QED
    BY <1>2, <2>3, <2>4, <2>5 DEF NewRefund, Around, AllConfirmed, RefundsConfirmed
<1>3. ASSUME NEW o \in Orders, RegisterOk(o) PROVE Around /\ AllConfirmed'
  <2>1. orders' = [orders EXCEPT ![o] = [orders[o] EXCEPT !.reg = RegisterStatusRegistered]]
    BY <1>1, <1>3 DEF RegisterOk
  <2>2. [orders[o] EXCEPT !.reg = RegisterStatusRegistered] \in Order
    BY <1>1 DEF Order, RegisterStatus, RegisterStatusRegistered
  <2>3. TablesType' /\ pays' = pays
    BY <1>1, <1>3, <2>1, <2>2 DEF RegisterOk, TablesType
  <2> QED
    BY <1>3, <2>3 DEF RegisterOk, Around, AllConfirmed, RefundsConfirmed
<1>4. ASSUME NEW w \in Workers, Mark(w) \/ Revert(w) PROVE AllConfirmed'
  <2>1. ts[w] \in SUBSET Txs
    BY DEF Shape, TypeOK
  <2> QED
    BY <1>4, <2>1, UpdateRefund DEF Mark, Revert, Shape, TypeOK, AllConfirmed
<1>5. pays' = pays => AllConfirmed'
  BY DEF AllConfirmed
<1>6. ASSUME NEW w \in Workers, Step(w) PROVE AllConfirmed'
  BY <1>4, <1>5, <1>6
     DEF Step, List, ReadNonce, NextSingle, NextCkb, NextDoge, TakeUp, EndRun, SendPlain,
         SendEvm, WriteHash, tables
<1>7. ASSUME NEW w \in Workers, Trouble(w) PROVE AllConfirmed'
  BY <1>5, <1>7 DEF Trouble, NonceFails, BuildFails, RevertFails, HashFails, Crash, tables
<1>8. AllConfirmed'
  BY <1>2, <1>3, <1>5, <1>6, <1>7 DEF Next, Mine, vars, tables
<1> QED
  BY <1>2, <1>3, <1>8 DEF Next, JobNext

\* The invariant holds of every reachable state of the job, for any number of
\* payments and of runs that overlap, however calls fail and runs end.
THEOREM RefundInvariance == Spec => []IInv
<1>1. Init => IInv
  BY InitTables, JobStarts DEF Init, IInv
<1>2. IInv /\ [Next]_vars => IInv'
  BY NextIsJobNext, ShapeStep, HeldStep DEF IInv
<1> QED
  BY <1>1, <1>2, PTL DEF Spec

\* The variables keep their types.
THEOREM RefundTypeCorrect == Spec => []TypeOK
<1>1. IInv => TypeOK
  BY DEF IInv, Shape
<1> QED
  BY <1>1, RefundInvariance, PTL

\* A refund that is out stays marked Ok unless a risky step took the mark away.
THEOREM StaysMarked == Spec => []SentStaysMarked
<1>1. IInv => SentStaysMarked
  BY DEF IInv, Held
<1> QED
  BY <1>1, RefundInvariance, PTL

\* A payment is refunded twice only after one of the two risky steps.
THEOREM DoubleIsRisky == Spec => []DoubleOnlyIfRisky
<1>1. IInv => DoubleOnlyIfRisky
  BY DEF IInv, Held
<1> QED
  BY <1>1, RefundInvariance, PTL

\* A payment marked Ok that has no refund is in some run's hands, or was dropped
\* or replaced.
THEOREM NoneLost == Spec => []NothingLost
<1>1. IInv => NothingLost
  BY DEF IInv, Held
<1> QED
  BY <1>1, RefundInvariance, PTL

-----------------------------------------------------------------------------
\* One run at a time whose sends fail only when they failed.

OneRun == (\A v, w \in Workers : v = w) /\ ~Ambiguous

\* Then nothing is risky: what the run has on its list or is about to mark is
\* still Sending, and what it puts back is not out.
Solo ==
    /\ risky = {}
    /\ \A w \in Workers :
          /\ pc[w] \in {"idle", "nonce", "next"} => ts[w] = {}
          /\ todo[w] \cap ts[w] = {}
          /\ \A t \in todo[w] : pays[t].refund = TxStatusSending
          /\ pc[w] = "mark" => \A t \in ts[w] : pays[t].refund = TxStatusSending
          /\ pc[w] = "revert" => \A t \in ts[w] : Refunds(t) = 0

LEMMA SoloStep == OneRun /\ Shape /\ Held /\ Solo /\ [JobNext]_vars => Solo'
<1> SUFFICES ASSUME OneRun, Shape, Held, Solo, [JobNext]_vars PROVE Solo'
  OBVIOUS
<1>1. Shape'
  BY ShapeStep
<1>2. /\ pc \in [Workers -> PcStates]
      /\ ts \in [Workers -> SUBSET Txs] /\ todo \in [Workers -> SUBSET Txs]
      /\ \A t \in Txs : Refunds(t) \in Nat /\ Refunds(t)' \in Nat
  BY <1>1, RefundsCount, RefundsCountNext DEF Shape, TypeOK, PcStates
<1>3. ASSUME NEW w \in Workers,
             UNCHANGED <<pays, pool, paid, risky>>, todo'[w] \subseteq todo[w],
             ts'[w] = {} \/ (ts'[w] = ts[w] /\ pc'[w] = pc[w]),
             pc'[w] \notin {"idle", "nonce", "next"} => pc'[w] = pc[w]
      PROVE  Solo'
  <2>1. \A v \in Workers : v = w
    BY DEF OneRun
  <2>2. \A t \in Txs : Refunds(t)' = Refunds(t)
    BY <1>3, RefundsSame
  <2> QED
    BY <1>2, <1>3, <2>1, <2>2 DEF Solo
<1>4. ASSUME NEW w \in Workers, List(w) PROVE Solo'
  <2>1. \A v \in Workers : v = w
    BY DEF OneRun
  <2>2. ts' = ts /\ pays' = pays /\ risky' = risky
    BY <1>4 DEF List, tables, past
  <2>3. ts[w] = {} /\ todo'[w] = NeedRefund /\ pc'[w] = "nonce"
    BY <1>2, <1>4 DEF List, Solo
  <2> QED
    BY <2>1, <2>2, <2>3 DEF Solo, NeedRefund
<1>5. ASSUME NEW w \in Workers,
             ReadNonce(w) \/ NonceFails(w) \/ EndRun(w) \/ BuildFails(w) \/ WriteHash(w)
                \/ HashFails(w) \/ RevertFails(w) \/ Crash(w)
      PROVE  Solo'
  <2>1. ReadNonce(w) \/ NonceFails(w) \/ EndRun(w) => Solo'
    <3>1. pc[w] \in {"nonce", "next"} => ts[w] = {}
      BY DEF Solo
    <3> QED
      BY <1>2, <1>3, <3>1 DEF ReadNonce, NonceFails, EndRun, tables, node, past
  <2>2. BuildFails(w) \/ WriteHash(w) \/ HashFails(w) => Solo'
    BY <1>2, <1>3 DEF BuildFails, WriteHash, HashFails, Finish, tables, node, past
  <2>3. RevertFails(w) \/ Crash(w) => Solo'
    BY <1>2, <1>3 DEF RevertFails, Crash, Finish, tables, node
  <2> QED
    BY <1>5, <2>1, <2>2, <2>3
<1>6. ASSUME NEW w \in Workers, NEW all \in SUBSET todo[w], NEW S \in SUBSET all, NEW fits,
             TakeUp(w, all, S, fits)
      PROVE  Solo'
  <2>1. \A v \in Workers : v = w
    BY DEF OneRun
  <2>2. pays' = pays /\ risky' = risky /\ todo'[w] = todo[w] \ all
    BY <1>2, <1>6 DEF TakeUp, tables, past
  <2>3. \/ ts'[w] = S /\ pc'[w] = "mark"
        \/ ts'[w] = {} /\ pc'[w] = "next"
    BY <1>2, <1>6 DEF TakeUp, Solo
  <2> QED
    BY <1>6, <2>1, <2>2, <2>3 DEF Solo
<1>7. ASSUME NEW w \in Workers, Mark(w) PROVE Solo'
  <2>1. \A v \in Workers : v = w
    BY DEF OneRun
  <2>2. ts' = ts /\ todo' = todo /\ pc[w] = "mark" /\ pc'[w] = "send" /\ risky' = {}
    BY <1>2, <1>7 DEF Mark, Solo
  <2>3. \A t \in todo[w] : pays'[t].refund = TxStatusSending
    <3>1. /\ TablesType /\ RefundsConfirmed /\ ts[w] \in SUBSET Txs
          /\ UpdateRefundStatus(ts[w], TxStatusSending, TxStatusOk)
      BY <1>2, <1>7 DEF Mark, Shape, TypeOK
    <3>2. \A t \in Txs : t \notin ts[w] => pays'[t].refund = pays[t].refund
      BY <3>1, UpdateRefund
    <3> QED
      BY <1>2, <3>2 DEF Solo
  <2> QED
    BY <2>1, <2>2, <2>3 DEF Solo
<1>8. ASSUME NEW w \in Workers, SendPlain(w) \/ SendEvm(w) PROVE Solo'
  <2>1. \A v \in Workers : v = w
    BY DEF OneRun
  <2>2. SendsOut(w) /\ todo' = todo
    BY <1>1, <1>8, SendPlainSendsOut, SendEvmSendsOut DEF SendPlain, SendEvm
  <2>3. \A t \in ts[w] : Refunds(t) = 0
    BY <2>2 DEF SendsOut, Held, Unsent, Solo
  <2>4. pc'[w] = "revert" => pool' = pool /\ paid' = paid
    BY <1>2, <1>8 DEF SendPlain, SendEvm, Sent, SendFailed, OneRun
  <2>5. pc'[w] = "revert" => \A t \in ts[w] : Refunds(t)' = 0
    BY <1>2, <2>3, <2>4, RefundsSame
  <2> QED
    BY <2>1, <2>2, <2>5 DEF SendsOut, Solo
<1>9. ASSUME NEW w \in Workers, Revert(w) PROVE Solo'
  <2>1. \A v \in Workers : v = w
    BY DEF OneRun
  <2>2. ts'[w] = {} /\ todo' = todo /\ pc[w] = "revert" /\ pc'[w] = "next"
    BY <1>2, <1>9 DEF Revert, Finish
  <2>3. risky' = {}
    BY <1>9, <2>2 DEF Revert, Solo
  <2>4. \A t \in todo[w] : pays'[t].refund = TxStatusSending
    <3>1. /\ TablesType /\ RefundsConfirmed /\ ts[w] \in SUBSET Txs
          /\ UpdateRefundStatus(ts[w], TxStatusOk, TxStatusSending)
      BY <1>2, <1>9 DEF Revert, Shape, TypeOK
    <3>2. \A t \in Txs : t \notin ts[w] => pays'[t].refund = pays[t].refund
      BY <3>1, UpdateRefund
    <3> QED
      BY <1>2, <3>2 DEF Solo
  <2> QED
    BY <2>1, <2>2, <2>3, <2>4 DEF Solo
<1>10. ASSUME UNCHANGED <<pc, todo, ts, risky>>, \A t \in Txs : Refunds(t)' = Refunds(t),
              \A t \in Txs : pays[t].refund = TxStatusSending => pays'[t].refund = TxStatusSending
       PROVE  Solo'
  BY <1>2, <1>10 DEF Solo
<1>11. ASSUME NEW c \in EvmChains, Mine(c) PROVE Solo'
  <2>1. \A t \in Txs : Refunds(t)' = Refunds(t)
    BY <1>1, <1>11, MineRefunds DEF Shape
  <2> QED
    BY <1>10, <1>11, <2>1 DEF Mine, tables, run, past
<1>12. CASE Around
  <2>1. \A u \in Txs : pays[u].refund = TxStatusSending => pays'[u].refund = TxStatusSending
    BY <1>12 DEF Around
  <2> QED
    BY <1>10, <1>12, <2>1, RefundsSame DEF Around, run, node, past
<1>14. CASE UNCHANGED vars
  BY <1>10, <1>14, RefundsSame DEF vars, tables, run, node, past
<1>15. ASSUME NEW w \in Workers, Step(w) PROVE Solo'
  <2>1. ASSUME NEW t \in Txs, NextSingle(w, t) PROVE Solo'
    BY <1>6, <2>1 DEF NextSingle, Singles
  <2>2. NextCkb(w) => Solo'
    BY <1>6 DEF NextCkb
  <2>3. NextDoge(w) => Solo'
    BY <1>6 DEF NextDoge, DogeBatch
  <2> QED
    BY <1>4, <1>5, <1>7, <1>8, <1>9, <1>15, <2>1, <2>2, <2>3 DEF Step
<1>16. ASSUME NEW w \in Workers, Trouble(w) PROVE Solo'
  BY <1>5, <1>16 DEF Trouble
<1> QED
  BY <1>11, <1>12, <1>14, <1>15, <1>16 DEF JobNext

\* With one run at a time and sends that fail only when they failed, no payment
\* is ever refunded twice, however calls fail, runs end and nonces go stale.
THEOREM NeverTwice == OneRun /\ Spec => []NoDoubleRefund
<1> SUFFICES ASSUME OneRun PROVE Spec => []NoDoubleRefund
  OBVIOUS
<1>1. Init => Solo
  BY DEF Init, JobInit, Solo
<1>2. IInv /\ Solo /\ [Next]_vars => Solo'
  BY NextIsJobNext, SoloStep DEF IInv
<1>3. Shape /\ Held /\ Solo => NoDoubleRefund
  <2> SUFFICES ASSUME Shape, Held, Solo, NEW t \in Txs PROVE Refunds(t) <= 1
    BY DEF NoDoubleRefund
  <2> QED
    BY RefundsCount DEF Shape, Held, DoubleOnlyIfRisky, Solo
<1>4. IInv => Shape /\ Held
  BY DEF IInv
<1> QED
  BY <1>1, <1>2, <1>3, <1>4, RefundInvariance, PTL DEF Spec

-----------------------------------------------------------------------------
\* What the job changes of the tables and of what is out, for those who compose
\* it with the parsers.

\* A step of a run changes the marks of the payments in hand, or sends, or
\* neither.
LEMMA JobEffect ==
    ASSUME NEW w \in Workers, Step(w) \/ Trouble(w)
    PROVE  \/ UNCHANGED <<tables, pool, paid>>
           \/ /\ UNCHANGED <<orders, pool, paid>>
              /\ \E old, new \in {TxStatusSending, TxStatusOk} :
                    UpdateRefundStatus(ts[w], old, new)
           \/ (SendPlain(w) \/ SendEvm(w)) /\ UNCHANGED tables
<1>1. CASE Step(w)
  <2>1. Mark(w) \/ Revert(w) =>
           /\ UNCHANGED <<orders, pool, paid>>
           /\ \E old, new \in {TxStatusSending, TxStatusOk} :
                 UpdateRefundStatus(ts[w], old, new)
    BY DEF Mark, Revert, node
  <2>2. SendPlain(w) \/ SendEvm(w) => UNCHANGED tables
    BY DEF SendPlain, SendEvm
  <2>3. \/ List(w) \/ ReadNonce(w) \/ (\E t \in Txs : NextSingle(w, t))
        \/ NextCkb(w) \/ NextDoge(w) \/ EndRun(w) \/ WriteHash(w)
        => UNCHANGED <<tables, pool, paid>>
    BY DEF List, ReadNonce, NextSingle, NextCkb, NextDoge, TakeUp, EndRun, WriteHash, node
  <2> QED
    BY <1>1, <2>1, <2>2, <2>3 DEF Step
<1>2. CASE Trouble(w)
  BY <1>2 DEF Trouble, NonceFails, BuildFails, RevertFails, HashFails, Crash, node
<1> QED
  BY <1>1, <1>2

\* What a run has on its list or in hand, and what is out, is in refund: nothing
\* is sent that das-pay keeps.
Owed ==
    /\ \A w \in Workers : \A t \in todo[w] \cup ts[w] : pays[t].refund # TxStatusDefault
    /\ \A t \in Txs : Refunds(t) > 0 => pays[t].refund # TxStatusDefault

\* Once in refund, always in refund.
LEMMA InRefundStays ==
    ASSUME Shape, [JobNext]_vars, NEW t \in Txs, pays[t].refund # TxStatusDefault
    PROVE  pays'[t].refund # TxStatusDefault
<1>1. ASSUME NEW w \in Workers, Step(w) \/ Trouble(w) PROVE pays'[t].refund # TxStatusDefault
  <2>1. CASE pays' = pays
    BY <2>1
  <2>2. ASSUME NEW old \in {TxStatusSending, TxStatusOk},
               NEW new \in {TxStatusSending, TxStatusOk}, UpdateRefundStatus(ts[w], old, new)
        PROVE  pays'[t].refund # TxStatusDefault
    <3>1. TablesType /\ RefundsConfirmed /\ ts[w] \in SUBSET Txs
      BY DEF Shape, TypeOK
    <3> QED
      BY <2>2, <3>1, UpdateRefund, StatusFacts
  <2> QED
    BY <1>1, <2>1, <2>2, JobEffect DEF tables
<1>2. CASE Around
  BY <1>2 DEF Around
<1> QED
  BY <1>1, <1>2 DEF JobNext, Mine, tables, vars

LEMMA OwedStep == Shape /\ Owed /\ [JobNext]_vars => Owed'
<1> SUFFICES ASSUME Shape, Owed, [JobNext]_vars PROVE Owed'
  OBVIOUS
<1>1. /\ Shape'
      /\ \A t \in Txs : pays[t].refund # TxStatusDefault => pays'[t].refund # TxStatusDefault
      /\ \A t \in Txs : Refunds(t) \in Nat
  BY ShapeStep, InRefundStays, RefundsCount DEF Shape
<1>2. /\ todo \in [Workers -> SUBSET Txs] /\ ts \in [Workers -> SUBSET Txs]
      /\ todo' \in [Workers -> SUBSET Txs] /\ ts' \in [Workers -> SUBSET Txs]
  BY <1>1 DEF Shape, TypeOK
<1>3. ASSUME NEW w \in Workers, NEW t \in todo'[w] \cup ts'[w]
      PROVE  t \in todo[w] \cup ts[w] \/ pays[t].refund # TxStatusDefault
  <2> USE <1>2
  <2> DEFINE was == t \in todo[w] \cup ts[w] \/ pays[t].refund # TxStatusDefault
  <2>1. ASSUME NEW v \in Workers, Step(v) PROVE was
    <3>1. List(v) => was
      BY DEF List, NeedRefund, TxStatusSending, TxStatusDefault
    <3>2. ReadNonce(v) \/ EndRun(v) \/ Mark(v) \/ SendPlain(v) \/ SendEvm(v) => was
      BY DEF ReadNonce, EndRun, Mark, SendPlain, SendEvm
    <3>3. Revert(v) \/ WriteHash(v) => was
      BY DEF Revert, WriteHash, Finish
    <3>4. ASSUME NEW all, NEW S \in SUBSET todo[v], NEW fits, TakeUp(v, all, S, fits)
          PROVE  was
      BY <3>4 DEF TakeUp
    <3>5. (\E u \in Txs : NextSingle(v, u)) \/ NextCkb(v) \/ NextDoge(v) => was
      BY <3>4 DEF NextSingle, Singles, NextCkb, NextDoge, DogeBatch
    <3> QED
      BY <2>1, <3>1, <3>2, <3>3, <3>5 DEF Step
  <2>2. ASSUME NEW v \in Workers, Trouble(v) PROVE was
    BY <2>2 DEF Trouble, NonceFails, BuildFails, RevertFails, HashFails, Crash, Finish
  <2> QED
    BY <2>1, <2>2 DEF JobNext, Mine, Around, run, vars
<1>4. ASSUME NEW t \in Txs, Refunds(t)' > 0
      PROVE  Refunds(t) > 0 \/ \E w \in Workers : t \in ts[w]
  <2>1. UNCHANGED <<pool, paid>> => Refunds(t)' = Refunds(t)
    BY RefundsSame
  <2>2. ASSUME NEW w \in Workers, SendPlain(w) \/ SendEvm(w)
        PROVE  t \notin ts[w] => Refunds(t)' <= Refunds(t)
    <3>1. SendsOut(w)
      BY <1>1, <2>2, SendPlainSendsOut, SendEvmSendsOut
    <3> QED
      BY <3>1 DEF SendsOut
  <2>3. ASSUME NEW c \in EvmChains, Mine(c) PROVE Refunds(t)' = Refunds(t)
    BY <1>1, <2>3, MineRefunds DEF Shape
  <2>4. Refunds(t)' \in Nat
    BY <1>1, RefundsCountNext DEF Shape
  <2>5. \/ Refunds(t)' = Refunds(t)
        \/ \E w \in Workers : t \notin ts[w] => Refunds(t)' <= Refunds(t)
    BY <2>1, <2>2, <2>3, JobEffect DEF JobNext, Around, node, vars
  <2> QED
    BY <1>1, <1>4, <2>4, <2>5
<1> QED
  BY <1>1, <1>2, <1>3, <1>4 DEF Owed

\* A node that takes a refund of t changes the count of nobody but t and the one
\* whose refund was pending under this nonce, and that one loses one refund.
LEMMA PoolTakesOne ==
    ASSUME TypeOK, PoolOK, NEW t \in Txs, ChainOf[t] \in EvmChains, NEW n \in Nat,
           PoolTakes(ChainOf[t], n, t), paid' = paid, NEW u \in Txs \ {t}
    PROVE  /\ (\A p \in pool[ChainOf[t]] : p[1] = n => p[2] # u) => Refunds(u)' = Refunds(u)
           /\ (\E p \in pool[ChainOf[t]] : p[1] = n /\ p[2] = u) => Refunds(u)' = Refunds(u) - 1
<1> DEFINE c == ChainOf[t]
<1>1. /\ pool'[c] = {p \in pool[c] : p[1] # n} \cup {<<n, t>>}
      /\ \A d \in EvmChains \ {c} : pool'[d] = pool[d]
  BY DEF PoolTakes, TypeOK
<1>2. ASSUME \A p \in pool[c] : p[1] = n => p[2] # u
      PROVE  Refunds(u)' = Refunds(u)
  <2>1. ChainOf[u] \in EvmChains => Pending(u)' = Pending(u)
    BY <1>1, <1>2 DEF Pending
  <2> QED
    BY <2>1 DEF Refunds
<1>3. ASSUME NEW q \in pool[c], q[1] = n, q[2] = u
      PROVE  Refunds(u)' = Refunds(u) - 1
  <2>1. ChainOf[u] = c
    BY <1>3 DEF PoolOK
  <2>2. q \in Pending(u) /\ Pending(u)' = Pending(u) \ {q}
    BY <1>1, <1>3, <2>1 DEF Pending, PoolOK
  <2>3. IsFiniteSet(Pending(u)) /\ Cardinality(Pending(u)) \in Nat
    BY <2>1, RefundsCount
  <2>4. Cardinality(Pending(u)') = Cardinality(Pending(u)) - 1
    BY <2>2, <2>3, FS_RemoveElement
  <2>5. /\ Refunds(u) = paid[u] + Cardinality(Pending(u))
        /\ Refunds(u)' = paid[u] + Cardinality(Pending(u)')
        /\ paid[u] \in Nat
    BY <2>1 DEF Refunds, TypeOK
  <2> QED
    BY <2>3, <2>4, <2>5
<1> QED
  BY <1>2, <1>3

\* With one run at a time, sending is the first refund of payments in hand, at
\* most in place of one other that was pending.
SendsFirst(w) ==
    \/ \A t \in Txs : Refunds(t)' = Refunds(t)
    \/ \E S \in SUBSET ts[w] :
          /\ \A t \in S : Refunds(t) = 0
          /\ \A t \in Txs : Refunds(t)' = IF t \in S THEN 1 ELSE Refunds(t)
    \/ \E t \in ts[w], u \in Txs :
          /\ u # t /\ Refunds(t) = 0 /\ Refunds(t)' = 1 /\ Refunds(u)' = 0
          /\ \A v \in Txs \ {t, u} : Refunds(v)' = Refunds(v)

LEMMA SendIsFirst ==
    ASSUME OneRun, Shape, Held, Solo, Shape', NEW w \in Workers, SendPlain(w) \/ SendEvm(w)
    PROVE  SendsFirst(w)
<1>1. /\ ts \in [Workers -> SUBSET Txs]
      /\ \A t \in Txs : Refunds(t) \in Nat /\ Refunds(t)' \in Nat /\ Refunds(t) <= 1
  BY RefundsCount, RefundsCountNext DEF Shape, TypeOK, Held, DoubleOnlyIfRisky, Solo
<1>2. \A t \in ts[w] : Refunds(t) = 0
  BY DEF SendPlain, SendEvm, Held, Unsent, Solo
<1>3. CASE SendPlain(w)
  <2>1. CASE paid' = [t \in Txs |-> paid[t] + IF t \in ts[w] THEN 1 ELSE 0]
    <3>1. ASSUME NEW t \in ts[w] PROVE Refunds(t)' = 1
      <4>1. t \in Txs /\ ChainOf[t] \notin EvmChains /\ paid[t] \in Nat
        BY <1>1, <1>3 DEF SendPlain, Shape, TypeOK
      <4>2. Refunds(t) = paid[t] /\ Refunds(t)' = paid'[t]
        BY <4>1, <1>1 DEF Refunds, Shape, TypeOK
      <4>3. paid'[t] = paid[t] + 1
        BY <2>1, <4>1
      <4> QED
        BY <1>2, <4>1, <4>2, <4>3
    <3>2. ASSUME NEW t \in Txs \ ts[w] PROVE Refunds(t)' = Refunds(t)
      <4>1. paid'[t] = paid[t]
        BY <2>1 DEF Shape, TypeOK
      <4>2. Pending(t)' = Pending(t)
        BY <1>3 DEF SendPlain, Pending
      <4> QED
        BY <4>1, <4>2 DEF Refunds
    <3> QED
      BY <1>1, <1>2, <3>1, <3>2 DEF SendsFirst
  <2>2. CASE paid' = paid
    <3>1. \A t \in Txs : Refunds(t)' = Refunds(t)
      BY <1>3, <2>2, RefundsSame DEF SendPlain
    <3> QED
      BY <3>1 DEF SendsFirst
  <2> QED
    BY <1>3, <2>1, <2>2 DEF SendPlain
<1>4. CASE SendEvm(w)
  <2>1. PICK t \in ts[w] :
              /\ ts[w] = {t} /\ ChainOf[t] \in EvmChains
              /\ paid' = paid
              /\ \/ PoolTakes(ChainOf[t], nonce[w][ChainOf[t]], t)
                 \/ pool' = pool
    BY <1>4, SendEvmCases
  <2> DEFINE c == ChainOf[t]
             n == nonce[w][c]
  <2>2. t \in Txs /\ n \in Nat
    BY <1>1, <2>1 DEF Shape, TypeOK
  <2>3. CASE pool' = pool
    <3>1. \A u \in Txs : Refunds(u)' = Refunds(u)
      BY <2>1, <2>3, RefundsSame
    <3> QED
      BY <3>1 DEF SendsFirst
  <2>4. CASE PoolTakes(c, n, t)
    <3> HIDE DEF n
    <3>1. Refunds(t) = 0 /\ Refunds(t)' = 1
      BY <1>2, <2>1, <2>2, <2>4, PoolTakesRefunds DEF Shape
    <3>2. CASE \A p \in pool[c] : p[1] # n
      <4>1. \A u \in Txs \ {t} : Refunds(u)' = Refunds(u)
        BY <2>1, <2>2, <2>4, <3>2, PoolTakesOne DEF Shape
      <4>2. \A u \in Txs : Refunds(u)' = IF u \in {t} THEN 1 ELSE Refunds(u)
        BY <3>1, <4>1
      <4> QED
        BY <2>1, <3>1, <4>2 DEF SendsFirst
    <3>3. ASSUME NEW q \in pool[c], q[1] = n PROVE SendsFirst(w)
      <4> DEFINE u == q[2]
      <4>1. u \in Txs
        BY <2>1 DEF Shape, TypeOK
      <4>2. u # t
        <5>1. q \notin Pending(t)
          BY <2>1, <2>2, <3>1, RefundsCount DEF Shape
        <5> QED
          BY <5>1 DEF Pending
      <4>3. Refunds(u)' = Refunds(u) - 1
        BY <2>1, <2>2, <2>4, <3>3, <4>1, <4>2, PoolTakesOne DEF Shape
      <4>4. Refunds(u)' = 0
        BY <1>1, <4>1, <4>3
      <4>5. \A v \in Txs \ {t, u} : \A p \in pool[c] : p[1] = n => p[2] # v
        BY <2>1, <3>3 DEF Shape, PoolOK
      <4>6. \A v \in Txs \ {t, u} : Refunds(v)' = Refunds(v)
        BY <2>1, <2>2, <2>4, <4>5, PoolTakesOne DEF Shape
      <4> HIDE DEF u
      <4> QED
        BY <2>1, <3>1, <4>1, <4>2, <4>4, <4>6 DEF SendsFirst
    <3> QED
      BY <3>2, <3>3
  <2> QED
    BY <2>1, <2>3, <2>4
<1> QED
  BY <1>3, <1>4

=============================================================================
