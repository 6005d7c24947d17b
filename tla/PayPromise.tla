----------------------------- MODULE PayPromise -----------------------------
(***************************************************************************)
(* What das-pay promises about the payments of orders, whatever the chain: *)
(* an order keeps one payment at most, each other one is owed back to its  *)
(* payer for good, and is sent back at most once.                          *)
(*                                                                         *)
(* How a payment is matched to its order, in which table it is kept, and   *)
(* when it is listed, marked and sent are left to PayMatch and Refund,     *)
(* which implement this specification.                                     *)
(***************************************************************************)
EXTENDS Naturals

CONSTANTS Orders, Txs, None

VARIABLES
    paid,   \* orders that count as paid
    filed,  \* payment -> the order it is on the books of, or None
    kept,   \* payments das-pay keeps
    owed,   \* payments it owes back, sent back or not
    sent    \* payment -> how often it is sent back

vars == <<paid, filed, kept, owed, sent>>

Of(o) == {t \in Txs : filed[t] = o}

Init ==
    /\ paid = {}
    /\ filed = [t \in Txs |-> None]
    /\ kept = {} /\ owed = {}
    /\ sent = [t \in Txs |-> 0]

\* a payment is announced for an order; that earns the order nothing
File(o, t) ==
    /\ filed[t] = None
    /\ filed' = [filed EXCEPT ![t] = o]
    /\ UNCHANGED <<paid, kept, owed, sent>>

\* a payment arrives: the order keeps it, and owes back the one kept before
Accept(o, t) ==
    /\ filed[t] \in {None, o}
    /\ t \notin owed
    /\ paid' = paid \cup {o}
    /\ filed' = [filed EXCEPT ![t] = o]
    /\ kept' = (kept \ Of(o)) \cup {t}
    /\ owed' = owed \cup ((kept \cap Of(o)) \ {t})
    /\ UNCHANGED sent

\* what arrives is owed back already, or on the books of another order: the
\* order counts as paid and owes back what it kept, without keeping anything
Displace(o, t) ==
    /\ filed[t] # None /\ (filed[t] = o => t \in owed)
    /\ paid' = paid \cup {o}
    /\ kept' = kept \ Of(o)
    /\ owed' = owed \cup (kept \cap Of(o))
    /\ UNCHANGED <<filed, sent>>

\* payments owed back are sent, each for the first time
SendBack(S) ==
    /\ S \subseteq owed
    /\ \A t \in S : sent[t] = 0
    /\ sent' = [t \in Txs |-> IF t \in S THEN 1 ELSE sent[t]]
    /\ UNCHANGED <<paid, filed, kept, owed>>

\* ... and the refund of u, still pending, gives way to that of t
Supplant(t, u) ==
    /\ t \in owed /\ sent[t] = 0
    /\ sent' = [sent EXCEPT ![t] = 1, ![u] = 0]
    /\ UNCHANGED <<paid, filed, kept, owed>>

Next ==
    \/ \E o \in Orders, t \in Txs : File(o, t) \/ Accept(o, t) \/ Displace(o, t)
    \/ \E S \in SUBSET Txs : SendBack(S)
    \/ \E t, u \in Txs : Supplant(t, u)

Spec == Init /\ [][Next]_vars

=============================================================================
