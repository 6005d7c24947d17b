--------------------------- MODULE DasTimerProofs ---------------------------
(***************************************************************************)
(* What holds of the hedge job for every set of orders, tokens and prices, *)
(* and however often calls fail and the process is stopped.                *)
(***************************************************************************)
EXTENDS DasTimer, TLAPS

HedgeStatus == {TxStatusDefault, TxStatusSending, TxStatusOk}

Types ==
    /\ hedge \in [Orders -> HedgeStatus]
    /\ posted \in [Orders -> Nat]
    /\ todo \subseteq Orders /\ lost \subseteq Orders
    /\ hand \in Orders \cup {None}

\* The order in hand is marked, and until its POST is over not posted.
HandMarked ==
    /\ hand # None => pc \in {"post", "hung"} /\ hedge[hand] = TxStatusOk
    /\ pc = "post" => hand # None /\ posted[hand] = 0

\* An order still to do waits; one that was posted is marked.
TodoWaits == \A o \in todo : hedge[o] = TxStatusSending
PostedMarked == \A o \in Orders : posted[o] # 0 => hedge[o] = TxStatusOk

\* The inductive invariant: that a POST goes out once rests on the mark being
\* there before it, and on the list holding nothing that is marked.
IInv ==
    /\ Types
    /\ HandMarked
    /\ TodoWaits
    /\ PostedMarked
    /\ HedgedOnce
    /\ HedgeLostOnlyByFailure

LEMMA InitIInv == Init => IInv
BY TimerAssumption
   DEF Init, IInv, Types, HandMarked, TodoWaits, PostedMarked, HedgedOnce,
       HedgeLostOnlyByFailure, HedgeStatus, TxStatusDefault, TxStatusSending, TxStatusOk

-----------------------------------------------------------------------------
\* Steps that leave the orders and the run of the job as they are, and do not
\* take the goroutine from or to a POST.
LEMMA QuietStep ==
    ASSUME IInv, UNCHANGED <<hedge, todo, hand, posted, lost>>,
           pc' = pc \/ (pc' # "post" /\ hand = None)
    PROVE  IInv'
BY DEF IInv, Types, HandMarked, TodoWaits, PostedMarked, HedgedOnce, HedgeLostOnlyByFailure

\* The job marks the next order.
LEMMA NextOrderIInv ==
    ASSUME IInv, NEW o \in Orders, NextOrder(o)
    PROVE  IInv'
<1> USE TimerAssumption DEF IInv
<1>1. pc = "next" /\ o \in todo /\ hand = None /\ hedge[o] = TxStatusSending /\ posted[o] = 0
  BY DEF NextOrder, HandMarked, TodoWaits, PostedMarked, Types, TxStatusSending, TxStatusOk
<1>2. UNCHANGED <<posted, lost>>
  BY DEF NextOrder
<1>3. CASE EndHedge
  BY <1>1, <1>2, <1>3
     DEF EndHedge, Types, HandMarked, TodoWaits, PostedMarked, HedgedOnce, HedgeLostOnlyByFailure
<1>4. CASE /\ UpdateHedgeStatus(o)
           /\ todo' = todo \ {o}
           /\ IF TokenOf[o] = Coupon THEN UNCHANGED <<hand, pc>> ELSE hand' = o /\ pc' = "post"
  <2>1. /\ hedge' \in [Orders -> HedgeStatus]
        /\ hedge'[o] = TxStatusOk
        /\ \A p \in Orders \ {o} : hedge'[p] = hedge[p]
    BY <1>1, <1>4 DEF UpdateHedgeStatus, Types, HedgeStatus
  <2>2. Types' /\ TodoWaits' /\ PostedMarked' /\ HedgedOnce'
    BY <1>1, <1>2, <1>4, <2>1 DEF Types, TodoWaits, PostedMarked, HedgedOnce
  <2>3. HandMarked'
    BY <1>1, <1>2, <1>4, <2>1 DEF HandMarked
  <2>4. HedgeLostOnlyByFailure'
    BY <1>1, <1>2, <1>4, <2>1 DEF HedgeLostOnlyByFailure, NeedsPost, Coupon
  <2> QED
    BY <2>2, <2>3, <2>4
<1> QED
  BY <1>3, <1>4 DEF NextOrder

\* The POST: taken, failed, or hanging.
LEMMA DoHedgeIInv ==
    ASSUME IInv, DoHedge
    PROVE  IInv'
<1> USE TimerAssumption DEF IInv
<1>1. hand \in Orders /\ posted[hand] = 0 /\ hedge[hand] = TxStatusOk /\ pc = "post"
  BY DEF DoHedge, HandMarked, Types
<1>2. pc' = "next" /\ hand' = None /\ UNCHANGED <<hedge, todo>>
  BY DEF DoHedge
<1>3. CASE posted' = [posted EXCEPT ![hand] = @ + 1] /\ UNCHANGED lost
  BY <1>1, <1>2, <1>3
     DEF Types, HandMarked, TodoWaits, PostedMarked, HedgedOnce, HedgeLostOnlyByFailure
<1>4. CASE UNCHANGED posted /\ (lost' = lost \cup {hand} \/ (UNCHANGED lost /\ ~NeedsPost(hand)))
  BY <1>1, <1>2, <1>4
     DEF Types, HandMarked, TodoWaits, PostedMarked, HedgedOnce, HedgeLostOnlyByFailure
<1> QED
  BY <1>3, <1>4 DEF DoHedge

LEMMA HangIInv ==
    ASSUME IInv, Hang
    PROVE  IInv'
<1> USE TimerAssumption DEF IInv
<1>1. pc' = "hung" /\ UNCHANGED <<hedge, todo, hand, lost>>
  BY DEF Hang
<1>2. CASE UNCHANGED posted
  BY <1>1, <1>2
     DEF Hang, Types, HandMarked, TodoWaits, PostedMarked, HedgedOnce, HedgeLostOnlyByFailure
<1>3. CASE pc = "post" /\ posted' = [posted EXCEPT ![hand] = @ + 1]
  <2>1. hand \in Orders /\ posted[hand] = 0 /\ hedge[hand] = TxStatusOk
    BY <1>3 DEF HandMarked, Types
  <2> QED
    BY <1>1, <1>3, <2>1
       DEF Types, HandMarked, TodoWaits, PostedMarked, HedgedOnce, HedgeLostOnlyByFailure
<1> QED
  BY <1>2, <1>3 DEF Hang

\* A kill forgets the order in hand, and das-pay never hears of it again.
LEMMA KillIInv ==
    ASSUME IInv, Kill
    PROVE  IInv'
<1> USE TimerAssumption DEF IInv
<1>1. /\ pc' = "down" /\ todo' = {} /\ hand' = None /\ UNCHANGED <<hedge, posted>>
      /\ lost' = lost \cup {o \in {hand} \ {None} : NeedsPost(o) /\ posted[o] = 0}
  BY DEF Kill
<1>2. Types' /\ HandMarked' /\ TodoWaits' /\ PostedMarked' /\ HedgedOnce'
  BY <1>1 DEF Types, HandMarked, TodoWaits, PostedMarked, HedgedOnce
<1>3. HedgeLostOnlyByFailure'
  BY <1>1 DEF HedgeLostOnlyByFailure, NeedsPost
<1> QED
  BY <1>2, <1>3

LEMMA NextIInv == IInv /\ [Next]_vars => IInv'
<1> SUFFICES ASSUME IInv, [Next]_vars PROVE IInv'
  OBVIOUS
<1> USE TimerAssumption
<1>1. pc \notin {"post", "hung"} => hand = None
  BY DEF IInv, HandMarked
<1>2. CASE Start \/ Cancel \/ SelectDone
  BY <1>1, <1>2, QuietStep DEF Start, Cancel, SelectDone
<1>3. CASE Kill
  BY <1>3, KillIInv
<1>4. ASSUME NEW j \in Jobs, Tick(j) PROVE IInv'
  BY <1>4, QuietStep DEF Tick
<1>5. CASE SelectHedge \/ SelectToken \/ SelectReport \/ EndReport
  BY <1>1, <1>5, QuietStep DEF SelectHedge, SelectToken, SelectReport, EndReport, Take
<1>6. CASE ListHedge \/ LastOrder
  BY <1>1, <1>6
     DEF ListHedge, LastOrder, EndHedge, Waiting, IInv, Types, HandMarked, TodoWaits,
         PostedMarked, HedgedOnce, HedgeLostOnlyByFailure
<1>7. ASSUME NEW o \in Orders, NextOrder(o) PROVE IInv'
  BY <1>7, NextOrderIInv
<1>8. CASE DoHedge
  BY <1>8, DoHedgeIInv
<1>9. CASE Hang
  BY <1>9, HangIInv
<1>10. ASSUME NEW o \in Orders, RequestHedge(o) PROVE IInv'
  BY <1>10
     DEF RequestHedge, IInv, Types, HandMarked, TodoWaits, PostedMarked, HedgedOnce,
         HedgeLostOnlyByFailure, HedgeStatus, TxStatusDefault, TxStatusSending, TxStatusOk
<1>11. ASSUME NEW t \in Prices, ChangePrice(t) PROVE IInv'
  BY <1>11, QuietStep DEF ChangePrice
<1>12. CASE UNCHANGED vars
  BY <1>12, QuietStep DEF vars
<1> QED
  BY <1>2, <1>3, <1>4, <1>5, <1>6, <1>7, <1>8, <1>9, <1>10, <1>11, <1>12 DEF Next, Job

\* The invariant holds in every reachable state.
THEOREM TimerInvariance == Spec => []IInv
BY InitIInv, NextIInv, PTL DEF Spec

\* timer/hedge.go: no order is posted to the hedge service twice.
THEOREM PostedOnce == Spec => []HedgedOnce
<1>1. IInv => HedgedOnce
  BY DEF IInv
<1> QED
  BY <1>1, TimerInvariance, PTL

\* timer/hedge.go: a marked order without its POST is in hand, or its POST
\* failed, or the process was killed before it; a stop by signal loses none.
THEOREM LostOnlyByFailure == Spec => []HedgeLostOnlyByFailure
<1>1. IInv => HedgeLostOnlyByFailure
  BY DEF IInv
<1> QED
  BY <1>1, TimerInvariance, PTL

=============================================================================
