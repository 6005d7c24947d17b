------------------------------ MODULE DasTimer ------------------------------
(***************************************************************************)
(* The timer loop of das_pay_server (timer/timer.go, Run) and the job in   *)
(* it that writes, the hedge of paid orders (timer/hedge.go), with the     *)
(* token prices both share (timer/token.go).                               *)
(*                                                                         *)
(* One goroutine runs every job: a ticker holds one tick until the loop    *)
(* selects it, and the loop sees that it is to stop only between two jobs. *)
(* The jobs that report (das_info, rejected, normal_cell, node) write no   *)
(* table, so here they only take their time, "report" standing for all.    *)
(***************************************************************************)
EXTENDS Naturals

CONSTANTS
    Orders,      \* orders of order_type Self
    TokenOf,     \* order -> pay_token_id
    Prices,      \* tokens the price table may have a price for
    None,        \* no order
    HedgeUrl,    \* config hedge_url is set
    MaxFaults, MaxStops, MaxPrices  \* bounds: failing calls, stops and kills,
                                    \* changes of the price table

Coupon    == "coupon"                                 \* tables.TokenCoupon
CkbTokens == {"ckb_ckb", "ckb_das", "ckb_internal"}  \* TokenIdCkb, Das, CkbInternal

ASSUME TimerAssumption ==
    /\ HedgeUrl \in BOOLEAN
    /\ None \notin Orders
    /\ {MaxFaults, MaxStops, MaxPrices} \subseteq Nat

VARIABLES
    hedge,     \* order -> hedge_status
    price,     \* t_token_price_info: tokens with a price above zero
    mapToken,  \* the copy of it in memory
    ticks,     \* tickers with a tick waiting
    pc,        \* where the goroutine is; "down": no process, "hung": in a call
               \* that does not return
    todo,      \* the orders listed and not yet done
    hand,      \* the order marked and not yet posted, or None
    done,      \* ctx is done
    posted,    \* order -> how often the hedge service took its POST (history)
    lost,      \* marked orders whose POST failed or was cut off (history)
    faults, stops, changes

vars == <<hedge, price, mapToken, ticks, pc, todo, hand, done, posted, lost,
          faults, stops, changes>>

Jobs == {"hedge", "token", "report"}

TxStatusDefault == 0
TxStatusSending == 1
TxStatusOk      == 2

Waiting == {o \in Orders : hedge[o] = TxStatusSending}

\* a call fails; without a fault it went well
Fault == faults < MaxFaults /\ faults' = faults + 1

-----------------------------------------------------------------------------
\* Start and stop

\* Run: without prices it fails, and the process with it
Start ==
    /\ pc = "down"
    /\ \/ mapToken' = price /\ pc' = "select" /\ UNCHANGED faults
       \/ Fault /\ UNCHANGED <<mapToken, pc>>
    /\ ticks' = {} /\ done' = FALSE
    /\ UNCHANGED <<hedge, price, todo, hand, posted, lost, stops, changes>>

\* a signal cancels ctx
Cancel ==
    /\ pc # "down" /\ ~done
    /\ stops < MaxStops
    /\ stops' = stops + 1
    /\ done' = TRUE
    /\ UNCHANGED <<hedge, price, mapToken, ticks, pc, todo, hand, posted, lost, faults, changes>>

\* Broken variant: a job is given up as soon as ctx is done.
SelectDoneAnywhere ==
    /\ pc \notin {"down", "hung"}
    /\ done
    /\ pc' = "down"
    /\ todo' = {} /\ hand' = None
    /\ UNCHANGED <<hedge, price, mapToken, ticks, done, posted, lost, faults, stops, changes>>

\* case <-d.Ctx.Done(); the process ends with the goroutine
SelectDone ==
    /\ pc = "select"
    /\ done
    /\ pc' = "down"
    /\ UNCHANGED <<hedge, price, mapToken, ticks, todo, hand, done, posted, lost, faults, stops, changes>>

\* doHedge is for tokens that are traded
NeedsPost(o) == TokenOf[o] \notin CkbTokens \cup {Coupon}

\* the process is killed
Kill ==
    /\ pc # "down"
    /\ stops < MaxStops
    /\ stops' = stops + 1
    /\ pc' = "down"
    /\ todo' = {} /\ hand' = None
    /\ lost' = lost \cup {o \in {hand} \ {None} : NeedsPost(o) /\ posted[o] = 0}
    /\ UNCHANGED <<hedge, price, mapToken, ticks, done, posted, faults, changes>>

-----------------------------------------------------------------------------
\* The loop

\* a ticker's channel holds one tick
Tick(j) ==
    /\ pc # "down"
    /\ j \notin ticks
    /\ ticks' = ticks \cup {j}
    /\ UNCHANGED <<hedge, price, mapToken, pc, todo, hand, done, posted, lost, faults, stops, changes>>

Take(j) == pc = "select" /\ j \in ticks /\ ticks' = ticks \ {j}

SelectHedge ==
    /\ Take("hedge")
    /\ pc' = IF HedgeUrl THEN "list" ELSE "select"
    /\ UNCHANGED <<hedge, price, mapToken, todo, hand, done, posted, lost, faults, stops, changes>>

\* doUpdateTokenMap: when the table cannot be read the copy stays
SelectToken ==
    /\ Take("token")
    /\ \/ mapToken' = price /\ UNCHANGED faults
       \/ Fault /\ UNCHANGED mapToken
    /\ UNCHANGED <<hedge, price, pc, todo, hand, done, posted, lost, stops, changes>>

SelectReport ==
    /\ Take("report")
    /\ pc' = "report"
    /\ UNCHANGED <<hedge, price, mapToken, todo, hand, done, posted, lost, faults, stops, changes>>

EndReport ==
    /\ pc = "report"
    /\ pc' = "select"
    /\ UNCHANGED <<hedge, price, mapToken, ticks, todo, hand, done, posted, lost, faults, stops, changes>>

\* a call to a node, or the POST, that never returns: neither has a timeout.
\* The service may have taken the POST
Hang ==
    /\ pc = "report" \/ (pc = "post" /\ NeedsPost(hand))
    /\ Fault
    /\ pc' = "hung"
    /\ \/ UNCHANGED posted
       \/ pc = "post" /\ posted' = [posted EXCEPT ![hand] = @ + 1]
    /\ UNCHANGED <<hedge, price, mapToken, ticks, todo, hand, done, lost, stops, changes>>

-----------------------------------------------------------------------------
\* doOrderHedge

\* GetNeedHedgeOrderList
ListHedge ==
    /\ pc = "list"
    /\ \/ todo' = Waiting /\ pc' = "next" /\ UNCHANGED faults
       \/ Fault /\ todo' = {} /\ pc' = "select"
    /\ UNCHANGED <<hedge, price, mapToken, ticks, hand, done, posted, lost, stops, changes>>

\* Broken variant: ckb_das and ckb_internal are looked up by their own name.
TokenNoAlias(o) == TokenOf[o]

\* GetTokenInfo takes the price of CKB for the tokens that are CKB
TokenInfo(o) == IF TokenOf[o] \in CkbTokens THEN "ckb_ckb" ELSE TokenOf[o]

HasPrice(o) == TokenOf[o] = Coupon \/ TokenInfo(o) \in mapToken

\* an error ends the run of the job, and the rest of the list with it
EndHedge ==
    /\ pc' = "select" /\ todo' = {}
    /\ UNCHANGED <<hedge, hand>>

\* Broken variant: hedge_status is left for doHedge to write.
UpdateHedgeStatusLater(o) == hedge' = hedge

\* UpdateHedgeStatus(Sending -> Ok)
UpdateHedgeStatus(o) ==
    hedge' = [hedge EXCEPT ![o] = IF @ = TxStatusSending THEN TxStatusOk ELSE @]

\* Broken variant: an order without a price is put off, and the run goes on.
NextOrderPutOff(o) ==
    /\ pc = "next" /\ o \in todo
    /\ IF HasPrice(o)
       THEN /\ UpdateHedgeStatus(o)
            /\ todo' = todo \ {o}
            /\ IF TokenOf[o] = Coupon THEN UNCHANGED <<hand, pc>> ELSE hand' = o /\ pc' = "post"
            /\ UNCHANGED faults
       ELSE UNCHANGED <<hedge, todo, hand, pc, faults>>
    /\ UNCHANGED <<price, mapToken, ticks, done, posted, lost, stops, changes>>

\* the next order is marked, unless its token has no price or marking fails; a
\* coupon is done with that. The order of the list is that of the database
NextOrder(o) ==
    /\ pc = "next" /\ o \in todo
    /\ \/ ~HasPrice(o) /\ EndHedge /\ UNCHANGED faults
       \/ HasPrice(o) /\ EndHedge /\ Fault
       \/ /\ HasPrice(o)
          /\ UpdateHedgeStatus(o)
          /\ todo' = todo \ {o}
          /\ IF TokenOf[o] = Coupon THEN UNCHANGED <<hand, pc>> ELSE hand' = o /\ pc' = "post"
          /\ UNCHANGED faults
    /\ UNCHANGED <<price, mapToken, ticks, done, posted, lost, stops, changes>>

LastOrder ==
    /\ pc = "next" /\ todo = {}
    /\ EndHedge
    /\ UNCHANGED <<price, mapToken, ticks, done, posted, lost, faults, stops, changes>>

\* doHedge; an error is only logged and sent as a notice
DoHedge ==
    /\ pc = "post"
    /\ pc' = "next" /\ hand' = None
    /\ IF NeedsPost(hand)
       THEN \/ /\ posted' = [posted EXCEPT ![hand] = @ + 1]
               /\ UNCHANGED <<lost, faults>>
            \/ Fault /\ lost' = lost \cup {hand} /\ UNCHANGED posted
       ELSE UNCHANGED <<posted, lost, faults>>
    /\ UNCHANGED <<hedge, price, mapToken, ticks, todo, done, stops, changes>>

-----------------------------------------------------------------------------
\* Around the timer

\* das-register asks for the hedge of an order
RequestHedge(o) ==
    /\ hedge[o] = TxStatusDefault
    /\ hedge' = [hedge EXCEPT ![o] = TxStatusSending]
    /\ UNCHANGED <<price, mapToken, ticks, pc, todo, hand, done, posted, lost, faults, stops, changes>>

\* the program that keeps the prices gets one, or loses it
ChangePrice(t) ==
    /\ changes < MaxPrices
    /\ changes' = changes + 1
    /\ price' = (price \ {t}) \cup ({t} \ price)
    /\ UNCHANGED <<hedge, mapToken, ticks, pc, todo, hand, done, posted, lost, faults, stops>>

Init ==
    /\ hedge = [o \in Orders |-> TxStatusDefault]
    /\ price \in SUBSET Prices
    /\ mapToken = {} /\ ticks = {} /\ pc = "down" /\ todo = {}
    /\ hand = None
    /\ done = FALSE
    /\ posted = [o \in Orders |-> 0] /\ lost = {}
    /\ faults = 0 /\ stops = 0 /\ changes = 0

\* the steps inside a job
Job == EndReport \/ ListHedge \/ LastOrder \/ DoHedge \/ \E o \in Orders : NextOrder(o)

Next ==
    \/ Start \/ Cancel \/ SelectDone \/ Kill
    \/ \E j \in Jobs : Tick(j)
    \/ SelectHedge \/ SelectToken \/ SelectReport \/ Job \/ Hang
    \/ \E o \in Orders : RequestHedge(o)
    \/ \E t \in Prices : ChangePrice(t)

Spec == Init /\ [][Next]_vars

\* compose.yaml restarts the process always; tickers tick; select takes one of
\* the cases that are ready at random, so each in the end
Fairness ==
    /\ WF_vars(Start) /\ WF_vars(Job)
    /\ \A j \in Jobs : WF_vars(Tick(j))
    /\ SF_vars(SelectHedge) /\ SF_vars(SelectToken) /\ SF_vars(SelectReport)
    /\ SF_vars(SelectDone)
FairSpec == Spec /\ Fairness

-----------------------------------------------------------------------------
(***************************************************************************)
(* Correctness                                                             *)
(***************************************************************************)

\* No order is hedged twice: hedge_status is Ok in the table before the POST
\* goes out, so neither a failing call nor a restart sends it again.
HedgedOnce == \A o \in Orders : posted[o] <= 1

\* The price of that order of steps: an order marked Ok whose POST the service
\* did not take. It is in hand just now, or its POST failed, or the process was
\* killed in between. A stop by signal is never the cause.
HedgeLostOnlyByFailure ==
    \A o \in Orders : hedge[o] = TxStatusOk /\ NeedsPost(o) /\ posted[o] = 0
                         => o \in lost \/ o = hand

\* the price table has a price for every order that waits
AllPriced ==
    \A o \in Waiting : TokenOf[o] \in price \cup {Coupon}
                         \cup IF "ckb_ckb" \in price THEN CkbTokens ELSE {}

\* Every order that waits is hedged in the end, whatever the order of the list
\* and however stale the copy of the prices, provided no job hangs for good and
\* no waiting order is without a price for good: one such order ends every run
\* that comes to it, and holds up those listed after it.
HedgedEventually ==
    []<>(pc # "hung") /\ <>[]AllPriced
       => \A o \in Orders : hedge[o] = TxStatusSending ~> hedge[o] = TxStatusOk

\* The process stops when it is told to, whatever job it is in, unless that job
\* hangs: shutdown waits for this goroutine without a limit.
StopsUnlessHung == done ~> pc \in {"down", "hung"}

=============================================================================
