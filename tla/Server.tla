------------------------------- MODULE Server -------------------------------
(***************************************************************************)
(* The life of a process: das_pay_server (cmd/main.go) or das_refund       *)
(* (cmd/refund/main.go), from reading the config to its end. runServer     *)
(* starts the parts step by step (parser/parser.go, timer/timer.go), a     *)
(* file watcher rewrites the config at any time meanwhile, and a signal    *)
(* stops the parts again.                                                  *)
(*                                                                         *)
(* What the parts do is BlockParser, DasTimer and Refund; here a parser is *)
(* in a round or between two, the timer in a job or between two, and a run *)
(* of the refund job goes on or not. What das-lib starts is left out.      *)
(***************************************************************************)
EXTENDS Naturals

CONSTANTS
    Chains,        \* the chains das-pay knows
    AlwaysBuilt,   \* those whose parser NewKitParser makes in any case: ckb, doge
    MaxRuns,       \* bound: refund runs at a time
    MaxReloads, MaxHangs  \* bounds: changes of the config file, calls that never return

Programs == {"das_pay_server", "das_refund"}

ASSUME ServerAssumption ==
    /\ {"ckb", "doge"} \subseteq AlwaysBuilt /\ AlwaysBuilt \subseteq Chains
    /\ {MaxRuns, MaxReloads, MaxHangs} \subseteq Nat

VARIABLES
    program,
    at,          \* the step of runServer, and of the signal handler after it
    left,        \* chains the step in hand has still to come to
    switch,      \* config: chains switched on
    signUrl,     \* config: remote_sign_api_url is set
    cronSpec,    \* config: cron_spec is set
    built,       \* chains with a parser in the KitParser
    signer,      \* DasTimer.SignClient is set
    dogeSigner,  \* DasTimer.ChainDoge.RemoteSignClient is set
    parser,      \* chain -> state of the parser's goroutine; "nil": without a parser
    timer,       \* state of the timer's goroutine
    cronOn,      \* the cron schedule runs
    start,       \* state of the goroutine of DoStart
    runs,        \* refund runs under way
    cancelled,   \* ctxServer is done
    ended,       \* how the process ended; "no": it has not
    cut,         \* what was at work when it ended (history)
    early,       \* the config changed between NewKitParser and Run (history)
    reloads, hangs

config == <<switch, signUrl, cronSpec>>
parts  == <<parser, timer, cronOn, start, runs>>
wiring == <<built, signer, dogeSigner>>
past   == <<cut, early>>
count  == <<reloads, hangs>>
vars   == <<program, at, left, config, wiring, parts, cancelled, ended, past, count>>

\* runServer, step by step: which step follows which
StepsOfServer ==
    {<<"load", "kit">>, <<"kit", "das">>, <<"das", "parsers">>, <<"parsers", "chains">>,
     <<"chains", "signer">>, <<"signer", "timer">>, <<"timer", "cron">>, <<"cron", "serving">>}

StepsOfRefund ==
    {<<"load", "kit">>, <<"kit", "das">>, <<"das", "signer">>, <<"signer", "chains">>,
     <<"chains", "cron">>, <<"cron", "start">>, <<"start", "serving">>}

\* Broken variant: das_refund makes the sign client after the chains, too.
StepsSame(p) ==
    IF p = "das_pay_server" THEN StepsOfServer
    ELSE {<<"load", "kit">>, <<"kit", "das">>, <<"das", "chains">>, <<"chains", "signer">>,
          <<"signer", "cron">>, <<"cron", "start">>, <<"start", "serving">>}

Steps(p) == IF p = "das_pay_server" THEN StepsOfServer ELSE StepsOfRefund

Alive == ended = "no"

\* the step is done, and the next one comes to every chain
Done(step) ==
    /\ at = step
    /\ \E s \in Steps(program) : s[1] = step /\ at' = s[2]
    /\ left' = Chains

\* what is in the middle of something
Working ==
    {c \in Chains : parser[c] \in {"round", "hung"}}
        \cup {w \in {"timer"} : timer \in {"job", "hung"}}
        \cup {w \in {"refund"} : runs > 0}

\* the process ends, whatever its goroutines are doing
End(how) ==
    /\ at' = "exited" /\ ended' = how
    /\ cut' = Working
    /\ UNCHANGED <<program, left, config, wiring, parts, cancelled, early, count>>

-----------------------------------------------------------------------------
\* runServer

InitCfg ==
    /\ Done("load")
    /\ UNCHANGED <<program, config, wiring, parts, cancelled, ended, past, count>>

\* Broken variant: CKB and Doge follow their switch like the other chains.
NewParserBySwitch(c) == IF c \in switch THEN {c} ELSE {}

\* initParserCkb, initParserEth, ...
NewParser(c) == IF c \in switch \cup AlwaysBuilt THEN {c} ELSE {}

NewKitParser(c) ==
    /\ at = "kit" /\ c \in left
    /\ left' = left \ {c}
    /\ built' = built \cup NewParser(c)
    /\ UNCHANGED <<program, at, config, signer, dogeSigner, parts, cancelled, ended, past, count>>

KitDone ==
    /\ left = {} /\ Done("kit")
    /\ UNCHANGED <<program, config, wiring, parts, cancelled, ended, past, count>>

\* initDas uses the client of the CKB parser
InitDas ==
    IF "ckb" \in built
    THEN Done("das") /\ UNCHANGED <<program, config, wiring, parts, cancelled, ended, past, count>>
    ELSE at = "das" /\ End("panic")

\* KitParser.Run looks at the config again, not at which parsers there are
Run(c) ==
    /\ at = "parsers" /\ c \in left
    /\ left' = left \ {c}
    /\ parser' = IF c \in switch
                 THEN [parser EXCEPT ![c] = IF c \in built THEN "starting" ELSE "nil"]
                 ELSE parser
    /\ UNCHANGED <<program, at, config, wiring, timer, cronOn, start, runs, cancelled, ended,
                   past, count>>

RunDone ==
    /\ left = {} /\ Done("parsers")
    /\ UNCHANGED <<program, config, wiring, parts, cancelled, ended, past, count>>

\* InitChain hands the Doge client the sign client there is by now
InitChain ==
    /\ Done("chains")
    /\ dogeSigner' = (signer /\ "doge" \in built)
    /\ UNCHANGED <<program, config, built, signer, parts, cancelled, ended, past, count>>

NewRemoteSignClient ==
    /\ Done("signer")
    /\ signer' = signUrl
    /\ UNCHANGED <<program, config, built, dogeSigner, parts, cancelled, ended, past, count>>

\* DasTimer.Run
TimerRun ==
    /\ Done("timer")
    /\ timer' = "wait"
    /\ UNCHANGED <<program, config, wiring, parser, cronOn, start, runs, cancelled, ended, past, count>>

DoOrderRefund ==
    /\ Done("cron")
    /\ cronOn' = cronSpec
    /\ UNCHANGED <<program, config, wiring, parser, timer, start, runs, cancelled, ended, past, count>>

DoStart ==
    /\ Done("start")
    /\ start' = "wait"
    /\ UNCHANGED <<program, config, wiring, parser, timer, cronOn, runs, cancelled, ended, past, count>>

\* a step that calls another program, or reads the file, returns an error:
\* main ends the process, whatever was started before
StepFails ==
    /\ at \in {"load", "kit", "das", "signer", "timer", "cron"}
    /\ at = "signer" => signUrl
    /\ at = "cron" => cronSpec
    /\ End("failed")

-----------------------------------------------------------------------------
\* The watcher

\* the file is read again, at any time until the watcher is closed: one chain
\* is switched, or the signer or the schedule set or taken out
Reload ==
    /\ Alive /\ at \notin {"load", "close", "cancel", "wait", "bye"}
    /\ reloads < MaxReloads
    /\ reloads' = reloads + 1
    /\ \/ \E c \in Chains : /\ switch' = (switch \ {c}) \cup ({c} \ switch)
                            /\ UNCHANGED <<signUrl, cronSpec>>
       \/ signUrl' = ~signUrl /\ UNCHANGED <<switch, cronSpec>>
       \/ cronSpec' = ~cronSpec /\ UNCHANGED <<switch, signUrl>>
    /\ early' = (early \/ at \in {"kit", "das", "parsers"})
    /\ UNCHANGED <<program, at, left, wiring, parts, cancelled, ended, cut, hangs>>

-----------------------------------------------------------------------------
\* The goroutines

ParserTo(c, from, to) ==
    /\ Alive
    /\ parser[c] = from
    /\ parser' = [parser EXCEPT ![c] = to]
    /\ UNCHANGED <<program, at, left, config, wiring, timer, cronOn, start, runs, cancelled, ended,
                   past, reloads>>

\* Parser: a method of no parser, and of one that cannot read its state
ParserPanics(c) == Alive /\ parser[c] = "nil" /\ End("panic")
ParserFails(c)  == ParserTo(c, "starting", "gone") /\ UNCHANGED hangs
\* Wg.Add, and the loop: a round, unless ctx is done
ParserStarts(c) == ParserTo(c, "starting", "wait") /\ UNCHANGED hangs
RoundBegins(c)  == ~cancelled /\ ParserTo(c, "wait", "round") /\ UNCHANGED hangs
RoundEnds(c)    == ParserTo(c, "round", "wait") /\ UNCHANGED hangs
ParserDone(c)   == cancelled /\ ParserTo(c, "wait", "gone") /\ UNCHANGED hangs
RoundHangs(c)   == hangs < MaxHangs /\ hangs' = hangs + 1 /\ ParserTo(c, "round", "hung")

TimerTo(from, to) ==
    /\ Alive
    /\ timer = from
    /\ timer' = to
    /\ UNCHANGED <<program, at, left, config, wiring, parser, cronOn, start, runs, cancelled, ended,
                   past, reloads>>

\* Run: with a tick waiting a job may begin although ctx is done
JobBegins == TimerTo("wait", "job") /\ UNCHANGED hangs
JobEnds   == TimerTo("job", "wait") /\ UNCHANGED hangs
TimerDone == cancelled /\ TimerTo("wait", "gone") /\ UNCHANGED hangs
JobHangs  == hangs < MaxHangs /\ hangs' = hangs + 1 /\ TimerTo("job", "hung")

\* runs of doOrderRefund, in goroutines of cron's and in that of DoStart; none
\* of them is in the wait group
RunsTo(n) ==
    /\ Alive
    /\ n \in 0 .. MaxRuns
    /\ runs' = n
    /\ UNCHANGED <<program, at, left, config, wiring, parser, timer, cronOn, cancelled, ended,
                   past, count>>

CronRun   == cronOn /\ RunsTo(runs + 1) /\ UNCHANGED start
StartRun  == start = "wait" /\ RunsTo(runs + 1) /\ start' = "gone"
StartDone == start = "wait" /\ cancelled /\ RunsTo(runs) /\ start' = "gone"
RunEnds   == runs > 0 /\ RunsTo(runs - 1) /\ UNCHANGED start

-----------------------------------------------------------------------------
\* ExitMonitoring

\* a signal: the watcher is closed
Signal ==
    /\ at = "serving"
    /\ at' = "close"
    /\ UNCHANGED <<program, left, config, wiring, parts, cancelled, ended, past, count>>

\* Broken variant: ctxServer is not cancelled.
CloseCronAndWait ==
    /\ at = "close"
    /\ at' = "wait"
    /\ cronOn' = FALSE
    /\ UNCHANGED <<program, left, config, wiring, parser, timer, start, runs, cancelled, ended,
                   past, count>>

\* cron.Stop: no new runs; it does not wait for those under way
CloseCron ==
    /\ at = "close"
    /\ at' = "cancel"
    /\ cronOn' = FALSE
    /\ UNCHANGED <<program, left, config, wiring, parser, timer, start, runs, cancelled, ended,
                   past, count>>

Cancel ==
    /\ at = "cancel"
    /\ at' = "wait"
    /\ cancelled' = TRUE
    /\ UNCHANGED <<program, left, config, wiring, parts, ended, past, count>>

\* Broken variant: the timer's goroutine does not enter itself.
WaitGroupOfParsers == {c \in Chains : parser[c] \in {"wait", "round", "hung"}}

\* who has entered wgServer and not left it
WaitGroup ==
    {c \in Chains : parser[c] \in {"wait", "round", "hung"}}
        \cup {w \in {"timer"} : timer \in {"wait", "job", "hung"}}

Wait ==
    /\ at = "wait" /\ WaitGroup = {}
    /\ at' = "bye"
    /\ UNCHANGED <<program, left, config, wiring, parts, cancelled, ended, past, count>>

\* a second later the process ends
Exit == at = "bye" /\ End("stopped")

\* a signal before ExitMonitoring, or one that cannot be caught
Kill == Alive /\ End("killed")

-----------------------------------------------------------------------------
Init ==
    /\ program \in Programs
    /\ at = "load" /\ left = Chains
    /\ switch \in SUBSET Chains /\ signUrl \in BOOLEAN /\ cronSpec \in BOOLEAN
    /\ built = {} /\ signer = FALSE /\ dogeSigner = FALSE
    /\ parser = [c \in Chains |-> "off"] /\ timer = "off"
    /\ cronOn = FALSE /\ start = "off" /\ runs = 0
    /\ cancelled = FALSE /\ ended = "no" /\ cut = {} /\ early = FALSE
    /\ reloads = 0 /\ hangs = 0

Startup ==
    \/ InitCfg \/ \E c \in Chains : NewKitParser(c) \/ Run(c)
    \/ KitDone \/ InitDas \/ RunDone \/ InitChain \/ NewRemoteSignClient
    \/ TimerRun \/ DoOrderRefund \/ DoStart

ParserStep(c) ==
    \/ ParserPanics(c) \/ ParserFails(c) \/ ParserStarts(c)
    \/ RoundBegins(c) \/ RoundEnds(c) \/ ParserDone(c) \/ RoundHangs(c)

TimerStep == JobBegins \/ JobEnds \/ TimerDone \/ JobHangs

RefundStep == CronRun \/ StartRun \/ StartDone \/ RunEnds

Stopping == CloseCron \/ Cancel \/ Wait \/ Exit

Next ==
    \/ Startup \/ StepFails \/ Reload
    \/ \E c \in Chains : ParserStep(c)
    \/ TimerStep \/ RefundStep
    \/ Signal \/ Stopping \/ Kill

Spec == Init /\ [][Next]_vars

\* the signal handler goes on; what is begun ends; a parser's loop sees that
\* ctx is done, and so does the timer's, though select may first take a tick
Fairness ==
    /\ WF_vars(Stopping) /\ WF_vars(JobEnds) /\ SF_vars(TimerDone)
    /\ \A c \in Chains : WF_vars(RoundEnds(c)) /\ WF_vars(ParserDone(c))
FairSpec == Spec /\ Fairness

-----------------------------------------------------------------------------
(***************************************************************************)
(* Correctness                                                             *)
(***************************************************************************)

\* A stop by signal lets every round of a parser and every job of the timer
\* end: the order of cancel and Wait, the wait group entered before the first
\* round, and a loop that looks at ctx before each round make it so. Refund
\* runs alone are cut off, as neither cron.Stop nor Wait waits for them.
StopCutsOnlyRefunds == ended = "stopped" => cut \subseteq {"refund"}

\* A signal stops the process, unless a round or a job hangs for good.
Hung == timer = "hung" \/ \E c \in Chains : parser[c] = "hung"
StopsUnlessHung == at = "close" ~> at = "exited" \/ Hung

\* The Doge client gets the sign client with the others in das_refund, and
\* never in das_pay_server, which makes it after InitChain: its remotely signed
\* Doge refunds all fail.
DogeSignsOnlyInRefund ==
    at = "serving" => (dogeSigner <=> signer /\ program = "das_refund")

\* Only a change of the config file between NewKitParser and Run can make the
\* process panic, by switching on a chain there is no parser of.
PanicOnlyByReload == ended = "panic" => early

=============================================================================
