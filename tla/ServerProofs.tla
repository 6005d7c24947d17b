---------------------------- MODULE ServerProofs ----------------------------
(***************************************************************************)
(* What holds of the life of a process for every set of chains, any number *)
(* of refund runs, changes of the config and hanging calls.                *)
(***************************************************************************)
EXTENDS Server, TLAPS

\* The steps a program passes through, and those of its end.
Path(p) ==
    {"load", "kit", "das", "chains", "signer", "cron", "serving"}
        \cup IF p = "das_pay_server" THEN {"parsers", "timer"} ELSE {"start"}
TheEnd == {"close", "cancel", "wait", "bye", "exited"}

ParserStates == {"off", "nil", "starting", "wait", "round", "hung", "gone"}
TimerStates  == {"off", "wait", "job", "hung", "gone"}

Types ==
    /\ program \in Programs
    /\ at \in Path(program) \cup TheEnd
    /\ ended # "no" => at = "exited"
    /\ parser \in [Chains -> ParserStates]
    /\ timer \in TimerStates

\* The parsers that are made in any case are there once NewKitParser is done.
AlwaysThere ==
    /\ at = "kit" => AlwaysBuilt \ left \subseteq built
    /\ at \in {"das", "parsers", "signer", "chains"} => AlwaysBuilt \subseteq built

\* Until the config changes, so is the parser of every chain switched on; only
\* then can Run meet a chain without one.
SwitchedThere ==
    \/ early
    \/ /\ at = "kit" => (switch \cap Chains) \ left \subseteq built
       /\ at \in {"das", "parsers"} => switch \cap Chains \subseteq built
       /\ \A c \in Chains : parser[c] # "nil"

\* When each program's clients get what NewRemoteSignClient made.
Signers ==
    /\ program = "das_pay_server" =>
          /\ ~dogeSigner
          /\ at \in {"load", "kit", "das", "parsers", "chains"} => ~signer
    /\ program = "das_refund" /\ at \in {"cron", "start", "serving"} => (dogeSigner <=> signer)

\* Nothing begins once ctx is done and the wait group was empty.
AtRest ==
    /\ at \in {"wait", "bye"} => cancelled
    /\ at = "bye" => /\ timer \notin {"wait", "job", "hung"}
                     /\ \A c \in Chains : parser[c] \notin {"round", "hung"}

\* The inductive invariant.
IInv ==
    /\ Types
    /\ AlwaysThere
    /\ SwitchedThere
    /\ Signers
    /\ AtRest
    /\ StopCutsOnlyRefunds
    /\ PanicOnlyByReload

LEMMA InitIInv == Init => IInv
BY DEF Init, IInv, Types, Path, TheEnd, ParserStates, TimerStates, AlwaysThere, SwitchedThere,
       Signers, AtRest, StopCutsOnlyRefunds, PanicOnlyByReload

-----------------------------------------------------------------------------
\* Where each step of runServer leads.
LEMMA StepsPath ==
    ASSUME Types, NEW step, Done(step)
    PROVE  /\ at = step /\ left' = Chains
           /\ at' \in Path(program) \ {"load"}
           /\ at' = "kit" => step = "load"
           /\ at' = "das" => step = "kit"
           /\ at' = "parsers" => step = "das"
           /\ at' = "chains" => step \in {"parsers", "signer"}
           /\ at' = "signer" => step \in {"das", "chains"}
           /\ at' = "signer" /\ step = "das" => program = "das_refund"
           /\ at' = "signer" /\ step = "chains" => program = "das_pay_server"
           /\ at' = "chains" /\ step = "signer" => program = "das_refund"
           /\ at' = "cron" => step = IF program = "das_pay_server" THEN "timer" ELSE "chains"
           /\ at' \in {"start", "serving"} => step \in {"cron", "start"}
BY DEF Types, Done, Steps, StepsOfServer, StepsOfRefund, Path, Programs

-----------------------------------------------------------------------------
\* A step of runServer that starts or makes nothing: the config is read, or the
\* KitParser, das-lib or the parsers are done with.
LEMMA PassIInv ==
    ASSUME IInv, NEW step \in {"load", "kit", "das", "parsers"}, Done(step),
           step \in {"kit", "parsers"} => left = {},
           UNCHANGED <<program, config, wiring, parts, cancelled, ended, past, count>>
    PROVE  IInv'
<1> USE DEF IInv, config, wiring, parts, past
<1>1. /\ at = step /\ left' = Chains
      /\ at' \in Path(program) \ {"load"}
      /\ at' = "kit" => step = "load"
      /\ at' = "das" => step = "kit"
      /\ at' = "parsers" => step = "das"
      /\ at' = "chains" => step = "parsers"
      /\ at' = "signer" => step = "das" /\ program = "das_refund"
      /\ at' \notin {"cron", "start", "serving"}
  BY StepsPath
<1>2. ended = "no" /\ at' \notin TheEnd
  BY <1>1 DEF Types, Path, TheEnd
<1>3. Types'
  BY <1>1, <1>2 DEF Types
<1>4. AlwaysThere'
  BY <1>1, ServerAssumption DEF AlwaysThere
<1>5. SwitchedThere'
  BY <1>1 DEF SwitchedThere
<1>6. Signers'
  BY <1>1 DEF Signers
<1>7. AtRest' /\ StopCutsOnlyRefunds' /\ PanicOnlyByReload'
  BY <1>2 DEF AtRest, TheEnd, StopCutsOnlyRefunds, PanicOnlyByReload
<1> QED
  BY <1>3, <1>4, <1>5, <1>6, <1>7

\* NewParser makes the parser of a chain.
LEMMA NewKitParserIInv ==
    ASSUME IInv, NEW c \in Chains, NewKitParser(c)
    PROVE  IInv'
<1> USE DEF IInv
<1>1. /\ at = "kit" /\ at' = at /\ left' = left \ {c}
      /\ c \in switch \cup AlwaysBuilt => c \in built'
      /\ built \subseteq built'
      /\ UNCHANGED <<program, switch, signer, dogeSigner, parser, timer, cancelled, ended, cut, early>>
  BY DEF NewKitParser, NewParser, config, parts, past
<1>2. AlwaysThere' /\ SwitchedThere'
  BY <1>1 DEF AlwaysThere, SwitchedThere
<1> QED
  BY <1>1, <1>2 DEF Types, Signers, AtRest, StopCutsOnlyRefunds, PanicOnlyByReload

\* Run starts the goroutine of a chain.
LEMMA RunIInv ==
    ASSUME IInv, NEW c \in Chains, Run(c)
    PROVE  IInv'
<1> USE DEF IInv
<1>1. /\ at = "parsers" /\ at' = at
      /\ UNCHANGED <<program, switch, built, signer, dogeSigner, timer, cancelled, ended, cut, early>>
      /\ parser' = IF c \in switch
                   THEN [parser EXCEPT ![c] = IF c \in built THEN "starting" ELSE "nil"]
                   ELSE parser
  BY DEF Run, config, wiring, past
<1>2. parser' \in [Chains -> ParserStates]
  BY <1>1 DEF Types, ParserStates
<1>3. SwitchedThere'
  BY <1>1 DEF SwitchedThere, Types
<1> QED
  BY <1>1, <1>2, <1>3 DEF Types, AlwaysThere, Signers, AtRest, StopCutsOnlyRefunds, PanicOnlyByReload

\* InitChain, NewRemoteSignClient, TimerRun, DoOrderRefund and DoStart.
LEMMA WireIInv ==
    ASSUME IInv, InitChain \/ NewRemoteSignClient \/ TimerRun \/ DoOrderRefund \/ DoStart
    PROVE  IInv'
<1> USE DEF IInv
<1>1. PICK step \in {"chains", "signer", "timer", "cron", "start"} :
         /\ Done(step)
         /\ step = "chains" => (dogeSigner' <=> signer /\ "doge" \in built) /\ signer' = signer
         /\ step = "signer" => dogeSigner' = dogeSigner /\ signer' = signUrl
         /\ step \notin {"chains", "signer"} => UNCHANGED <<signer, dogeSigner>>
         /\ timer' = timer \/ timer' = "wait"
  BY DEF InitChain, NewRemoteSignClient, TimerRun, DoOrderRefund, DoStart, wiring, parts
<1>2. UNCHANGED <<program, switch, built, parser, cancelled, ended, cut, early>>
  BY DEF InitChain, NewRemoteSignClient, TimerRun, DoOrderRefund, DoStart, config, wiring, parts, past
<1>3. /\ at = step
      /\ at' \in Path(program) \ {"load", "kit", "das", "parsers"}
      /\ at' = "chains" => step = "signer" /\ program = "das_refund"
      /\ at' = "signer" => step = "chains" /\ program = "das_pay_server"
      /\ at' = "cron" => step = IF program = "das_pay_server" THEN "timer" ELSE "chains"
      /\ at' \in {"start", "serving"} => step \in {"cron", "start"}
  BY <1>1, StepsPath
<1>4. ended = "no" /\ at' \notin TheEnd
  BY <1>3 DEF Types, Path, TheEnd
<1>5. Types'
  BY <1>1, <1>2, <1>3, <1>4 DEF Types, TimerStates
<1>6. AlwaysThere' /\ SwitchedThere'
  BY <1>2, <1>3 DEF AlwaysThere, SwitchedThere
<1>7. Signers'
  <2>1. CASE program = "das_pay_server"
    <3>1. ~dogeSigner /\ (step = "chains" => ~signer)
      BY <1>3, <2>1 DEF Signers
    <3>2. ~dogeSigner'
      BY <1>1, <3>1
    <3>3. at' \notin {"load", "kit", "das", "parsers", "chains"}
      BY <1>3, <2>1
    <3> QED
      BY <1>2, <2>1, <3>2, <3>3 DEF Signers
  <2>2. CASE program = "das_refund"
    <3>1. CASE step = "chains"
      <4>1. "doge" \in built
        BY <1>3, <3>1, ServerAssumption DEF AlwaysThere
      <4>2. signer' = signer /\ (dogeSigner' <=> signer)
        BY <1>1, <3>1, <4>1
      <4>3. dogeSigner' <=> signer'
        BY <4>2
      <4> QED
        BY <1>2, <2>2, <4>3 DEF Signers
    <3>2. CASE step \in {"cron", "start"}
      <4>1. dogeSigner <=> signer
        BY <1>3, <2>2, <3>2 DEF Signers
      <4>2. dogeSigner' <=> signer'
        BY <1>1, <3>2, <4>1
      <4> QED
        BY <1>2, <2>2, <4>2 DEF Signers
    <3>3. CASE step \notin {"chains", "cron", "start"}
      BY <1>2, <1>3, <2>2, <3>3 DEF Signers
    <3> QED
      BY <3>1, <3>2, <3>3
  <2> QED
    BY <2>1, <2>2 DEF Types, Programs
<1>8. AtRest' /\ StopCutsOnlyRefunds' /\ PanicOnlyByReload'
  BY <1>2, <1>4 DEF AtRest, TheEnd, StopCutsOnlyRefunds, PanicOnlyByReload
<1> QED
  BY <1>5, <1>6, <1>7, <1>8

\* The process ends: a panic means an early change of the config, and after a
\* stop by signal nothing but refund runs was at work.
LEMMA EndIInv ==
    ASSUME IInv, NEW how \in {"failed", "panic", "killed", "stopped"}, End(how),
           how = "panic" => early,
           how = "stopped" => at = "bye"
    PROVE  IInv'
<1> USE DEF IInv
<1>1. /\ at' = "exited" /\ ended' = how /\ cut' = Working
      /\ UNCHANGED <<program, left, switch, built, signer, dogeSigner, parser, timer, cancelled, early>>
  BY DEF End, config, wiring, parts
<1>2. at = "bye" => Working \subseteq {"refund"}
  BY DEF AtRest, Working
<1>3. StopCutsOnlyRefunds' /\ PanicOnlyByReload'
  BY <1>1, <1>2 DEF StopCutsOnlyRefunds, PanicOnlyByReload
<1>4. SwitchedThere'
  BY <1>1 DEF SwitchedThere
<1> QED
  BY <1>1, <1>3, <1>4 DEF Types, TheEnd, AlwaysThere, Signers, AtRest

\* The file watcher.
LEMMA ReloadIInv ==
    ASSUME IInv, Reload
    PROVE  IInv'
<1> USE DEF IInv
<1>1. /\ at \notin {"load", "close", "cancel", "wait", "bye"} /\ early' = (early \/ at \in {"kit", "das", "parsers"})
      /\ UNCHANGED <<program, at, left, built, signer, dogeSigner, parser, timer, cancelled, ended, cut>>
  BY DEF Reload, wiring, parts
<1>2. SwitchedThere' /\ PanicOnlyByReload'
  BY <1>1 DEF SwitchedThere, PanicOnlyByReload
<1> QED
  BY <1>1, <1>2 DEF Types, AlwaysThere, Signers, AtRest, StopCutsOnlyRefunds

\* The goroutines: none begins a round once ctx is done.
LEMMA GoIInv ==
    ASSUME IInv,
           UNCHANGED <<program, at, left, switch, built, signer, dogeSigner, cancelled, ended, cut, early>>,
           timer' \in TimerStates,
           timer' # timer => timer \in {"wait", "job"},
           parser' \in [Chains -> ParserStates],
           \A c \in Chains : parser'[c] # parser[c] =>
               /\ parser'[c] # "nil"
               /\ parser'[c] \in {"round", "hung"} => ~cancelled \/ parser[c] = "round"
    PROVE  IInv'
<1> USE DEF IInv
<1>1. SwitchedThere'
  BY DEF SwitchedThere
<1>2. AtRest'
  BY DEF AtRest
<1> QED
  BY <1>1, <1>2 DEF Types, AlwaysThere, Signers, StopCutsOnlyRefunds, PanicOnlyByReload

LEMMA ParserStepIInv ==
    ASSUME IInv, NEW c \in Chains, ParserStep(c)
    PROVE  IInv'
<1>1. parser \in [Chains -> ParserStates] /\ timer \in TimerStates
  BY DEF IInv, Types
<1>2. CASE ParserPanics(c)
  <2>1. early
    BY <1>2 DEF ParserPanics, IInv, SwitchedThere
  <2> QED
    BY <1>2, <2>1, EndIInv DEF ParserPanics
<1>3. ASSUME NEW from, NEW to \in ParserStates \ {"nil"}, ParserTo(c, from, to),
             to \in {"round", "hung"} => ~cancelled \/ from = "round"
      PROVE  IInv'
  <2>1. /\ parser' = [parser EXCEPT ![c] = to] /\ parser[c] = from
        /\ UNCHANGED <<program, at, left, switch, built, signer, dogeSigner, timer, cancelled,
                       ended, cut, early>>
    BY <1>3 DEF ParserTo, config, wiring, past
  <2> QED
    BY <1>1, <1>3, <2>1, GoIInv
<1> QED
  BY <1>2, <1>3
     DEF ParserStep, ParserFails, ParserStarts, RoundBegins, RoundEnds, ParserDone, RoundHangs,
         ParserStates

LEMMA TimerStepIInv ==
    ASSUME IInv, TimerStep
    PROVE  IInv'
<1>1. parser \in [Chains -> ParserStates]
  BY DEF IInv, Types
<1>2. ASSUME NEW from \in {"wait", "job"}, NEW to \in TimerStates, TimerTo(from, to)
      PROVE  IInv'
  <2>1. /\ timer' = to /\ timer = from
        /\ UNCHANGED <<program, at, left, switch, built, signer, dogeSigner, parser, cancelled,
                       ended, cut, early>>
    BY <1>2 DEF TimerTo, config, wiring, past
  <2> QED
    BY <1>1, <1>2, <2>1, GoIInv
<1> QED
  BY <1>2 DEF TimerStep, JobBegins, JobEnds, TimerDone, JobHangs, TimerStates

LEMMA RefundStepIInv ==
    ASSUME IInv, RefundStep
    PROVE  IInv'
<1>1. UNCHANGED <<program, at, left, switch, built, signer, dogeSigner, parser, timer, cancelled,
                  ended, cut, early>>
  BY DEF RefundStep, CronRun, StartRun, StartDone, RunEnds, RunsTo, config, wiring, past
<1> QED
  BY <1>1, GoIInv DEF IInv, Types

\* A signal, and the order in which the handler stops the parts.
LEMMA StoppingIInv ==
    ASSUME IInv, Signal \/ CloseCron \/ Cancel \/ Wait
    PROVE  IInv'
<1> USE DEF IInv
<1>1. UNCHANGED <<program, left, switch, built, signer, dogeSigner, parser, timer, ended, cut, early>>
  BY DEF Signal, CloseCron, Cancel, Wait, config, wiring, parts, past
<1>2. at' \in {"close", "cancel", "wait", "bye"} /\ at \in {"serving", "close", "cancel", "wait"}
  BY DEF Signal, CloseCron, Cancel, Wait
<1>3. AtRest'
  <2>1. CASE Wait
    BY <1>1, <2>1 DEF Wait, WaitGroup, AtRest
  <2>2. CASE Signal \/ CloseCron \/ Cancel
    BY <1>1, <2>2 DEF Signal, CloseCron, Cancel, AtRest
  <2> QED
    BY <2>1, <2>2
<1>4. Types'
  BY <1>1, <1>2 DEF Types, TheEnd, Path
<1>5. SwitchedThere' /\ AlwaysThere' /\ Signers'
  BY <1>1, <1>2 DEF SwitchedThere, AlwaysThere, Signers
<1> QED
  BY <1>1, <1>3, <1>4, <1>5 DEF StopCutsOnlyRefunds, PanicOnlyByReload

LEMMA NextIInv == IInv /\ [Next]_vars => IInv'
<1> SUFFICES ASSUME IInv, [Next]_vars PROVE IInv'
  OBVIOUS
<1>1. CASE InitCfg \/ KitDone \/ RunDone
  BY <1>1, PassIInv DEF InitCfg, KitDone, RunDone
<1>2. CASE InitDas
  <2>1. at = "das"
    BY <1>2 DEF InitDas, Done
  <2>2. "ckb" \in built
    BY <2>1, ServerAssumption DEF IInv, AlwaysThere
  <2> QED
    BY <1>2, <2>2, PassIInv DEF InitDas
<1>3. ASSUME NEW c \in Chains, NewKitParser(c) \/ Run(c) PROVE IInv'
  BY <1>3, NewKitParserIInv, RunIInv
<1>4. CASE InitChain \/ NewRemoteSignClient \/ TimerRun \/ DoOrderRefund \/ DoStart
  BY <1>4, WireIInv
<1>5. CASE StepFails \/ Exit \/ Kill
  BY <1>5, EndIInv DEF StepFails, Exit, Kill
<1>6. CASE Reload
  BY <1>6, ReloadIInv
<1>7. ASSUME NEW c \in Chains, ParserStep(c) PROVE IInv'
  BY <1>7, ParserStepIInv
<1>8. CASE TimerStep \/ RefundStep
  BY <1>8, TimerStepIInv, RefundStepIInv
<1>9. CASE Signal \/ CloseCron \/ Cancel \/ Wait
  BY <1>9, StoppingIInv
<1>10. CASE UNCHANGED vars
  BY <1>10, GoIInv DEF vars, config, wiring, parts, past, IInv, Types
<1> QED
  BY <1>1, <1>2, <1>3, <1>4, <1>5, <1>6, <1>7, <1>8, <1>9, <1>10 DEF Next, Startup, Stopping

\* The invariant holds in every reachable state.
THEOREM ServerInvariance == Spec => []IInv
BY InitIInv, NextIInv, PTL DEF Spec

\* cmd/main.go, ExitMonitoring: a stop by signal cuts off no round of a parser
\* and no job of the timer.
THEOREM StopIsClean == Spec => []StopCutsOnlyRefunds
<1>1. IInv => StopCutsOnlyRefunds
  BY DEF IInv
<1> QED
  BY <1>1, ServerInvariance, PTL

\* parser/parser.go and config/config.go: a process panics only after a change
\* of the config file between NewKitParser and Run.
THEOREM PanicMeansReload == Spec => []PanicOnlyByReload
<1>1. IInv => PanicOnlyByReload
  BY DEF IInv
<1> QED
  BY <1>1, ServerInvariance, PTL

\* cmd/main.go and cmd/refund/main.go: which of the two programs can have Doge
\* refunds signed remotely.
THEOREM DogeSigns == Spec => []DogeSignsOnlyInRefund
<1>1. IInv => DogeSignsOnlyInRefund
  BY DEF IInv, Types, Programs, Signers, DogeSignsOnlyInRefund
<1> QED
  BY <1>1, ServerInvariance, PTL

=============================================================================
