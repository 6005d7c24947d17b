# das-pay: a verification project

das-pay watches six chains for payments of .bit registration orders, credits
each payment to an order, and sends back what was paid too much. This directory
holds TLA+ models of that core, the TLC runs that check them on small
instances, and proofs checked by TLAPS. Paths are relative to the repository.

## Inventory

| component | state it keeps | operations | modelled in |
|---|---|---|---|
| payment tables (`dao/`, `tables/`) | `t_das_order_info` (orders), `t_das_order_pay_info` (payments, keyed by hash) | `UpdatePayStatus`, `UpdateRefundStatus`, `UpdateRefundHash`, `UpdateHedgeStatus`, queries | `PayTables`, `DasTimer` (hedge_status) |
| payment matching (`parsingBlockData` of the four parsers) | none of its own | find the order a transaction pays, record it | `PayMatch`, promised by `PayPromise` |
| block parser loop (`parser_*`, `parser_common`) | `CurrentBlockNumber` in memory, `t_block_parser_info` | start, sub mode, concurrency mode, fork check | `BlockParser` |
| refund job (`timer/refund.go`) | list and nonces of a run | list, build, mark, send, mark back, write the hash | `Refund` |
| hedge job (`timer/hedge.go`) | hedge_status | list, price lookup, mark, POST | `DasTimer` |
| timer loop, token prices (`timer/timer.go`, `token.go`) | tickers, `mapToken` | one select loop runs every job but the refund | `DasTimer` |
| parser assembly (`parser/parser.go`) | the parsers there are | `NewKitParser`, `Run` | `Server` |
| process life cycle (`cmd/`) | wiring of the parts | start-up of both programs, shutdown | `Server` |
| configuration (`config/`) | `Cfg` | load, reload on change | `Server` (switches, signer, schedule); constants elsewhere |
| reports (`das_info`, `node`, `rejected`, `normal_cell`) | the last node heights | count, notify | `DasTimer`, as a job that takes its time |
| chain clients, signer, notices (`chain/`, `notify/`) | connections | calls to other programs | not modelled, see below |

How they interact. Parsers and jobs meet in the two payment tables. das-register,
another program on the same database, inserts orders, files the hash a user
submits for an order, asks for hedges, and registers the account once an order is
paid. A parser credits a payment with `UpdatePayStatus`, one database transaction,
which puts every other payment of that order in refund (`refund_status` Sending).
The refund job lists those rows, sends the money and sets them Ok. Each parser
alone writes its rows of `t_block_parser_info`. In memory the parts share the
config, which the file watcher rewrites while they read it, `ctxServer` and
`wgServer`, by which they are stopped, and the signer, which `InitChain` hands
to the Doge client.

What is hard:

* a block is parsed again after an error, a stop or a rollback, and the blocks
  of a batch are parsed in parallel, so the same payments are credited in any
  order and more than once;
* chains reorganise under the parser while it looks, and its memory of them is
  20 rows long; heights are unsigned and wrap around;
* marking a refund and sending it cannot be one step, a send can fail although
  it got through, cron overlaps its own runs, and a stop does not wait for them;
* EVM nonces are read from mined blocks only, while refunds are pending;
* one goroutine runs all other jobs, no call of theirs has a timeout, and
  hedge_status is Ok before the hedge is posted;
* start-up is a sequence whose order matters, reads the config twice for the
  same decision, and can fail in the middle with goroutines at work.

What makes each part correct: an order that is paid is backed by a payment of
its own, keeps at most one and returns the others to those who paid them
(matching); a recorded block vouches for its whole branch and no height is
passed over (parser); no payment is refunded twice and none is forgotten
(refund); only what is owed is sent back (both together); no order is hedged
twice, and each in the end (timer); a stop cuts off nothing that writes but
refund runs (life cycle).

## Modules

| module | models | checked by | proofs in |
|---|---|---|---|
| `PayTables` | the two tables, their queries and updates; the base of `PayMatch`, `Refund` and `DasPay` | the runs of those | |
| `PayPromise` | abstract specification: what an order's payments are promised | refined in `pay_memo`, `das_pay` | `PayPromiseProofs` |
| `PayMatch` | what parsing a transaction does to the tables, with das-register around it | `pay_memo`, `pay_doge` | `PayMatchProofs`, `PayBackedProofs` |
| `Refund` | the refund job, over `PayTables` | `refund_single`, `refund_batch`, `refund_overlap`, `refund_flag` | `RefundProofs` |
| `DasPay` | parsers, das-register and refund job on the same tables | `das_pay` | `DasPayProofs` |
| `BlockParser` | which blocks the loop reads and records | `parser_sub`, `parser_batch`, `parser_young` | `BlockParserProofs` |
| `DasTimer` | the timer's goroutine, the hedge job and the prices | `timer` | `DasTimerProofs` |
| `Server` | start-up, config changes and shutdown of both programs | `server` | `ServerProofs` |
| `MC*` | the values of the constants for the runs | | |

Operators named "broken variant" are what a plausible mistake in the code would
make of the definition after them. They are used by no specification; each
property was seen to fail when its variant takes the place of the original
(listed under `mutants` in `PROJECT.json`).

### PayTables and PayMatch

`orders[o]` is a row of `t_das_order_info` (its key, pay_status,
register_status), `pays[t]` the row of transaction hash `t`. That the hash is
unique is what `INSERT IGNORE` relies on; the schema is not in the repository.
`UpdatePayStatus` is written as its four statements, in their order. A
transaction carries its outputs, each with the order id attached to it and a
value; order ids and addresses are tokens, as the code only compares them. Each
parser has operators of its own for the order credited (`CkbCredit`, `EvmCredit`,
`TronCredit`; for Doge `OpReturnCredit`, `FiledCredit`, `AmountCredit`), because they
differ: CKB takes the first output that fits, Tron only one-contract transactions,
Doge the last OP_RETURN with the exact amount, then the order the hash is filed
under, then the newest order of that payer and amount.

Only `UpdatePayStatus` is a database transaction; what a parser looks up before it
is not part of it. Where the transaction names the order, the look-up reads nothing
that changes (the order's amount and token, and no row of the payment), so look-up
and update are one step (`CreditNamed`, `DealWithOpReturn`). `dealWithHashAndAmount`
does read the payment's row, and is three steps: `GetPayInfo` (the hash, and the
order it is filed under), `GetOrder` (the newest order, if there is none) and
`UpdateDeal`. `deal` is what it holds between them; das-register, the refund job
and other parsers go on meanwhile, and `DealFails` is an error of a call or a stop
of the process. `parsed` and `overtaken` are history variables: what was parsed, and
which payments were credited to one order after das-register had filed them under
another.

Blocks are not visible here: any transaction may be parsed at any time and again,
which covers every interleaving `BlockParser` allows. das-register is external
and modelled from what das-pay's code assumes of it. In particular an order's
id is generated when the order is inserted, so no payment seen before names it.

### PayPromise and DasPay

`PayPromise` knows no chains, amounts or statuses: a payment is filed for an
order, accepted (the order keeps it and owes back the one it kept before),
displaces what is kept, or is sent back. `ImplementsPromise` maps `PayMatch` onto
it (`kept` is what is confirmed and not in refund, `owed` what is confirmed and in
refund); `KeepsPromise` does so for `DasPay`, where `sent` counts the refunds the
job has out. `Displace` is in the promise because the code does it: a
payment already owed back, parsed again, puts the kept payment of its order in
refund as well.

`DasPay` composes by instances: a step is one of `PayMatch`'s parsers, of
das-register, or of `Refund`'s job, on one pair of tables. The job's environment
in `Refund` (payments appear in refund) becomes the parsers, and the environment
of `PayMatch` (`TakeRefund`, `PutBackRefund`) becomes the job.

### BlockParser

The chain is the sequence of fork numbers of its blocks, and a block is the
branch ending in it, so hash comparison is equality and the parent is the
prefix. `Extend` and `Reorg` change the node's branch between any two steps of
the parser. `pc` names where a round is; a failing call ends the round with what
it wrote still in place (`Fail`, `FailParseBatch`), `Crash` forgets all but the
rows, and `StartFails` ends the goroutine while the process goes on. `Minus` is
unsigned subtraction with `Modulus` for 2^64. `Bad` is a Doge block with a
transaction that pays us and whose first input cannot be read: it is an error
each time it is parsed. `base` and `last` remember where the parser began and what
it recorded last.

### Refund

A worker is a run of `doOrderRefund`; two workers are cron starting a run while
the last goes on, or `das_refund` beside `das_pay_server`. `nonce[w]` is what
the run read and counted up itself, `mined` and `pool` the node's side of it.
Whether a refund can be built for a payment is a constant (`Good`): a readable
address, the right chain type, an amount above zero and above the fee. The
history variables say what happened to the money: `paid` counts executed
refunds, `replaced` are refunds whose pending transaction another one replaced,
`dropped` those left Ok by a stop or a failing database, `risky` those a
dangerous step has touched (defined at `Mark` and `Revert`).

### DasTimer

`pc` is where the one goroutine of `DasTimer.Run` is, `ticks` the tickers with a
tick waiting: a Go ticker's channel holds one, and the next one is lost. The loop
sees `done` only between two jobs. The hedge job lists the orders in Sending
(`ListHedge`), stops at the first without a price or whose mark fails
(`NextOrder`), and marks each before it posts it (`DoHedge`). A POST may fail
without the order being taken, or hang with or without it (`Hang`). `mapToken` is
the copy of the prices that `SelectToken` refreshes. The reports write no table
and are one job that takes its time. Orders of order_type Self are assumed to
have been asked for by das-register only once (`RequestHedge`).

### Server

`at` walks through the steps of `runServer` of either program (`StepsOfServer`,
`StepsOfRefund`); `NewKitParser` and `Run` go chain by chain and each looks at
`switch` again. `Reload` is the watcher. `parser`, `timer`, `start` and `runs`
are the goroutines, seen only as working or not; `WaitGroup` is who has entered
`wgServer`. `Signal`, `CloseCron`, `Cancel`, `Wait`, `Exit` are the steps of
`ExitMonitoring`. `cut` remembers who was at work when the process ended.

## Runs

| run | shows | instance and bounds |
|---|---|---|
| `pay_memo` | payments that compete for orders, are filed, parsed and parsed again, refunded in any order; and the refinement of `PayPromise` | 2 orders of order_type Self and one that is not; on CKB one payment short for one order and then enough for another, one for one order, one for both; on Tron one in the wrong token. Replays are unlimited |
| `pay_doge` | matching by OP_RETURN, by filed hash and by amount alone, with das-register between the calls and calls that fail, beside an EVM payment | 4 orders, two of them equal; 2 Doge payments, one naming an order of another token; 1 EVM |
| `das_pay` | what is sent back is owed for good and goes out once; `PayPromise` again | 2 orders: one paid twice on eth and once on bsc, one on Tron; one worker |
| `parser_sub` | rollback step by step, restart in the middle of it, catching up | chain up to 10, 2 reorganisations up to 4 deep, Retain 2, ConfirmNum 1, begin at 4; 1 error, 1 crash |
| `parser_batch` | the Doge parser: batches of 2, a partly failing one, a block that never parses, catching up to it | the same, reorganisations up to 2 deep, `Bad` at height 6 of fork 1 |
| `parser_young` | wrapped subtraction from height 1 on | ConfirmNum 2, batches of 2, Retain 4, 1 reorganisation up to 3 deep |
| `refund_single` | one run at a time: failing calls, one stop, pending and stale nonces | 2 bsc payments, 1 Tron, 2 errors |
| `refund_batch` | CKB and Doge batches with one bad CKB payment and registrations in between | 2 + 2 payments, 1 error, 1 stop |
| `refund_overlap` | two runs at once and lost answers | 1 bsc payment, 1 CKB, 1 error, 1 stop, at most 3 mined |
| `timer` | failing and hanging calls, prices that come and go, a stop or a kill | 3 orders: eth, a token that goes by the price of CKB, a coupon; 1 fault, 1 stop, 1 price change |
| `server` | both programs from every config | chains ckb, doge (always built) and eth; 1 refund run, 1 config change, 1 hang |
| `refund_flag` | a disagreement, see below | Tron's flag off, CKB's on |

Every passing run explores its whole state space, from 69,000 (`pay_memo`) to
3,000,000 (`refund_overlap`) distinct states.

Why the bounds are enough. A payment interacts with others only through the
order they share or the hash they are filed under, so three or four payments and two
or three orders give every pair of roles plus a third party. The parser compares a
block with one row below it and keeps `Retain` rows: with 2 instead of 20 a chain of
10 is longer than its memory and a reorganisation can reach just behind it. In
`refund_overlap` two runs suffice because marking and sending a payment
involves one other run at a time; `MaxMined` cuts a real loop, in which two runs with
stale nonces keep paying the same payment. It does not bind in the other runs.
In `timer` an order waits behind another, and a second fault would only repeat
what the first does to another order. In `server` the third chain is the one whose
parser depends on the config; a second config change could only undo the first.
What is proved holds without the bounds.
Deadlock is not checked: the parser sleeps at the tip, a refund run ends
when there is nothing to refund, and a process that has ended does nothing.

Where the properties stop, and why that is the code's limit:

* `AncestorsParsed` in sub mode holds for reorganisations up to
  ConfirmNum + Retain + 1 deep and fails one deeper: below the rows kept
  there is nothing to compare with. With batches it holds as long as
  reorganisations stay within ConfirmNum + 1, because a batch checks nothing;
  `UnparsedParentOnlyByBatch` says that batches are the only cause. That holds
  however deep the chain reorganises where batches are no longer than the memory
  of the rows (ConcurrencyNum at most Retain) and the parser begins at Retain - 1 or
  above; below that, CurrentBlockNumber - Retain wraps around, every row is
  deleted, and a reorganisation below the confirmations goes unnoticed in sub
  mode, too. If no reorganisation is deeper than ConfirmNum + 1, it is enough that
  the first batch ends at Retain - 1 or above.
* `ParsedIsFinal` leaves out the first ConfirmNum + 2 * ConcurrencyNum heights,
  where the unsigned subtraction wraps around and a batch starts at once. On a
  chain shorter than that, it also needs a ConcurrencyNum above zero and a
  configured beginning that is not above the tip.
* `RestartResumes` excepts a parser that stopped below height Retain: there
  CurrentBlockNumber - Retain wraps around, all rows are deleted, and a parser
  without a configured number begins again at the tip.
* `CaughtUp` ends below a block that cannot be parsed: such a Doge block stops
  its parser until a reorganisation takes it away. It is not checked in
  `parser_young`, where a batch begun too early has parsed blocks that a
  reorganisation then replaces.
* `KeptLostOnlyByReplay`: a payment in refund that is parsed again puts the
  kept payment of its order in refund, too, so a paid order can end with no
  payment. The property states that nothing else can do this.
* `PaidOrdersBacked` excepts two orders from having payments of their own
  (`MayPayBoth`). When das-register files a Doge hash under one order after
  `GetPayInfoByHash` found no row and before `UpdatePayStatus` credits another,
  the INSERT is ignored, the other order is paid all the same, and the next
  parsing of that payment pays the order it is filed under, too. And a Doge hash
  filed under an order that is not of order_type Self never belongs to the order
  it pays, so it is matched afresh at every parsing.
* `NoHeightSkipped` is about heights above where the parser began (`base`). A parser
  with nothing recorded and no configured number begins at the tip, and what the chain
  did before is parsed by nobody: `base` is set again then, and `RestartResumes`
  asks for a block recorded before.
* `NothingLost` and `RefundedEventually` except `dropped` and `replaced`: a stop
  between marking and sending leaves a payment Ok without a refund, and a later
  run may replace a pending refund by using its nonce again. Nothing in the
  code finds such payments later.
* `RefundedEventually` also excepts `Blocked` payments: one payment that does
  not fit holds up its whole CKB or Doge batch, and the second payment for a
  registered Doge order is left out every time.
* `DoubleOnlyIfRisky`: with overlapping runs or lost answers a payment can be
  refunded twice; the property pins down the two steps that cause it.
* `HedgeLostOnlyByFailure`: an order marked Ok whose POST failed is not posted
  again. `HedgedEventually` asks that no job hangs and that in the end every
  waiting order has a price: one without ends every run that comes to it.
* `StopsUnlessHung`: shutdown waits without a limit for a call without a timeout.
* `DogeSignsOnlyInRefund`: `das_pay_server` makes the signer after `InitChain`
  has copied it, so remotely signed Doge refunds fail there, and work in
  `das_refund`, which makes it before.
* `PanicOnlyByReload`: a chain switched on between `NewKitParser` and `Run` is
  started without a parser.

Fairness. `BlockParser`: the loop goes round as long as the process lives, so a
step of a round that stays possible is taken (`WF(Round)`), and the process is
started again after a stop (`WF(Start)`): `compose.yaml` has `restart: always`.
Nothing is assumed of the node. Failing calls and crashes are bounded, so a block
can be parsed in the end. `Refund`: cron starts runs for ever and each call
returns (`WF(Step(w))`), and EVM chains mine (`WF(Mine(c))`). `DasTimer`: the
process is restarted, tickers tick, a job that does not hang goes on (weak
fairness), and Go's `select` takes one of the ready cases at random, so a case
ready again and again is taken in the end (strong fairness of each case). `Server`:
the signal handler goes on, a round and a job end unless they hang, and the loops
come to see `ctx.Done()` (strong fairness only where `select` may prefer a tick).

Finding (`refund_flag`). Each chain has a flag `refund`, "do refund"
(`config/config.example.yaml:24`, Tron's at line 47), but
`timer/refund.go:231` looks at the flag of CKB for Tron. With Tron's flag off
and that of CKB on, a Tron payment is refunded. `doOrderRefundDoge` looks at no
flag at all.

## Proofs

For every value of the constants, under the named assumptions of the modules.

`PayMatchProofs`: `TypeOK`, `AtMostOneKept`, `RefundsGoToThePayer`,
`ConfirmedMeansPaid`, `RegisterNeverRewound`, `RefundNeverForgotten` and
`KeptLostOnlyByReplay` of `PayMatch`. Assumptions: the set of orders is finite (ids
are counted), `None` is no order and no address, and the tables of orders and
transactions are well-typed (`OrdersAssumption`, `NoneAssumption`,
`InfoAssumption`). The properties are not inductive alone. `IInv` adds that a
payment without a row has no status (`NoRowYet`), that a confirmed or refunded
payment was parsed (`TouchedMeansParsed`: otherwise a first parsing could meet a
row that is in refund already), and that an order in registration is paid
(`RegMeansPaid`: `UpdatePayStatus` guards register_status only through
pay_status), and that a Doge parser holds only orders it found (`DealFound`). The
argument: `CreditFound` and `ParseStep`, every order a parser credits was looked up; `UpdateEffect` and `UpdateSets`, what the four statements do row by row and to
the sets of confirmed and kept payments; `RefundSets`, the refund job moves
neither set. One lemma per kind of step then gives `NextIInv`, and temporal logic
the theorems.

`PayBackedProofs`: `PaidOrdersBacked`, a matching of paid orders with payments. The
proof needs a payment that shows, state by state, for which order it counts:
`Backs(t, o)` holds of a parsed payment that covers `o` and is confirmed for it, or
is filed under another order although it names `o` or was credited to `o` when it was
`overtaken`. `BackedInv` says that every paid order is backed (`PaidBacked`), that a
confirmed payment is confirmed for the order it names, if it names one
(`ConfirmedAsNamed`), that hashes are filed under orders that exist (`RowsFound`),
that what a Doge parser holds between its calls is still good at the update
(`DealKnown`: it covers the order, and a row that was found is still there), and that
an overtaken payment has its row and so is not overtaken again
(`OvertakenKnown`). Parsing never takes a backing away, as the memo of a
transaction does not change and neither does its row's order once it has one
(`BacksStays`, `ParseCredits`, `ParseDeals`); and a payment backs one order only, but
for the pairs in `MayPayBoth` (`BacksOne`). So choosing a backing for each paid order
is the matching (`BackedIsMatching`). `InfoAssumption` says of an EVM transaction that
it has an output: it always has one `to` and one value.

`PayPromiseProofs`: `Spec => ImplementsPromise`. From `IInv` above, each step of
`PayMatch` is `File`, `Accept`, `Displace` or a stutter of `PayPromise`, by what
`UpdateSets` says of the sets it maps.

`RefundProofs`: `TypeOK`, `SentStaysMarked`, `DoubleOnlyIfRisky` and `NothingLost`
for any number of overlapping runs, and `NoDoubleRefund` for one run at a time
whose failed sends did fail (`OneRun`). The inductive invariant is `Shape` (types,
pools finite, of their own chain's payments and with one refund per nonce, an EVM
refund of one payment, only confirmed payments in refund) and `Held`: a run about to
send holds marked payments (`MarkHeld`), no two runs hold the same one unless it is
risky (`OneHolder`), and what is about to be sent is not out unless it is risky
(`Unsent`). For one run, `Solo` adds that nothing is risky. How the number of refunds
(executed, or in a pool) changes with a pool is in the lemmas from `RefundsCount`
on. The lemmas are about `JobNext`, in which the job's surroundings may do anything
that at most puts confirmed payments in refund (`Around`): `Refund`'s own
environment is an instance of that, and so are the real parsers.

`DasPayProofs`: everything the run `das_pay` checks. Its `IInv` is the invariants of
the two parts together, with `Owed` (what a run has on its list or in hand, and
what is out, is in refund) and `AnotherPaid` (for a payment in refund there is another
one, parsed, that covers the order). Each step is a step of one part and leaves the
other part's invariant alone: a step of the parsers is `Around` for the job
(`Q!AroundHolds`), and the job's marks are `TakeRefund` and `PutBackRefund` for the
parsers. So:

* `OrdersBacked` and `OnlyForAnother`, `PaidOrdersBacked` and
  `SentBackOnlyForAnother` with any number of overlapping runs and lost answers;
* `JobBesideParsers`: `SentStaysMarked`, `DoubleOnlyIfRisky` and `NothingLost`, which
  `Refund` states over an environment of its own, hold beside the real parsers;
* `Implements`: `Q!OneRun /\ Spec => KeepsPromise`. What is sent is owed (`Owed`) and
  goes out once (`Solo`, `SendIsFirst`). `das_pay` is an instance of `OneRun`;
  without it the two steps of `DoubleOnlyIfRisky` break the promise.

The assumption `DasPayAssumption` is the assumptions of both parts.

`BlockParserProofs`, for chains of any length:

* with no further assumption, `NoHeightSkipped` and `RestartResumes`. The
  invariant `IInv` says what a round has in hand is parsed before it is recorded
  (`Hand`), that every height below the current block and below each row was
  seen (`Below`), and that the row recorded last survives the deletion (`Resume`);
* `ParserTyped`: `TypeOK`, with the bounds of the instance, unless the configured
  beginning is above the highest chain there is;
* `BranchParsed`: `AncestorsParsed` block by block (`OneByOne`: no batches,
  reorganisations at most ConfirmNum + Retain + 1 deep, a chain beyond the height
  where `Minus` wraps around). `SubInv`: below the current block, and below each
  row, there is a row or `Solid` ground, a part of the node's branch that is
  parsed and no reorganisation reaches (`Footing`, `Linked`). A fetched block
  without a fork so has its whole branch parsed (`FetchIsRooted`), and what loses
  its row in `DeleteBlockInfo` is solid by then (`Rooted`);
* `BatchesParseBranch`: `AncestorsParsed` in both modes when reorganisations are at
  most ConfirmNum + 1 deep and the chain is beyond the height where the modes wrap
  around (`Covered`). `Settled`: every block fetched or parsed is final;
* `ParsedStays`: `ParsedIsFinal` under `Covered`, and from the first block of the
  chain on under `Young`. There the modes do wrap around, but the parser is never more
  than one above the tip (`InReach`), so a mode chosen by a wrapped number
  reads nothing as high as ConfirmNum + 2 * ConcurrencyNum (`ModesConfirm`, `Confirmed`);
* `OnlyBatchesSkip`: `UnparsedParentOnlyByBatch` under `OneByOne`, under `Covered`, and,
  where batches are no longer than the memory of the rows, under `Remembered`: for
  reorganisations of any depth if the parser begins where the deletion cannot wrap
  around, and from the first block of the chain on if they are shallow. Sub mode is chosen only within
  ConcurrencyNum blocks of the confirmed tip, and a row at or above the current block
  was stepped back from, so it lies below the confirmed tip (`Ahead`); the rows of the
  Retain heights below the highest row are all there, but for those below a `Safe`
  block that was passed, one that is parsed and final (`Kept`). A deletion that wraps
  around leaves such a block as the one parsed last (`Wiped`). So the row below the
  current block is there whenever sub mode looks for it, or its block cannot be
  replaced any more (`RowBelow`, `Guarded`).

The bounds are sharp: with reorganisations one deeper than `OneByOne`, `Covered` or
`Young` allow, or with ConcurrencyNum 0 or a beginning above the tip in place of
`Young`'s, or with batches longer than Retain or a beginning one lower in place of
`Remembered`'s, TLC finds the property violated. `parser_sub` is an instance of
`OneByOne`, `parser_batch` of `Covered`, `parser_young` of `Young` and of `Remembered`,
so the theorems state every invariant those runs check.

`DasTimerProofs`: `HedgedOnce` and `HedgeLostOnlyByFailure`. `IInv` adds that the
order in hand is marked and not posted (`HandMarked`), that what is listed still
waits (`TodoWaits`) and that what is posted is marked (`PostedMarked`).

`ServerProofs`: `StopCutsOnlyRefunds`, `PanicOnlyByReload` and
`DogeSignsOnlyInRefund` for any set of chains. `IInv` adds that the parsers of CKB
and Doge are made whatever the config says (`AlwaysThere`), that without a config
change before `Run` every chain switched on has a parser (`SwitchedThere`), what
the signers are at each step (`Signers`), and that nobody in the wait group is at
work after `Wait` (`AtRest`).

Only model-checked: all liveness (`CaughtUp`, `RefundedEventually`,
`HedgedEventually`, `StopsUnlessHung`), which is out of the prover's reach. Every other property of a
passing run is a theorem.

## Not modelled

* Chain clients and the signer (`chain/`): each call builds a request, sends it
  and decodes the answer. They keep no state between calls, and a call is a
  success or a failure where it is made. What the code takes an answer for
  (a nonce without pending transactions, a send that failed) is in `Refund`.
* Notices (`notify/`) and what the reports say: they write no table, and no
  decision depends on them.
* Amounts of refunds, fees, cells and UTXOs: `Good` says whether a refund can be
  built; which inputs it takes is das-lib's, which is not in this repository.
* Settings of the config other than switches, signer and schedule, when they
  change while the program runs: they are constants here.
* A torn read of the config while the watcher writes it: `Reload` is one step.

## Open

* Blocks of payments: `BlockParser` and `PayMatch` composed, for what a rollback
  leaves in the payment tables.
