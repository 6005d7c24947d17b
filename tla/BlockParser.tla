---------------------------- MODULE BlockParser ----------------------------
(***************************************************************************)
(* The loop of one chain's parser (parser_ckb, parser_evm, parser_tron,    *)
(* parser_bitcoin and what they share, parser_common): which blocks it     *)
(* reads, in which order, what it remembers of them in                     *)
(* t_block_parser_info, how it notices that the chain reorganised, and     *)
(* where it goes on after an error or a restart.                           *)
(*                                                                         *)
(* A block is identified with the branch that ends in it: the sequence of  *)
(* the fork numbers of the blocks from the first one up. So two blocks     *)
(* have one hash exactly when they are equal, and the parent is the        *)
(* sequence without its last element.                                      *)
(*                                                                         *)
(* What parsing a block does to the orders is PayMatch; here a block is    *)
(* parsed or not.                                                          *)
(***************************************************************************)
EXTENDS Naturals, Sequences, FiniteSets

CONSTANTS
    ConfirmNum,      \* config confirm_num
    ConcurrencyNum,  \* config concurrency_num; above 1 allows batches
    Retain,          \* rows kept below the current block: 20 in the code
    StartAt,         \* config current_block_number; 0: begin at the tip
    IsDoge,          \* parser_bitcoin: parses a batch in order, begins at the tip
    BadHeight, BadFork,  \* a block that cannot be parsed, ever: see Bad
    Modulus,         \* block numbers are unsigned integers: 2^64 in the code
    InitHeight,      \* height of the chain at the beginning
    MaxHeight, MaxForks, MaxReorg,  \* bounds: chain, reorganisations, their depth
    MaxFaults, MaxCrashes           \* bounds: failing calls, crashes and stops

ASSUME NumAssumption ==
    /\ {ConfirmNum, ConcurrencyNum, StartAt, BadHeight, BadFork, MaxForks, MaxReorg,
        MaxFaults, MaxCrashes} \subseteq Nat
    /\ Retain \in Nat \ {0}
    /\ IsDoge \in BOOLEAN /\ (BadHeight > 0 => IsDoge)
    /\ InitHeight \in Nat \ {0} /\ MaxHeight \in Nat /\ InitHeight <= MaxHeight
    /\ Modulus \in Nat /\ Modulus > MaxHeight + Retain

VARIABLES
    chain,    \* the node's best branch, by fork number
    forks,    \* how often it reorganised
    pc,       \* where the parser is; "down": no process, "gone": it gave up
    cur,      \* CurrentBlockNumber
    blk,      \* sub mode: the block in hand
    buf,      \* concurrency mode: the blocks fetched so far, by height
    rows,     \* t_block_parser_info: height -> block, or NoBlock
    parsed,   \* blocks parsed completely at least once (history)
    batched,  \* blocks recorded by concurrency mode (history)
    base,     \* where the parser began when the table was empty (history)
    last,     \* height of the block recorded last, 0 before (history)
    faults, crashes

memory == <<cur, blk, buf>>
vars == <<chain, forks, pc, cur, blk, buf, rows, parsed, batched, base, last, faults, crashes>>

Heights == 1 .. MaxHeight
NoBlock == <<>>
Tip     == Len(chain)

\* the block of the node's branch at a height, and the parent of a block
BlockAt(h) == SubSeq(chain, 1, h)
Parent(b)  == SubSeq(b, 1, Len(b) - 1)

\* uint64 subtraction
Minus(a, b) == IF a >= b THEN a - b ELSE Modulus + a - b

Row(h)   == IF h \in Heights THEN rows[h] ELSE NoBlock
Recorded == {h \in Heights : rows[h] # NoBlock}
Highest(S) == CHOOSE h \in S : \A k \in S : k <= h

-----------------------------------------------------------------------------
(***************************************************************************)
(* The node                                                                *)
(***************************************************************************)

Extend ==
    /\ Tip < MaxHeight
    /\ chain' = Append(chain, forks)
    /\ UNCHANGED <<forks, pc, memory, rows, parsed, batched, base, last, faults, crashes>>

\* the last d blocks are replaced by a branch one block longer
Reorg(d) ==
    /\ forks < MaxForks
    /\ d < Tip
    /\ Tip < MaxHeight
    /\ forks' = forks + 1
    /\ chain' = [h \in 1 .. Tip + 1 |-> IF h <= Tip - d THEN chain[h] ELSE forks']
    /\ UNCHANGED <<pc, memory, rows, parsed, batched, base, last, faults, crashes>>

Node == Extend \/ \E d \in 1 .. MaxReorg : Reorg(d)

-----------------------------------------------------------------------------
(***************************************************************************)
(* Start and stop                                                          *)
(***************************************************************************)

\* Broken variant: every start begins at the tip.
InitAtTip == Tip

\* ParserCommon.InitCurrentBlockNumber: above the highest row, else the
\* configured number, else the tip
InitCurrentBlockNumber ==
    IF Recorded # {} THEN Highest(Recorded) ELSE IF StartAt = 0 THEN Tip ELSE StartAt

\* ParserBitcoin.initCurrentBlockNumber knows no configured number
InitCurrentBlockNumberDoge == IF Recorded # {} THEN Highest(Recorded) ELSE Tip

Start ==
    /\ pc = "down"
    /\ cur' = 1 + IF IsDoge THEN InitCurrentBlockNumberDoge ELSE InitCurrentBlockNumber
    /\ base' = IF Recorded = {} THEN cur' ELSE base
    /\ pc' = "loop"
    /\ UNCHANGED <<chain, forks, blk, buf, rows, parsed, batched, last, faults, crashes>>

\* the tip or the rows cannot be read: Parser returns, and the process goes on
\* without a parser of this chain
StartFails ==
    /\ pc = "down"
    /\ faults < MaxFaults
    /\ faults' = faults + 1
    /\ pc' = "gone"
    /\ UNCHANGED <<chain, forks, memory, rows, parsed, batched, base, last, crashes>>

Forget == blk' = NoBlock /\ buf' = [h \in {} |-> NoBlock]

\* the process dies anywhere, or its context ends between two rounds
Crash ==
    /\ pc # "down"
    /\ crashes < MaxCrashes
    /\ crashes' = crashes + 1
    /\ pc' = "down"
    /\ cur' = 0
    /\ Forget
    /\ UNCHANGED <<chain, forks, rows, parsed, batched, base, last, faults>>

-----------------------------------------------------------------------------
(***************************************************************************)
(* One round of the loop: read the tip and choose a mode                   *)
(***************************************************************************)

\* Broken variants: the length of a batch, or the confirmations, are left out.
ConcurrencyModeTooFar == ConcurrencyNum > 1 /\ cur < Minus(Tip, ConfirmNum)
SubModeUnconfirmed == cur < Tip

ConcurrencyMode ==
    ConcurrencyNum > 1 /\ cur < Minus(Minus(Tip, ConfirmNum), ConcurrencyNum)

SubMode == ~ConcurrencyMode /\ cur < Minus(Tip, ConfirmNum)

\* Parser; when neither holds it sleeps
Parser ==
    /\ pc = "loop"
    /\ \/ ConcurrencyMode /\ pc' = "batch"
       \/ SubMode /\ pc' = "sub"
    /\ UNCHANGED <<chain, forks, memory, rows, parsed, batched, base, last, faults, crashes>>

-----------------------------------------------------------------------------
(***************************************************************************)
(* parserSubMode                                                           *)
(***************************************************************************)

\* Broken variant: a fork is never noticed.
CheckNoFork(b) == FALSE

\* ParserCommon.CheckFork
CheckFork(b) == Row(cur - 1) # NoBlock /\ Row(cur - 1) # Parent(b)

\* Broken variant: a fork is noticed, but CurrentBlockNumber stays.
FetchBlockStays ==
    /\ pc = "sub"
    /\ cur \in 1 .. Tip
    /\ cur' = cur
    /\ IF CheckFork(BlockAt(cur))
       THEN pc' = "loop" /\ blk' = NoBlock
       ELSE pc' = "parse" /\ blk' = BlockAt(cur)
    /\ UNCHANGED <<chain, forks, buf, rows, parsed, batched, base, last, faults, crashes>>

\* fetch the block and compare its parent with the row below: step back on a
\* fork. Only this parser writes the rows, so fetch and check are one step.
FetchBlock ==
    /\ pc = "sub"
    /\ cur \in 1 .. Tip
    /\ IF CheckFork(BlockAt(cur))
       THEN cur' = cur - 1 /\ pc' = "loop" /\ blk' = NoBlock
       ELSE cur' = cur /\ pc' = "parse" /\ blk' = BlockAt(cur)
    /\ UNCHANGED <<chain, forks, buf, rows, parsed, batched, base, last, faults, crashes>>

\* a Doge block with a transaction that pays us and whose first input cannot be
\* read: an error each time
Bad(b) == BadHeight > 0 /\ Len(b) = BadHeight /\ b[Len(b)] = BadFork

ParseBlock ==
    /\ pc = "parse" /\ ~Bad(blk)
    /\ parsed' = parsed \cup {blk}
    /\ pc' = "record"
    /\ UNCHANGED <<chain, forks, memory, rows, batched, base, last, faults, crashes>>

ParseBadBlock ==
    /\ pc = "parse" /\ Bad(blk)
    /\ pc' = "loop"
    /\ cur' = cur
    /\ Forget
    /\ UNCHANGED <<chain, forks, rows, parsed, batched, base, last, faults, crashes>>

\* Broken variant: the number is counted up before the row is written.
CreateBlockInfoLate ==
    /\ pc = "record"
    /\ rows' = [rows EXCEPT ![cur + 1] = blk]
    /\ last' = cur + 1
    /\ cur' = cur + 1
    /\ pc' = "delete"
    /\ Forget
    /\ UNCHANGED <<chain, forks, parsed, batched, base, faults, crashes>>

\* dao.CreateBlockInfo inserts the row or overwrites a stale one
CreateBlockInfo ==
    /\ pc = "record"
    /\ rows' = [rows EXCEPT ![cur] = blk]
    /\ last' = cur
    /\ cur' = cur + 1
    /\ pc' = "delete"
    /\ Forget
    /\ UNCHANGED <<chain, forks, parsed, batched, base, faults, crashes>>

-----------------------------------------------------------------------------
(***************************************************************************)
(* parserConcurrencyMode: no fork check                                    *)
(***************************************************************************)

Batch == cur .. cur + ConcurrencyNum - 1

\* one block at a time, in order; parser_bitcoin asks for all at once
FetchBatch(h) ==
    /\ pc = "batch"
    /\ h \in Batch \ DOMAIN buf
    /\ IsDoge \/ \A k \in Batch : k < h => k \in DOMAIN buf
    /\ h <= Tip
    /\ buf' = [k \in DOMAIN buf \cup {h} |-> IF k = h THEN BlockAt(h) ELSE buf[k]]
    /\ pc' = IF DOMAIN buf' = Batch THEN "parseBatch" ELSE "batch"
    /\ UNCHANGED <<chain, forks, cur, blk, rows, parsed, batched, base, last, faults, crashes>>

ParseBatch ==
    /\ pc = "parseBatch" /\ \A h \in Batch : ~Bad(buf[h])
    /\ parsed' = parsed \cup {buf[h] : h \in Batch}
    /\ pc' = "recordBatch"
    /\ UNCHANGED <<chain, forks, memory, rows, batched, base, last, faults, crashes>>

\* Broken variant: nothing of the batch is parsed.
ParseNoneOfBadBatch ==
    /\ pc = "parseBatch" /\ \E h \in Batch : Bad(buf[h])
    /\ pc' = "loop"
    /\ cur' = cur
    /\ Forget
    /\ UNCHANGED <<chain, forks, rows, parsed, batched, base, last, faults, crashes>>

\* parser_bitcoin comes to a bad block: those before it are parsed
ParseBadBatch ==
    /\ pc = "parseBatch" /\ \E h \in Batch : Bad(buf[h])
    /\ parsed' = parsed \cup {buf[h] : h \in {k \in Batch : k < BadHeight}}
    /\ pc' = "loop"
    /\ cur' = cur
    /\ Forget
    /\ UNCHANGED <<chain, forks, rows, batched, base, last, faults, crashes>>

\* Broken variant: the error of a block is swallowed and the batch recorded.
SwallowParseBatch(S) ==
    /\ pc = "parseBatch"
    /\ faults < MaxFaults
    /\ S \subseteq Batch /\ S # Batch
    /\ faults' = faults + 1
    /\ parsed' = parsed \cup {buf[h] : h \in S}
    /\ pc' = "recordBatch"
    /\ UNCHANGED <<chain, forks, memory, rows, batched, base, last, crashes>>

\* a block of the batch fails: in parallel any of the others is parsed all the
\* same, parser_bitcoin stops at the failing one. Nothing is recorded.
FailParseBatch(S) ==
    /\ pc = "parseBatch"
    /\ faults < MaxFaults
    /\ S \subseteq Batch /\ S # Batch
    /\ IsDoge => \A h \in S, k \in Batch : k < h => k \in S
    /\ \A h \in S : ~Bad(buf[h])
    /\ faults' = faults + 1
    /\ parsed' = parsed \cup {buf[h] : h \in S}
    /\ pc' = "loop"
    /\ cur' = cur
    /\ Forget
    /\ UNCHANGED <<chain, forks, rows, batched, base, last, crashes>>

\* dao.CreateBlockInfoList
CreateBlockInfoList ==
    /\ pc = "recordBatch"
    /\ rows' = [h \in Heights |-> IF h \in Batch THEN buf[h] ELSE rows[h]]
    /\ batched' = batched \cup {buf[h] : h \in Batch}
    /\ cur' = cur + ConcurrencyNum
    /\ last' = cur + ConcurrencyNum - 1
    /\ pc' = "delete"
    /\ Forget
    /\ UNCHANGED <<chain, forks, parsed, base, faults, crashes>>

\* Broken variant: the rows of all blocks before the current one are deleted.
DeleteAllBlockInfo ==
    /\ pc = "delete"
    /\ rows' = [h \in Heights |-> IF h < cur THEN NoBlock ELSE rows[h]]
    /\ pc' = "loop"
    /\ UNCHANGED <<chain, forks, memory, parsed, batched, base, last, faults, crashes>>

\* dao.DeleteBlockInfo, at the end of both modes
DeleteBlockInfo ==
    /\ pc = "delete"
    /\ rows' = [h \in Heights |-> IF h < Minus(cur, Retain) THEN NoBlock ELSE rows[h]]
    /\ pc' = "loop"
    /\ UNCHANGED <<chain, forks, memory, parsed, batched, base, last, faults, crashes>>

\* any other call fails: the round is over, what it wrote stays
Fail ==
    /\ pc \notin {"down", "gone", "loop"}
    /\ faults < MaxFaults
    /\ faults' = faults + 1
    /\ pc' = "loop"
    /\ cur' = cur
    /\ Forget
    /\ UNCHANGED <<chain, forks, rows, parsed, batched, base, last, crashes>>

\* the block is not there yet (the tip minus the confirmations wrapped
\* around): the round ends with an error
NotThere ==
    /\ \/ pc = "sub" /\ cur \notin 1 .. Tip
       \/ pc = "batch" /\ \E h \in Batch : h > Tip
    /\ pc' = "loop"
    /\ cur' = cur
    /\ Forget
    /\ UNCHANGED <<chain, forks, rows, parsed, batched, base, last, faults, crashes>>

-----------------------------------------------------------------------------
Init ==
    /\ chain = [h \in 1 .. InitHeight |-> 0]
    /\ forks = 0
    /\ pc = "down"
    /\ cur = 0
    /\ blk = NoBlock
    /\ buf = [h \in {} |-> NoBlock]
    /\ rows = [h \in Heights |-> NoBlock]
    /\ parsed = {}
    /\ batched = {}
    /\ base = 0
    /\ last = 0
    /\ faults = 0
    /\ crashes = 0

Round ==
    \/ Parser \/ FetchBlock \/ ParseBlock \/ ParseBadBlock \/ CreateBlockInfo
    \/ \E h \in Heights : FetchBatch(h)
    \/ ParseBatch \/ ParseBadBatch \/ CreateBlockInfoList \/ DeleteBlockInfo \/ NotThere

Trouble == StartFails \/ Crash \/ Fail \/ \E S \in SUBSET Heights : FailParseBatch(S)

Next == Node \/ Start \/ Round \/ Trouble

Spec == Init /\ [][Next]_vars

\* the loop goes on as long as the process lives, and the process is started
\* again after a crash
Fairness == WF_vars(Start) /\ WF_vars(Round)
FairSpec == Spec /\ Fairness

-----------------------------------------------------------------------------
(***************************************************************************)
(* Correctness                                                             *)
(***************************************************************************)

\* Types, spelled without enumerating every branch.
IsBlock(b) == Len(b) \in 0 .. MaxHeight /\ \A i \in 1 .. Len(b) : b[i] \in 0 .. MaxForks

TypeOK ==
    /\ IsBlock(chain) /\ Len(chain) > 0
    /\ forks \in 0 .. MaxForks
    /\ pc \in {"down", "gone", "loop", "sub", "parse", "record", "batch", "parseBatch",
               "recordBatch", "delete"}
    /\ cur \in 0 .. MaxHeight + 1
    /\ IsBlock(blk) /\ \A h \in DOMAIN buf : IsBlock(buf[h])
    /\ DOMAIN rows = Heights /\ \A h \in Heights : rows[h] # NoBlock => Len(rows[h]) = h
    /\ \A b \in parsed \cup batched : IsBlock(b)
    /\ base \in 0 .. MaxHeight + 1 /\ last \in 0 .. MaxHeight
    /\ faults \in 0 .. MaxFaults /\ crashes \in 0 .. MaxCrashes

\* A row vouches for its whole branch: whatever block is recorded, every block
\* below it on the same branch, down to where the parser began, was parsed.
\* The fork check, the rows kept and the restart above the highest row all
\* have to play together for this (parserSubMode, CheckFork, DeleteBlockInfo).
AncestorsParsed ==
    \A h \in Recorded : \A k \in base .. h : SubSeq(rows[h], 1, k) \in parsed

\* Nothing is parsed that can still be reorganised away: every parsed block
\* stays on the node's branch, as long as no reorganisation is deeper than the
\* confirmations Parser waits for. Only the first blocks of a chain are
\* excepted, where the unsigned tip - ConfirmNum - ConcurrencyNum wraps around
\* and a batch begins at once.
ParsedIsFinal ==
    \A b \in parsed : Len(b) >= ConfirmNum + 2 * ConcurrencyNum
                        => Len(b) <= Tip /\ b = BlockAt(Len(b))

\* No height is passed over: below the current block each height from where
\* the parser began had some block of it parsed, across errors and restarts.
NoHeightSkipped ==
    pc \notin {"down", "gone"} => \A h \in base .. cur - 1 : \E b \in parsed : Len(b) = h

\* Where a branch was joined without its parent being parsed, a batch did it:
\* sub mode never records a block above an unparsed parent.
UnparsedParentOnlyByBatch ==
    \A h \in Recorded : h > base /\ Parent(rows[h]) \notin parsed => rows[h] \in batched

\* A restart goes on above a block that is recorded, or else leaves out every
\* height up to the tip. That happens only to a parser that was still below the
\* height Retain when it stopped: there CurrentBlockNumber - Retain wraps around,
\* and deleting the old rows deletes them all.
RestartResumes ==
    [][pc = "down" /\ pc' = "loop" /\ last > 0
          => cur' - 1 \in Recorded \/ last + 1 < Retain]_vars

\* The parser catches up: from some time on every block of the node's branch
\* that has its confirmations is parsed, up to the first that never can be: no
\* block above that one is parsed until a reorganisation takes it away. Excepted
\* is a process that was started while the node or the database failed and
\* runs on without this parser.
CaughtUp ==
    \/ <>[]/\ base > 0
           /\ \A h \in base .. Tip - ConfirmNum - 1 :
                 BlockAt(h) \in parsed \/ \E k \in base .. h : Bad(BlockAt(k))
    \/ <>[](pc = "gone")

=============================================================================
