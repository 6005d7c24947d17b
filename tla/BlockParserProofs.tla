------------------------- MODULE BlockParserProofs -------------------------
(***************************************************************************)
(* What holds of a parser's loop for every chain, however long, and every  *)
(* sequence of reorganisations, failing calls, stops and restarts.         *)
(***************************************************************************)
EXTENDS BlockParser, SequenceTheorems, WellFoundedInduction, TLAPS

PcStates == {"down", "gone", "loop", "sub", "parse", "record", "batch", "parseBatch",
             "recordBatch", "delete"}
Batching == {"batch", "parseBatch", "recordBatch"}

-----------------------------------------------------------------------------
\* Heights and blocks.

\* The bounds and the configuration are numbers.
LEMMA Numbers ==
    /\ ConfirmNum \in Nat /\ ConcurrencyNum \in Nat /\ Retain \in Nat /\ Retain > 0 /\ StartAt \in Nat
    /\ BadHeight \in Nat /\ MaxReorg \in Nat /\ MaxFaults \in Nat /\ MaxCrashes \in Nat
    /\ InitHeight \in Nat /\ InitHeight > 0 /\ MaxHeight \in Nat /\ InitHeight <= MaxHeight
    /\ Modulus \in Nat /\ Modulus > MaxHeight + Retain
BY NumAssumption

\* A set of heights that is not empty has a highest one.
LEMMA HighestIn ==
    ASSUME NEW S \in SUBSET Heights, S # {}
    PROVE  Highest(S) \in S /\ \A k \in S : k <= Highest(S)
<1> DEFINE T == {MaxHeight - h : h \in S}
<1>1. T \subseteq Nat /\ T # {}
  <2>1. \A h \in S : MaxHeight - h \in Nat
    BY Numbers DEF Heights
  <2>2. PICK h \in S : TRUE
    OBVIOUS
  <2>3. MaxHeight - h \in T
    BY <2>2
  <2> QED
    BY <2>1, <2>3
<1> HIDE DEF T
<1>2. PICK x \in T : \A y \in T : ~(<<y, x>> \in OpToRel(<, Nat))
  BY <1>1, NatLessThanWellFounded, WFMin
<1>3. \A y \in T : ~(y < x)
  BY <1>1, <1>2 DEF OpToRel
<1>4. PICK h \in S : x = MaxHeight - h
  BY <1>2 DEF T
<1>5. \A k \in S : k <= h
  <2> SUFFICES ASSUME NEW k \in S PROVE k <= h
    OBVIOUS
  <2>1. ~(MaxHeight - k < x)
    BY <1>3 DEF T
  <2> QED
    BY <1>4, <2>1, Numbers DEF Heights
<1> QED
  BY <1>5 DEF Highest

\* The block of the node's branch at a height, number by number.
LEMMA BlockAtIs ==
    ASSUME chain \in Seq(Nat), NEW h \in 1 .. Tip
    PROVE  /\ BlockAt(h) \in Seq(Nat) /\ Len(BlockAt(h)) = h
           /\ \A i \in 1 .. h : BlockAt(h)[i] = chain[i]
<1>1. Len(chain) \in Nat /\ \A i \in 1 .. h : chain[i] \in Nat
  BY LenProperties, ElementOfSeq DEF Tip
<1>2. h \in Int /\ 1 \in Int /\ 1 <= h
  BY <1>1 DEF Tip
<1> QED
  BY <1>1, <1>2, SubSeqProperties DEF BlockAt

LEMMA BlockAtNext ==
    ASSUME chain' \in Seq(Nat), NEW h \in 1 .. Len(chain')
    PROVE  /\ BlockAt(h)' \in Seq(Nat) /\ Len(BlockAt(h)') = h
           /\ \A i \in 1 .. h : BlockAt(h)'[i] = chain'[i]
<1>1. Len(chain') \in Nat /\ \A i \in 1 .. h : chain'[i] \in Nat
  BY LenProperties, ElementOfSeq
<1>2. h \in Int /\ 1 \in Int /\ 1 <= h
  BY <1>1
<1> QED
  BY <1>1, <1>2, SubSeqProperties DEF BlockAt

\* A branch of the node's branch is the node's branch up to there.
LEMMA BlockAtOfBlockAt ==
    ASSUME chain \in Seq(Nat), NEW h \in 1 .. Tip, NEW k \in 1 .. h
    PROVE  SubSeq(BlockAt(h), 1, k) = BlockAt(k)
<1>1. Len(chain) \in Nat /\ h \in Nat /\ k \in Nat /\ k \in 1 .. Tip
  BY LenProperties DEF Tip
<1>2. /\ BlockAt(h) \in Seq(Nat) /\ \A i \in 1 .. h : BlockAt(h)[i] = chain[i]
      /\ BlockAt(k) \in Seq(Nat) /\ Len(BlockAt(k)) = k
      /\ \A i \in 1 .. k : BlockAt(k)[i] = chain[i]
  BY <1>1, BlockAtIs
<1>3. \A i \in 1 .. k : BlockAt(h)[i] \in Nat /\ BlockAt(h)[i] = BlockAt(k)[i]
  <2> SUFFICES ASSUME NEW i \in 1 .. k PROVE BlockAt(h)[i] \in Nat /\ BlockAt(h)[i] = BlockAt(k)[i]
    OBVIOUS
  <2>1. i \in 1 .. h /\ i \in 1 .. Len(BlockAt(k))
    BY <1>1, <1>2
  <2>2. BlockAt(k)[i] \in Nat
    BY <1>2, <2>1, ElementOfSeq
  <2> QED
    BY <1>2, <2>1, <2>2
<1>4. /\ SubSeq(BlockAt(h), 1, k) \in Seq(Nat) /\ Len(SubSeq(BlockAt(h), 1, k)) = k
      /\ \A i \in 1 .. k : SubSeq(BlockAt(h), 1, k)[i] = BlockAt(h)[i]
  <2>1. 1 \in Int /\ k \in Int /\ 1 <= k
    BY <1>1
  <2> QED
    BY <1>1, <1>3, <2>1, SubSeqProperties
<1> QED
  BY <1>2, <1>3, <1>4, SeqEqual

\* The node's branch grows by one block in each step, and below the deepest
\* reorganisation its blocks stay.
LEMMA NodeGrows ==
    ASSUME chain \in Seq(Nat), Len(chain) \in 1 .. MaxHeight, forks \in Nat, Node
    PROVE  /\ chain' \in Seq(Nat) /\ Len(chain') = Len(chain) + 1 /\ Len(chain') \in 1 .. MaxHeight
           /\ forks' \in Nat
           /\ \A k \in 1 .. Len(chain) : k + MaxReorg <= Len(chain) => BlockAt(k)' = BlockAt(k)
<1>1. /\ chain' \in Seq(Nat) /\ Len(chain') = Len(chain) + 1 /\ Len(chain) < MaxHeight
      /\ forks' \in Nat
      /\ \A i \in 1 .. Len(chain) : i + MaxReorg <= Len(chain) => chain'[i] = chain[i]
  <2>1. CASE Extend
    <3>1. chain' = Append(chain, forks) /\ forks' = forks /\ Len(chain) < MaxHeight
      BY <2>1 DEF Extend, Tip
    <3>2. /\ Append(chain, forks) \in Seq(Nat) /\ Len(Append(chain, forks)) = Len(chain) + 1
          /\ \A i \in 1 .. Len(chain) : Append(chain, forks)[i] = chain[i]
      BY AppendProperties
    <3> QED
      BY <3>1, <3>2
  <2>2. ASSUME NEW d \in 1 .. MaxReorg, Reorg(d)
        PROVE  /\ chain' \in Seq(Nat) /\ Len(chain') = Len(chain) + 1 /\ Len(chain) < MaxHeight
               /\ forks' \in Nat
               /\ \A i \in 1 .. Len(chain) : i + MaxReorg <= Len(chain) => chain'[i] = chain[i]
    <3> DEFINE n == Len(chain) + 1
    <3>1. /\ forks' = forks + 1 /\ Len(chain) < MaxHeight /\ d < Len(chain)
          /\ chain' = [h \in 1 .. n |-> IF h <= Len(chain) - d THEN chain[h] ELSE forks']
      BY <2>2 DEF Reorg, Tip
    <3>2. \A i \in 1 .. Len(chain) : chain[i] \in Nat
      BY ElementOfSeq
    <3>3. chain' \in [1 .. n -> Nat] /\ n \in Nat
      <4>1. \A h \in 1 .. n : (IF h <= Len(chain) - d THEN chain[h] ELSE forks') \in Nat
        BY <3>1, <3>2, Numbers
      <4> HIDE DEF n
      <4>2. chain' \in [1 .. n -> Nat]
        BY <3>1, <4>1
      <4> QED
        BY <4>2 DEF n
    <3>4. chain' \in Seq(Nat)
      BY <3>3, SeqDef
    <3>5. DOMAIN chain' = 1 .. Len(chain') /\ Len(chain') \in Nat
      BY <3>4, LenProperties
    <3>6. 1 .. n = 1 .. Len(chain')
      BY <3>3, <3>5
    <3>7. Len(chain') = n
      BY <3>3, <3>5, <3>6
    <3>8. ASSUME NEW i \in 1 .. Len(chain), i + MaxReorg <= Len(chain)
          PROVE  chain'[i] = chain[i]
      BY <3>1, <3>8, Numbers
    <3>9. forks' \in Nat
      BY <3>1
    <3>10. Len(chain) < MaxHeight
      BY <3>1
    <3> HIDE DEF n
    <3>11. Len(chain') = Len(chain) + 1
      BY <3>7 DEF n
    <3> QED
      BY <3>4, <3>8, <3>9, <3>10, <3>11
  <2> QED
    BY <2>1, <2>2 DEF Node
<1>2. \A k \in 1 .. Len(chain) : k + MaxReorg <= Len(chain) => BlockAt(k)' = BlockAt(k)
  <2> SUFFICES ASSUME NEW k \in 1 .. Len(chain), k + MaxReorg <= Len(chain)
               PROVE  BlockAt(k)' = BlockAt(k)
    OBVIOUS
  <2>1. k \in 1 .. Tip /\ k \in 1 .. Len(chain')
    BY <1>1 DEF Tip
  <2>2. /\ BlockAt(k) \in Seq(Nat) /\ Len(BlockAt(k)) = k
        /\ \A i \in 1 .. k : BlockAt(k)[i] = chain[i]
    BY <2>1, BlockAtIs
  <2>3. /\ BlockAt(k)' \in Seq(Nat) /\ Len(BlockAt(k)') = k
        /\ \A i \in 1 .. k : BlockAt(k)'[i] = chain'[i]
    BY <1>1, <2>1, BlockAtNext
  <2>4. \A i \in 1 .. k : chain'[i] = chain[i]
    <3> SUFFICES ASSUME NEW i \in 1 .. k PROVE chain'[i] = chain[i]
      OBVIOUS
    <3>1. Len(chain) \in Nat /\ k \in Nat /\ i \in Nat
      BY Numbers
    <3>2. i \in 1 .. Len(chain) /\ i + MaxReorg <= Len(chain)
      BY <3>1, Numbers
    <3> QED
      BY <1>1, <3>2
  <2> QED
    BY <2>2, <2>3, <2>4, SeqEqual
<1>3. Len(chain') \in 1 .. MaxHeight
  BY <1>1, Numbers
<1> QED
  BY <1>1, <1>2, <1>3

-----------------------------------------------------------------------------
(***************************************************************************)
(* The inductive invariant.                                                *)
(***************************************************************************)

Live(s) == s \notin {"down", "gone"}
Seen(h) == \E b \in parsed : Len(b) = h

\* types
Shape ==
    /\ chain \in Seq(Nat) /\ Len(chain) \in 1 .. MaxHeight /\ forks \in Nat
    /\ pc \in PcStates /\ cur \in Nat /\ base \in Nat /\ last \in Nat
    /\ parsed \subseteq Seq(Nat)
    /\ rows \in [Heights -> Seq(Nat)]

\* what a round has in hand: the block, or the blocks, of the current height,
\* parsed before anything is recorded
Hand ==
    /\ pc \in {"parse", "record"} => cur \in Heights /\ blk \in Seq(Nat) /\ Len(blk) = cur
    /\ pc = "record" => blk \in parsed
    /\ pc \notin Batching => DOMAIN buf = {}
    /\ pc \in Batching => /\ ConcurrencyNum > 1
                          /\ DOMAIN buf \subseteq Batch \cap Heights
                          /\ \A h \in DOMAIN buf : buf[h] \in Seq(Nat) /\ Len(buf[h]) = h
    /\ pc \in {"parseBatch", "recordBatch"} => DOMAIN buf = Batch
    /\ pc = "recordBatch" => \A h \in Batch : buf[h] \in parsed

\* no height is passed over below the current block, and none below a row:
\* a restart goes on above the highest row
Below ==
    /\ Live(pc) => \A h \in base .. cur - 1 : Seen(h)
    /\ \A r \in Recorded : /\ Len(rows[r]) = r /\ rows[r] \in parsed
                           /\ \A h \in base .. r : Seen(h)

\* the row of the block recorded last stays, but for a young chain
Resume ==
    /\ pc = "delete" => last \in Heights /\ cur = last + 1 /\ rows[last] # NoBlock
    /\ last > 0 => Recorded # {} \/ last + 1 < Retain

IInv == Shape /\ Hand /\ Below /\ Resume

\* A round that ends without recording: an error, or a block that is not there.
GiveUp ==
    /\ Live(pc) /\ pc' = "loop" /\ cur' = cur /\ DOMAIN buf' = {}
    /\ parsed \subseteq parsed' /\ parsed' \subseteq parsed \cup {buf[h] : h \in DOMAIN buf}
    /\ UNCHANGED <<chain, forks, rows, base, last>>

\* The end of the process, or of this parser in it.
Halt ==
    /\ ~Live(pc') /\ cur' \in Nat /\ DOMAIN buf' = {}
    /\ UNCHANGED <<chain, forks, rows, parsed, base, last>>

-----------------------------------------------------------------------------
(***************************************************************************)
(* The steps, by what they do to the invariant.                            *)
(***************************************************************************)

LEMMA GivesUp ==
    ASSUME Hand,
           \/ ParseBadBlock \/ NotThere \/ Fail \/ ParseBadBatch
           \/ \E S \in SUBSET Heights : FailParseBatch(S)
    PROVE  GiveUp
<1>1. CASE ParseBadBlock
  BY <1>1 DEF ParseBadBlock, GiveUp, Live, Forget
<1>2. CASE NotThere
  BY <1>2 DEF NotThere, GiveUp, Live, Forget
<1>3. CASE Fail
  BY <1>3 DEF Fail, GiveUp, Live, Forget
<1>4. CASE ParseBadBatch
  <2>1. DOMAIN buf = Batch
    BY <1>4 DEF ParseBadBatch, Hand
  <2> QED
    BY <1>4, <2>1 DEF ParseBadBatch, GiveUp, Live, Forget
<1>5. ASSUME NEW S \in SUBSET Heights, FailParseBatch(S)
      PROVE  GiveUp
  <2>1. DOMAIN buf = Batch
    BY <1>5 DEF FailParseBatch, Hand
  <2> QED
    BY <1>5, <2>1 DEF FailParseBatch, GiveUp, Live, Forget
<1> QED
  BY <1>1, <1>2, <1>3, <1>4, <1>5

LEMMA Halts ==
    ASSUME Shape, Hand, Crash \/ StartFails
    PROVE  Halt
<1>1. CASE Crash
  BY <1>1 DEF Crash, Halt, Live, Forget
<1>2. CASE StartFails
  BY <1>2 DEF StartFails, Halt, Live, Shape, Hand, Batching, memory
<1> QED
  BY <1>1, <1>2

LEMMA Steps ==
    ASSUME Shape, Hand, Next
    PROVE  \/ Node \/ Start \/ Halt \/ GiveUp
           \/ Parser \/ FetchBlock \/ ParseBlock \/ CreateBlockInfo
           \/ \E h \in Heights : FetchBatch(h)
           \/ ParseBatch \/ CreateBlockInfoList \/ DeleteBlockInfo
BY GivesUp, Halts DEF Next, Round, Trouble

\* The node does nothing to the parser.
LEMMA NodeKeeps ==
    ASSUME Node
    PROVE  UNCHANGED <<pc, memory, rows, parsed, batched, base, last, faults, crashes>>
BY DEF Node, Extend, Reorg

\* Where a start begins, with the reason.
LEMMA StartsAt ==
    ASSUME Shape, Start
    PROVE  /\ pc = "down" /\ pc' = "loop" /\ cur' \in Nat /\ cur' > 0
           /\ Recorded = {} => base' = cur' /\ cur' \in {1 + Tip, 1 + StartAt}
                               /\ (cur' # 1 + Tip => StartAt # 0 /\ ~IsDoge)
           /\ Recorded # {} => base' = base /\ cur' - 1 \in Recorded
           /\ UNCHANGED <<chain, forks, blk, buf, rows, parsed, batched, last, faults, crashes>>
<1>1. Tip \in Nat /\ StartAt \in Nat
  BY Numbers DEF Shape, Tip
<1>2. CASE Recorded = {}
  <2>1. /\ InitCurrentBlockNumber \in {Tip, StartAt} /\ InitCurrentBlockNumberDoge = Tip
        /\ InitCurrentBlockNumber # Tip => StartAt # 0
    BY <1>2 DEF InitCurrentBlockNumber, InitCurrentBlockNumberDoge
  <2> QED
    BY <1>1, <1>2, <2>1 DEF Start
<1>3. CASE Recorded # {}
  <2>1. Highest(Recorded) \in Recorded /\ Recorded \subseteq Heights
    BY <1>3, HighestIn DEF Recorded
  <2>2. Highest(Recorded) \in Nat
    <3>1. Heights \subseteq Nat
      BY Numbers DEF Heights
    <3> QED
      BY <2>1, <3>1
  <2>3. cur' = 1 + Highest(Recorded)
    BY <1>3 DEF Start, InitCurrentBlockNumber, InitCurrentBlockNumberDoge
  <2> QED
    BY <1>3, <2>1, <2>2, <2>3 DEF Start
<1> QED
  BY <1>2, <1>3

-----------------------------------------------------------------------------
\* Types.

LEMMA ShapeNext ==
    ASSUME Shape, Hand, [Next]_vars
    PROVE  Shape'
<1>1. CASE UNCHANGED vars
  BY <1>1 DEF Shape, vars, memory
<1>2. CASE Node
  BY <1>2, NodeGrows, NodeKeeps DEF Shape, memory
<1>3. CASE Start
  BY <1>3, StartsAt DEF Shape, PcStates
<1>4. CASE Halt
  BY <1>4 DEF Halt, Live, Shape, PcStates
<1>5. CASE GiveUp
  <2>1. {buf[h] : h \in DOMAIN buf} \subseteq Seq(Nat)
    BY DEF Hand
  <2> QED
    BY <1>5, <2>1 DEF GiveUp, Shape, PcStates
<1>6. CASE Parser
  BY <1>6 DEF Parser, Shape, PcStates, memory
<1>7. CASE FetchBlock
  <2>1. cur \in Nat /\ cur > 0 /\ cur' \in {cur, cur - 1}
    BY <1>7 DEF FetchBlock, Shape
  <2> QED
    BY <1>7, <2>1 DEF FetchBlock, Shape, PcStates
<1>8. CASE ParseBlock
  BY <1>8 DEF ParseBlock, Shape, Hand, PcStates, memory
<1>9. CASE CreateBlockInfo
  BY <1>9, Numbers DEF CreateBlockInfo, Shape, Hand, PcStates
<1>10. ASSUME NEW h \in Heights, FetchBatch(h)
       PROVE  Shape'
  BY <1>10 DEF FetchBatch, Shape, PcStates
<1>11. CASE ParseBatch
  <2>1. {buf[h] : h \in Batch} \subseteq Seq(Nat)
    BY <1>11 DEF ParseBatch, Hand, Batching
  <2> QED
    BY <1>11, <2>1 DEF ParseBatch, Shape, PcStates, memory
<1>12. CASE CreateBlockInfoList
  <2>1. DOMAIN buf = Batch /\ (\A h \in DOMAIN buf : buf[h] \in Seq(Nat)) /\ ConcurrencyNum > 1
    BY <1>12 DEF CreateBlockInfoList, Hand, Batching
  <2>2. rows' \in [Heights -> Seq(Nat)]
    BY <1>12, <2>1 DEF CreateBlockInfoList, Shape
  <2>3. cur' \in Nat /\ last' \in Nat
    BY <1>12, <2>1, Numbers DEF CreateBlockInfoList, Shape
  <2> QED
    BY <1>12, <2>2, <2>3 DEF CreateBlockInfoList, Shape, PcStates
<1>13. CASE DeleteBlockInfo
  <2>1. NoBlock \in Seq(Nat)
    BY EmptySeq DEF NoBlock
  <2>2. rows' \in [Heights -> Seq(Nat)]
    BY <1>13, <2>1 DEF DeleteBlockInfo, Shape
  <2> QED
    BY <1>13, <2>2 DEF DeleteBlockInfo, Shape, PcStates, memory
<1> QED
  BY <1>1, <1>2, <1>3, <1>4, <1>5, <1>6, <1>7, <1>8, <1>9, <1>10, <1>11, <1>12, <1>13, Steps

-----------------------------------------------------------------------------
\* What a round has in hand.

LEMMA HandNext ==
    ASSUME Shape, Hand, [Next]_vars
    PROVE  Hand'
<1>1. CASE UNCHANGED vars
  BY <1>1 DEF Hand, vars, memory, Batch
<1>2. CASE Node
  BY <1>2, NodeKeeps DEF Hand, memory, Batch
<1>3. CASE Start
  BY <1>3, StartsAt DEF Hand, Batching
<1>4. CASE Halt
  BY <1>4 DEF Halt, Live, Hand, Batching
<1>5. CASE GiveUp
  BY <1>5 DEF GiveUp, Hand, Batching
<1>6. CASE Parser
  <2>1. DOMAIN buf = {} /\ buf' = buf
    BY <1>6 DEF Parser, Hand, Batching, memory
  <2>2. CASE ConcurrencyMode /\ pc' = "batch"
    BY <2>1, <2>2 DEF Hand, Batching, ConcurrencyMode
  <2>3. CASE pc' = "sub"
    BY <2>1, <2>3 DEF Hand, Batching
  <2> QED
    BY <1>6, <2>2, <2>3 DEF Parser
<1>7. CASE FetchBlock
  <2>1. DOMAIN buf = {} /\ buf' = buf
    BY <1>7 DEF FetchBlock, Hand, Batching
  <2>2. CASE CheckFork(BlockAt(cur))
    BY <1>7, <2>1, <2>2 DEF FetchBlock, Hand, Batching
  <2>3. CASE ~CheckFork(BlockAt(cur))
    <3>1. cur \in 1 .. Tip /\ cur' = cur /\ blk' = BlockAt(cur) /\ pc' = "parse"
      BY <1>7, <2>3 DEF FetchBlock
    <3>2. BlockAt(cur) \in Seq(Nat) /\ Len(BlockAt(cur)) = cur
      BY <3>1, BlockAtIs DEF Shape
    <3>3. cur \in Heights
      BY <3>1, Numbers DEF Shape, Tip, Heights
    <3> QED
      BY <2>1, <3>1, <3>2, <3>3 DEF Hand, Batching
  <2> QED
    BY <2>2, <2>3
<1>8. CASE ParseBlock
  BY <1>8 DEF ParseBlock, Hand, Batching, memory
<1>9. CASE CreateBlockInfo
  BY <1>9 DEF CreateBlockInfo, Hand, Batching, Forget
<1>10. ASSUME NEW h \in Heights, FetchBatch(h)
       PROVE  Hand'
  <2>1. /\ ConcurrencyNum > 1 /\ DOMAIN buf \subseteq Batch \cap Heights
        /\ \A k \in DOMAIN buf : buf[k] \in Seq(Nat) /\ Len(buf[k]) = k
    BY <1>10 DEF FetchBatch, Hand, Batching
  <2>2. /\ h \in Batch /\ h \in 1 .. Tip /\ cur' = cur
        /\ buf' = [k \in DOMAIN buf \cup {h} |-> IF k = h THEN BlockAt(h) ELSE buf[k]]
        /\ pc' = IF DOMAIN buf' = Batch THEN "parseBatch" ELSE "batch"
    BY <1>10 DEF FetchBatch, Heights, Shape, Tip
  <2>3. BlockAt(h) \in Seq(Nat) /\ Len(BlockAt(h)) = h
    BY <2>2, BlockAtIs DEF Shape
  <2>4. /\ DOMAIN buf' \subseteq Batch \cap Heights
        /\ \A k \in DOMAIN buf' : buf'[k] \in Seq(Nat) /\ Len(buf'[k]) = k
    BY <2>1, <2>2, <2>3
  <2>5. Batch' = Batch
    BY <2>2 DEF Batch
  <2> QED
    BY <2>1, <2>2, <2>4, <2>5 DEF Hand, Batching
<1>11. CASE ParseBatch
  <2>1. Batch' = Batch /\ buf' = buf
    BY <1>11 DEF ParseBatch, memory, Batch
  <2> QED
    BY <1>11, <2>1 DEF ParseBatch, Hand, Batching
<1>12. CASE CreateBlockInfoList
  BY <1>12 DEF CreateBlockInfoList, Hand, Batching, Forget
<1>13. CASE DeleteBlockInfo
  BY <1>13 DEF DeleteBlockInfo, Hand, Batching, memory
<1> QED
  BY <1>1, <1>2, <1>3, <1>4, <1>5, <1>6, <1>7, <1>8, <1>9, <1>10, <1>11, <1>12, <1>13, Steps

-----------------------------------------------------------------------------
\* No height is passed over.

\* Arithmetic of heights.
LEMMA Fewer ==
    ASSUME NEW a \in Nat, NEW b \in Nat, NEW c \in Nat, c <= b
    PROVE  a .. c - 1 \subseteq a .. b - 1
OBVIOUS

LEMMA Above ==
    ASSUME NEW a \in Nat, NEW b \in Nat, b - 1 >= a
    PROVE  b > a
OBVIOUS

\* What was seen stays seen, as long as the beginning stays.
LEMMA BelowStays ==
    ASSUME Shape, Below, parsed \subseteq parsed', base' = base, rows' = rows,
           Live(pc'), Live(pc), cur' \in Nat, cur' <= cur
    PROVE  Below'
<1>1. \A h \in base' .. cur' - 1 : Seen(h)'
  <2>1. base \in Nat /\ cur \in Nat
    BY DEF Shape
  <2>2. base .. cur' - 1 \subseteq base .. cur - 1
    BY <2>1, Fewer
  <2>3. \A h \in base .. cur' - 1 : Seen(h)
    BY <2>2 DEF Below
  <2> QED
    BY <2>3 DEF Seen
<1>2. Recorded' = Recorded
  BY DEF Recorded
<1>3. \A r \in Recorded' : /\ Len(rows'[r]) = r /\ rows'[r] \in parsed'
                           /\ \A h \in base' .. r : Seen(h)'
  BY <1>2 DEF Below, Seen
<1> QED
  BY <1>1, <1>3 DEF Below

LEMMA BelowNext ==
    ASSUME Shape, Hand, Below, [Next]_vars
    PROVE  Below'
<1>1. CASE UNCHANGED vars
  BY <1>1 DEF Below, vars, memory, Recorded, Seen
<1>2. CASE Node
  BY <1>2, NodeKeeps DEF Below, memory, Recorded, Seen
<1>3. CASE Start
  <2>1. /\ pc' = "loop" /\ cur' \in Nat /\ rows' = rows /\ parsed' = parsed
        /\ Recorded = {} => base' = cur'
        /\ Recorded # {} => base' = base /\ cur' - 1 \in Recorded
    BY <1>3, StartsAt
  <2>2. Recorded' = Recorded
    BY <2>1 DEF Recorded
  <2>3. CASE Recorded = {}
    <3>1. base' .. cur' - 1 = {}
      BY <2>1, <2>3
    <3> QED
      BY <2>2, <2>3, <3>1 DEF Below
  <2>4. CASE Recorded # {}
    <3>1. \A h \in base .. cur' - 1 : Seen(h)
      BY <2>1, <2>4 DEF Below
    <3> QED
      BY <2>1, <2>2, <2>4, <3>1 DEF Below, Seen
  <2> QED
    BY <2>3, <2>4
<1>4. CASE Halt
  BY <1>4 DEF Halt, Live, Below, Recorded, Seen
<1>5. CASE GiveUp
  BY <1>5, BelowStays DEF GiveUp, Live, Shape
<1>6. CASE Parser
  BY <1>6, BelowStays DEF Parser, Live, Shape, memory
<1>7. CASE FetchBlock
  <2>1. cur \in Nat /\ cur > 0 /\ cur' \in {cur, cur - 1}
    BY <1>7 DEF FetchBlock, Shape
  <2> QED
    BY <1>7, <2>1, BelowStays DEF FetchBlock, Live
<1>8. CASE ParseBlock
  BY <1>8, BelowStays DEF ParseBlock, Live, Shape, memory
<1>9. CASE CreateBlockInfo
  <2>1. /\ cur \in Heights /\ Len(blk) = cur /\ blk \in parsed /\ Live(pc)
        /\ rows' = [rows EXCEPT ![cur] = blk] /\ cur' = cur + 1
        /\ parsed' = parsed /\ base' = base
    BY <1>9 DEF CreateBlockInfo, Hand, Live
  <2>2. \A h \in base .. cur : Seen(h)
    <3>1. Seen(cur)
      BY <2>1 DEF Seen
    <3>2. \A h \in base .. cur : h = cur \/ h \in base .. cur - 1
      BY DEF Shape
    <3> QED
      BY <2>1, <3>1, <3>2 DEF Below
  <2>3. /\ Recorded' \subseteq Recorded \cup {cur} /\ rows'[cur] = blk
        /\ \A r \in Recorded' \ {cur} : rows'[r] = rows[r]
    BY <2>1 DEF Recorded, Shape
  <2>4. \A r \in Recorded' : /\ Len(rows'[r]) = r /\ rows'[r] \in parsed
                             /\ \A h \in base .. r : Seen(h)
    <3> SUFFICES ASSUME NEW r \in Recorded'
                 PROVE  /\ Len(rows'[r]) = r /\ rows'[r] \in parsed
                        /\ \A h \in base .. r : Seen(h)
      OBVIOUS
    <3>1. CASE r = cur
      BY <2>1, <2>2, <2>3, <3>1
    <3>2. CASE r # cur
      BY <2>3, <3>2 DEF Below
    <3> QED
      BY <3>1, <3>2
  <2>5. \A h \in base .. cur' - 1 : Seen(h)
    BY <2>1, <2>2 DEF Shape
  <2> QED
    BY <2>1, <2>4, <2>5 DEF Below, Seen
<1>10. ASSUME NEW h \in Heights, FetchBatch(h)
       PROVE  Below'
  <2>1. Live(pc) /\ Live(pc') /\ cur' = cur /\ UNCHANGED <<rows, parsed, base>>
    BY <1>10 DEF FetchBatch, Live
  <2> QED
    BY <2>1, BelowStays DEF Shape
<1>11. CASE ParseBatch
  BY <1>11, BelowStays DEF ParseBatch, Live, Shape, memory
<1>12. CASE CreateBlockInfoList
  <2>1. /\ Live(pc) /\ DOMAIN buf = Batch /\ ConcurrencyNum > 1 /\ Batch \subseteq Heights
        /\ \A h \in Batch : Len(buf[h]) = h /\ buf[h] \in parsed
        /\ rows' = [h \in Heights |-> IF h \in Batch THEN buf[h] ELSE rows[h]]
        /\ cur' = cur + ConcurrencyNum /\ parsed' = parsed /\ base' = base
    BY <1>12 DEF CreateBlockInfoList, Hand, Batching, Live
  <2>2. \A h \in base .. cur + ConcurrencyNum - 1 : Seen(h)
    <3> SUFFICES ASSUME NEW h \in base .. cur + ConcurrencyNum - 1 PROVE Seen(h)
      OBVIOUS
    <3>1. CASE h < cur
      BY <2>1, <3>1, Numbers DEF Below, Shape
    <3>2. CASE h >= cur
      <4>1. h \in Batch
        BY <3>2, Numbers DEF Shape, Batch
      <4> QED
        BY <2>1, <4>1 DEF Seen
    <3> QED
      BY <3>1, <3>2, Numbers DEF Shape
  <2>3. \A r \in Recorded' : /\ Len(rows'[r]) = r /\ rows'[r] \in parsed
                             /\ \A h \in base .. r : Seen(h)
    <3> SUFFICES ASSUME NEW r \in Recorded'
                 PROVE  /\ Len(rows'[r]) = r /\ rows'[r] \in parsed
                        /\ \A h \in base .. r : Seen(h)
      OBVIOUS
    <3>1. r \in Heights /\ rows'[r] # NoBlock
      BY DEF Recorded
    <3>2. CASE r \in Batch
      <4>1. \A h \in base .. r : h \in base .. cur + ConcurrencyNum - 1
        BY <3>2, Numbers DEF Batch, Shape
      <4> QED
        BY <2>1, <2>2, <3>1, <3>2, <4>1
    <3>3. CASE r \notin Batch
      BY <2>1, <3>1, <3>3 DEF Below, Recorded
    <3> QED
      BY <3>2, <3>3
  <2>4. cur' - 1 = cur + ConcurrencyNum - 1
    BY <2>1, Numbers DEF Shape
  <2> QED
    BY <2>1, <2>2, <2>3, <2>4 DEF Below, Seen
<1>13. CASE DeleteBlockInfo
  <2>1. /\ Live(pc) /\ Live(pc') /\ cur' = cur /\ parsed' = parsed /\ base' = base
        /\ rows' = [h \in Heights |-> IF h < Minus(cur, Retain) THEN NoBlock ELSE rows[h]]
    BY <1>13 DEF DeleteBlockInfo, Live, memory
  <2>2. \A r \in Recorded' : r \in Recorded /\ rows'[r] = rows[r]
    BY <2>1 DEF Recorded
  <2> QED
    BY <2>1, <2>2 DEF Below, Seen
<1> QED
  BY <1>1, <1>2, <1>3, <1>4, <1>5, <1>6, <1>7, <1>8, <1>9, <1>10, <1>11, <1>12, <1>13, Steps

-----------------------------------------------------------------------------
\* The row a restart goes on from.

LEMMA ResumeStays ==
    ASSUME Resume, rows' = rows, last' = last, pc' # "delete"
    PROVE  Resume'
<1>1. Recorded' = Recorded
  BY DEF Recorded
<1> QED
  BY <1>1 DEF Resume

LEMMA ResumeNext ==
    ASSUME Shape, Hand, Resume, [Next]_vars
    PROVE  Resume'
<1>1. CASE UNCHANGED vars
  BY <1>1 DEF Resume, vars, memory, Recorded
<1>2. CASE Node
  BY <1>2, NodeKeeps DEF Resume, memory, Recorded
<1>3. CASE Start \/ Halt \/ GiveUp
  BY <1>3, StartsAt, ResumeStays DEF Halt, GiveUp, Live, Shape, PcStates
<1>4. CASE Parser \/ FetchBlock \/ ParseBlock \/ ParseBatch
  BY <1>4, ResumeStays DEF Parser, FetchBlock, ParseBlock, ParseBatch
<1>5. ASSUME NEW h \in Heights, FetchBatch(h)
      PROVE  Resume'
  BY <1>5, ResumeStays DEF FetchBatch
<1>6. CASE CreateBlockInfo
  <2>1. /\ cur \in Heights /\ blk # NoBlock
        /\ rows' = [rows EXCEPT ![cur] = blk] /\ cur' = cur + 1 /\ last' = cur
    BY <1>6, EmptySeq, Numbers DEF CreateBlockInfo, Hand, NoBlock, Heights
  <2>2. rows'[cur] # NoBlock /\ cur \in Recorded'
    BY <2>1 DEF Recorded, Shape
  <2> QED
    BY <2>1, <2>2 DEF Resume
<1>7. CASE CreateBlockInfoList
  <2> DEFINE l == cur + ConcurrencyNum - 1
  <2>1. /\ DOMAIN buf = Batch /\ Batch \subseteq Heights /\ ConcurrencyNum > 1
        /\ \A h \in Batch : Len(buf[h]) = h
        /\ rows' = [h \in Heights |-> IF h \in Batch THEN buf[h] ELSE rows[h]]
        /\ cur' = cur + ConcurrencyNum /\ last' = l
    BY <1>7 DEF CreateBlockInfoList, Hand, Batching
  <2>2. l \in Batch /\ cur' = l + 1
    BY <2>1, Numbers DEF Shape, Batch
  <2>3. l \in Heights /\ rows'[l] = buf[l] /\ Len(buf[l]) = l
    BY <2>1, <2>2
  <2>4. rows'[l] # NoBlock
    BY <2>3, EmptySeq, Numbers DEF NoBlock, Heights
  <2> QED
    BY <2>1, <2>2, <2>3, <2>4 DEF Resume, Recorded
<1>8. CASE DeleteBlockInfo
  <2>1. /\ last \in Heights /\ cur = last + 1 /\ rows[last] # NoBlock
        /\ pc' = "loop" /\ last' = last
        /\ rows' = [h \in Heights |-> IF h < Minus(cur, Retain) THEN NoBlock ELSE rows[h]]
    BY <1>8 DEF DeleteBlockInfo, Resume
  <2>2. CASE cur >= Retain
    <3>1. Minus(cur, Retain) = cur - Retain
      BY <2>2 DEF Minus
    <3>2. ~(last < Minus(cur, Retain))
      BY <2>1, <3>1, Numbers DEF Heights
    <3>3. last \in Recorded'
      BY <2>1, <3>2 DEF Recorded
    <3> QED
      BY <2>1, <3>3 DEF Resume
  <2>3. CASE ~(cur >= Retain)
    BY <2>1, <2>3, Numbers DEF Resume, Heights
  <2> QED
    BY <2>2, <2>3
<1> QED
  BY <1>1, <1>2, <1>3, <1>4, <1>5, <1>6, <1>7, <1>8, Steps

-----------------------------------------------------------------------------
(***************************************************************************)
(* What holds of every parser.                                             *)
(***************************************************************************)

LEMMA ChainInit ==
    ASSUME Init
    PROVE  Len(chain) = InitHeight /\ chain \in Seq(Nat)
<1>1. chain \in [1 .. InitHeight -> Nat] /\ InitHeight \in Nat
  BY Numbers DEF Init
<1>2. chain \in Seq(Nat)
  BY <1>1, SeqDef
<1>3. DOMAIN chain = 1 .. Len(chain) /\ Len(chain) \in Nat /\ DOMAIN chain = 1 .. InitHeight
  BY <1>1, <1>2, LenProperties
<1> QED
  BY <1>1, <1>2, <1>3

LEMMA IInvInit ==
    ASSUME Init
    PROVE  IInv
<1>1. Len(chain) = InitHeight /\ chain \in Seq(Nat)
  BY ChainInit
<1>2. rows \in [Heights -> Seq(Nat)] /\ Recorded = {}
  BY EmptySeq DEF Init, NoBlock, Recorded
<1> QED
  BY <1>1, <1>2, Numbers DEF Init, IInv, Shape, Hand, Below, Resume, PcStates, Batching, Live

LEMMA IInvNext ==
    ASSUME IInv, [Next]_vars
    PROVE  IInv'
BY ShapeNext, HandNext, BelowNext, ResumeNext DEF IInv

THEOREM ParserInvariance == Spec => []IInv
<1>1. Init => IInv
  BY IInvInit
<1>2. IInv /\ [Next]_vars => IInv'
  BY IInvNext
<1> QED
  BY <1>1, <1>2, PTL DEF Spec

\* No height is passed over: below the current block each height from where
\* the parser began had some block of it parsed, whatever fails, stops or
\* reorganises in between (parserSubMode, parserConcurrencyMode,
\* InitCurrentBlockNumber).
THEOREM NoneSkipped == Spec => []NoHeightSkipped
<1>1. IInv => NoHeightSkipped
  BY DEF IInv, Below, NoHeightSkipped, Live, Seen
<1> QED
  BY <1>1, ParserInvariance, PTL

\* A restart goes on above a recorded block, unless the chain was still shorter
\* than the number of rows kept when the parser stopped (InitCurrentBlockNumber,
\* DeleteBlockInfo).
THEOREM Resumes == Spec => RestartResumes
<1>1. ASSUME IInv, [Next]_vars, pc = "down", pc' = "loop", last > 0
      PROVE  cur' - 1 \in Recorded \/ last + 1 < Retain
  <2>1. Start
    BY <1>1, NodeKeeps DEF IInv, vars, memory, Next, Round, Trouble, Parser, FetchBlock, ParseBlock,
       ParseBadBlock, CreateBlockInfo, FetchBatch, ParseBatch, ParseBadBatch, CreateBlockInfoList,
       DeleteBlockInfo, NotThere, StartFails, Crash, Fail, FailParseBatch
  <2>2. Recorded # {} => cur' - 1 \in Recorded
    BY <1>1, <2>1, StartsAt DEF IInv
  <2> QED
    BY <1>1, <2>2 DEF IInv, Resume
<1>2. IInv /\ [Next]_vars => [pc = "down" /\ pc' = "loop" /\ last > 0
                                => cur' - 1 \in Recorded \/ last + 1 < Retain]_vars
  BY <1>1
<1> QED
  BY <1>2, ParserInvariance, PTL DEF Spec, RestartResumes

-----------------------------------------------------------------------------
(***************************************************************************)
(* The bounds of the model are kept, by a parser that does not begin above *)
(* the highest chain there is.                                             *)
(***************************************************************************)

\* What the node does to its branch stays in the bounds.
LEMMA NodeTyped ==
    ASSUME Shape, TypeOK, Node
    PROVE  forks' \in 0 .. MaxForks /\ IsBlock(chain') /\ Len(chain') > 0
<1>1. MaxForks \in Nat
  BY NumAssumption
<1>2. /\ chain' \in Seq(Nat) /\ Len(chain') = Len(chain) + 1 /\ Len(chain') \in 1 .. MaxHeight
  BY NodeGrows DEF Shape
<1>3. Len(chain) \in Nat /\ forks \in 0 .. MaxForks /\ \A i \in 1 .. Len(chain) : chain[i] \in 0 .. MaxForks
  BY DEF TypeOK, IsBlock, Shape
<1>4. forks' \in 0 .. MaxForks /\ \A i \in 1 .. Len(chain') : chain'[i] \in 0 .. MaxForks
  <2>1. CASE Extend
    <3>1. chain' = Append(chain, forks) /\ forks' = forks
      BY <2>1 DEF Extend
    <3>2. /\ \A i \in 1 .. Len(chain) : Append(chain, forks)[i] = chain[i]
          /\ Append(chain, forks)[Len(chain) + 1] = forks
      BY AppendProperties DEF Shape
    <3> QED
      BY <1>2, <1>3, <3>1, <3>2
  <2>2. ASSUME NEW d \in 1 .. MaxReorg, Reorg(d)
        PROVE  forks' \in 0 .. MaxForks /\ \A i \in 1 .. Len(chain') : chain'[i] \in 0 .. MaxForks
    <3>1. /\ forks' = forks + 1 /\ forks < MaxForks
          /\ chain' = [h \in 1 .. Len(chain) + 1 |->
                          IF h <= Len(chain) - d THEN chain[h] ELSE forks']
      BY <2>2 DEF Reorg, Tip
    <3>2. forks' \in 0 .. MaxForks
      BY <1>1, <1>3, <3>1
    <3>3. ASSUME NEW i \in 1 .. Len(chain) + 1 PROVE chain'[i] \in 0 .. MaxForks
      <4>1. CASE i <= Len(chain) - d
        <5>1. i \in 1 .. Len(chain) /\ chain'[i] = chain[i]
          BY <1>3, <3>1, <4>1, Numbers
        <5> QED
          BY <1>3, <5>1
      <4>2. CASE ~(i <= Len(chain) - d)
        BY <3>1, <3>2, <4>2
      <4> QED
        BY <4>1, <4>2
    <3> QED
      BY <1>2, <3>2, <3>3
  <2> QED
    BY <2>1, <2>2 DEF Node
<1>5. Len(chain') \in 0 .. MaxHeight /\ Len(chain') > 0
  BY <1>2
<1> QED
  BY <1>4, <1>5 DEF IsBlock

LEMMA BlockAtTyped ==
    ASSUME Shape, TypeOK, NEW h \in 1 .. Tip
    PROVE  IsBlock(BlockAt(h))
<1>1. Len(BlockAt(h)) = h /\ \A i \in 1 .. h : BlockAt(h)[i] = chain[i]
  BY BlockAtIs DEF Shape
<1>2. /\ h \in 0 .. MaxHeight /\ \A i \in 1 .. h : i \in 1 .. Len(chain)
      /\ \A i \in 1 .. Len(chain) : chain[i] \in 0 .. MaxForks
  BY Numbers DEF Tip, TypeOK, IsBlock
<1> QED
  BY <1>1, <1>2 DEF IsBlock

\* The rows are typed by the inductive invariant; the rest by step.
LEMMA TypedNext ==
    ASSUME IInv, IInv', TypeOK, [Next]_vars, StartAt <= MaxHeight
    PROVE  TypeOK'
<1> USE DEF IInv
<1>0. /\ MaxForks \in Nat /\ MaxFaults \in Nat /\ MaxCrashes \in Nat /\ MaxHeight \in Nat
      /\ StartAt \in Nat
  BY NumAssumption
<1>1. /\ DOMAIN rows' = Heights /\ pc' \in PcStates
      /\ \A h \in Heights : rows'[h] # NoBlock => Len(rows'[h]) = h
  BY DEF Shape, Below, Recorded
<1>2. IsBlock(NoBlock)
  BY <1>0, EmptySeq DEF IsBlock, NoBlock
<1>3. /\ IsBlock(chain') /\ Len(chain') > 0 /\ forks' \in 0 .. MaxForks
  <2>1. CASE Node
    BY <2>1, NodeTyped
  <2>2. CASE ~Node
    <3>1. UNCHANGED <<chain, forks>>
      BY <2>2 DEF Next, Round, Trouble, Start, Parser, FetchBlock, ParseBlock,
         ParseBadBlock, CreateBlockInfo, FetchBatch, ParseBatch, ParseBadBatch,
         CreateBlockInfoList, DeleteBlockInfo, NotThere, StartFails, Crash, Fail,
         FailParseBatch, vars
    <3> QED
      BY <3>1 DEF TypeOK
  <2> QED
    BY <2>1, <2>2
<1>4. faults' \in 0 .. MaxFaults /\ crashes' \in 0 .. MaxCrashes
  <2>1. /\ faults' = faults \/ (faults < MaxFaults /\ faults' = faults + 1)
        /\ crashes' = crashes \/ (crashes < MaxCrashes /\ crashes' = crashes + 1)
    BY DEF Next, Node, Extend, Reorg, Round, Trouble, Start, Parser, FetchBlock,
       ParseBlock, ParseBadBlock, CreateBlockInfo, FetchBatch, ParseBatch, ParseBadBatch,
       CreateBlockInfoList, DeleteBlockInfo, NotThere, StartFails, Crash, Fail,
       FailParseBatch, vars
  <2>2. faults \in 0 .. MaxFaults /\ crashes \in 0 .. MaxCrashes
    BY DEF TypeOK
  <2> QED
    BY <1>0, <2>1, <2>2
<1>5. IsBlock(blk') /\ \A h \in DOMAIN buf' : IsBlock(buf'[h])
  <2>1. CASE UNCHANGED <<blk, buf>> \/ Forget
    BY <1>2, <2>1 DEF TypeOK, Forget
  <2>2. CASE FetchBlock
    <3>1. buf' = buf /\ cur \in 1 .. Tip /\ blk' \in {NoBlock, BlockAt(cur)}
      BY <2>2 DEF FetchBlock
    <3> QED
      BY <1>2, <3>1, BlockAtTyped DEF TypeOK
  <2>3. ASSUME NEW h \in Heights, FetchBatch(h)
        PROVE  IsBlock(blk') /\ \A k \in DOMAIN buf' : IsBlock(buf'[k])
    <3>1. /\ blk' = blk /\ h \in 1 .. Tip
          /\ buf' = [k \in DOMAIN buf \cup {h} |-> IF k = h THEN BlockAt(h) ELSE buf[k]]
      BY <2>3 DEF FetchBatch, Heights, Shape, Tip
    <3>2. IsBlock(BlockAt(h))
      BY <3>1, BlockAtTyped
    <3> QED
      BY <3>1, <3>2 DEF TypeOK
  <2>4. \/ UNCHANGED <<blk, buf>> \/ Forget
        \/ FetchBlock \/ \E h \in Heights : FetchBatch(h)
    BY DEF Next, Node, Extend, Reorg, Round, Trouble, Start, Parser,
     ParseBlock, ParseBadBlock, CreateBlockInfo, ParseBatch, ParseBadBatch,
     CreateBlockInfoList, DeleteBlockInfo, NotThere, StartFails, Crash, Fail,
     FailParseBatch, vars, memory
  <2> QED
    BY <2>1, <2>2, <2>3, <2>4
<1>6. \A b \in parsed' \cup batched' : IsBlock(b)
  <2>1. \A b \in parsed' \cup batched' :
           b \in parsed \cup batched \/ b = blk \/ (\E h \in DOMAIN buf : b = buf[h])
    <3>1. CASE ParseBatch \/ ParseBadBatch \/ CreateBlockInfoList
               \/ \E S \in SUBSET Heights : FailParseBatch(S)
      <4>1. DOMAIN buf = Batch
        BY <3>1 DEF Hand, ParseBatch, ParseBadBatch, CreateBlockInfoList, FailParseBatch
      <4>2. /\ parsed' \subseteq parsed \cup {buf[h] : h \in Batch}
            /\ batched' \subseteq batched \cup {buf[h] : h \in Batch}
        BY <3>1 DEF ParseBatch, ParseBadBatch, CreateBlockInfoList, FailParseBatch
      <4> QED
        BY <4>1, <4>2
    <3>2. CASE ParseBlock
      BY <3>2 DEF ParseBlock
    <3>3. \/ UNCHANGED <<parsed, batched>> \/ ParseBlock
          \/ ParseBatch \/ ParseBadBatch \/ CreateBlockInfoList
          \/ \E S \in SUBSET Heights : FailParseBatch(S)
      BY DEF Next, Node, Extend, Reorg, Round, Trouble, Start, Parser, FetchBlock, ParseBadBlock,
             CreateBlockInfo, FetchBatch, DeleteBlockInfo, NotThere, StartFails, Crash, Fail, vars
    <3> QED
      BY <3>1, <3>2, <3>3
  <2> QED
    BY <2>1 DEF TypeOK
<1>7. cur' \in 0 .. MaxHeight + 1 /\ base' \in 0 .. MaxHeight + 1 /\ last' \in 0 .. MaxHeight
  <2>1. cur \in 0 .. MaxHeight + 1 /\ base \in 0 .. MaxHeight + 1 /\ last \in 0 .. MaxHeight
    BY DEF TypeOK
  <2>2. CASE UNCHANGED <<cur, base, last>>
    BY <2>1, <2>2
  <2>3. CASE Start
    <3>1. last' = last
      BY <2>3 DEF Start
    <3>2. CASE Recorded = {}
      <4>1. \A c \in {1 + Tip, 1 + StartAt} : c \in 0 .. MaxHeight + 1
        BY <1>0 DEF Shape, Tip
      <4> QED
        BY <2>1, <2>3, <3>1, <3>2, <4>1, StartsAt
    <3>3. CASE Recorded # {}
      <4>1. base' = base /\ cur' \in Nat /\ cur' - 1 \in Heights
        BY <2>3, <3>3, StartsAt DEF Recorded
      <4>2. \A n \in Nat : n - 1 \in Heights => n \in 0 .. MaxHeight + 1
        BY <1>0 DEF Heights
      <4> QED
        BY <2>1, <3>1, <4>1, <4>2
    <3> QED
      BY <3>2, <3>3
  <2>4. CASE Crash
    BY <1>0, <2>1, <2>4 DEF Crash
  <2>5. CASE FetchBlock
    <3>1. cur \in Nat /\ cur > 0 /\ UNCHANGED <<base, last>> /\ cur' \in {cur, cur - 1}
      BY <2>5 DEF FetchBlock, Shape
    <3>2. cur - 1 \in 0 .. MaxHeight + 1
      BY <1>0, <2>1, <3>1
    <3> QED
      BY <2>1, <3>1, <3>2
  <2>6. CASE CreateBlockInfo
    <3>1. cur \in Heights /\ base' = base /\ last' = cur /\ cur' = cur + 1
      BY <2>6 DEF CreateBlockInfo, Hand
    <3>2. cur \in 0 .. MaxHeight /\ cur + 1 \in 0 .. MaxHeight + 1
      BY <1>0, <3>1 DEF Heights
    <3> QED
      BY <2>1, <3>1, <3>2
  <2>7. CASE CreateBlockInfoList
    <3>1. /\ ConcurrencyNum > 1 /\ Batch \subseteq Heights /\ base' = base
          /\ last' = cur + ConcurrencyNum - 1 /\ cur' = cur + ConcurrencyNum
      BY <2>7 DEF CreateBlockInfoList, Hand, Batching
    <3>2. cur \in Nat /\ ConcurrencyNum \in Nat
      BY Numbers DEF Shape
    <3>3. cur + ConcurrencyNum - 1 \in Batch
      BY <3>1, <3>2 DEF Batch
    <3>4. cur + ConcurrencyNum - 1 \in Heights
      BY <3>1, <3>3
    <3>5. cur + ConcurrencyNum - 1 \in 0 .. MaxHeight /\ cur + ConcurrencyNum \in 0 .. MaxHeight + 1
      BY <1>0, <3>2, <3>4 DEF Heights
    <3> QED
      BY <2>1, <3>1, <3>5
  <2>8. \/ UNCHANGED <<cur, base, last>> \/ Start \/ Crash \/ FetchBlock
        \/ CreateBlockInfo \/ CreateBlockInfoList
    BY DEF Next, Node, Extend, Reorg, Round, Trouble, Parser, ParseBlock, ParseBadBlock,
           FetchBatch, ParseBatch, ParseBadBatch, DeleteBlockInfo, NotThere, StartFails, Fail,
           FailParseBatch, vars, memory
  <2> QED
    BY <2>2, <2>3, <2>4, <2>5, <2>6, <2>7, <2>8
<1> QED
  BY <1>1, <1>3, <1>4, <1>5, <1>6, <1>7 DEF TypeOK, PcStates

\* Every variable keeps its type and the bounds of the model: the block numbers
\* do not run away from the chain, whatever fails, stops or reorganises
\* (Parser, parserSubMode, parserConcurrencyMode).
THEOREM ParserTyped == StartAt <= MaxHeight /\ Spec => []TypeOK
<1> SUFFICES ASSUME StartAt <= MaxHeight PROVE Spec => []TypeOK
  OBVIOUS
<1>1. Init => TypeOK
  <2> SUFFICES ASSUME Init PROVE TypeOK
    OBVIOUS
  <2>1. MaxForks \in Nat /\ MaxFaults \in Nat /\ MaxCrashes \in Nat
    BY NumAssumption
  <2>2. IsBlock(NoBlock)
    BY <2>1, EmptySeq, Numbers DEF IsBlock, NoBlock
  <2>3. IsBlock(chain) /\ Len(chain) > 0
    BY <2>1, ChainInit, Numbers DEF Init, IsBlock
  <2> QED
    BY <2>1, <2>2, <2>3, Numbers DEF Init, TypeOK
<1>2. IInv /\ IInv' /\ TypeOK /\ [Next]_vars => TypeOK'
  BY TypedNext
<1> QED
  BY <1>1, <1>2, ParserInvariance, PTL DEF Spec

-----------------------------------------------------------------------------
(***************************************************************************)
(* The parser without batches. It notices every fork the rows reach down   *)
(* to: rows of Retain blocks, besides the ConfirmNum blocks it leaves      *)
(* unparsed. The chain and the configured number are beyond the height     *)
(* where CurrentBlockNumber - Retain wraps around.                         *)
(***************************************************************************)

OneByOne ==
    /\ ConcurrencyNum <= 1
    /\ MaxReorg <= ConfirmNum + Retain + 1
    /\ ConfirmNum <= InitHeight /\ Retain <= InitHeight
    /\ StartAt > 0 => StartAt >= Retain

\* the node's branch up to k is parsed, and no reorganisation reaches it
Solid(k) == k + MaxReorg <= Tip /\ \A j \in base .. k : BlockAt(j) \in parsed

\* a block that is read has its confirmations
Lag == Tip >= InitHeight /\ (pc \in {"sub", "parse", "record"} => cur + ConfirmNum < Tip)

\* the parser stays above where it began
Begun ==
    /\ Live(pc) => base > Retain /\ cur >= base
    /\ Recorded # {} => base > Retain

\* below the current block there is a row, or solid ground; and so below each row
Footing == Live(pc) /\ cur > base => cur - 1 \in Recorded \/ Solid(cur - 1)
Linked  == \A h \in Recorded : h >= base /\ (h = base \/ h - 1 \in Recorded \/ Solid(h - 1))

\* every block below the one in hand is parsed, and what is about to lose its
\* row is solid
Rooted ==
    /\ pc \in {"parse", "record"} => /\ \A j \in base .. cur - 1 : SubSeq(blk, 1, j) \in parsed
                                     /\ Solid(cur - Retain)
    /\ pc = "delete" => Solid(cur - 1 - Retain)

SubInv == Lag /\ Begun /\ Footing /\ Linked /\ Rooted /\ AncestorsParsed

\* Solid ground stays solid.
LEMMA SolidStays ==
    ASSUME Shape, base > 0, base' = base, parsed \subseteq parsed', Node \/ chain' = chain
    PROVE  \A k \in Int : Solid(k) => Solid(k)'
<1> SUFFICES ASSUME NEW k \in Int, Solid(k) PROVE Solid(k)'
  OBVIOUS
<1>1. CASE chain' = chain
  BY <1>1 DEF Solid, Tip, BlockAt
<1>2. CASE Node
  <2>1. /\ Len(chain') = Len(chain) + 1 /\ Len(chain) \in Nat
        /\ \A j \in 1 .. Len(chain) : j + MaxReorg <= Len(chain) => BlockAt(j)' = BlockAt(j)
    BY <1>2, NodeGrows DEF Shape
  <2>2. k + MaxReorg <= Len(chain) /\ base \in Nat /\ MaxReorg \in Nat
    BY Numbers DEF Solid, Tip, Shape
  <2>3. \A j \in base .. k : BlockAt(j)' \in parsed'
    <3> SUFFICES ASSUME NEW j \in base .. k PROVE BlockAt(j)' \in parsed'
      BY <2>2
    <3>1. j \in 1 .. Len(chain) /\ j + MaxReorg <= Len(chain)
      BY <2>1, <2>2
    <3>2. BlockAt(j)' = BlockAt(j)
      BY <2>1, <3>1
    <3> QED
      BY <3>2 DEF Solid
  <2>4. k + MaxReorg <= Len(chain')
    BY <2>1, <2>2
  <2> QED
    BY <2>3, <2>4 DEF Solid, Tip
<1> QED
  BY <1>1, <1>2

LEMMA SolidBelow ==
    ASSUME Shape, NEW k \in Int, NEW i \in Int, i <= k, Solid(k)
    PROVE  Solid(i)
BY Numbers DEF Solid, Shape, Tip

\* Of a step that leaves the rows and where the parser began.
LEMMA SubStays ==
    ASSUME Shape, SubInv, base' = base, rows' = rows, parsed \subseteq parsed',
           Node \/ chain' = chain, Live(pc') => Live(pc) /\ cur' = cur
    PROVE  /\ Tip' >= InitHeight /\ Tip' >= Tip
           /\ Begun' /\ Footing' /\ Linked' /\ AncestorsParsed'
           /\ Live(pc) => \A k \in Int : Solid(k) => Solid(k)'
<1>1. Recorded' = Recorded
  BY DEF Recorded
<1>2. Tip' >= InitHeight /\ Tip' >= Tip
  BY NodeGrows, Numbers DEF SubInv, Lag, Tip, Shape
<1>3. Begun'
  BY <1>1 DEF SubInv, Begun
<1>4. Footing'
  <2> SUFFICES ASSUME Live(pc'), cur' > base', NEW k \in Int, k = cur' - 1
               PROVE  k \in Recorded' \/ Solid(k)'
    <3>1. Live(pc') => cur' - 1 \in Int
      BY DEF Shape
    <3> QED
      BY <3>1 DEF Footing
  <2>1. Live(pc) /\ cur' = cur /\ base > 0
    BY Numbers DEF SubInv, Begun, Shape
  <2>2. k \in Recorded \/ Solid(k)
    BY <2>1 DEF SubInv, Footing
  <2>3. Solid(k) => Solid(k)'
    BY <2>1, SolidStays
  <2> QED
    BY <1>1, <2>2, <2>3
<1>5. Linked'
  <2>1. \A h \in Recorded : h \in Int /\ h - 1 \in Int
    BY Numbers DEF Recorded, Heights
  <2>2. Recorded # {} => base > 0
    BY Numbers DEF SubInv, Begun, Shape
  <2>3. ASSUME NEW h \in Recorded
        PROVE  h >= base /\ (h = base \/ h - 1 \in Recorded \/ Solid(h - 1)')
    <3>1. h >= base /\ (h = base \/ h - 1 \in Recorded \/ Solid(h - 1))
      BY DEF SubInv, Linked
    <3>2. Solid(h - 1) => Solid(h - 1)'
      BY <2>1, <2>2, SolidStays
    <3> QED
      BY <3>1, <3>2
  <2> QED
    BY <1>1, <2>3 DEF Linked
<1>6. AncestorsParsed'
  BY <1>1 DEF SubInv, AncestorsParsed
<1>7. Live(pc) => \A k \in Int : Solid(k) => Solid(k)'
  BY SolidStays, Numbers DEF SubInv, Begun, Shape
<1> QED
  BY <1>2, <1>3, <1>4, <1>5, <1>6, <1>7

\* Without a fork below it, the block that is fetched has its branch parsed.
LEMMA FetchIsRooted ==
    ASSUME Shape, SubInv, OneByOne, FetchBlock, ~CheckFork(BlockAt(cur))
    PROVE  /\ \A j \in base .. cur - 1 : SubSeq(BlockAt(cur), 1, j) \in parsed
           /\ Solid(cur - Retain)
<1>1. /\ cur \in 1 .. Tip /\ cur \in Nat /\ Tip \in Nat /\ base \in Nat /\ base > Retain /\ cur >= base
      /\ cur + ConfirmNum < Tip
  BY DEF FetchBlock, Shape, SubInv, Begun, Lag, Live, Tip
<1>2. \A j \in base .. cur - 1 : BlockAt(j) \in parsed
  <2>1. CASE cur > base /\ cur - 1 \in Recorded
    <3>1. cur - 1 \in Heights /\ cur - 1 \in 1 .. Tip /\ cur - 1 \in 1 .. cur /\ rows[cur - 1] # NoBlock
      BY <1>1, <2>1, Numbers DEF Recorded, Heights
    <3>2. Parent(BlockAt(cur)) = BlockAt(cur - 1)
      BY <1>1, <3>1, BlockAtIs, BlockAtOfBlockAt DEF Parent, Shape
    <3>3. rows[cur - 1] = BlockAt(cur - 1)
      BY <3>1, <3>2 DEF CheckFork, Row
    <3>4. \A j \in base .. cur - 1 : SubSeq(BlockAt(cur - 1), 1, j) \in parsed
      BY <2>1, <3>3 DEF SubInv, AncestorsParsed
    <3>5. \A j \in base .. cur - 1 : SubSeq(BlockAt(cur - 1), 1, j) = BlockAt(j)
      <4> SUFFICES ASSUME NEW j \in base .. cur - 1
                   PROVE  SubSeq(BlockAt(cur - 1), 1, j) = BlockAt(j)
        OBVIOUS
      <4>1. j \in 1 .. cur - 1
        BY <1>1, Numbers
      <4> QED
        BY <3>1, <4>1, BlockAtOfBlockAt DEF Shape
    <3> QED
      BY <3>4, <3>5
  <2>2. CASE cur > base /\ cur - 1 \notin Recorded
    BY <2>2 DEF SubInv, Footing, Solid, FetchBlock, Live
  <2>3. CASE cur = base
    BY <1>1, <2>3
  <2> QED
    BY <1>1, <2>1, <2>2, <2>3
<1>3. \A j \in base .. cur - 1 : SubSeq(BlockAt(cur), 1, j) = BlockAt(j)
  <2> SUFFICES ASSUME NEW j \in base .. cur - 1
               PROVE  SubSeq(BlockAt(cur), 1, j) = BlockAt(j)
    OBVIOUS
  <2>1. j \in 1 .. cur
    BY <1>1, Numbers
  <2> QED
    BY <1>1, <2>1, BlockAtOfBlockAt DEF Shape
<1>4. Solid(cur - Retain)
  <2>1. cur - Retain + MaxReorg <= Tip
    BY <1>1, Numbers DEF OneByOne
  <2>2. base .. cur - Retain \subseteq base .. cur - 1
    BY <1>1, Numbers
  <2> QED
    BY <1>2, <2>1, <2>2 DEF Solid
<1> QED
  BY <1>2, <1>3, <1>4

\* A block is its own branch up to itself.
LEMMA WholeBranch ==
    ASSUME NEW b \in Seq(Nat), Len(b) > 0
    PROVE  SubSeq(b, 1, Len(b)) = b
<1>1. Len(b) \in Nat /\ \A i \in 1 .. Len(b) : b[i] \in Nat
  BY LenProperties, ElementOfSeq
<1> DEFINE n == Len(b)
           s == SubSeq(b, 1, n)
<1>2. 1 \in Int /\ n \in Int /\ 1 <= n
  BY <1>1
<1>3. s \in Seq(Nat) /\ Len(s) = n /\ \A i \in 1 .. n : s[i] = b[i]
  BY <1>1, <1>2, SubSeqProperties
<1> HIDE DEF s
<1>4. s = b
  BY <1>1, <1>3, SeqEqual
<1> QED
  BY <1>4 DEF s

LEMMA SubNext ==
    ASSUME IInv, SubInv, OneByOne, [Next]_vars
    PROVE  SubInv'
<1> USE DEF IInv
<1>0. ~(pc \in Batching)
  BY Numbers DEF Hand, OneByOne
<1>1. CASE UNCHANGED vars \/ Node
  <2>1. /\ UNCHANGED <<pc, cur, blk, rows, parsed, base>>
        /\ Node \/ chain' = chain
    BY <1>1, NodeKeeps DEF vars, memory
  <2>2. /\ Tip' >= InitHeight /\ Tip' >= Tip /\ Begun' /\ Footing' /\ Linked' /\ AncestorsParsed'
        /\ Live(pc) => \A k \in Int : Solid(k) => Solid(k)'
    BY <2>1, SubStays
  <2>3. Tip \in Nat /\ Tip' \in Nat /\ cur \in Nat
    BY <2>1, NodeGrows DEF Shape, Tip
  <2>4. Lag'
    BY <2>1, <2>2, <2>3, Numbers DEF SubInv, Lag
  <2>5. Rooted'
    <3>1. ASSUME NEW k \in Int, Live(pc), Solid(k) PROVE Solid(k)'
      BY <2>2, <3>1
    <3>2. pc \in {"parse", "record"} => Solid(cur - Retain)'
      <4>1. ASSUME NEW k \in Int, k = cur - Retain, pc \in {"parse", "record"} PROVE Solid(k)'
        BY <3>1, <4>1 DEF SubInv, Rooted, Live
      <4> QED
        BY <2>1, <2>3, <4>1, Numbers
    <3>3. pc = "delete" => Solid(cur - 1 - Retain)'
      <4>1. ASSUME NEW k \in Int, k = cur - 1 - Retain, pc = "delete" PROVE Solid(k)'
        BY <3>1, <4>1 DEF SubInv, Rooted, Live
      <4> QED
        BY <2>1, <2>3, <4>1, Numbers
    <3> QED
      BY <2>1, <3>2, <3>3 DEF SubInv, Rooted
  <2> QED
    BY <2>2, <2>4, <2>5 DEF SubInv
<1>2. CASE Halt \/ GiveUp
  <2>1. /\ base' = base /\ rows' = rows /\ parsed \subseteq parsed' /\ chain' = chain
        /\ Live(pc') => Live(pc) /\ cur' = cur
        /\ pc' \notin {"sub", "parse", "record", "delete"}
    BY <1>2 DEF Halt, GiveUp, Live
  <2>2. Tip' >= InitHeight /\ Begun' /\ Footing' /\ Linked' /\ AncestorsParsed'
    BY <2>1, SubStays
  <2> QED
    BY <2>1, <2>2 DEF SubInv, Lag, Rooted
<1>3. CASE Start
  <2>1. /\ pc' = "loop" /\ cur' \in Nat /\ UNCHANGED <<chain, rows, parsed>>
        /\ Recorded = {} => base' = cur' /\ cur' \in {1 + Tip, 1 + StartAt}
                            /\ (cur' # 1 + Tip => StartAt # 0)
        /\ Recorded # {} => base' = base /\ cur' - 1 \in Recorded
    BY <1>3, StartsAt
  <2>2. Recorded' = Recorded /\ Tip' = Tip
    BY <2>1 DEF Recorded, Tip
  <2>3. Lag' /\ Rooted'
    BY <2>1, <2>2 DEF SubInv, Lag, Rooted
  <2>4. CASE Recorded = {}
    <3>1. base' > Retain
      BY <2>1, <2>4, Numbers DEF SubInv, Lag, OneByOne, Tip, Shape
    <3> QED
      BY <2>1, <2>2, <2>3, <2>4, <3>1
         DEF SubInv, Begun, Footing, Linked, AncestorsParsed
  <2>5. CASE Recorded # {}
    <3>1. cur' - 1 \in Recorded' /\ cur' > base /\ base > Retain
      <4>1. cur' - 1 \in Recorded /\ cur' \in Nat /\ base \in Nat
        BY <2>1, <2>5 DEF Shape
      <4>2. cur' - 1 >= base
        BY <4>1 DEF SubInv, Linked
      <4>3. base > Retain
        BY <2>5 DEF SubInv, Begun
      <4>4. cur' > base
        BY <4>1, <4>2, Above
      <4> QED
        BY <2>2, <4>1, <4>3, <4>4
    <3>2. Linked' /\ AncestorsParsed'
      BY <2>1, <2>2, <2>5 DEF SubInv, Linked, AncestorsParsed, Solid, Tip, BlockAt
    <3> QED
      BY <2>1, <2>3, <2>5, <3>1, <3>2 DEF SubInv, Begun, Footing, Shape
  <2> QED
    BY <2>4, <2>5
<1>4. CASE Parser
  <2>1. /\ UNCHANGED <<chain, cur, rows, parsed, base>> /\ Live(pc)
        /\ pc' \in {"sub", "batch"} /\ (pc' = "sub" => cur < Minus(Tip, ConfirmNum))
    BY <1>4 DEF Parser, SubMode, memory, Live
  <2>2. Tip' >= InitHeight /\ Begun' /\ Footing' /\ Linked' /\ AncestorsParsed'
    BY <2>1, SubStays
  <2>3. Minus(Tip, ConfirmNum) = Tip - ConfirmNum /\ Tip \in Nat
    BY Numbers DEF Minus, SubInv, Lag, OneByOne, Tip, Shape
  <2>4. Lag'
    BY <2>1, <2>2, <2>3, Numbers DEF Lag, Tip, Shape
  <2> QED
    BY <2>1, <2>2, <2>4 DEF SubInv, Rooted
<1>5. CASE FetchBlock /\ CheckFork(BlockAt(cur))
  <2>1. /\ UNCHANGED <<chain, rows, parsed, base>> /\ Live(pc) /\ pc' = "loop" /\ cur' = cur - 1
        /\ cur - 1 \in Recorded /\ cur \in Nat
    BY <1>5 DEF FetchBlock, CheckFork, Row, Recorded, Live, Shape
  <2>2. Recorded' = Recorded /\ Tip' = Tip /\ \A k \in Int : Solid(k)' = Solid(k)
    BY <2>1 DEF Recorded, Tip, Solid, BlockAt
  <2>3. cur - 1 >= base /\ (cur - 1 = base \/ cur - 2 \in Recorded \/ Solid(cur - 2))
    BY <2>1 DEF SubInv, Linked
  <2>4. Footing'
    <3>1. ASSUME NEW k \in Int, k = cur - 2, cur - 1 > base
          PROVE  k \in Recorded' \/ Solid(k)'
      BY <2>2, <2>3, <3>1 DEF Shape
    <3>2. cur' - 1 = cur - 2 /\ cur - 2 \in Int
      BY <2>1
    <3> QED
      BY <2>1, <3>1, <3>2 DEF Footing
  <2>5. Begun' /\ Linked' /\ AncestorsParsed'
    <3>1. Begun'
      BY <2>1, <2>2, <2>3 DEF SubInv, Begun
    <3>2. Linked' /\ AncestorsParsed'
      BY <2>1, <2>2 DEF SubInv, Linked, AncestorsParsed, Solid, Tip, BlockAt
    <3> QED
      BY <3>1, <3>2
  <2> QED
    BY <2>1, <2>2, <2>4, <2>5 DEF SubInv, Lag, Rooted
<1>6. CASE FetchBlock /\ ~CheckFork(BlockAt(cur))
  <2>1. /\ UNCHANGED <<chain, cur, rows, parsed, base>> /\ Live(pc) /\ pc' = "parse" /\ pc = "sub"
        /\ blk' = BlockAt(cur)
    BY <1>6 DEF FetchBlock, Live
  <2>2. Tip' >= InitHeight /\ Tip' >= Tip /\ Begun' /\ Footing' /\ Linked' /\ AncestorsParsed'
    BY <2>1, SubStays
  <2>3. /\ \A j \in base .. cur - 1 : SubSeq(BlockAt(cur), 1, j) \in parsed
        /\ Solid(cur - Retain)
    BY <1>6, FetchIsRooted
  <2>4. Lag'
    BY <2>1, <2>2 DEF SubInv, Lag, Tip
  <2>5. Solid(cur - Retain)'
    BY <2>1, <2>3 DEF Solid, Tip, BlockAt
  <2> QED
    BY <2>1, <2>2, <2>3, <2>4, <2>5 DEF SubInv, Rooted
<1>7. CASE ParseBlock
  <2>1. /\ UNCHANGED <<chain, cur, blk, rows, base>> /\ Live(pc) /\ pc' = "record" /\ pc = "parse"
        /\ parsed \subseteq parsed'
    BY <1>7 DEF ParseBlock, Live, memory
  <2>2. Tip' >= InitHeight /\ Tip' >= Tip /\ Begun' /\ Footing' /\ Linked' /\ AncestorsParsed'
    BY <2>1, SubStays
  <2>3. Lag'
    BY <2>1, <2>2 DEF SubInv, Lag, Tip
  <2>4. Rooted'
    BY <2>1 DEF SubInv, Rooted, Solid, Tip, BlockAt
  <2> QED
    BY <2>2, <2>3, <2>4 DEF SubInv
<1>8. CASE CreateBlockInfo
  <2>1. /\ cur \in Heights /\ Len(blk) = cur /\ blk \in Seq(Nat) /\ blk \in parsed
        /\ UNCHANGED <<chain, parsed, base>> /\ Live(pc) /\ pc = "record" /\ pc' = "delete"
        /\ cur' = cur + 1 /\ rows' = [rows EXCEPT ![cur] = blk]
    BY <1>8 DEF CreateBlockInfo, Hand, Live
  <2>2. cur \in Nat /\ cur > 0 /\ base \in Nat /\ base > Retain /\ cur >= base /\ blk # NoBlock
    BY <2>1, EmptySeq, Numbers DEF SubInv, Begun, Shape, Heights, NoBlock
  <2>3. /\ Recorded' = Recorded \cup {cur} /\ rows'[cur] = blk
        /\ \A h \in Recorded \ {cur} : rows'[h] = rows[h]
    BY <2>1, <2>2 DEF Recorded, Shape
  <2>4. Tip' = Tip /\ \A k \in Int : Solid(k)' = Solid(k)
    BY <2>1 DEF Solid, Tip, BlockAt
  <2>5. Lag' /\ Begun' /\ Footing'
    BY <2>1, <2>2, <2>3, <2>4 DEF SubInv, Lag, Begun, Footing
  <2>6. Linked'
    <3>1. ASSUME NEW h \in Recorded
          PROVE  h >= base /\ (h = base \/ h - 1 \in Recorded' \/ Solid(h - 1)')
      BY <2>3, <2>4, Numbers DEF SubInv, Linked, Recorded, Heights
    <3>2. cur = base \/ cur - 1 \in Recorded \/ (cur - 1 \in Int /\ Solid(cur - 1))
      BY <2>1, <2>2 DEF SubInv, Footing
    <3>3. ASSUME NEW h \in Int, h = cur
          PROVE  h >= base /\ (h = base \/ h - 1 \in Recorded' \/ Solid(h - 1)')
      BY <2>2, <2>3, <2>4, <3>2, <3>3
    <3> QED
      BY <2>1, <2>2, <2>3, <3>1, <3>3 DEF Linked
  <2>7. AncestorsParsed'
    <3>1. \A j \in base .. cur : SubSeq(blk, 1, j) \in parsed
      <4> SUFFICES ASSUME NEW j \in base .. cur PROVE SubSeq(blk, 1, j) \in parsed
        OBVIOUS
      <4>1. CASE j = cur
        BY <2>1, <2>2, <4>1, WholeBranch
      <4>2. CASE j # cur
        BY <2>1, <2>2, <4>2 DEF SubInv, Rooted
      <4> QED
        BY <4>1, <4>2
    <3>2. \A h \in Recorded' : \A j \in base .. h : SubSeq(rows'[h], 1, j) \in parsed
      <4> SUFFICES ASSUME NEW h \in Recorded'
                   PROVE  \A j \in base .. h : SubSeq(rows'[h], 1, j) \in parsed
        OBVIOUS
      <4>1. CASE h = cur
        BY <2>3, <3>1, <4>1
      <4>2. CASE h # cur
        BY <2>3, <4>2 DEF SubInv, AncestorsParsed
      <4> QED
        BY <4>1, <4>2
    <3> QED
      BY <2>1, <3>2 DEF AncestorsParsed
  <2>8. Rooted'
    <3>1. cur' - 1 - Retain = cur - Retain /\ cur - Retain \in Int
      BY <2>1, <2>2, Numbers
    <3>2. Solid(cur - Retain)
      BY <2>1 DEF SubInv, Rooted
    <3>3. ASSUME NEW k \in Int, k = cur - Retain PROVE Solid(k)'
      BY <2>4, <3>2, <3>3
    <3> QED
      BY <2>1, <3>1, <3>3 DEF Rooted
  <2> QED
    BY <2>5, <2>6, <2>7, <2>8 DEF SubInv
<1>9. CASE DeleteBlockInfo
  <2>1. /\ UNCHANGED <<chain, cur, parsed, base>> /\ Live(pc) /\ pc' = "loop"
        /\ rows' = [h \in Heights |-> IF h < Minus(cur, Retain) THEN NoBlock ELSE rows[h]]
        /\ last \in Heights /\ cur = last + 1 /\ rows[last] # NoBlock /\ Solid(cur - 1 - Retain)
    BY <1>9 DEF DeleteBlockInfo, memory, Live, Resume, SubInv, Rooted
  <2>2. cur \in Nat /\ base \in Nat /\ base > Retain /\ cur >= base
    BY <2>1 DEF SubInv, Begun, Shape
  <2>3. Minus(cur, Retain) = cur - Retain
    BY <2>2, Numbers DEF Minus
  <2>4. Tip' = Tip /\ \A k \in Int : Solid(k)' = Solid(k)
    BY <2>1 DEF Solid, Tip, BlockAt
  <2>5. /\ \A h \in Recorded' : h \in Recorded /\ rows'[h] = rows[h]
        /\ \A h \in Recorded : h >= cur - Retain => h \in Recorded'
    BY <2>1, <2>3, Numbers DEF Recorded, Heights, Shape
  <2>6. cur - 1 \in Recorded'
    BY <2>1, <2>2, <2>5, Numbers DEF Recorded, Heights
  <2>7. Lag' /\ Begun' /\ Footing' /\ Rooted'
    BY <2>1, <2>2, <2>4, <2>5, <2>6 DEF SubInv, Lag, Begun, Footing, Rooted
  <2>8. Linked'
    <3>1. ASSUME NEW h \in Recorded'
          PROVE  h >= base /\ (h = base \/ h - 1 \in Recorded' \/ Solid(h - 1)')
      <4>1. h \in Recorded /\ h \in Int /\ h - 1 \in Int
        BY <2>5, Numbers DEF Recorded, Heights
      <4>2. h >= base /\ (h = base \/ h - 1 \in Recorded \/ Solid(h - 1))
        BY <4>1 DEF SubInv, Linked
      <4>3. CASE h - 1 >= cur - Retain
        BY <2>4, <2>5, <4>1, <4>2, <4>3
      <4>4. CASE ~(h - 1 >= cur - Retain)
        <5>1. h - 1 <= cur - 1 - Retain /\ cur - 1 - Retain \in Int
          BY <2>2, <4>1, <4>4, Numbers
        <5>2. Solid(h - 1)
          BY <2>1, <4>1, <5>1, SolidBelow
        <5> QED
          BY <2>4, <4>1, <4>2, <5>2
      <4> QED
        BY <4>3, <4>4
    <3> QED
      BY <2>1, <3>1 DEF Linked
  <2>9. AncestorsParsed'
    BY <2>1, <2>5 DEF SubInv, AncestorsParsed
  <2> QED
    BY <2>7, <2>8, <2>9 DEF SubInv
<1>10. CASE (\E h \in Heights : FetchBatch(h)) \/ ParseBatch \/ CreateBlockInfoList
  BY <1>0, <1>10 DEF FetchBatch, ParseBatch, CreateBlockInfoList, Batching
<1> QED
  BY <1>1, <1>2, <1>3, <1>4, <1>5, <1>6, <1>7, <1>8, <1>9, <1>10, Steps

LEMMA SubInit ==
    ASSUME Init, OneByOne
    PROVE  SubInv
<1>1. Tip = InitHeight /\ Recorded = {}
  BY ChainInit DEF Init, Recorded, Tip
<1> QED
  BY <1>1, Numbers DEF Init, SubInv, Lag, Begun, Footing, Linked, Rooted, AncestorsParsed, Live

\* Block by block, a row vouches for its whole branch: every block below it,
\* down to where the parser began, was parsed, however the chain reorganised, as
\* long as no reorganisation reaches more than Retain + 1 blocks below the
\* confirmations (parserSubMode, CheckFork, DeleteBlockInfo).
THEOREM BranchParsed == OneByOne /\ Spec => []AncestorsParsed
<1> SUFFICES ASSUME OneByOne PROVE Spec => []AncestorsParsed
  OBVIOUS
<1>1. Init => SubInv
  BY SubInit
<1>2. IInv /\ SubInv /\ [Next]_vars => SubInv'
  BY SubNext
<1>3. SubInv => AncestorsParsed
  BY DEF SubInv
<1> QED
  BY <1>1, <1>2, <1>3, ParserInvariance, PTL DEF Spec

\* What batches recorded is not forgotten, and the node's branch only grows.
LEMMA Grows ==
    ASSUME Shape, Hand, [Next]_vars
    PROVE  /\ batched \subseteq batched' /\ Tip' >= Tip
           /\ Tip \in 1 .. MaxHeight /\ Tip' \in 1 .. MaxHeight
<1>1. batched \subseteq batched'
  BY DEF Next, Node, Extend, Reorg, Round, Trouble, Start, Parser, FetchBlock, ParseBlock,
         ParseBadBlock, CreateBlockInfo, FetchBatch, ParseBatch, ParseBadBatch,
         CreateBlockInfoList, DeleteBlockInfo, NotThere, StartFails, Crash, Fail,
         FailParseBatch, vars
<1>2. CASE Node
  BY <1>1, <1>2, NodeGrows DEF Shape, Tip
<1>3. CASE ~Node
  <2>1. chain' = chain
    BY <1>3 DEF Next, Round, Trouble, Start, Parser, FetchBlock, ParseBlock,
         ParseBadBlock, CreateBlockInfo, FetchBatch, ParseBatch, ParseBadBatch,
         CreateBlockInfoList, DeleteBlockInfo, NotThere, StartFails, Crash, Fail,
         FailParseBatch, vars
  <2> QED
    BY <1>1, <2>1 DEF Shape, Tip
<1> QED
  BY <1>2, <1>3

LEMMA RowHeights == \A r \in Recorded : r \in Heights /\ r \in Nat /\ r <= MaxHeight
BY Numbers DEF Recorded, Heights

-----------------------------------------------------------------------------
(***************************************************************************)
(* Both modes, under reorganisations the confirmations cover, on a chain   *)
(* beyond the height where the unsigned arithmetic of the modes wraps      *)
(* around.                                                                 *)
(***************************************************************************)

Covered == MaxReorg <= ConfirmNum + 1 /\ ConfirmNum + ConcurrencyNum <= InitHeight

\* a block of the node's branch that has its confirmations
Final(b) == Len(b) >= 1 /\ Len(b) + ConfirmNum < Tip /\ b = BlockAt(Len(b))

Settled ==
    /\ Tip >= InitHeight
    /\ pc = "sub" => cur + ConfirmNum < Tip
    /\ pc \in Batching => cur + ConfirmNum + ConcurrencyNum < Tip
    /\ pc \in {"parse", "record"} => Final(blk)
    /\ \A h \in DOMAIN buf : Final(buf[h])
    /\ \A b \in parsed : Final(b)

\* A final block stays so.
LEMMA FinalStays ==
    ASSUME Shape, MaxReorg <= ConfirmNum + 1, NEW b \in Seq(Nat), Final(b),
           Node \/ chain' = chain
    PROVE  Final(b)'
<1>1. Len(b) \in Nat /\ Len(b) \in 1 .. Len(chain) /\ Len(chain) \in Nat
  BY LenProperties, Numbers DEF Final, Tip, Shape
<1>2. CASE chain' = chain
  BY <1>2 DEF Final, Tip, BlockAt
<1>3. CASE Node
  <2>1. /\ Len(chain') = Len(chain) + 1
        /\ \A k \in 1 .. Len(chain) : k + MaxReorg <= Len(chain) => BlockAt(k)' = BlockAt(k)
    BY <1>3, NodeGrows DEF Shape
  <2>2. Len(b) + MaxReorg <= Len(chain)
    BY <1>1, Numbers DEF Final, Tip
  <2>3. BlockAt(Len(b))' = BlockAt(Len(b))
    BY <1>1, <2>1, <2>2
  <2>4. Len(b) + ConfirmNum < Len(chain')
    BY <1>1, <2>1, Numbers DEF Final, Tip
  <2> QED
    BY <2>3, <2>4 DEF Final, Tip
<1> QED
  BY <1>2, <1>3

\* A block that is read with its confirmations is final.
LEMMA ReadIsFinal ==
    ASSUME Shape, NEW h \in 1 .. Tip, h + ConfirmNum < Tip
    PROVE  BlockAt(h) \in Seq(Nat) /\ Final(BlockAt(h))
<1>1. BlockAt(h) \in Seq(Nat) /\ Len(BlockAt(h)) = h
  BY BlockAtIs DEF Shape
<1> QED
  BY <1>1 DEF Final

LEMMA SettledNext ==
    ASSUME IInv, Settled, Covered, [Next]_vars
    PROVE  Settled'
<1> USE DEF IInv
<1>1. CASE UNCHANGED vars \/ Node
  <2>1. UNCHANGED <<pc, cur, blk, buf, parsed>> /\ (Node \/ chain' = chain)
    BY <1>1, NodeKeeps DEF vars, memory
  <2>2. Tip \in Nat /\ Tip' \in Nat /\ Tip' >= Tip /\ cur \in Nat
    BY <2>1, NodeGrows DEF Shape, Tip
  <2>3. pc \in {"parse", "record"} => Final(blk)'
    <3>1. ASSUME NEW b \in Seq(Nat), b = blk, Final(b) PROVE Final(b)'
      BY <2>1, <3>1, FinalStays DEF Covered
    <3> QED
      BY <2>1, <3>1 DEF Settled, Hand
  <2>4. \A h \in DOMAIN buf : Final(buf[h])'
    <3> SUFFICES ASSUME NEW h \in DOMAIN buf PROVE Final(buf[h])'
      OBVIOUS
    <3>1. ASSUME NEW b \in Seq(Nat), b = buf[h] PROVE Final(b)'
      BY <2>1, <3>1, FinalStays DEF Settled, Covered
    <3>2. buf[h] \in Seq(Nat)
      BY DEF Hand
    <3> QED
      BY <2>1, <3>1, <3>2
  <2>5. \A b \in parsed : Final(b)'
    BY <2>1, FinalStays DEF Settled, Shape, Covered
  <2> QED
    BY <2>1, <2>2, <2>3, <2>4, <2>5, Numbers DEF Settled
<1>2. CASE Start
  BY <1>2, StartsAt DEF Settled, Hand, Batching, Final, Tip, BlockAt
<1>3. CASE Halt
  BY <1>3 DEF Halt, Live, Settled, Batching, Final, Tip, BlockAt
<1>4. CASE GiveUp
  BY <1>4 DEF GiveUp, Settled, Batching, Final, Tip, BlockAt
<1>5. CASE Parser
  <2>1. /\ UNCHANGED <<chain, cur, blk, buf, parsed>>
        /\ \/ pc' = "batch" /\ cur < Minus(Minus(Tip, ConfirmNum), ConcurrencyNum)
           \/ pc' = "sub" /\ cur < Minus(Tip, ConfirmNum)
    BY <1>5 DEF Parser, ConcurrencyMode, SubMode, memory
  <2>2. Minus(Tip, ConfirmNum) = Tip - ConfirmNum /\ Tip \in Nat /\ Tip >= ConfirmNum + ConcurrencyNum
    BY Numbers DEF Minus, Settled, Covered, Shape, Tip
  <2>3. Minus(Tip - ConfirmNum, ConcurrencyNum) = Tip - ConfirmNum - ConcurrencyNum
    BY <2>2, Numbers DEF Minus
  <2>4. /\ pc' = "sub" => cur + ConfirmNum < Tip
        /\ pc' = "batch" => cur + ConfirmNum + ConcurrencyNum < Tip
    BY <2>1, <2>2, <2>3, Numbers DEF Shape
  <2> QED
    BY <2>1, <2>4 DEF Settled, Batching, Final, Tip, BlockAt
<1>6. CASE FetchBlock
  <2>1. UNCHANGED <<chain, buf, parsed>> /\ pc = "sub" /\ cur \in 1 .. Tip
        /\ (pc' = "loop" \/ (pc' = "parse" /\ blk' = BlockAt(cur)))
    BY <1>6 DEF FetchBlock
  <2>2. Final(BlockAt(cur))
    BY <2>1, ReadIsFinal DEF Settled
  <2> QED
    BY <2>1, <2>2 DEF Settled, Batching, Final, Tip, BlockAt
<1>7. CASE ParseBlock
  BY <1>7 DEF ParseBlock, Settled, Batching, Final, Tip, BlockAt, memory
<1>8. CASE CreateBlockInfo \/ CreateBlockInfoList
  BY <1>8 DEF CreateBlockInfo, CreateBlockInfoList, Settled, Batching, Forget, Final, Tip, BlockAt
<1>9. ASSUME NEW h \in Heights, FetchBatch(h)
      PROVE  Settled'
  <2>1. /\ UNCHANGED <<chain, cur, parsed>> /\ pc = "batch" /\ pc' \in {"batch", "parseBatch"}
        /\ h \in Batch /\ h \in 1 .. Tip
        /\ buf' = [k \in DOMAIN buf \cup {h} |-> IF k = h THEN BlockAt(h) ELSE buf[k]]
    BY <1>9 DEF FetchBatch, Heights, Shape, Tip
  <2>2. Final(BlockAt(h))
    <3>1. h + ConfirmNum < Tip
      BY <2>1, Numbers DEF Settled, Batching, Batch, Shape, Tip
    <3> QED
      BY <2>1, <3>1, ReadIsFinal
  <2>3. \A k \in DOMAIN buf' : Final(buf'[k])
    BY <2>1, <2>2 DEF Settled
  <2> QED
    BY <2>1, <2>3 DEF Settled, Batching, Final, Tip, BlockAt
<1>10. CASE ParseBatch
  <2>1. /\ UNCHANGED <<chain, cur, buf>> /\ pc' = "recordBatch" /\ pc = "parseBatch"
        /\ parsed' = parsed \cup {buf[h] : h \in DOMAIN buf}
    BY <1>10 DEF ParseBatch, Hand, memory
  <2> QED
    BY <2>1 DEF Settled, Batching, Final, Tip, BlockAt
<1>11. CASE DeleteBlockInfo
  BY <1>11 DEF DeleteBlockInfo, Settled, Batching, Final, Tip, BlockAt, memory
<1> QED
  BY <1>1, <1>2, <1>3, <1>4, <1>5, <1>6, <1>7, <1>8, <1>9, <1>10, <1>11, Steps

LEMMA SettledInvariance == Covered /\ Spec => []Settled
<1> SUFFICES ASSUME Covered PROVE Spec => []Settled
  OBVIOUS
<1>1. Init => Settled
  <2> SUFFICES ASSUME Init PROVE Settled
    OBVIOUS
  <2>1. Tip = InitHeight
    BY ChainInit DEF Tip
  <2> QED
    BY <2>1, Numbers DEF Init, Settled, Batching
<1>2. IInv /\ Settled /\ [Next]_vars => Settled'
  BY SettledNext
<1> QED
  BY <1>1, <1>2, ParserInvariance, PTL DEF Spec

\* The same from the first block of the chain on. Where the unsigned arithmetic
\* wraps around, the parser is still so low that a batch it begins ends below the
\* height Deep: its current block is at most the one above the tip.
Young == MaxReorg <= ConfirmNum + 1 /\ ConcurrencyNum > 0 /\ StartAt <= InitHeight

Deep == ConfirmNum + 2 * ConcurrencyNum
Firm(b) == Len(b) >= Deep => Final(b)

\* everything the parser knows of is on the chain's heights
InReach ==
    /\ Tip >= InitHeight
    /\ Live(pc) => cur <= Tip + 1
    /\ pc \in {"parse", "record"} => cur <= Tip
    /\ \A h \in DOMAIN buf : h <= Tip
    /\ \A r \in Recorded : r <= Tip

\* what is read from the height Deep on has its confirmations
Confirmed ==
    /\ pc = "sub" => cur + ConfirmNum < Tip \/ cur < Deep
    /\ pc \in Batching => cur + ConfirmNum + ConcurrencyNum < Tip \/ cur + ConcurrencyNum <= Deep
    /\ pc \in {"parse", "record"} => Firm(blk)
    /\ \A h \in DOMAIN buf : Firm(buf[h])
    /\ \A b \in parsed : Firm(b)

LEMMA Rises ==
    ASSUME NEW a \in Nat, NEW b \in Nat, b >= a
    PROVE  \A n \in Nat : (n <= a + 1 => n <= b + 1) /\ (n <= a => n <= b)
OBVIOUS

LEMMA InReachNext ==
    ASSUME IInv, InReach, StartAt <= InitHeight, [Next]_vars
    PROVE  InReach'
<1> USE DEF IInv
<1>0. /\ Tip \in Nat /\ Tip' \in Nat /\ Tip' >= Tip /\ cur \in Nat
      /\ \A h \in Heights : h \in Nat
  BY Grows, Numbers DEF Shape, Heights
<1>1. CASE UNCHANGED <<cur, buf, rows>> /\ (Live(pc') => Live(pc))
           /\ (pc' \in {"parse", "record"} => pc \in {"parse", "record"})
  <2>1. Recorded' = Recorded
    BY <1>1 DEF Recorded
  <2>2. DOMAIN buf' \subseteq Heights
    BY <1>1 DEF Hand
  <2>3. \A n \in Nat : (n <= Tip + 1 => n <= Tip' + 1) /\ (n <= Tip => n <= Tip')
    BY <1>0, Rises
  <2>4. \A h \in DOMAIN buf' : h \in Nat /\ h \in DOMAIN buf
    BY <1>0, <1>1, <2>2
  <2>5. Tip' >= InitHeight
    BY <1>0, Rises, Numbers DEF InReach
  <2> QED
    BY <1>0, <1>1, <2>1, <2>3, <2>4, <2>5, RowHeights DEF InReach
<1>2. CASE Halt \/ GiveUp
  <2>1. rows' = rows /\ chain' = chain /\ DOMAIN buf' = {} /\ pc' \notin {"parse", "record"}
        /\ (Live(pc') => Live(pc) /\ cur' = cur)
    BY <1>2 DEF Halt, GiveUp, Live
  <2> QED
    BY <2>1 DEF InReach, Recorded, Tip
<1>3. CASE Start
  <2>1. /\ pc' = "loop" /\ UNCHANGED <<chain, buf, rows>>
        /\ Recorded = {} => cur' \in {1 + Tip, 1 + StartAt}
        /\ Recorded # {} => cur' \in Nat /\ cur' - 1 \in Recorded
    BY <1>3, StartsAt
  <2>2. cur' <= Tip + 1
    <3>1. CASE Recorded = {}
      <4>1. \A c \in {1 + Tip, 1 + StartAt} : c <= Tip + 1
        BY <1>0, Numbers DEF InReach
      <4> QED
        BY <2>1, <3>1, <4>1
    <3>2. CASE Recorded # {}
      <4>1. \A n \in Nat : n - 1 \in Recorded => n <= Tip + 1
        BY <1>0 DEF InReach
      <4> QED
        BY <2>1, <3>2, <4>1
    <3> QED
      BY <3>1, <3>2
  <2> QED
    BY <2>1, <2>2 DEF InReach, Recorded, Tip
<1>4. CASE FetchBlock
  <2>1. /\ UNCHANGED <<chain, buf, rows>> /\ pc = "sub" /\ cur \in 1 .. Tip
        /\ cur' \in {cur, cur - 1}
    BY <1>4 DEF FetchBlock
  <2>2. cur' <= Tip
    <3>1. cur <= Tip /\ cur - 1 <= Tip
      BY <1>0, <2>1
    <3> QED
      BY <2>1, <3>1
  <2>3. cur' <= Tip + 1
    <3>1. cur <= Tip + 1 /\ cur - 1 <= Tip + 1
      BY <1>0, <2>1
    <3> QED
      BY <2>1, <3>1
  <2> QED
    BY <2>1, <2>2, <2>3 DEF InReach, Recorded, Tip
<1>5. CASE CreateBlockInfo
  <2>1. /\ chain' = chain /\ DOMAIN buf' = {} /\ pc = "record" /\ pc' = "delete"
        /\ cur' = cur + 1 /\ rows' = [rows EXCEPT ![cur] = blk]
    BY <1>5 DEF CreateBlockInfo, Forget
  <2>2. cur <= Tip /\ cur + 1 <= Tip + 1
    BY <1>0, <2>1 DEF InReach
  <2>3. Recorded' \subseteq Recorded \cup {cur}
    BY <2>1 DEF Recorded, Shape
  <2> QED
    BY <2>1, <2>2, <2>3 DEF InReach, Tip
<1>6. ASSUME NEW h \in Heights, FetchBatch(h)
      PROVE  InReach'
  <2>1. /\ UNCHANGED <<chain, cur, rows>> /\ pc = "batch" /\ pc' \in {"batch", "parseBatch"}
        /\ h <= Tip /\ DOMAIN buf' = DOMAIN buf \cup {h}
    BY <1>6 DEF FetchBatch
  <2> QED
    BY <2>1 DEF InReach, Recorded, Tip, Live
<1>7. CASE CreateBlockInfoList
  <2>1. /\ chain' = chain /\ DOMAIN buf' = {} /\ pc = "recordBatch" /\ pc' = "delete"
        /\ cur' = cur + ConcurrencyNum /\ DOMAIN buf = Batch /\ ConcurrencyNum > 1
        /\ rows' = [h \in Heights |-> IF h \in Batch THEN buf[h] ELSE rows[h]]
    BY <1>7 DEF CreateBlockInfoList, Forget, Hand, Batching
  <2>2. \A h \in Batch : h <= Tip
    BY <2>1 DEF InReach
  <2>3. cur + ConcurrencyNum <= Tip + 1
    <3>1. cur + ConcurrencyNum - 1 \in Batch
      BY <1>0, <2>1, Numbers DEF Batch
    <3>2. cur + ConcurrencyNum - 1 <= Tip
      BY <2>2, <3>1
    <3> QED
      BY <1>0, <3>2, Numbers
  <2>4. Recorded' \subseteq Recorded \cup Batch
    BY <2>1 DEF Recorded
  <2> QED
    BY <2>1, <2>2, <2>3, <2>4 DEF InReach, Tip
<1>8. CASE DeleteBlockInfo
  <2>1. /\ UNCHANGED <<chain, cur, buf>> /\ pc = "delete" /\ pc' = "loop"
        /\ rows' = [h \in Heights |-> IF h < Minus(cur, Retain) THEN NoBlock ELSE rows[h]]
    BY <1>8 DEF DeleteBlockInfo, memory
  <2>2. Recorded' \subseteq Recorded
    BY <2>1 DEF Recorded
  <2> QED
    BY <2>1, <2>2 DEF InReach, Tip, Live
<1>9. CASE UNCHANGED vars \/ Node \/ Parser \/ ParseBlock \/ ParseBatch
  BY <1>1, <1>9, NodeKeeps DEF Parser, ParseBlock, ParseBatch, vars, memory, Live
<1> QED
  BY <1>2, <1>3, <1>4, <1>5, <1>6, <1>7, <1>8, <1>9, Steps

\* The modes, also where the subtraction wraps around.
LEMMA ModesConfirm ==
    ASSUME ConcurrencyNum > 0, NEW t \in Nat, NEW c \in Nat, c <= t + 1
    PROVE  /\ c < Minus(t, ConfirmNum) => c + ConfirmNum < t \/ c < Deep
           /\ c < Minus(Minus(t, ConfirmNum), ConcurrencyNum)
              => c + ConfirmNum + ConcurrencyNum < t \/ c + ConcurrencyNum <= Deep
<1> USE Numbers
<1>1. CASE t >= ConfirmNum + ConcurrencyNum
  <2>1. Minus(t, ConfirmNum) = t - ConfirmNum
    BY <1>1 DEF Minus
  <2>2. Minus(t - ConfirmNum, ConcurrencyNum) = t - ConfirmNum - ConcurrencyNum
    BY <1>1 DEF Minus
  <2> QED
    BY <2>1, <2>2
<1>2. CASE t >= ConfirmNum /\ ~(t >= ConfirmNum + ConcurrencyNum)
  <2>1. Minus(t, ConfirmNum) = t - ConfirmNum
    BY <1>2 DEF Minus
  <2> QED
    BY <1>2, <2>1 DEF Deep
<1>3. CASE ~(t >= ConfirmNum)
  BY <1>3 DEF Deep
<1> QED
  BY <1>1, <1>2, <1>3

LEMMA ConfirmedNext ==
    ASSUME IInv, InReach, Confirmed, Young, [Next]_vars
    PROVE  Confirmed'
<1> USE DEF IInv
<1>0. MaxReorg <= ConfirmNum + 1 /\ ConcurrencyNum > 0
  BY DEF Young
<1>1. CASE UNCHANGED vars \/ Node
  <2>1. UNCHANGED <<pc, cur, blk, buf, parsed>> /\ (Node \/ chain' = chain)
    BY <1>1, NodeKeeps DEF vars, memory
  <2>2. Tip \in Nat /\ Tip' \in Nat /\ Tip' >= Tip /\ cur \in Nat
    BY <2>1, NodeGrows DEF Shape, Tip
  <2>3. ASSUME NEW b \in Seq(Nat), Firm(b) PROVE Firm(b)'
    BY <1>0, <2>1, <2>3, FinalStays DEF Firm
  <2>4. pc \in {"parse", "record"} => Firm(blk)'
    <3>1. ASSUME NEW b \in Seq(Nat), b = blk, Firm(b) PROVE Firm(b)'
      BY <2>3, <3>1
    <3> QED
      BY <2>1, <3>1 DEF Confirmed, Hand
  <2>5. \A h \in DOMAIN buf : Firm(buf[h])'
    <3> SUFFICES ASSUME NEW h \in DOMAIN buf PROVE Firm(buf[h])'
      OBVIOUS
    <3>1. ASSUME NEW b \in Seq(Nat), b = buf[h] PROVE Firm(b)'
      BY <2>3, <3>1 DEF Confirmed
    <3>2. buf[h] \in Seq(Nat)
      BY DEF Hand
    <3> QED
      BY <2>1, <3>1, <3>2
  <2>6. \A b \in parsed : Firm(b)'
    BY <2>1, <2>3 DEF Confirmed, Shape
  <2>7. /\ pc = "sub" => cur + ConfirmNum < Tip' \/ cur < Deep
        /\ pc \in Batching => cur + ConfirmNum + ConcurrencyNum < Tip'
                              \/ cur + ConcurrencyNum <= Deep
    BY <2>2, Numbers DEF Confirmed
  <2> QED
    BY <2>1, <2>4, <2>5, <2>6, <2>7 DEF Confirmed, Deep
<1>2. CASE Start
  BY <1>2, StartsAt DEF Confirmed, Hand, Batching, Firm, Deep, Final, Tip, BlockAt
<1>3. CASE Halt
  BY <1>3 DEF Halt, Live, Confirmed, Batching, Firm, Deep, Final, Tip, BlockAt
<1>4. CASE GiveUp
  BY <1>4 DEF GiveUp, Confirmed, Batching, Firm, Deep, Final, Tip, BlockAt
<1>5. CASE Parser
  <2>1. /\ UNCHANGED <<chain, cur, blk, buf, parsed>> /\ pc = "loop"
        /\ \/ pc' = "batch" /\ cur < Minus(Minus(Tip, ConfirmNum), ConcurrencyNum)
           \/ pc' = "sub" /\ cur < Minus(Tip, ConfirmNum)
    BY <1>5 DEF Parser, ConcurrencyMode, SubMode, memory
  <2>2. Tip \in Nat /\ cur \in Nat /\ cur <= Tip + 1
    BY <2>1 DEF Shape, Tip, InReach, Live
  <2>3. /\ pc' = "sub" => cur + ConfirmNum < Tip \/ cur < Deep
        /\ pc' = "batch" => cur + ConfirmNum + ConcurrencyNum < Tip \/ cur + ConcurrencyNum <= Deep
    BY <1>0, <2>1, <2>2, ModesConfirm
  <2> QED
    BY <2>1, <2>3 DEF Confirmed, Batching, Firm, Deep, Final, Tip, BlockAt
<1>6. CASE FetchBlock
  <2>1. UNCHANGED <<chain, buf, parsed>> /\ pc = "sub" /\ cur \in 1 .. Tip
        /\ (pc' = "loop" \/ (pc' = "parse" /\ blk' = BlockAt(cur)))
    BY <1>6 DEF FetchBlock
  <2>2. Firm(BlockAt(cur))
    <3>1. Len(BlockAt(cur)) = cur /\ cur \in Nat /\ Deep \in Nat
      BY <2>1, BlockAtIs, Numbers DEF Shape, Deep
    <3>2. cur + ConfirmNum < Tip \/ cur < Deep
      BY <2>1 DEF Confirmed
    <3> QED
      BY <2>1, <3>1, <3>2, ReadIsFinal DEF Firm
  <2> QED
    BY <2>1, <2>2 DEF Confirmed, Batching, Firm, Deep, Final, Tip, BlockAt
<1>7. CASE ParseBlock
  BY <1>7 DEF ParseBlock, Confirmed, Batching, Firm, Deep, Final, Tip, BlockAt, memory
<1>8. CASE CreateBlockInfo \/ CreateBlockInfoList
  BY <1>8 DEF CreateBlockInfo, CreateBlockInfoList, Confirmed, Batching, Forget, Firm, Deep,
              Final, Tip, BlockAt
<1>9. ASSUME NEW h \in Heights, FetchBatch(h)
      PROVE  Confirmed'
  <2>1. /\ UNCHANGED <<chain, cur, parsed>> /\ pc = "batch" /\ pc' \in {"batch", "parseBatch"}
        /\ h \in Batch /\ h \in 1 .. Tip
        /\ buf' = [k \in DOMAIN buf \cup {h} |-> IF k = h THEN BlockAt(h) ELSE buf[k]]
    BY <1>9 DEF FetchBatch, Heights, Shape, Tip
  <2>2. Firm(BlockAt(h))
    <3>1. Len(BlockAt(h)) = h /\ h \in Nat /\ Deep \in Nat
      BY <2>1, BlockAtIs, Numbers DEF Shape, Deep
    <3>2. h + ConfirmNum < Tip \/ h < Deep
      <4>1. cur + ConfirmNum + ConcurrencyNum < Tip \/ cur + ConcurrencyNum <= Deep
        BY <2>1 DEF Confirmed, Batching
      <4>2. h < cur + ConcurrencyNum /\ cur \in Nat /\ Tip \in Nat
        BY <2>1, Numbers DEF Batch, Shape, Tip
      <4> QED
        BY <3>1, <4>1, <4>2, Numbers
    <3> QED
      BY <2>1, <3>1, <3>2, ReadIsFinal DEF Firm
  <2>3. \A k \in DOMAIN buf' : Firm(buf'[k])
    BY <2>1, <2>2 DEF Confirmed
  <2> QED
    BY <2>1, <2>3 DEF Confirmed, Batching, Firm, Deep, Final, Tip, BlockAt
<1>10. CASE ParseBatch
  <2>1. /\ UNCHANGED <<chain, cur, buf>> /\ pc' = "recordBatch" /\ pc = "parseBatch"
        /\ parsed' = parsed \cup {buf[h] : h \in DOMAIN buf}
    BY <1>10 DEF ParseBatch, Hand, memory
  <2> QED
    BY <2>1 DEF Confirmed, Batching, Firm, Deep, Final, Tip, BlockAt
<1>11. CASE DeleteBlockInfo
  BY <1>11 DEF DeleteBlockInfo, Confirmed, Batching, Firm, Deep, Final, Tip, BlockAt, memory
<1> QED
  BY <1>1, <1>2, <1>3, <1>4, <1>5, <1>6, <1>7, <1>8, <1>9, <1>10, <1>11, Steps

LEMMA ConfirmedInvariance == Young /\ Spec => [](InReach /\ Confirmed)
<1> SUFFICES ASSUME Young PROVE Spec => [](InReach /\ Confirmed)
  OBVIOUS
<1>1. Init => InReach /\ Confirmed
  <2> SUFFICES ASSUME Init PROVE InReach /\ Confirmed
    OBVIOUS
  <2>1. Tip = InitHeight /\ Recorded = {}
    BY ChainInit DEF Tip, Init, Recorded
  <2> QED
    BY <2>1, Numbers DEF Init, InReach, Confirmed, Batching, Live
<1>2. IInv /\ InReach /\ Confirmed /\ [Next]_vars => InReach' /\ Confirmed'
  BY InReachNext, ConfirmedNext DEF Young
<1> QED
  BY <1>1, <1>2, ParserInvariance, PTL DEF Spec

\* Nothing is parsed that can still be reorganised away (Parser waits for
\* confirm_num confirmations in both modes).
THEOREM ParsedStays == (Covered \/ Young) /\ Spec => []ParsedIsFinal
<1>1. IInv /\ Settled => ParsedIsFinal
  BY Numbers DEF Settled, Final, ParsedIsFinal, IInv, Shape, Tip
<1>2. IInv /\ Confirmed => ParsedIsFinal
  BY Numbers DEF Confirmed, Firm, Deep, Final, ParsedIsFinal, IInv, Shape, Tip
<1>3. Covered /\ Spec => []ParsedIsFinal
  BY <1>1, SettledInvariance, ParserInvariance, PTL
<1>4. Young /\ Spec => []ParsedIsFinal
  BY <1>2, ConfirmedInvariance, ParserInvariance, PTL
<1> QED
  BY <1>3, <1>4

\* With that, and with no height passed over, batches without a fork check
\* leave out no block of a branch either.
THEOREM BatchesParseBranch == Covered /\ Spec => []AncestorsParsed
<1>1. ASSUME IInv, Settled
      PROVE  AncestorsParsed
  <2> SUFFICES ASSUME NEW h \in Recorded, NEW k \in base .. h
               PROVE  SubSeq(rows[h], 1, k) \in parsed
    BY DEF AncestorsParsed
  <2>1. /\ h \in Heights /\ Len(rows[h]) = h /\ rows[h] \in parsed
        /\ \E b \in parsed : Len(b) = k
    BY <1>1 DEF IInv, Below, Seen, Recorded
  <2>2. PICK b \in parsed : Len(b) = k
    BY <2>1
  <2>3. Final(b) /\ Final(rows[h])
    BY <1>1, <2>1 DEF Settled
  <2>4. b = BlockAt(k) /\ k >= 1 /\ rows[h] = BlockAt(h)
    BY <2>1, <2>2, <2>3 DEF Final
  <2>5. h \in 1 .. Tip /\ k \in 1 .. h
    BY <1>1, <2>1, <2>3, <2>4, Numbers DEF Final, Heights, Tip, IInv, Shape
  <2> QED
    BY <1>1, <2>4, <2>5, BlockAtOfBlockAt DEF IInv, Shape
<1> QED
  BY <1>1, SettledInvariance, ParserInvariance, PTL

-----------------------------------------------------------------------------
(***************************************************************************)
(* Both modes, however deep the chain reorganises, where batches are not   *)
(* longer than the memory of the rows. Sub mode is chosen only within      *)
(* ConcurrencyNum blocks of the confirmed tip, and a fork is stepped back  *)
(* from only when the tip has moved on, so the row below is still there    *)
(* whenever sub mode looks for it. It is missing only after                *)
(* CurrentBlockNumber - Retain has wrapped around and deleted every row.   *)
(* Either the parser begins where that cannot happen, or reorganisations   *)
(* are so shallow that the block sub mode has read last is final; then the *)
(* first batch has to end where nothing wraps around any more. The tip     *)
(* minus confirmations and batch, if it wraps, is above every height.      *)
(***************************************************************************)

Shallow == MaxReorg <= ConfirmNum + 1
Reach   == IF Shallow THEN ConcurrencyNum ELSE 1

Remembered ==
    /\ ConcurrencyNum > 1 /\ ConcurrencyNum <= Retain
    /\ Retain <= InitHeight + 1 + Reach /\ (StartAt > 0 => Retain <= StartAt + 1 + Reach)
    /\ Modulus > MaxHeight + ConfirmNum + ConcurrencyNum

\* the parser stays above where it began
Above0 ==
    /\ Tip >= InitHeight
    /\ Live(pc) => cur >= base /\ base > 0 /\ base + Reach >= Retain
    /\ \A r \in Recorded : r >= base /\ base > 0 /\ base + Reach >= Retain

\* a row at or above the current block is below the confirmed tip: it was
\* stepped back from
Ahead == Live(pc) => \A r \in Recorded : r >= cur => r + 1 + ConfirmNum < Tip

\* the node's block of this height is parsed, for good, and no row of another
\* block is in its place
Sure(k) == Shallow /\ \E b \in parsed : Len(b) = k /\ Final(b)
Safe(k) == Sure(k) /\ (k \in Recorded => rows[k] = BlockAt(k))

\* the parser has passed a height, or will have at the next start
Passed(k) == IF Live(pc) THEN k < cur ELSE \E r \in Recorded : k <= r

\* the rows of the Retain heights below the highest one are all there, but
\* for those below a safe block that was passed
Kept ==
    \A k \in Heights : /\ k >= base
                       /\ Passed(k) \/ \E r \in Recorded : k <= r
                       /\ \A r \in Recorded : r < k + Retain
                       => k \in Recorded \/ \E j \in Heights : k <= j /\ Passed(j) /\ Safe(j)

\* the current block is at most the one above the highest row
Topped == Live(pc) /\ Recorded # {} => \E r \in Recorded : cur - 1 <= r

\* the block that loses its row with all others is safe
Wiped == pc = "delete" /\ cur < Retain => \A k \in Heights : cur = k + 1 => Safe(k)

\* sub mode has the row below, or needs none, and so reads no block above an
\* unparsed parent
Guarded ==
    /\ pc = "sub" /\ cur \in Heights =>
          /\ cur + ConfirmNum < Tip
          /\ cur > base => \E k \in Heights : cur = k + 1 /\ (k \in Recorded \/ Sure(k))
    /\ pc \in {"parse", "record"} => /\ cur > base => Parent(blk) \in parsed
                                     /\ Shallow => Final(blk)

MemoryInv ==
    Above0 /\ Ahead /\ Kept /\ Topped /\ Wiped /\ Guarded /\ UnparsedParentOnlyByBatch

\* What is sure stays sure.
LEMMA SureStays ==
    ASSUME Shape, NEW k, Sure(k), parsed \subseteq parsed', Node \/ chain' = chain
    PROVE  Sure(k)' /\ BlockAt(k)' = BlockAt(k)
<1>1. PICK b \in parsed : Len(b) = k /\ Final(b)
  BY DEF Sure
<1>2. b \in Seq(Nat) /\ Shallow
  BY DEF Shape, Sure
<1>3. Final(b)'
  BY <1>1, <1>2, FinalStays DEF Shallow
<1>4. b \in parsed'
  BY <1>1
<1>5. b = BlockAt(k) /\ b = BlockAt(k)'
  BY <1>1, <1>3 DEF Final
<1> QED
  BY <1>1, <1>2, <1>3, <1>4, <1>5 DEF Sure, Shallow

LEMMA SafeStays ==
    ASSUME Shape, NEW k, Safe(k), parsed \subseteq parsed', Node \/ chain' = chain,
           k \in Recorded' => rows'[k] = rows[k]
    PROVE  Safe(k)'
<1>1. Sure(k)' /\ BlockAt(k)' = BlockAt(k)
  BY SureStays DEF Safe
<1>2. k \in Recorded' => rows'[k] = BlockAt(k)
  BY DEF Recorded, Safe
<1> QED
  BY <1>1, <1>2 DEF Safe

\* Of a step that leaves the rows and where the parser began.
LEMMA MemoryStays ==
    ASSUME Shape, MemoryInv, base' = base, rows' = rows, parsed \subseteq parsed',
           batched \subseteq batched', Tip' >= Tip, Tip \in Nat, Tip' \in Nat,
           Node \/ chain' = chain, Live(pc') => Live(pc) /\ cur' = cur,
           pc' = "delete" => pc = "delete"
    PROVE  Above0' /\ Ahead' /\ Kept' /\ Topped' /\ Wiped' /\ UnparsedParentOnlyByBatch'
<1>1. Recorded' = Recorded
  BY DEF Recorded
<1>2. Above0'
  BY <1>1, Numbers DEF MemoryInv, Above0, Reach, Shallow
<1>3. Ahead'
  BY <1>1, RowHeights, Numbers DEF MemoryInv, Ahead
<1>4. ASSUME NEW k \in Heights, Safe(k) PROVE Safe(k)'
  BY <1>1, <1>4, SafeStays
<1>5. Topped'
  BY <1>1 DEF MemoryInv, Topped
<1>6. ASSUME NEW k \in Heights, Passed(k)' PROVE Passed(k) \/ \E r \in Recorded : k <= r
  BY <1>1, <1>6 DEF Passed
<1>7. ASSUME NEW k \in Heights, Passed(k), Recorded # {} \/ Live(pc') PROVE Passed(k)'
  <2>1. CASE Live(pc')
    BY <1>7, <2>1 DEF Passed
  <2>2. CASE ~Live(pc') /\ Live(pc)
    <3>1. PICK r \in Recorded : cur - 1 <= r
      BY <1>7, <2>2 DEF MemoryInv, Topped
    <3>2. k < cur /\ k \in Nat /\ cur \in Nat
      BY <1>7, <2>2, Numbers DEF Passed, Heights, Shape
    <3>3. k <= r
      BY <3>1, <3>2, RowHeights
    <3> QED
      BY <1>1, <2>2, <3>3 DEF Passed
  <2>3. CASE ~Live(pc') /\ ~Live(pc)
    BY <1>1, <1>7, <2>3 DEF Passed
  <2> QED
    BY <2>1, <2>2, <2>3
<1>8. Kept'
  <2> SUFFICES ASSUME NEW k \in Heights, k >= base,
                      Passed(k)' \/ \E r \in Recorded : k <= r,
                      \A r \in Recorded : r < k + Retain,
                      k \notin Recorded
               PROVE  \E j \in Heights : k <= j /\ Passed(j)' /\ Safe(j)'
    BY <1>1 DEF Kept
  <2>1. Passed(k) \/ \E r \in Recorded : k <= r
    BY <1>6
  <2>2. PICK j \in Heights : k <= j /\ Passed(j) /\ Safe(j)
    BY <2>1 DEF MemoryInv, Kept
  <2>3. Recorded # {} \/ Live(pc')
    BY <1>1 DEF Passed
  <2> QED
    BY <1>4, <1>7, <2>2, <2>3
<1>9. Wiped'
  <2>1. pc' = "delete" => pc = "delete" /\ cur' = cur
    BY DEF Live
  <2> QED
    BY <1>4, <2>1 DEF MemoryInv, Wiped
<1>10. UnparsedParentOnlyByBatch'
  BY <1>1 DEF MemoryInv, UnparsedParentOnlyByBatch
<1> QED
  BY <1>2, <1>3, <1>5, <1>8, <1>9, <1>10

\* Rows added from the current block up to the one below its next value.
LEMMA MemoryGrows ==
    ASSUME Shape, MemoryInv, Live(pc), Live(pc'), base' = base, chain' = chain, parsed' = parsed,
           cur >= base, base > 0, base + Reach >= Retain,
           NEW n \in Nat, cur < n, cur' = n,
           Recorded \subseteq Recorded', n - 1 \in Recorded',
           \A h \in Recorded' : h \in Heights /\ (h \in Recorded \/ (cur <= h /\ h < n)),
           \A k \in Heights : k >= cur /\ k < n => k \in Recorded',
           \A k \in Heights : k < cur => rows'[k] = rows[k]
    PROVE  Above0' /\ Ahead' /\ Kept' /\ Topped'
<1>1. cur \in Nat /\ base \in Nat /\ Tip' = Tip /\ \A k \in Heights : k \in Nat
  BY Numbers DEF Shape, Tip, Heights
<1>2. Above0'
  <2>1. \A h \in Recorded' : h >= base
    BY <1>1 DEF MemoryInv, Above0
  <2>2. n >= base
    BY <1>1
  <2> QED
    BY <1>1, <2>1, <2>2 DEF MemoryInv, Above0, Reach, Shallow
<1>3. Ahead'
  <2>1. \A r \in Recorded' : r >= n => r + 1 + ConfirmNum < Tip
    BY <1>1, RowHeights DEF MemoryInv, Ahead
  <2> QED
    BY <1>1, <2>1 DEF Ahead
<1>4. ASSUME NEW j \in Heights, Passed(j), Safe(j) PROVE Passed(j)' /\ Safe(j)'
  <2>1. j < cur /\ j < n
    BY <1>1, <1>4 DEF Passed
  <2>2. rows'[j] = rows[j]
    BY <2>1
  <2>3. Safe(j)'
    BY <1>4, <2>2, SafeStays
  <2> QED
    BY <2>1, <2>3 DEF Passed
<1>5. Kept'
  <2> SUFFICES ASSUME NEW k \in Heights, k >= base,
                      k < n \/ \E r \in Recorded' : k <= r,
                      \A r \in Recorded' : r < k + Retain,
                      k \notin Recorded'
               PROVE  \E j \in Heights : k <= j /\ Passed(j)' /\ Safe(j)'
    BY DEF Kept, Passed
  <2>1. k < cur \/ \E r \in Recorded : k <= r
    <3>1. CASE k < n
      BY <1>1, <3>1
    <3>2. ASSUME NEW r \in Recorded', k <= r, ~(k < n) PROVE r \in Recorded
      BY <1>1, <3>2
    <3> QED
      BY <3>1, <3>2
  <2>2. k \notin Recorded /\ \A r \in Recorded : r < k + Retain
    OBVIOUS
  <2>3. Passed(k) \/ \E r \in Recorded : k <= r
    BY <2>1 DEF Passed
  <2>4. PICK j \in Heights : k <= j /\ Passed(j) /\ Safe(j)
    BY <2>2, <2>3 DEF MemoryInv, Kept
  <2> QED
    BY <1>4, <2>4
<1>6. Topped'
  <2>1. n - 1 <= n - 1
    OBVIOUS
  <2> QED
    BY <2>1 DEF Topped
<1> QED
  BY <1>2, <1>3, <1>5, <1>6

\* Where sub mode is chosen: above the last batch there could be, and below the
\* confirmations.
LEMMA SubWindow ==
    ASSUME Remembered, NEW t \in 1 .. MaxHeight, NEW c \in Nat, c <= MaxHeight + 1,
           ~(ConcurrencyNum > 1 /\ c < Minus(Minus(t, ConfirmNum), ConcurrencyNum)),
           c < Minus(t, ConfirmNum)
    PROVE  c + ConfirmNum < t /\ t <= c + ConfirmNum + ConcurrencyNum
<1>1. /\ ConfirmNum \in Nat /\ ConcurrencyNum \in Nat /\ MaxHeight \in Nat /\ Modulus \in Nat
      /\ t \in Nat /\ t >= 1 /\ ConcurrencyNum > 1 /\ Modulus > MaxHeight + ConfirmNum + ConcurrencyNum
  BY Numbers DEF Remembered
<1>2. CASE t >= ConfirmNum
  <2>1. Minus(t, ConfirmNum) = t - ConfirmNum
    BY <1>2 DEF Minus
  <2>2. CASE t - ConfirmNum >= ConcurrencyNum
    <3>1. Minus(t - ConfirmNum, ConcurrencyNum) = t - ConfirmNum - ConcurrencyNum
      BY <2>2 DEF Minus
    <3>2. ~(c < t - ConfirmNum - ConcurrencyNum) /\ c < t - ConfirmNum
      BY <1>1, <2>1, <3>1
    <3> QED
      BY <1>1, <3>2
  <2>3. CASE ~(t - ConfirmNum >= ConcurrencyNum)
    BY <1>1, <2>1, <2>3
  <2> QED
    BY <2>2, <2>3
<1>3. CASE ~(t >= ConfirmNum)
  <2>1. Minus(t, ConfirmNum) = Modulus + t - ConfirmNum
    BY <1>3 DEF Minus
  <2>2. Modulus + t - ConfirmNum >= ConcurrencyNum
    BY <1>1
  <2>3. Minus(Modulus + t - ConfirmNum, ConcurrencyNum) = Modulus + t - ConfirmNum - ConcurrencyNum
    BY <1>1, <2>2 DEF Minus
  <2>4. ~(c < Modulus + t - ConfirmNum - ConcurrencyNum)
    BY <1>1, <2>1, <2>3
  <2> QED
    BY <1>1, <2>4
<1> QED
  BY <1>2, <1>3

\* There the row below is still there, or none is needed.
LEMMA RowBelow ==
    ASSUME Shape, MemoryInv, Remembered, Live(pc), cur \in Heights,
           ~ConcurrencyMode, cur < Minus(Tip, ConfirmNum)
    PROVE  /\ cur + ConfirmNum < Tip
           /\ cur > base => \E k \in Heights : cur = k + 1 /\ (k \in Recorded \/ Sure(k))
<1>1. /\ cur \in Nat /\ base \in Nat /\ Tip \in 1 .. MaxHeight /\ cur <= MaxHeight + 1
      /\ Retain \in Nat /\ ConfirmNum \in Nat /\ ConcurrencyNum \in Nat /\ MaxHeight \in Nat
      /\ ConcurrencyNum <= Retain /\ Retain > 0 /\ \A k \in Heights : k \in Nat
  BY Numbers DEF Shape, Tip, Remembered, Heights
<1>2. cur + ConfirmNum < Tip /\ Tip <= cur + ConfirmNum + ConcurrencyNum
  BY <1>1, SubWindow DEF ConcurrencyMode
<1>3. ASSUME cur > base
      PROVE  \E k \in Heights : cur = k + 1 /\ (k \in Recorded \/ Sure(k))
  <2>1. base > 0
    BY DEF MemoryInv, Above0
  <2> DEFINE k == cur - 1
  <2>2. k \in Heights /\ k >= base /\ k < cur /\ cur = k + 1 /\ k \in Nat
    BY <1>1, <1>3, <2>1 DEF Heights
  <2>3. ASSUME NEW q \in Recorded PROVE q < k + Retain
    <3>1. q \in Nat /\ (q >= cur => q + 1 + ConfirmNum < Tip)
      BY RowHeights DEF MemoryInv, Ahead
    <3> QED
      BY <1>1, <1>2, <2>2, <3>1
  <2> HIDE DEF k
  <2>4. k \in Recorded \/ \E j \in Heights : k <= j /\ Passed(j) /\ Safe(j)
    BY <2>2, <2>3 DEF MemoryInv, Kept, Passed
  <2>5. ASSUME NEW j \in Heights, k <= j, Passed(j), Safe(j) PROVE Sure(k)
    <3>1. j = k
      BY <1>1, <2>2, <2>5 DEF Passed
    <3> QED
      BY <2>5, <3>1 DEF Safe
  <2> QED
    BY <2>2, <2>4, <2>5
<1> QED
  BY <1>2, <1>3

\* The parent of a block the node has is the node's block below it.
LEMMA ParentIs ==
    ASSUME chain \in Seq(Nat), NEW k \in Heights, k + 1 \in 1 .. Tip
    PROVE  Parent(BlockAt(k + 1)) = BlockAt(k)
<1>1. k \in Nat /\ k \in 1 .. k + 1 /\ k >= 1
  BY Numbers DEF Heights
<1>2. Len(BlockAt(k + 1)) = k + 1
  BY BlockAtIs
<1>3. Len(BlockAt(k + 1)) - 1 = k
  BY <1>1, <1>2
<1> QED
  BY <1>1, <1>3, BlockAtOfBlockAt DEF Parent

LEMMA MemoryNext ==
    ASSUME IInv, MemoryInv, Remembered, [Next]_vars
    PROVE  MemoryInv'
<1> USE DEF IInv
<1>0. /\ batched \subseteq batched' /\ Tip' >= Tip /\ Tip \in Nat /\ Tip' \in Nat
      /\ Tip \in 1 .. MaxHeight
  BY Grows, Numbers
<1>1. CASE UNCHANGED vars \/ Node
  <2>1. UNCHANGED <<pc, cur, blk, rows, parsed, base>> /\ (Node \/ chain' = chain)
    BY <1>1, NodeKeeps DEF vars, memory
  <2>2. Above0' /\ Ahead' /\ Kept' /\ Topped' /\ Wiped' /\ UnparsedParentOnlyByBatch'
    BY <1>0, <2>1, MemoryStays
  <2>3. Guarded'
    <3>1. Recorded' = Recorded
      BY <2>1 DEF Recorded
    <3>2. ASSUME NEW k \in Heights, Sure(k) PROVE Sure(k)'
      BY <2>1, <3>2, SureStays
    <3>3. pc \in {"parse", "record"} /\ Shallow => Final(blk)'
      <4>1. ASSUME NEW b \in Seq(Nat), b = blk, Final(b), Shallow PROVE Final(b)'
        BY <2>1, <4>1, FinalStays DEF Shallow
      <4> QED
        BY <2>1, <4>1 DEF MemoryInv, Guarded, Hand
    <3>4. cur + ConfirmNum < Tip => cur + ConfirmNum < Tip'
      BY <1>0, Numbers DEF Shape
    <3> QED
      BY <2>1, <3>1, <3>2, <3>3, <3>4 DEF MemoryInv, Guarded, Parent, Shallow
  <2> QED
    BY <2>2, <2>3 DEF MemoryInv
<1>2. CASE Halt \/ GiveUp
  <2>1. /\ base' = base /\ rows' = rows /\ parsed \subseteq parsed' /\ chain' = chain
        /\ Live(pc') => Live(pc) /\ cur' = cur
        /\ pc' \notin {"sub", "parse", "record", "delete"}
    BY <1>2 DEF Halt, GiveUp, Live
  <2>2. Above0' /\ Ahead' /\ Kept' /\ Topped' /\ Wiped' /\ UnparsedParentOnlyByBatch'
    BY <1>0, <2>1, MemoryStays
  <2> QED
    BY <2>1, <2>2 DEF MemoryInv, Guarded
<1>3. CASE Start
  <2>1. /\ pc = "down" /\ pc' = "loop" /\ cur' \in Nat /\ UNCHANGED <<chain, rows, parsed>>
        /\ Recorded = {} => base' = cur' /\ cur' \in {1 + Tip, 1 + StartAt}
                            /\ (cur' # 1 + Tip => StartAt # 0)
        /\ Recorded # {} => base' = base /\ cur' = 1 + Highest(Recorded)
    BY <1>3, StartsAt DEF Start, InitCurrentBlockNumber, InitCurrentBlockNumberDoge
  <2>2. Recorded' = Recorded /\ Tip' = Tip
    BY <2>1 DEF Recorded, Tip
  <2>3. Guarded' /\ Wiped'
    BY <2>1 DEF Guarded, Wiped
  <2>4. UnparsedParentOnlyByBatch'
    <3>1. CASE Recorded = {}
      BY <2>2, <3>1 DEF UnparsedParentOnlyByBatch
    <3>2. CASE Recorded # {}
      BY <1>0, <2>1, <2>2, <3>2 DEF MemoryInv, UnparsedParentOnlyByBatch
    <3> QED
      BY <3>1, <3>2
  <2>5. CASE Recorded = {}
    <3>1. \A c \in {1 + Tip, 1 + StartAt} :
            (c # 1 + Tip => StartAt # 0) => c + Reach >= Retain /\ c > 0 /\ c >= c
      BY <1>0, Numbers DEF MemoryInv, Above0, Remembered, Reach
    <3>2. base' = cur' /\ base' + Reach >= Retain /\ base' > 0 /\ base' >= base'
      BY <2>1, <2>5, <3>1
    <3>3. Above0'
      BY <2>1, <2>2, <2>5, <3>2 DEF MemoryInv, Above0, Reach, Shallow
    <3>4. Kept'
      <4>1. \A k \in Heights, c \in Nat : ~(k >= c /\ k < c)
        BY Numbers DEF Heights
      <4> QED
        BY <2>1, <2>2, <2>5, <4>1 DEF Kept, Passed, Live
    <3> QED
      BY <2>1, <2>2, <2>3, <2>4, <2>5, <3>3, <3>4 DEF MemoryInv, Ahead, Topped
  <2>6. CASE Recorded # {}
    <3>1. Recorded \subseteq Heights
      BY DEF Recorded
    <3>2. Highest(Recorded) \in Recorded /\ \A r \in Recorded : r <= Highest(Recorded)
      BY <2>6, <3>1, HighestIn
    <3> DEFINE h == Highest(Recorded)
    <3>3. h \in Recorded /\ h \in Nat /\ cur' = 1 + h /\ \A r \in Recorded : r \in Nat /\ r <= h
      BY <2>1, <2>6, <3>2, RowHeights
    <3> HIDE DEF h
    <3>4. Above0'
      <4>1. 1 + h >= base /\ base > 0 /\ base + Reach >= Retain
        BY <3>3 DEF MemoryInv, Above0, Shape
      <4> QED
        BY <2>1, <2>2, <2>6, <3>3, <4>1 DEF MemoryInv, Above0, Reach, Shallow
    <3>5. Ahead'
      <4>1. \A r \in Recorded : ~(r >= 1 + h)
        BY <3>3
      <4> QED
        BY <2>2, <3>3, <4>1 DEF Ahead
    <3>6. \A k \in Heights : k < 1 + h <=> \E r \in Recorded : k <= r
      BY <3>3, Numbers DEF Heights
    <3>7. \A k \in Heights : (Passed(k)' <=> Passed(k)) /\ (Safe(k) => Safe(k)')
      <4>1. \A k \in Heights : Passed(k)' <=> Passed(k)
        BY <2>1, <3>3, <3>6 DEF Passed, Live
      <4>2. ASSUME NEW k \in Heights, Safe(k) PROVE Safe(k)'
        BY <2>1, <4>2, SafeStays
      <4> QED
        BY <4>1, <4>2
    <3>8. Kept'
      BY <2>1, <2>2, <2>6, <3>7 DEF MemoryInv, Kept
    <3>9. Topped'
      <4>1. cur' - 1 <= h
        BY <3>3
      <4> QED
        BY <2>2, <3>3, <4>1 DEF Topped
    <3> QED
      BY <2>3, <2>4, <3>4, <3>5, <3>8, <3>9 DEF MemoryInv
  <2> QED
    BY <2>5, <2>6
<1>4. CASE Parser
  <2>1. /\ UNCHANGED <<chain, cur, rows, parsed, base>> /\ Live(pc)
        /\ pc' \in {"sub", "batch"}
        /\ pc' = "sub" => ~ConcurrencyMode /\ cur < Minus(Tip, ConfirmNum)
    BY <1>4 DEF Parser, SubMode, memory, Live
  <2>2. Above0' /\ Ahead' /\ Kept' /\ Topped' /\ Wiped' /\ UnparsedParentOnlyByBatch'
    BY <1>0, <2>1, MemoryStays
  <2>3. pc' = "sub" /\ cur \in Heights =>
          /\ cur + ConfirmNum < Tip
          /\ cur > base => \E k \in Heights : cur = k + 1 /\ (k \in Recorded \/ Sure(k))
    BY <2>1, RowBelow
  <2>4. Recorded' = Recorded /\ Tip' = Tip
    BY <2>1 DEF Recorded, Tip
  <2>5. ASSUME NEW k \in Heights, Sure(k) PROVE Sure(k)'
    BY <2>1, <2>5, SureStays
  <2> QED
    BY <2>1, <2>2, <2>3, <2>4, <2>5 DEF MemoryInv, Guarded
<1>5. CASE FetchBlock /\ CheckFork(BlockAt(cur))
  <2>1. /\ UNCHANGED <<chain, rows, parsed, base>> /\ pc = "sub" /\ pc' = "loop"
        /\ cur' = cur - 1 /\ cur - 1 \in Recorded /\ cur \in Nat /\ cur \in 1 .. Tip
        /\ rows[cur - 1] # Parent(BlockAt(cur))
    BY <1>5 DEF FetchBlock, CheckFork, Row, Recorded, Shape
  <2>2. Recorded' = Recorded /\ Tip' = Tip
    BY <2>1 DEF Recorded, Tip
  <2> DEFINE k == cur - 1
  <2>3. k \in Recorded /\ k \in Nat /\ k >= base /\ base > 0 /\ base + Reach >= Retain
    BY <2>1, RowHeights DEF MemoryInv, Above0
  <2>4. cur' = k /\ cur = k + 1 /\ base \in Nat /\ k \in Heights /\ cur \in Heights
    BY <1>0, <2>1, <2>3, Numbers DEF Shape, Recorded, Heights
  <2>5. k + 1 + ConfirmNum < Tip
    BY <2>1, <2>3, <2>4, Numbers DEF MemoryInv, Guarded
  <2>6. ~Safe(k)
    <3>1. rows[k] # Parent(BlockAt(k + 1)) /\ k + 1 \in 1 .. Tip
      BY <2>1, <2>4
    <3> QED
      BY <2>3, <2>4, <3>1, ParentIs DEF Safe, Shape
  <2> HIDE DEF k
  <2>7. Above0'
    BY <2>1, <2>2, <2>3, <2>4 DEF MemoryInv, Above0, Reach, Shallow
  <2>8. Ahead'
    <3>1. \A r \in Recorded : r >= k => r + 1 + ConfirmNum < Tip
      BY <2>1, <2>3, <2>4, <2>5, RowHeights DEF MemoryInv, Ahead, Live
    <3> QED
      BY <2>2, <2>4, <3>1 DEF Ahead
  <2>9. Kept'
    <3>1. ASSUME NEW j \in Heights, Passed(j), Safe(j) PROVE Passed(j)' /\ Safe(j)'
      <4>1. j < k
        <5>1. j # k /\ j < k + 1 /\ j \in Nat
          BY <2>1, <2>4, <2>6, <3>1, Numbers DEF Passed, Live, Heights
        <5> QED
          BY <2>3, <5>1
      <4>2. Safe(j)'
        BY <2>1, <3>1, SafeStays
      <4> QED
        BY <2>1, <2>4, <4>1, <4>2 DEF Passed, Live
    <3>2. \A m \in Heights : Passed(m)' => Passed(m)
      <4>1. \A m \in Heights : m < k => m < k + 1
        BY <2>3, Numbers DEF Heights
      <4> QED
        BY <2>1, <2>4, <4>1 DEF Passed, Live
    <3> QED
      BY <2>1, <2>2, <3>1, <3>2 DEF MemoryInv, Kept
  <2>10. Topped'
    <3>1. k - 1 <= k
      BY <2>3
    <3> QED
      BY <2>2, <2>3, <2>4, <3>1 DEF Topped
  <2>11. UnparsedParentOnlyByBatch'
    BY <1>0, <2>1, <2>2 DEF MemoryInv, UnparsedParentOnlyByBatch
  <2> QED
    BY <2>1, <2>7, <2>8, <2>9, <2>10, <2>11 DEF MemoryInv, Guarded, Wiped
<1>6. CASE FetchBlock /\ ~CheckFork(BlockAt(cur))
  <2>1. /\ UNCHANGED <<chain, cur, rows, parsed, base>> /\ Live(pc) /\ pc' = "parse" /\ pc = "sub"
        /\ blk' = BlockAt(cur) /\ cur \in 1 .. Tip
    BY <1>6 DEF FetchBlock, Live
  <2>2. Above0' /\ Ahead' /\ Kept' /\ Topped' /\ Wiped' /\ UnparsedParentOnlyByBatch'
    BY <1>0, <2>1, MemoryStays
  <2>3. cur \in Heights
    BY <1>0, <2>1, Numbers DEF Heights
  <2>4. cur > base => Parent(BlockAt(cur)) \in parsed
    <3> SUFFICES ASSUME cur > base PROVE Parent(BlockAt(cur)) \in parsed
      OBVIOUS
    <3>1. PICK k \in Heights : cur = k + 1 /\ (k \in Recorded \/ Sure(k))
      BY <2>1, <2>3 DEF MemoryInv, Guarded
    <3>2. CASE k \in Recorded
      <4>1. rows[k] \in parsed /\ rows[k] # NoBlock /\ cur - 1 = k
        BY <3>1, <3>2, Numbers DEF Below, Recorded, Heights
      <4> QED
        BY <1>6, <3>1, <4>1 DEF CheckFork, Row
    <3>3. CASE Sure(k)
      <4>1. BlockAt(k) \in parsed
        BY <3>3 DEF Sure, Final
      <4>2. k + 1 \in 1 .. Tip
        BY <2>1, <3>1
      <4> QED
        BY <3>1, <4>1, <4>2, ParentIs DEF Shape
    <3> QED
      BY <3>1, <3>2, <3>3
  <2>5. Final(BlockAt(cur))
    BY <2>1, <2>3, ReadIsFinal DEF MemoryInv, Guarded
  <2>6. ASSUME NEW b, Final(b) PROVE Final(b)'
    BY <2>1, <2>6 DEF Final, Tip, BlockAt
  <2>7. Final(blk)'
    <3>1. ASSUME NEW b, b = BlockAt(cur) PROVE Final(b)'
      BY <2>5, <2>6, <3>1
    <3> QED
      BY <2>1, <3>1
  <2> QED
    BY <2>1, <2>2, <2>4, <2>7 DEF MemoryInv, Guarded, Parent, Shallow
<1>7. CASE ParseBlock
  <2>1. /\ UNCHANGED <<chain, cur, blk, rows, base>> /\ Live(pc) /\ pc' = "record" /\ pc = "parse"
        /\ parsed \subseteq parsed'
    BY <1>7 DEF ParseBlock, Live, memory
  <2>2. Above0' /\ Ahead' /\ Kept' /\ Topped' /\ Wiped' /\ UnparsedParentOnlyByBatch'
    BY <1>0, <2>1, MemoryStays
  <2> QED
    BY <2>1, <2>2 DEF MemoryInv, Guarded, Parent, Shallow, Final, Tip, BlockAt
<1>8. CASE CreateBlockInfo
  <2>1. /\ cur \in Heights /\ Len(blk) = cur /\ blk \in Seq(Nat) /\ blk \in parsed
        /\ UNCHANGED <<chain, parsed, base>> /\ Live(pc) /\ pc = "record" /\ pc' = "delete"
        /\ cur' = cur + 1 /\ rows' = [rows EXCEPT ![cur] = blk]
    BY <1>8 DEF CreateBlockInfo, Hand, Live
  <2>2. cur \in Nat /\ cur > 0 /\ base \in Nat /\ blk # NoBlock
    BY <2>1, EmptySeq, Numbers DEF Shape, Heights, NoBlock
  <2>3. /\ Recorded' = Recorded \cup {cur} /\ rows'[cur] = blk
        /\ \A h \in Recorded \ {cur} : rows'[h] = rows[h]
    BY <2>1, <2>2 DEF Recorded, Shape
  <2>4. cur >= base /\ base > 0 /\ base + Reach >= Retain
    BY <2>1 DEF MemoryInv, Above0
  <2>5. Above0' /\ Ahead' /\ Kept' /\ Topped'
    <3>1. cur + 1 \in Nat /\ cur < cur + 1 /\ cur + 1 - 1 = cur /\ cur <= cur
      BY <2>2
    <3>2. \A h \in Recorded' : h \in Heights /\ (h \in Recorded \/ (cur <= h /\ h < cur + 1))
      BY <2>1, <2>3, <3>1 DEF Recorded
    <3>3. \A k \in Heights : k >= cur /\ k < cur + 1 => k \in Recorded'
      BY <2>2, <2>3, Numbers DEF Heights
    <3>4. Recorded \subseteq Recorded' /\ cur + 1 - 1 \in Recorded'
      BY <2>3, <3>1
    <3>5. \A k \in Heights : k < cur => rows'[k] = rows[k]
      BY <2>1, <2>2 DEF Shape
    <3> QED
      BY <2>1, <2>4, <3>1, <3>2, <3>3, <3>4, <3>5, MemoryGrows DEF Live
  <2>6. Wiped'
    <3> SUFFICES ASSUME NEW k \in Heights, cur + 1 < Retain, cur + 1 = k + 1 PROVE Safe(k)'
      BY <2>1 DEF Wiped
    <3>1. k = cur
      BY <2>2, Numbers DEF Heights
    <3>2. Shallow
      BY <2>2, <2>4, Numbers DEF Reach
    <3>3. Final(blk)
      BY <2>1, <3>2 DEF MemoryInv, Guarded
    <3>4. Sure(k) /\ blk = BlockAt(k)
      BY <2>1, <3>1, <3>2, <3>3 DEF Sure, Final
    <3>5. Sure(k)' /\ BlockAt(k)' = BlockAt(k)
      BY <2>1, <3>4, SureStays
    <3> QED
      BY <2>3, <3>1, <3>4, <3>5 DEF Safe
  <2>7. UnparsedParentOnlyByBatch'
    <3> SUFFICES ASSUME NEW h \in Recorded', h > base, Parent(rows'[h]) \notin parsed
                 PROVE  rows'[h] \in batched'
      BY <2>1 DEF UnparsedParentOnlyByBatch, Parent
    <3>1. h # cur
      BY <2>1, <2>3 DEF MemoryInv, Guarded
    <3> QED
      BY <1>0, <2>3, <3>1 DEF MemoryInv, UnparsedParentOnlyByBatch
  <2> QED
    BY <2>1, <2>5, <2>6, <2>7 DEF MemoryInv, Guarded
<1>9. CASE CreateBlockInfoList
  <2>1. /\ UNCHANGED <<chain, parsed, base>> /\ Live(pc) /\ pc = "recordBatch" /\ pc' = "delete"
        /\ cur' = cur + ConcurrencyNum /\ batched' = batched \cup {buf[h] : h \in Batch}
        /\ rows' = [h \in Heights |-> IF h \in Batch THEN buf[h] ELSE rows[h]]
        /\ DOMAIN buf = Batch /\ Batch \subseteq Heights
        /\ \A h \in Batch : buf[h] \in Seq(Nat) /\ Len(buf[h]) = h
    BY <1>9 DEF CreateBlockInfoList, Hand, Batching, Live
  <2>2. \A h \in Batch : buf[h] # NoBlock
    <3>1. \A h \in Heights : h > 0
      BY Numbers DEF Heights
    <3> QED
      BY <2>1, <3>1, EmptySeq DEF NoBlock
  <2>3. /\ Recorded' = Recorded \cup Batch
        /\ \A h \in Batch : rows'[h] = buf[h]
        /\ \A h \in Recorded \ Batch : rows'[h] = rows[h]
    BY <2>1, <2>2 DEF Recorded
  <2>4. cur >= base /\ base > 0 /\ base + Reach >= Retain
    BY <2>1 DEF MemoryInv, Above0
  <2>5. cur \in Nat /\ base \in Nat /\ ConcurrencyNum \in Nat /\ ConcurrencyNum > 1
    BY Numbers DEF Shape, Remembered
  <2>6. Above0' /\ Ahead' /\ Kept' /\ Topped'
    <3>2. \A h \in Batch : h \in Heights /\ h \in Nat /\ cur <= h /\ h < cur + ConcurrencyNum
      BY <2>1, <2>5 DEF Batch
    <3>3. \A k \in Heights : k >= cur /\ k < cur + ConcurrencyNum => k \in Recorded'
      BY <2>3, <2>5, Numbers DEF Batch, Heights
    <3>4. cur + ConcurrencyNum \in Nat /\ cur < cur + ConcurrencyNum
      BY <2>5
    <3>5. \A h \in Recorded' : h \in Heights
                               /\ (h \in Recorded \/ (cur <= h /\ h < cur + ConcurrencyNum))
      BY <2>3, <3>2 DEF Recorded
    <3>6. Recorded \subseteq Recorded' /\ (cur + ConcurrencyNum) - 1 \in Recorded'
      BY <2>3, <2>5 DEF Batch
    <3>7. /\ Live(pc) /\ Live(pc') /\ base' = base /\ chain' = chain /\ parsed' = parsed
          /\ cur' = cur + ConcurrencyNum
      BY <2>1 DEF Live
    <3>8. \A k \in Heights : k < cur => rows'[k] = rows[k]
      BY <2>1, <2>5 DEF Batch
    <3> QED
      BY <2>4, <3>3, <3>4, <3>5, <3>6, <3>7, <3>8, MemoryGrows
  <2>7. Wiped'
    <3>1. ~(cur + ConcurrencyNum < Retain)
      BY <2>4, <2>5, Numbers DEF Reach
    <3> QED
      BY <2>1, <3>1 DEF Wiped
  <2>8. UnparsedParentOnlyByBatch'
    <3> SUFFICES ASSUME NEW h \in Recorded', h > base, Parent(rows'[h]) \notin parsed
                 PROVE  rows'[h] \in batched'
      BY <2>1 DEF UnparsedParentOnlyByBatch, Parent
    <3> QED
      BY <1>0, <2>1, <2>3 DEF MemoryInv, UnparsedParentOnlyByBatch
  <2> QED
    BY <2>1, <2>6, <2>7, <2>8 DEF MemoryInv, Guarded
<1>10. CASE DeleteBlockInfo
  <2>1. /\ UNCHANGED <<chain, cur, parsed, base>> /\ Live(pc) /\ pc = "delete" /\ pc' = "loop"
        /\ rows' = [h \in Heights |-> IF h < Minus(cur, Retain) THEN NoBlock ELSE rows[h]]
        /\ last \in Heights /\ cur = last + 1 /\ rows[last] # NoBlock
    BY <1>10 DEF DeleteBlockInfo, memory, Live, Resume
  <2>2. /\ last \in Recorded /\ last \in Nat /\ cur \in Nat /\ base \in Nat /\ Retain \in Nat
        /\ Retain > 0
    BY <2>1, Numbers DEF Recorded, Shape, MemoryInv, Above0
  <2>3. \A h \in Recorded' : h \in Recorded /\ rows'[h] = rows[h]
    BY <2>1 DEF Recorded
  <2>4. Tip' = Tip /\ Live(pc')
    BY <2>1 DEF Tip, Live
  <2>5. ASSUME NEW j \in Heights, Passed(j), Safe(j) PROVE Passed(j)' /\ Safe(j)'
    <3>1. Safe(j)'
      BY <2>1, <2>3, <2>5, SafeStays
    <3> QED
      BY <2>1, <2>4, <2>5, <3>1 DEF Passed
  <2>6. Above0'
    BY <2>1, <2>3, <2>4 DEF MemoryInv, Above0, Reach, Shallow
  <2>7. Ahead'
    BY <2>1, <2>3, <2>4 DEF MemoryInv, Ahead
  <2>8. ASSUME cur < Retain PROVE Kept' /\ Topped'
    <3>1. Recorded' = {}
      <4>1. Minus(cur, Retain) = (Modulus + cur) - Retain
        BY <2>2, <2>8, Numbers DEF Minus
      <4>2. \A h \in Heights : h < Minus(cur, Retain)
        BY <2>2, <4>1, Numbers DEF Heights
      <4> QED
        BY <2>1, <4>2 DEF Recorded
    <3>2. Passed(last) /\ Safe(last)
      BY <2>1, <2>2, <2>8 DEF MemoryInv, Wiped, Passed
    <3>3. \A k \in Heights : k < cur => k <= last
      BY <2>1, <2>2, Numbers DEF Heights
    <3>4. Kept'
      <4> SUFFICES ASSUME NEW k \in Heights, k < cur
                   PROVE  \E j \in Heights : k <= j /\ Passed(j)' /\ Safe(j)'
        BY <2>1, <2>4, <3>1 DEF Kept, Passed
      <4> QED
        BY <2>1, <2>5, <3>2, <3>3
    <3> QED
      BY <3>1, <3>4 DEF Topped
  <2>9. ASSUME ~(cur < Retain) PROVE Kept' /\ Topped'
    <3>1. Minus(cur, Retain) = cur - Retain
      BY <2>2, <2>9 DEF Minus
    <3>2. \A h \in Recorded : h + Retain >= cur => h \in Recorded'
      BY <2>1, <2>2, <3>1, RowHeights DEF Recorded, Shape
    <3>3. last \in Recorded'
      BY <2>1, <2>2, <3>2
    <3>4. ASSUME NEW k \in Heights, k >= base, Passed(k) \/ \E r \in Recorded' : k <= r,
                 \A r \in Recorded' : r < k + Retain, k \notin Recorded'
          PROVE  \E j \in Heights : k <= j /\ Passed(j) /\ Safe(j)
      <4>1. k \in Nat /\ last < k + Retain
        BY <3>3, <3>4, Numbers DEF Heights
      <4>2. k + Retain >= cur
        BY <2>1, <2>2, <4>1
      <4>3. ASSUME NEW r \in Recorded PROVE r < k + Retain
        <5>1. CASE r + Retain >= cur
          BY <3>2, <3>4, <5>1
        <5>2. CASE ~(r + Retain >= cur)
          BY <2>1, <2>2, <4>1, <5>2, RowHeights
        <5> QED
          BY <5>1, <5>2
      <4>4. k \notin Recorded
        BY <3>2, <3>4, <4>2
      <4> QED
        BY <2>3, <3>4, <4>3, <4>4 DEF MemoryInv, Kept
    <3>5. \A k \in Heights : Passed(k)' <=> Passed(k)
      BY <2>1, <2>4 DEF Passed
    <3>6. Kept'
      BY <2>1, <2>5, <3>4, <3>5 DEF Kept
    <3>7. Topped'
      <4>1. cur - 1 <= last
        BY <2>1, <2>2
      <4> QED
        BY <2>1, <3>3, <4>1 DEF Topped
    <3> QED
      BY <3>6, <3>7
  <2>10. UnparsedParentOnlyByBatch'
    BY <1>0, <2>1, <2>3 DEF MemoryInv, UnparsedParentOnlyByBatch
  <2> QED
    BY <2>1, <2>6, <2>7, <2>8, <2>9, <2>10 DEF MemoryInv, Guarded, Wiped
<1>11. CASE (\E h \in Heights : FetchBatch(h)) \/ ParseBatch
  <2>1. /\ base' = base /\ rows' = rows /\ parsed \subseteq parsed' /\ cur' = cur /\ Live(pc)
        /\ chain' = chain /\ pc' \notin {"sub", "parse", "record", "delete"}
    BY <1>11 DEF FetchBatch, ParseBatch, memory, Live
  <2>2. Above0' /\ Ahead' /\ Kept' /\ Topped' /\ Wiped' /\ UnparsedParentOnlyByBatch'
    BY <1>0, <2>1, MemoryStays
  <2> QED
    BY <2>1, <2>2 DEF MemoryInv, Guarded
<1> QED
  BY <1>1, <1>2, <1>3, <1>4, <1>5, <1>6, <1>7, <1>8, <1>9, <1>10, <1>11, Steps

LEMMA MemoryInit ==
    ASSUME Init
    PROVE  MemoryInv
<1>1. Tip = InitHeight /\ Recorded = {}
  BY ChainInit DEF Init, Recorded, Tip
<1> QED
  BY <1>1, Numbers
     DEF Init, MemoryInv, Above0, Ahead, Kept, Topped, Wiped, Passed, Guarded,
         UnparsedParentOnlyByBatch, Live

\* Sub mode never records a block above an unparsed parent: without batches, when
\* the rows reach below the reorganisations (OneByOne); in both modes, beyond the
\* height where the modes wrap around, when the confirmations cover them (Covered);
\* and with batches no longer than the memory of the rows (Remembered), however deep
\* they are if the parser begins where the deletion cannot wrap around, and from the
\* first block of the chain on if they are shallow and the first batch ends there.
THEOREM OnlyBatchesSkip ==
    (OneByOne \/ Remembered \/ Covered) /\ Spec => []UnparsedParentOnlyByBatch
<1>1. IInv /\ AncestorsParsed => UnparsedParentOnlyByBatch
  <2> SUFFICES ASSUME IInv, AncestorsParsed, NEW h \in Recorded, h > base
               PROVE  Parent(rows[h]) \in parsed
    BY DEF UnparsedParentOnlyByBatch
  <2>1. Len(rows[h]) = h /\ h \in Nat /\ base \in Nat
    BY RowHeights DEF IInv, Below, Shape
  <2>2. h - 1 \in base .. h
    BY <2>1
  <2> QED
    BY <2>1, <2>2 DEF AncestorsParsed, Parent
<1>2. OneByOne /\ Spec => []UnparsedParentOnlyByBatch
  BY <1>1, BranchParsed, ParserInvariance, PTL
<1>3. Covered /\ Spec => []UnparsedParentOnlyByBatch
  BY <1>1, BatchesParseBranch, ParserInvariance, PTL
<1>4. Remembered /\ Spec => []UnparsedParentOnlyByBatch
  <2> SUFFICES ASSUME Remembered PROVE Spec => []UnparsedParentOnlyByBatch
    OBVIOUS
  <2>1. IInv /\ MemoryInv /\ [Next]_vars => MemoryInv'
    BY MemoryNext
  <2>2. MemoryInv => UnparsedParentOnlyByBatch
    BY DEF MemoryInv
  <2> QED
    BY <2>1, <2>2, MemoryInit, ParserInvariance, PTL DEF Spec
<1> QED
  BY <1>2, <1>3, <1>4

=============================================================================
