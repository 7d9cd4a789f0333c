---------------------- MODULE CopyDestination_proofs ----------------------
(***************************************************************************)
(* What a copy does to its destination: what the operations on their way   *)
(* to the writer are, and which cells change when; for any job, buffers,   *)
(* failures and interleaving.                                              *)
(***************************************************************************)
EXTENDS CopyEngine_proofs, Blocks_proofs

CellSet == {Old, Zero} \cup (1..MaxOffset)

LEMMA JobMore ==
  ASSUME job \in Jobs
  PROVE  /\ job.offset \in Nat /\ job.offset + job.srcLen <= MaxOffset /\ MaxOffset \in Nat
         /\ job.cap \in 0..MaxOffset /\ job.len \in 0..MaxOffset
         /\ job.zap \in Nat /\ job.mark \in Nat
         /\ job.kind \in {"file", "device", "sink"}
         /\ {job.bmap, job.stream, job.holes, job.zeros, job.zeroMode, job.verify, job.sync,
             job.wipe} \subseteq BOOLEAN
         /\ \A i : Content(i) \in CellSet \ {Old}
         /\ \A i \in Nat : Content(i) # Zero => i < job.srcLen /\ i \in job.data
<1>1. job.data \subseteq 0..(job.srcLen - 1) /\ job.srcLen \in Nat /\ job.offset \in Nat
      /\ job.offset + job.srcLen <= MaxOffset
  BY JobsAssumption
<1>2. \A i : i \in job.data => i + 1 \in 1..MaxOffset /\ i + 1 # Old /\ i < job.srcLen
  BY <1>1, OffsetAssumption DEF Old
<1>3. /\ job.cap \in 0..MaxOffset /\ job.len \in 0..MaxOffset
      /\ job.zap \in Nat /\ job.mark \in Nat
      /\ job.kind \in {"file", "device", "sink"}
  BY JobsAssumption
<1>4. {job.bmap, job.stream, job.holes, job.zeros, job.zeroMode, job.verify, job.sync,
       job.wipe} \subseteq BOOLEAN
  BY JobsAssumption
<1>5. \A i : Content(i) \in CellSet \ {Old}
  BY <1>2 DEF Content, CellSet, Zero, Old
<1>6. \A i \in Nat : Content(i) # Zero => i < job.srcLen /\ i \in job.data
  BY <1>2 DEF Content
<1> QED
  BY <1>1, <1>3, <1>4, <1>5, <1>6, OffsetAssumption

-----------------------------------------------------------------------------
(* The operations: what the reader makes of the plan.                      *)

(* How far the image reaches, as it is announced and as it is.             *)
Extent == Greater(job.srcLen, IF SizeKnown THEN job.size ELSE 0)

InOrder ==
  ByRanges => \A i, k \in 1..RangeCount : i < k => Entry(i).last < Entry(k).first

Covers(op, i, c) == op.spans[i].offset <= c /\ c < SpanEnd(op.spans[i])

(* The batch is a whole number of blocks.                                  *)
WholeBatch == \E q \in Nat : BatchCells = q * job.bs

(* Cell p is in a block that is mapped and holds data.                     *)
Touched(p) == Mapped(p) /\ \E k \in job.data : Mapped(k) /\ k \div job.bs = p \div job.bs

(* A span that is skipped or zeroed holds nothing that is mapped and not   *)
(* zero, if the ranges are in order, and is in no block that holds data;   *)
(* one that is written was read.                                           *)
Truthful(op, i, c) ==
  IF op.spans[i].zero
  THEN InOrder => /\ Expected(op.off + c) = Zero
                  /\ WholeBatch => ~Touched(op.off + c)
  ELSE op.buf # Gap /\ Mapped(op.off + c) /\ op.off + c < job.srcLen

Sound(op) ==
  /\ Cuts(op.spans, op.len)
  /\ EndOf(op) <= Extent
  /\ op.buf # Gap => op.len <= BatchCells
  /\ \A i \in 1..Len(op.spans) : \A c \in 0..(op.len - 1) : Covers(op, i, c) => Truthful(op, i, c)

OpSet == [buf : OpBuffers, off : Nat, len : Nat, spans : Seq(SpanType)]

SoundOps == {op \in OpSet : Sound(op)}

(* The reader is inside the range it reads, or where the source is.        *)
ReadOn ==
  /\ rd.read \in Nat
  /\ ByRanges /\ Inside => RangeStart(Entry(rd.range)) <= rd.off
  /\ ~ByRanges =>
       /\ rd.read = rd.pos /\ rd.pos <= job.srcLen
       /\ Inside => rd.pos = rd.off + (IF rd.at = "send" THEN rd.op.len ELSE 0)

AtBlock(p) == \E b \in Nat : p = b * job.bs

(* A reader with whole batches stops at the start of a block, but where a  *)
(* range or the image ends.                                                *)
Aligned ==
  WholeBatch /\ Inside =>
    \/ AtBlock(rd.pos)
    \/ rd.pos >= job.srcLen
    \/ ByRanges /\ rd.pos >= RangeEnd(Entry(rd.range))

LEMMA InitReadOn == Init => ReadOn
<1> SUFFICES ASSUME Init PROVE ReadOn
  OBVIOUS
<1>1. /\ rd.at = (IF ByRanges THEN "plan" ELSE "next") /\ job \in Jobs
      /\ rd.range = 1 /\ rd.off = 0 /\ rd.pos = 0 /\ rd.read = 0
  BY DEF Init
<1>2. job.srcLen \in Nat
  BY <1>1, JobFacts
<1> QED
  BY <1>1, <1>2 DEF ReadOn, Inside

(* Only a batch adds to what was read.                                     *)
LEMMA ReadGrows ==
  ASSUME Shape, Reader
  PROVE  rd'.read = IF ReadBatch THEN rd.read + Filled ELSE rd.read
<1> USE DEF Shape, ReaderFields
<1>1. ~ReadBatch => rd'.read = rd.read
  <2>1. CASE MeetGap \/ ReportGap \/ ReportGapClosed
    BY <2>1 DEF MeetGap, ReportGap, ReportGapClosed
  <2>2. CASE EnterRange
    BY <2>2 DEF EnterRange, ReaderEnds
  <2>3. CASE PlanDone \/ PoolClosed \/ ReadEnds \/ ReadFails \/ ReaderPanics \/ SendBatchClosed
    BY <2>3 DEF PlanDone, PoolClosed, ReadEnds, ReadFails, ReaderPanics, SendBatchClosed, ReaderEnds
  <2>4. CASE TakeBuffer \/ NextBatch \/ SendBatch
    BY <2>4 DEF TakeBuffer, NextBatch, SendBatch
  <2>5. CASE CloseRange
    BY <2>5 DEF CloseRange, ReaderEnds
  <2> QED
    BY <2>1, <2>2, <2>3, <2>4, <2>5 DEF Reader
<1>2. ReadBatch => rd'.read = rd.read + Filled
  BY DEF ReadBatch
<1> QED
  BY <1>1, <1>2

LEMMA FilledWithinSource ==
  ASSUME Shape, InPlace, ReadBatch
  PROVE  rd.pos + Filled <= job.srcLen /\ Filled <= BatchCells
<1>1. /\ job.srcLen \in Nat /\ BatchCells \in Nat /\ RangeCount \in Nat /\ rd.pos \in Nat
      /\ rd.off \in Nat /\ rd.range \in Nat \ {0} /\ Filled > 0 /\ rd.at = "fill"
  BY JobFacts DEF Shape, ReadBatch, ReaderStep, InPlace
<1> DEFINE left == job.srcLen - rd.pos
<1>2. Filled = Lesser(Want, Greater(0, left))
  BY DEF Filled
<1>3. Want \in Int /\ Want <= BatchCells
  <2>1. CASE ByRanges
    <3>1. RangeEnd(Entry(rd.range)) \in Nat
      BY <1>1, <2>1, RangeFacts DEF Shape, InPlace, Inside
    <3> QED
      BY <1>1, <2>1, <3>1 DEF Want, Lesser
  <2> QED
    BY <1>1, <2>1 DEF Want
<1> QED
  BY <1>1, <1>2, <1>3 DEF Lesser, Greater

(* ReadOn stays: only the reader moves it.                                 *)
LEMMA ReaderReadOn ==
  ASSUME Shape, InPlace, Placed, ReadOn, Reader
  PROVE  ReadOn'
<1>1. UNCHANGED job
  BY ReaderKeeps DEF readerFrame
<1>2. /\ UNCHANGED <<ByRanges, RangeCount>>
      /\ \A i : UNCHANGED <<Entry(i), RangeStart(Entry(i)), RangeEnd(Entry(i))>>
  BY <1>1, JobFixed
<1>3. /\ job \in Jobs /\ rd.off \in Nat /\ rd.pos \in Nat /\ rd.read \in Nat
      /\ rd.range \in Nat \ {0} /\ job.srcLen \in Nat /\ RangeCount \in Nat
  BY JobFacts DEF Shape, InPlace, ReadOn
<1>4. ~ReadBatch => rd'.read = rd.read
  BY ReadGrows
<1> USE DEF ReadOn
<1>5. CASE Ends
  <2>1. ~ReadBatch
    BY <1>5 DEF Ends, ReadBatch, ReaderStep, Shape, ReaderFields
  <2> QED
    BY <1>1, <1>2, <1>4, <1>5, <2>1 DEF Ends, Inside
<1>6. CASE /\ MeetGap \/ ReportGap \/ ReportGapClosed
           /\ Between /\ Between' /\ UNCHANGED <<rd.range, rd.off, rd.pos, rd.unmapped>>
  <2>1. ~ReadBatch
    BY <1>6 DEF Between, ReadBatch, ReaderStep
  <2> QED
    BY <1>1, <1>2, <1>4, <1>6, <2>1 DEF Between, Inside, InPlace
<1>7. CASE /\ rd.at \in {"plan", "range"} /\ rd.range <= RangeCount
           /\ rd'.at = "await" /\ rd'.off = RangeStart(Entry(rd.range)) /\ rd'.pos = rd'.off
           /\ rd'.range = rd.range
  <2>1. ~ReadBatch /\ ByRanges
    BY <1>7 DEF Between, ReadBatch, ReaderStep, InPlace
  <2>2. rd.range \in 1..RangeCount
    BY <1>3, <1>7
  <2>3. RangeStart(Entry(rd.range)) \in Nat
    BY <1>3, <2>2, RangeFacts
  <2> QED
    BY <1>1, <1>2, <1>3, <1>4, <1>7, <2>1, <2>3
<1>8. CASE /\ rd.at \in {"await", "next"} /\ rd'.at \in {"fill", "await"}
           /\ UNCHANGED <<rd.range, rd.off, rd.pos, rd.unmapped>>
  <2>1. ~ReadBatch
    BY <1>8 DEF ReadBatch, ReaderStep
  <2> QED
    BY <1>1, <1>2, <1>4, <1>8, <2>1 DEF Inside
<1>9. CASE /\ ReadBatch /\ rd.at = "fill" /\ rd'.at = "send"
           /\ UNCHANGED <<rd.range, rd.off, rd.unmapped>> /\ rd'.pos = rd.pos + Filled
           /\ rd'.op.off = rd.off /\ rd'.op.len = Filled
  <2>1. Filled \in Nat \ {0} /\ rd.pos + Filled <= job.srcLen
    BY <1>9, FilledFits, FilledWithinSource
  <2>2. rd'.read = rd.read + Filled
    BY <1>9, ReadGrows
  <2> QED
    BY <1>1, <1>2, <1>3, <1>9, <2>1, <2>2 DEF Inside
<1>10. CASE /\ SendBatch /\ rd.at = "send" /\ rd'.at = "next"
            /\ UNCHANGED <<rd.range, rd.pos, rd.unmapped>> /\ rd'.off = rd.off + rd.op.len
  <2>1. ~ReadBatch /\ rd.op.len \in Nat
    BY <1>10 DEF ReadBatch, ReaderStep, InPlace
  <2>2. ByRanges => RangeStart(Entry(rd.range)) \in Nat
    BY <1>3, <1>10, RangeFacts DEF InPlace, Inside
  <2> QED
    BY <1>1, <1>2, <1>3, <1>4, <1>10, <2>1, <2>2 DEF Inside
<1>11. CASE /\ CloseRange /\ rd.at = "next" /\ rd'.at = "plan" /\ RangeRead
            /\ rd'.range = rd.range + 1 /\ UNCHANGED <<rd.off, rd.pos, rd.unmapped>>
  <2>1. ~ReadBatch /\ ByRanges
    BY <1>11 DEF ReadBatch, ReaderStep, RangeRead
  <2> QED
    BY <1>1, <1>2, <1>4, <1>11, <2>1 DEF Inside
<1> QED
  BY <1>5, <1>6, <1>7, <1>8, <1>9, <1>10, <1>11, ReaderPaths

LEMMA OthersReadOn ==
  ASSUME ReadOn, UNCHANGED <<job, rd>>
  PROVE  ReadOn'
<1>1. /\ UNCHANGED <<ByRanges, RangeCount>>
      /\ \A i : UNCHANGED <<Entry(i), RangeStart(Entry(i)), RangeEnd(Entry(i))>>
  BY JobFixed
<1> QED
  BY <1>1 DEF ReadOn, Inside

-----------------------------------------------------------------------------
(* Batches of whole blocks.                                                *)

(* How a batch ends.                                                       *)
LEMMA BatchEnd ==
  ASSUME Shape, InPlace, ReadOn, ReadBatch
  PROVE  \/ Filled = BatchCells
         \/ rd.pos + Filled = job.srcLen
         \/ ByRanges /\ rd.pos + Filled = RangeEnd(Entry(rd.range))
<1>1. /\ rd.at = "fill" /\ Filled > 0 /\ Inside
      /\ rd.off \in Nat /\ rd.pos \in Nat /\ rd.range \in Nat \ {0}
  BY DEF ReadBatch, ReaderStep, InPlace, Shape, Inside
<1>2. BatchCells \in Nat /\ job.srcLen \in Nat /\ RangeCount \in Nat /\ ByRanges \in BOOLEAN
  BY JobFacts DEF Shape
<1>3. CASE ByRanges
  <2>1. rd.range \in 1..RangeCount /\ rd.pos = rd.off
    BY <1>1, <1>2, <1>3 DEF InPlace, Inside
  <2>2. RangeEnd(Entry(rd.range)) \in Nat
    BY <2>1, RangeFacts DEF Shape
  <2>3. Want = Lesser(RangeEnd(Entry(rd.range)) - rd.off, BatchCells)
    BY <1>3 DEF Want
  <2> QED
    BY <1>1, <1>2, <1>3, <2>1, <2>2, <2>3 DEF Filled, Lesser, Greater
<1>4. CASE ~ByRanges
  <2>1. Want = BatchCells
    BY <1>4 DEF Want
  <2> QED
    BY <1>1, <1>2, <1>4, <2>1 DEF Filled, Lesser, Greater
<1> QED
  BY <1>2, <1>3, <1>4

(* Of a block that is mapped and touched by a batch, the batch has all.    *)
LEMMA BlockInBatch ==
  ASSUME Shape, InPlace, ReadOn, Aligned, ReadBatch, WholeBatch,
         NEW p \in Nat, rd.pos <= p, p < rd.pos + Filled,
         NEW k \in job.data, Mapped(k), k \div job.bs = p \div job.bs
  PROVE  AtBlock(rd.pos) /\ k \in Nat /\ rd.pos <= k /\ k < rd.pos + Filled
<1> DEFINE bs == job.bs
           f == Filled
           a == rd.pos
           x == p \div bs
<1>1. /\ job \in Jobs /\ bs \in Nat \ {0} /\ job.size \in Nat /\ job.srcLen \in Nat
      /\ RangeCount \in Nat /\ rd.range \in Nat \ {0} /\ a \in Nat
      /\ rd.at = "fill" /\ Inside /\ ByRanges \in BOOLEAN
  BY JobFacts DEF Shape, InPlace, ReadBatch, ReaderStep, Inside
<1>2. f \in Nat \ {0}
  BY FilledFits
<1>3. a + f <= job.srcLen
  <2>1. rd.pos + Filled <= job.srcLen
    BY FilledWithinSource
  <2> QED
    BY <2>1
<1>4. ByRanges => /\ rd.range \in 1..RangeCount /\ RangeEnd(Entry(rd.range)) \in Nat
                  /\ RangeStart(Entry(rd.range)) \in Nat
                  /\ RangeStart(Entry(rd.range)) <= a
                  /\ a < RangeEnd(Entry(rd.range)) /\ a + f <= RangeEnd(Entry(rd.range))
  <2> SUFFICES ASSUME ByRanges PROVE /\ rd.range \in 1..RangeCount
                  /\ RangeEnd(Entry(rd.range)) \in Nat
                  /\ RangeStart(Entry(rd.range)) \in Nat
                  /\ RangeStart(Entry(rd.range)) <= a
                  /\ a < RangeEnd(Entry(rd.range)) /\ a + f <= RangeEnd(Entry(rd.range))
    OBVIOUS
  <2>1. rd.range \in 1..RangeCount /\ a = rd.off /\ a < RangeEnd(Entry(rd.range))
        /\ RangeStart(Entry(rd.range)) <= a
    BY <1>1 DEF InPlace, ReadOn
  <2>2. rd.off + Filled <= RangeEnd(Entry(rd.range))
    BY FilledFits
  <2> QED
    BY <1>1, <2>1, <2>2, RangeFacts
<1>5. k \in Nat /\ k < job.srcLen
  BY <1>1, JobsAssumption
<1>6. x \in Nat /\ x * bs <= p /\ p < (x + 1) * bs /\ x * bs <= k /\ k < (x + 1) * bs
  BY <1>1, <1>5, DivMod
<1> HIDE DEF x, f, a
<1>7. x * bs \in Nat /\ (x + 1) * bs \in Nat
  BY <1>1, <1>6, Multiples
<1>8. AtBlock(a)
  BY <1>1, <1>2, <1>3, <1>4 DEF Aligned, a
<1>9. PICK b \in Nat : a = b * bs
  BY <1>8 DEF AtBlock
<1>10. a <= p /\ p < a + f
  BY DEF a, f
<1>11. a <= k
  <2>1. CASE b <= x
    <3>1. b * bs <= x * bs
      BY <1>1, <1>6, <1>9, <2>1, Multiples
    <3> QED
      BY <1>1, <1>5, <1>6, <1>7, <1>9, <3>1
  <2>2. CASE x < b
    <3>1. (x + 1) * bs <= a
      BY <1>1, <1>6, <1>9, <2>2, Multiples
    <3> QED
      BY <1>1, <1>6, <1>7, <1>10, <3>1
  <2> QED
    BY <1>6, <1>9, <2>1, <2>2
<1>12. k < a + f
  <2>1. CASE f = BatchCells
    <3>1. PICK q \in Nat : f = q * bs
      BY <2>1 DEF WholeBatch
    <3>2. a + f = (b + q) * bs
      BY <1>1, <1>9, <3>1
    <3>3. x < b + q
      <4>1. CASE b + q <= x
        <5>1. (b + q) * bs <= x * bs
          BY <1>1, <1>6, <1>9, <3>1, <4>1, Multiples
        <5> QED
          BY <1>1, <1>2, <1>6, <1>7, <1>10, <3>2, <5>1
      <4> QED
        BY <1>6, <1>9, <3>1, <4>1
    <3>4. (x + 1) * bs <= (b + q) * bs
      BY <1>1, <1>6, <1>9, <3>1, <3>3, Multiples
    <3> QED
      BY <1>1, <1>2, <1>5, <1>6, <1>7, <3>2, <3>4
  <2>2. CASE a + f = job.srcLen
    BY <1>5, <2>2
  <2>3. CASE ByRanges /\ a + f = RangeEnd(Entry(rd.range))
    <3> DEFINE last == Entry(rd.range).last
               first == Entry(rd.range).first
    <3>1. last \in Nat /\ first \in Nat
      BY <1>1, <1>4, <2>3, JobFacts
    <3>2. RangeEnd(Entry(rd.range)) = Lesser((last + 1) * bs, job.size)
      BY DEF RangeEnd
    <3>3. k < job.size
      <4>1. PICK r \in 1..RangeCount : k < RangeEnd(Entry(r))
        BY <2>3 DEF Mapped
      <4>2. RangeEnd(Entry(r)) <= job.size /\ RangeEnd(Entry(r)) \in Nat
        BY <1>1, <4>1, RangeFacts
      <4> QED
        BY <1>1, <1>5, <4>1, <4>2
    <3>4. (last + 1) * bs \in Nat
      BY <1>1, <3>1, Multiples
    <3> HIDE DEF last, first
    <3>5. CASE RangeEnd(Entry(rd.range)) = job.size
      BY <2>3, <3>3, <3>5
    <3>6. CASE RangeEnd(Entry(rd.range)) = (last + 1) * bs
      <4>1. a + f = (last + 1) * bs
        BY <2>3, <3>6
      <4>2. x < last + 1
        <5>1. CASE last + 1 <= x
          <6>1. (last + 1) * bs <= x * bs
            BY <1>1, <1>6, <3>1, <5>1, Multiples
          <6> QED
            BY <1>1, <1>2, <1>6, <1>7, <1>10, <3>4, <4>1, <6>1
        <5> QED
          BY <1>6, <3>1, <5>1
      <4>3. (x + 1) * bs <= (last + 1) * bs
        BY <1>1, <1>6, <3>1, <4>2, Multiples
      <4> QED
        BY <1>1, <1>2, <1>5, <1>6, <1>7, <3>4, <4>1, <4>3
    <3> QED
      BY <3>2, <3>5, <3>6 DEF Lesser
  <2> QED
    BY <2>1, <2>2, <2>3, BatchEnd DEF a, f
<1> QED
  BY <1>5, <1>8, <1>11, <1>12 DEF a, f

LEMMA InitAligned == Init => Aligned
<1> SUFFICES ASSUME Init, Inside PROVE AtBlock(rd.pos)
  BY DEF Aligned
<1>1. rd.pos = 0 /\ job \in Jobs
  BY DEF Init
<1>2. 0 = 0 * job.bs
  BY <1>1, JobFacts
<1> QED
  BY <1>1, <1>2 DEF AtBlock

LEMMA ReaderAligned ==
  ASSUME Shape, InPlace, Placed, ReadOn, Aligned, Reader
  PROVE  Aligned'
<1>1. UNCHANGED job
  BY ReaderKeeps DEF readerFrame
<1>2. /\ UNCHANGED <<ByRanges, RangeCount, WholeBatch>>
      /\ \A i : UNCHANGED <<Entry(i), RangeStart(Entry(i)), RangeEnd(Entry(i))>>
      /\ \A p : UNCHANGED AtBlock(p)
  BY <1>1, JobFixed DEF WholeBatch, AtBlock, BatchCells
<1>3. CASE Inside /\ UNCHANGED <<rd.range, rd.pos>>
  <2>1. AtBlock(rd.pos)' = AtBlock(rd.pos)
    BY <1>1, <1>3 DEF AtBlock
  <2> QED
    BY <1>1, <1>2, <1>3, <2>1 DEF Aligned
<1>4. CASE ~Inside'
  BY <1>4 DEF Aligned
<1>5. CASE rd.range <= RangeCount /\ rd'.pos = RangeStart(Entry(rd.range))
  <2>1. rd.range \in 1..RangeCount /\ job \in Jobs
    BY <1>5, JobFacts DEF Shape
  <2>2. rd'.pos = Entry(rd.range).first * job.bs /\ Entry(rd.range).first \in Nat
    BY <1>5, <2>1, JobFacts DEF RangeStart
  <2>3. AtBlock(rd.pos)'
    BY <1>1, <2>2 DEF AtBlock
  <2> QED
    BY <2>3 DEF Aligned
<1>6. CASE ReadBatch /\ rd'.pos = rd.pos + Filled /\ rd'.range = rd.range
  <2> SUFFICES ASSUME WholeBatch
               PROVE  \/ AtBlock(rd.pos)'
                      \/ rd'.pos >= job'.srcLen
                      \/ ByRanges' /\ rd'.pos >= RangeEnd(Entry(rd.range))'
    BY <1>2, <1>6 DEF Aligned
  <2>1. /\ Filled \in Nat \ {0} /\ rd.pos + Filled <= job.srcLen /\ rd.pos \in Nat
        /\ job.srcLen \in Nat /\ Inside /\ job.bs \in Nat
        /\ ByRanges => rd.pos < RangeEnd(Entry(rd.range)) /\ RangeEnd(Entry(rd.range)) \in Nat
    <3>1. job \in Jobs /\ rd.pos \in Nat /\ rd.at = "fill" /\ Inside /\ rd.range \in Nat \ {0}
      BY <1>6 DEF Shape, InPlace, ReadBatch, ReaderStep, Inside
    <3>2. ByRanges => rd.range \in 1..RangeCount /\ rd.pos < RangeEnd(Entry(rd.range))
      BY <3>1, JobFacts DEF InPlace
    <3> QED
      BY <1>6, <3>1, <3>2, FilledFits, FilledWithinSource, JobFacts, RangeFacts
  <2>2. AtBlock(rd.pos)
    BY <2>1 DEF Aligned
  <2>3. CASE Filled = BatchCells
    <3>1. PICK b \in Nat, q \in Nat : rd.pos = b * job.bs /\ Filled = q * job.bs
      BY <2>2, <2>3 DEF AtBlock, WholeBatch
    <3>2. rd'.pos = (b + q) * job.bs /\ b + q \in Nat
      BY <1>6, <2>1, <3>1
    <3> QED
      BY <1>1, <3>2 DEF AtBlock
  <2>4. CASE rd.pos + Filled = job.srcLen
    BY <1>1, <1>6, <2>1, <2>4
  <2>5. CASE ByRanges /\ rd.pos + Filled = RangeEnd(Entry(rd.range))
    BY <1>2, <1>6, <2>1, <2>5
  <2> QED
    BY <1>6, <2>3, <2>4, <2>5, BatchEnd
<1> QED
  BY <1>3, <1>4, <1>5, <1>6, ReaderPaths DEF Ends, Inside, Between

LEMMA StepAligned ==
  ASSUME Shape, InPlace, Placed, ReadOn, Aligned, [Next]_vars
  PROVE  Aligned'
<1>1. Caller \/ Writer \/ UNCHANGED vars => UNCHANGED <<job, rd>>
  BY CallerKeeps, WriterKeeps DEF threadVars, vars
<1>2. UNCHANGED <<job, rd>> => Aligned'
  <2> SUFFICES ASSUME UNCHANGED <<job, rd>> PROVE Aligned'
    OBVIOUS
  <2>1. /\ UNCHANGED <<ByRanges, WholeBatch>>
        /\ \A i : UNCHANGED <<Entry(i), RangeEnd(Entry(i))>>
        /\ \A p : UNCHANGED AtBlock(p)
    BY JobFixed DEF WholeBatch, AtBlock, BatchCells
  <2> QED
    BY <2>1 DEF Aligned, Inside
<1> QED
  BY <1>1, <1>2, ReaderAligned DEF Next, Returned

-----------------------------------------------------------------------------
(* What is sent is sound.                                                  *)

LEMMA NoOpSound ==
  ASSUME job \in Jobs
  PROVE  NoOp \in SoundOps
<1>1. <<>> \in Seq(SpanType) /\ Len(<<>>) = 0
  BY EmptySeq
<1>2. Cuts(<<>>, 0)
  BY <1>1 DEF Cuts
<1>3. Extent \in Nat
  BY JobFacts DEF Extent, Greater
<1> QED
  BY <1>1, <1>2, <1>3 DEF NoOp, SoundOps, OpSet, OpBuffers, Sound, EndOf

(* No range reaches into a gap.                                            *)
LEMMA GapUnmapped ==
  ASSUME Shape, InPlace, NeverBack, InOrder, rd.at = "plan", NEW p \in Nat,
         GapStart <= p, p < GapEnd
  PROVE  ~Mapped(p)
<1>1. /\ job \in Jobs /\ job.bs \in Nat \ {0} /\ job.size \in Nat /\ RangeCount \in Nat
      /\ rd.range \in Nat \ {0} /\ rd.unmapped \in Nat /\ rd.pos \in Nat
  BY JobFacts DEF Shape, InPlace
<1>2. ByRanges /\ rd.pos = Lesser(rd.unmapped * job.bs, job.size)
  BY DEF InPlace, Between
<1>3. GapStart \in Nat /\ GapEnd \in Nat
  BY GapFacts
<1>4. rd.pos <= GapStart
  BY <1>1, <1>2, <1>3 DEF GapStart, Lesser
<1> SUFFICES ASSUME NEW r \in 1..RangeCount,
                    RangeStart(Entry(r)) <= p, p < RangeEnd(Entry(r))
             PROVE  FALSE
  BY <1>2 DEF Mapped
<1>5. RangeStart(Entry(r)) \in Nat /\ RangeEnd(Entry(r)) \in Nat
  BY <1>1, RangeFacts
<1>6. CASE r < rd.range
  <2>1. RangeEnd(Entry(r)) <= rd.pos
    BY <1>2, <1>6 DEF NeverBack
  <2> QED
    BY <1>1, <1>3, <1>4, <1>5, <2>1
<1>7. CASE ~(r < rd.range)
  <2>1. rd.range \in 1..RangeCount /\ rd.range <= r
    BY <1>1, <1>7
  <2>2. GapEnd = RangeStart(Entry(rd.range))
    BY <2>1, GapFacts
  <2>3. RangeStart(Entry(rd.range)) <= RangeStart(Entry(r))
    <3>1. CASE rd.range = r
      BY <1>5, <3>1
    <3>2. CASE rd.range # r
      <4>1. Entry(rd.range).first <= Entry(r).first
        <5>1. rd.range < r
          BY <1>1, <2>1, <3>2
        <5>2. Entry(rd.range).last < Entry(r).first
          BY <1>2, <2>1, <5>1 DEF InOrder
        <5> QED
          BY <1>1, <2>1, <5>2, JobFacts
      <4> DEFINE a == Entry(rd.range).first
                 b == Entry(r).first
                 bs == job.bs
      <4>2. a \in Nat /\ b \in Nat /\ bs \in Nat
        BY <1>1, <2>1, JobFacts
      <4> HIDE DEF a, b, bs
      <4>3. a <= b => a * bs <= b * bs
        BY <4>2, Multiples
      <4> QED
        BY <4>1, <4>3 DEF RangeStart, a, b, bs
    <3> QED
      BY <3>1, <3>2
  <2> QED
    BY <1>3, <1>5, <2>2, <2>3
<1> QED
  BY <1>6, <1>7

LEMMA GapSound ==
  ASSUME Shape, InPlace, NeverBack, MeetGap
  PROVE  GapOp \in SoundOps
<1>1. rd.at = "plan" /\ GapEnd > GapStart /\ ByRanges
  BY DEF MeetGap, ReaderStep, GapAhead, InPlace, Between
<1>2. GapStart \in Nat /\ GapEnd \in Nat /\ GapEnd <= job.size /\ job.size \in Nat
      /\ job.srcLen \in Nat
  BY GapFacts, JobFacts DEF Shape
<1> DEFINE len == GapEnd - GapStart
           span == [offset |-> 0, len |-> len, zero |-> TRUE]
<1>3. len \in Nat \ {0} /\ GapStart + len = GapEnd
  BY <1>1, <1>2
<1>4. GapOp = [buf |-> Gap, off |-> GapStart, len |-> len, spans |-> <<span>>]
  BY DEF GapOp
<1> HIDE DEF len
<1>5. Cuts(<<span>>, len) /\ Len(<<span>>) = 1
  BY <1>3, OneSpan
<1>6. <<span>>[1] = span /\ <<span>> \in Seq(SpanType)
  BY <1>5 DEF Cuts
<1>7. EndOf(GapOp) <= Extent
  <2>1. SizeKnown
    BY <1>1 DEF ByRanges, SizeKnown
  <2>2. EndOf(GapOp) = GapEnd
    BY <1>3, <1>4 DEF EndOf
  <2> QED
    BY <1>2, <2>1, <2>2 DEF Extent, Greater
<1>8. ASSUME NEW c \in 0..(len - 1), InOrder
      PROVE  Expected(GapStart + c) = Zero /\ ~Touched(GapStart + c)
  <2>1. GapStart + c \in Nat /\ GapStart <= GapStart + c /\ GapStart + c < GapEnd
    BY <1>2, <1>3
  <2>2. ~Mapped(GapStart + c)
    BY <1>1, <1>8, <2>1, GapUnmapped
  <2> QED
    BY <2>2 DEF Expected, Touched
<1>9. Sound(GapOp)
  <2>1. \A i \in 1..Len(GapOp.spans) : i = 1 /\ GapOp.spans[i].zero
    BY <1>4, <1>5, <1>6
  <2> QED
    BY <1>4, <1>5, <1>7, <1>8, <2>1 DEF Sound, Truthful
<1>10. GapOp \in OpSet
  BY <1>2, <1>3, <1>4, <1>6 DEF OpSet, OpBuffers
<1> QED
  BY <1>9, <1>10 DEF SoundOps

LEMMA BatchSound ==
  ASSUME Shape, InPlace, Placed, ReadOn, Aligned, ReadBatch
  PROVE  rd'.op \in SoundOps
<1>1. /\ job \in Jobs /\ job.bs \in Nat \ {0} /\ job.zeros \in BOOLEAN
      /\ rd.off \in Nat /\ rd.pos \in Nat /\ rd.range \in Nat \ {0}
      /\ RangeCount \in Nat /\ job.size \in Nat /\ job.srcLen \in Nat
  BY JobFacts, JobsAssumption DEF Shape, InPlace
<1>2. rd.at = "fill" /\ Inside /\ rd.buf \in Buffers
  BY DEF ReadBatch, ReaderStep, Inside, Placed
<1>3. /\ Filled \in Nat \ {0} /\ rd.pos + Filled <= job.srcLen /\ Filled <= BatchCells
      /\ ByRanges => rd.off + Filled <= RangeEnd(Entry(rd.range))
  BY FilledFits, FilledWithinSource
<1> DEFINE n == Filled
           off == rd.off
           spans == Spans(off, n)
           cells == [c \in 1..n |-> Content(off + c - 1)]
           op == [buf |-> rd.buf, off |-> off, len |-> n, spans |-> spans]
<1>4. rd'.op = op
  BY DEF ReadBatch, Shape, ReaderFields
<1>5. rd.pos = off
  BY <1>2 DEF InPlace, ReadOn, Inside
<1>6. cells \in Seq(CellSet) /\ Len(cells) = n
  <2>1. cells \in [1..n -> CellSet]
    BY <1>1, JobMore
  <2> HIDE DEF cells, n
  <2> QED
    BY <1>3, <2>1 DEF n
<1>7. spans = Classify(cells, job.bs, job.zeros)
  BY DEF Spans
<1> HIDE DEF cells
<1>8. /\ Cuts(spans, n)
      /\ job.zeros => Runs(spans, cells, job.bs)
      /\ ~job.zeros => \A i \in 1..Len(spans) : ~spans[i].zero
  <2> HIDE DEF spans, n
  <2> QED
    BY <1>1, <1>6, <1>7, Classified
<1> HIDE DEF spans
<1>9. op \in OpSet
  BY <1>1, <1>2, <1>3, <1>8 DEF OpSet, OpBuffers, Cuts
<1>10. off + n <= Extent
  <2>1. CASE ByRanges
    <3>1. RangeEnd(Entry(rd.range)) \in Nat /\ RangeEnd(Entry(rd.range)) <= job.size
      BY <1>1, <1>2, <2>1, RangeFacts DEF InPlace
    <3>2. SizeKnown
      BY <2>1 DEF ByRanges, SizeKnown
    <3> QED
      BY <1>1, <1>3, <2>1, <3>1, <3>2 DEF Extent, Greater
  <2>2. CASE ~ByRanges
    BY <1>1, <1>3, <1>5 DEF Extent, Greater
  <2> QED
    BY <2>1, <2>2
<1>11. ASSUME NEW c \in 0..(n - 1)
       PROVE  off + c \in Nat /\ off + c < job.srcLen /\ Mapped(off + c)
              /\ cells[c + 1] = Content(off + c)
  <2>1. off + c \in Nat /\ off + c < job.srcLen /\ off + c < off + n
    BY <1>1, <1>3, <1>5
  <2>2. Mapped(off + c)
    <3>1. CASE ByRanges
      <4>1. rd.range \in 1..RangeCount /\ RangeStart(Entry(rd.range)) <= off
        BY <1>1, <1>2, <3>1 DEF InPlace, ReadOn
      <4>2. RangeStart(Entry(rd.range)) \in Nat /\ RangeEnd(Entry(rd.range)) \in Nat
        BY <1>1, <4>1, RangeFacts
      <4> QED
        BY <1>1, <1>3, <2>1, <3>1, <4>1, <4>2 DEF Mapped
    <3>2. CASE ~ByRanges
      BY <2>1, <3>2 DEF Mapped
    <3> QED
      BY <3>1, <3>2
  <2>3. c + 1 \in 1..n /\ off + (c + 1) - 1 = off + c
    BY <1>1, <1>3
  <2>4. cells[c + 1] = Content(off + (c + 1) - 1)
    BY <2>3 DEF cells
  <2> QED
    BY <2>1, <2>2, <2>3, <2>4
<1>12. ASSUME NEW i \in 1..Len(op.spans), NEW c \in 0..(op.len - 1), Covers(op, i, c)
       PROVE  Truthful(op, i, c)
  <2>1. CASE op.spans[i].zero
    <3>1. job.zeros
      BY <1>8, <2>1
    <3>2. cells[c + 1] = Zero
      <4>1. spans[i].offset <= c /\ c < SpanEnd(spans[i]) /\ c \in Nat /\ i \in 1..Len(spans)
        BY <1>3, <1>12 DEF Covers
      <4> QED
        BY <1>1, <1>6, <1>8, <2>1, <3>1, <4>1, ZeroSpanIsZero
    <3>3. ASSUME WholeBatch PROVE ~Touched(off + c)
      <4> SUFFICES ASSUME NEW k \in job.data, Mapped(k), k \div job.bs = (off + c) \div job.bs
                   PROVE  FALSE
        BY DEF Touched
      <4>1. AtBlock(off) /\ k \in Nat /\ off <= k /\ k < off + n
        <5>1. off + c \in Nat /\ rd.pos <= off + c /\ off + c < rd.pos + Filled
          BY SMTT(30), <1>1, <1>3, <1>5
        <5> QED
          BY <1>5, <3>3, <5>1, BlockInBatch
      <4>2. PICK b \in Nat : off = b * job.bs
        BY <4>1 DEF AtBlock
      <4> DEFINE bs == job.bs
                 d == k - off
      <4>7. off \in Nat /\ n \in Nat \ {0} /\ bs \in Nat \ {0} /\ c \in 0..(n - 1) /\ off = b * bs
        BY <1>1, <1>3, <4>2
      <4> HIDE DEF bs, n, off
      <4>3. d \in 0..(n - 1) /\ off + d = k /\ c \in Nat /\ d \in Nat /\ d < n
        BY <4>1, <4>7
      <4> HIDE DEF d
      <4>4. SameBlock(bs, d, c)
        <5>1. SameBlock(bs, off + d, off + c)
          BY <3>3, <4>3, <4>7 DEF SameBlock, bs
        <5> QED
          BY <4>3, <4>7, <5>1, BlocksShift
      <4>5. cells[d + 1] = Zero
        <5>1. /\ spans[i].offset <= c /\ c < SpanEnd(spans[i]) /\ i \in 1..Len(spans)
              /\ spans[i].zero
          BY <1>12, <2>1 DEF Covers
        <5>2. Runs(spans, cells, bs) /\ d < Len(cells) /\ cells \in Seq(CellSet)
          BY <1>6, <1>8, <3>1, <4>3 DEF bs, n
        <5> QED
          BY <4>3, <4>4, <4>7, <5>1, <5>2, ZeroBlockIsZero
      <4>6. Content(k) = Zero
        BY <1>11, <4>3, <4>5
      <4> QED
        BY <4>1, <4>6 DEF Content, Zero
    <3> QED
      BY <1>11, <2>1, <3>2, <3>3 DEF Truthful, Expected
  <2>2. CASE ~op.spans[i].zero
    BY <1>2, <1>11, <2>2, MarkerAssumption DEF Truthful
  <2> QED
    BY <2>1, <2>2
<1>13. Sound(op)
  <2>1. EndOf(op) <= Extent /\ op.len <= BatchCells /\ Cuts(op.spans, op.len)
    BY <1>3, <1>8, <1>10 DEF EndOf
  <2> HIDE DEF op
  <2> QED
    BY <1>12, <2>1 DEF Sound
<1> QED
  BY <1>4, <1>9, <1>13 DEF SoundOps

-----------------------------------------------------------------------------
(* Operations on their way.                                                *)

OpsIn(S) ==
  /\ wr.op \in S
  /\ \A i \in 1..Len(chan) : chan[i] \in S
  /\ rd.at \in {"gap", "send"} => rd.op \in S

(* Whatever holds of each operation when it is made holds of each that is  *)
(* on its way, and of the one the writer has.                              *)
LEMMA OpsStayIn ==
  ASSUME Shape, IsSeq(chan), NEW S, OpsIn(S), NoOp \in S, [Next]_vars,
         MeetGap => GapOp \in S, ReadBatch => rd'.op \in S
  PROVE  /\ wr'.op \in S
         /\ \A i \in 1..Len(chan') : chan'[i] \in S
         /\ rd'.at \in {"gap", "send"} => rd'.op \in S
<1> USE DEF OpsIn
<1>1. CASE UNCHANGED <<rd, chan, wr>>
  BY <1>1
<1>2. CASE Reader
  <2>1. wr' = wr
    BY <1>2, ReaderKeeps DEF readerFrame
  <2>2. /\ \/ chan' = chan
           \/ chan' = Append(chan, rd.op) /\ rd.at \in {"gap", "send"}
        /\ \/ rd'.at \notin {"gap", "send"}
           \/ rd'.at = "gap" /\ MeetGap /\ rd'.op = GapOp
           \/ rd'.at = "send" /\ ReadBatch
    <3> USE DEF Shape, ReaderFields
    <3>1. CASE MeetGap \/ ReportGap \/ ReportGapClosed
      BY <3>1 DEF MeetGap, ReportGap, ReportGapClosed, ReaderStep
    <3>2. CASE EnterRange
      BY <3>2 DEF EnterRange, ReaderEnds
    <3>3. CASE PlanDone \/ PoolClosed \/ ReadEnds \/ ReadFails \/ ReaderPanics \/ SendBatchClosed
      BY <3>3 DEF PlanDone, PoolClosed, ReadEnds, ReadFails, ReaderPanics, SendBatchClosed,
                  ReaderEnds
    <3>4. CASE TakeBuffer \/ NextBatch \/ SendBatch
      BY <3>4 DEF TakeBuffer, NextBatch, SendBatch, ReaderStep
    <3>5. CASE ReadBatch
      BY <3>5 DEF ReadBatch, ReaderStep
    <3>6. CASE CloseRange
      BY <3>6 DEF CloseRange, ReaderEnds
    <3> QED
      BY <1>2, <3>1, <3>2, <3>3, <3>4, <3>5, <3>6 DEF Reader
  <2>3. \A i \in 1..Len(chan') : chan'[i] \in S
    <3>1. CASE chan' = chan
      BY <3>1
    <3>2. CASE chan' = Append(chan, rd.op) /\ rd.at \in {"gap", "send"}
      <4>1. rd.op \in S
        BY <3>2
      <4>2. /\ \A i \in 1..Len(chan) : chan'[i] = chan[i]
            /\ chan'[Len(chan')] = rd.op
            /\ \A i \in 1..Len(chan') : i \in 1..Len(chan) \/ i = Len(chan')
        BY <3>2, Adding
      <4> QED
        BY <4>1, <4>2
    <3> QED
      BY <2>2, <3>1, <3>2
  <2> QED
    BY <2>1, <2>2, <2>3
<1>3. CASE Writer
  <2>1. rd' = rd
    BY <1>3, WriterKeeps
  <2> USE DEF Shape, WriterFields
  <2>2. CASE Receive
    <3>1. chan # <<>> /\ chan' = Tail(chan) /\ wr'.op = Head(chan)
      BY <2>2 DEF Receive
    <3>2. /\ Len(chan) \in Nat \ {0} /\ Len(chan') = Len(chan) - 1 /\ Head(chan) = chan[1]
          /\ \A i \in 1..Len(chan') : chan'[i] = chan[i + 1]
      BY <3>1, Removing
    <3>3. 1 \in 1..Len(chan) /\ \A i \in 1..Len(chan') : i + 1 \in 1..Len(chan)
      BY <3>2
    <3> QED
      BY <2>1, <3>1, <3>2, <3>3
  <2>3. CASE ElideSpan \/ ZeroSpan \/ WriteSpan \/ FinishOp \/ SyncOrNot \/ SyncFails
             \/ StreamEnds \/ DropPoolTx \/ Join
    <3>1. wr'.op = wr.op /\ chan' = chan
      BY <2>3 DEF ElideSpan, ZeroSpan, WriteSpan, FinishOp, SyncOrNot, SyncFails, StreamEnds,
                  DropPoolTx, Join
    <3> QED
      BY <2>1, <3>1
  <2>4. CASE SpanFails
    <3>1. wr'.op = NoOp /\ chan' = chan
      BY <2>4 DEF SpanFails
    <3> QED
      BY <2>1, <3>1
  <2>5. CASE DropRx
    <3>1. wr'.op = wr.op /\ chan' = <<>> /\ Len(<<>>) = 0
      BY <2>5 DEF DropRx
    <3> QED
      BY <2>1, <3>1
  <2> QED
    BY <1>3, <2>2, <2>3, <2>4, <2>5 DEF Writer
<1>4. Caller \/ UNCHANGED vars => UNCHANGED <<rd, chan, wr>>
  BY CallerKeeps DEF vars, threadVars
<1> QED
  BY <1>1, <1>2, <1>3, <1>4 DEF Next, Returned

(* What the writer has left to do is the end of the operation it has.      *)
TodoInv ==
  /\ wr.at # "work" => wr.todo = <<>>
  /\ wr.todo \in Seq(SpanType)
  /\ Len(wr.todo) <= Len(wr.op.spans)
  /\ \A i \in 1..Len(wr.todo) : wr.todo[i] = wr.op.spans[i + Len(wr.op.spans) - Len(wr.todo)]
  /\ Streaming => wr.ret = "none"

Reached == IF wr.todo = <<>> THEN EndOf(wr.op) ELSE wr.op.off + Span.offset

Current == Len(wr.op.spans) - Len(wr.todo) + 1

LEMMA NextSpan ==
  ASSUME TodoInv, wr.op \in SoundOps, wr.todo # <<>>
  PROVE  /\ Current \in 1..Len(wr.op.spans) /\ Span = wr.op.spans[Current]
         /\ Span.offset \in Nat /\ Span.len \in Nat \ {0} /\ Span.zero \in BOOLEAN
         /\ Span.offset + Span.len <= wr.op.len
         /\ wr.op.off \in Nat /\ wr.op.len \in Nat
         /\ Reached = wr.op.off + Span.offset /\ Reached \in Nat
         /\ \A c \in Span.offset..(Span.offset + Span.len - 1) :
              c \in 0..(wr.op.len - 1) /\ Covers(wr.op, Current, c)
<1>1. wr.op.len \in Nat /\ wr.op.off \in Nat /\ Cuts(wr.op.spans, wr.op.len)
  BY DEF SoundOps, OpSet, Sound
<1> DEFINE m == Len(wr.op.spans)
           k == Len(wr.todo)
<1>2. m \in Nat /\ k \in Nat \ {0} /\ k <= m
  BY <1>1, CutsFacts, EmptySeq, LenProperties DEF TodoInv
<1>10. Current = m - k + 1
  BY DEF Current
<1>4. Span = wr.todo[1]
  BY <1>2 DEF TodoInv, Span
<1>11. \A i \in 1..k : wr.todo[i] = wr.op.spans[i + m - k]
  BY DEF TodoInv
<1> HIDE DEF m, k
<1>3. Current \in 1..m /\ Current = 1 + m - k /\ 1 \in 1..k
  BY <1>2, <1>10
<1>5. Span = wr.op.spans[Current]
  BY <1>3, <1>4, <1>11
<1>6. /\ Span.offset \in Nat /\ Span.len \in Nat \ {0} /\ Span.zero \in BOOLEAN
  BY <1>1, <1>3, <1>5, CutsFacts DEF m
<1>7. Span.offset + Span.len <= wr.op.len
  BY <1>1, <1>3, <1>5 DEF Cuts, SpanEnd, m
<1>8. Reached = wr.op.off + Span.offset
  BY DEF Reached
<1>9. \A c \in Span.offset..(Span.offset + Span.len - 1) :
         c \in 0..(wr.op.len - 1) /\ Covers(wr.op, Current, c)
  <2> SUFFICES ASSUME NEW c \in Span.offset..(Span.offset + Span.len - 1)
               PROVE  c \in 0..(wr.op.len - 1) /\ Covers(wr.op, Current, c)
    OBVIOUS
  <2>1. c \in Int /\ Span.offset <= c /\ c <= Span.offset + Span.len - 1
    BY <1>6
  <2>2. c \in 0..(wr.op.len - 1) /\ c < Span.offset + Span.len
    BY SMTT(30), <1>1, <1>6, <1>7, <2>1
  <2> QED
    BY <1>5, <2>1, <2>2 DEF Covers, SpanEnd
<1> QED
  BY SMTT(30), <1>1, <1>3, <1>5, <1>6, <1>7, <1>8, <1>9 DEF m

(* A span that is dealt with brings the writer to the end of it.           *)
LEMMA SpanDone ==
  ASSUME TodoInv, wr.op \in SoundOps, wr.todo # <<>>,
         wr'.op = wr.op, wr'.todo = Tail(wr.todo), wr'.at = "work", wr'.ret = wr.ret, wr.at = "work"
  PROVE  TodoInv' /\ Reached' = Reached + Span.len /\ Current' = Current + 1
<1>1. wr.op.len \in Nat /\ wr.op.off \in Nat /\ Cuts(wr.op.spans, wr.op.len)
  BY DEF SoundOps, OpSet, Sound
<1> DEFINE m == Len(wr.op.spans)
           k == Len(wr.todo)
           rest == Tail(wr.todo)
<1>2. m \in Nat /\ k \in Nat \ {0} /\ k <= m
  BY <1>1, CutsFacts, EmptySeq, LenProperties DEF TodoInv
<1>3. /\ rest \in Seq(SpanType) /\ Len(rest) = k - 1
      /\ \A i \in 1..Len(rest) : rest[i] = wr.todo[i + 1]
  BY HeadTailProperties DEF TodoInv
<1>10. wr'.todo = rest
  BY DEF rest
<1>11. Current = m - k + 1 /\ Current' = m - Len(wr'.todo) + 1
  BY DEF Current
<1>12. \A i \in 1..k : wr.todo[i] = wr.op.spans[i + m - k]
  BY DEF TodoInv
<1> HIDE DEF rest, m, k
<1>4. \A i \in 1..Len(rest) : rest[i] = wr.op.spans[i + m - Len(rest)]
  <2> SUFFICES ASSUME NEW i \in 1..Len(rest) PROVE rest[i] = wr.op.spans[i + m - Len(rest)]
    OBVIOUS
  <2>1. i + 1 \in 1..k /\ (i + 1) + m - k = i + m - Len(rest)
    BY <1>2, <1>3
  <2> QED
    BY <1>3, <1>12, <2>1
<1>6. TodoInv'
  <2>1. Len(wr'.todo) <= Len(wr'.op.spans)
    <3>2. Len(wr'.todo) = k - 1
      BY <1>3, <1>10, Zenon
    <3>1. Len(wr'.todo) <= m
      BY <1>2, <3>2
    <3> QED
      BY <3>1 DEF m
  <2>2. wr'.todo \in Seq(SpanType)
    BY <1>3, <1>10
  <2>3. \A i \in 1..Len(wr'.todo) :
          wr'.todo[i] = wr'.op.spans[i + Len(wr'.op.spans) - Len(wr'.todo)]
    BY <1>4, <1>10 DEF m
  <2> QED
    BY <2>1, <2>2, <2>3 DEF TodoInv, Streaming
<1>7. /\ Current \in 1..m /\ Span = wr.op.spans[Current] /\ Reached = wr.op.off + Span.offset
      /\ Span.offset \in Nat /\ Span.len \in Nat
  BY NextSpan DEF m
<1>8. Current' = Current + 1
  BY <1>2, <1>3, <1>10, <1>11
<1>9. Reached' = wr.op.off + SpanEnd(Span)
  <2>1. CASE rest = <<>>
    <3>1. Len(rest) = 0
      BY <2>1
    <3>2. Current = m
      BY <1>2, <1>3, <1>11, <3>1
    <3>3. wr.op.len = SpanEnd(Span)
      BY <1>1, <1>2, <1>7, <3>2 DEF Cuts, m
    <3> QED
      BY <1>10, <2>1, <3>3 DEF Reached, EndOf
  <2>2. CASE rest # <<>>
    <3>1. Len(rest) \in Nat \ {0}
      BY <1>3, <2>2, EmptySeq, LenProperties
    <3>2. Head(rest) = rest[1] /\ 1 \in 1..Len(rest)
      <4>1. rest \in Seq(SpanType) /\ Len(rest) \in Nat \ {0}
        BY <1>3, <3>1
      <4>2. Head(rest) = rest[1]
        BY <4>1
      <4> QED
        BY <4>1, <4>2
    <3>3. Head(rest) = wr.op.spans[Current + 1] /\ Current + 1 \in 1..m /\ Current + 1 # 1
      <4>1. 1 + m - Len(rest) = Current + 1
        BY <1>2, <1>3, <1>11
      <4>2. rest[1] = wr.op.spans[1 + m - Len(rest)]
        BY <1>4, <3>2
      <4>3. Current + 1 \in 1..m /\ Current + 1 # 1
        BY <1>2, <1>3, <1>7, <3>1, <4>1
      <4> QED
        BY <3>2, <4>1, <4>2, <4>3
    <3>4. (Current + 1) - 1 = Current
      BY <1>2, <1>7
    <3>5. Head(rest).offset = SpanEnd(Span)
      BY <1>1, <1>7, <3>3, <3>4 DEF Cuts, m
    <3> QED
      BY <1>10, <2>2, <3>5 DEF Reached, Span
  <2> QED
    BY <2>1, <2>2
<1> QED
  <2>1. SpanEnd(Span) = Span.offset + Span.len
    BY DEF SpanEnd
  <2>2. Reached' = Reached + Span.len
    <3>1. wr.op.off + (Span.offset + Span.len) = (wr.op.off + Span.offset) + Span.len
      <4> DEFINE o == wr.op.off
                 s == Span.offset
                 l == Span.len
      <4>1. o \in Nat /\ s \in Nat /\ l \in Nat
        BY <1>1, <1>7
      <4> HIDE DEF o, s, l
      <4>2. o + (s + l) = (o + s) + l
        BY <4>1
      <4> QED
        BY <4>2 DEF o, s, l
    <3>2. Reached' = wr.op.off + (Span.offset + Span.len)
      BY <1>9, <2>1, Zenon
    <3> QED
      BY <1>7, <3>1, <3>2, Zenon
  <2> QED
    BY <1>6, <1>8, <2>2

LEMMA JobFixedMore ==
  ASSUME UNCHANGED job
  PROVE  /\ UNCHANGED <<Extent, InOrder, BatchCells, WholeBatch, SizeKnown, SoundOps>>
         /\ \A i : UNCHANGED <<Mapped(i), Touched(i), Content(i), Expected(i), Cleared(i), Found(i)>>
<1>1. /\ UNCHANGED <<ByRanges, RangeCount>>
      /\ \A i : UNCHANGED <<Entry(i), RangeStart(Entry(i)), RangeEnd(Entry(i))>>
  BY JobFixed
<1>2. UNCHANGED <<Extent, InOrder, BatchCells, WholeBatch, SizeKnown>>
  BY <1>1 DEF Extent, InOrder, BatchCells, WholeBatch, SizeKnown
<1>3. \A i : UNCHANGED <<Mapped(i), Content(i), Cleared(i), Found(i)>>
  BY <1>1 DEF Mapped, Content, Cleared, Found
<1>4. \A i : UNCHANGED <<Expected(i), Touched(i)>>
  BY <1>3 DEF Expected, Touched
<1>5. \A op : Sound(op)' = Sound(op)
  <2> SUFFICES ASSUME NEW op PROVE Sound(op)' = Sound(op)
    OBVIOUS
  <2>1. \A i, c : Truthful(op, i, c)' = Truthful(op, i, c)
    BY <1>2, <1>3, <1>4 DEF Truthful
  <2> QED
    BY <1>2, <2>1 DEF Sound, Covers, EndOf
<1>6. SoundOps' = SoundOps
  BY <1>5 DEF SoundOps
<1> QED
  BY <1>2, <1>3, <1>4, <1>6

LEMMA SoundFacts ==
  ASSUME NEW op \in SoundOps
  PROVE  /\ op.off \in Nat /\ op.len \in Nat /\ op.buf \in OpBuffers
         /\ op.spans \in Seq(SpanType) /\ Len(op.spans) \in Nat
         /\ Cuts(op.spans, op.len) /\ EndOf(op) <= Extent
         /\ op.buf # Gap => op.len <= BatchCells
         /\ op.spans = <<>> => op.len = 0
         /\ op.spans # <<>> => Head(op.spans).offset = 0
<1>1. /\ op.off \in Nat /\ op.len \in Nat /\ op.buf \in OpBuffers
      /\ op.spans \in Seq(SpanType)
      /\ Cuts(op.spans, op.len) /\ EndOf(op) <= Extent
      /\ op.buf # Gap => op.len <= BatchCells
  BY DEF SoundOps, OpSet, Sound
<1>2. Len(op.spans) \in Nat
  BY <1>1, LenProperties
<1>3. op.spans = <<>> => op.len = 0
  <2>1. op.spans = <<>> => Len(op.spans) = 0
    BY EmptySeq
  <2> QED
    BY <1>1, <2>1 DEF Cuts
<1>4. op.spans # <<>> => Head(op.spans).offset = 0
  <2> SUFFICES ASSUME op.spans # <<>> PROVE Head(op.spans).offset = 0
    OBVIOUS
  <2>1. Len(op.spans) \in Nat \ {0}
    BY <1>1, <1>2, EmptySeq
  <2>2. Head(op.spans) = op.spans[1]
    BY <1>1, <2>1
  <2> QED
    BY <1>1, <2>1, <2>2 DEF Cuts
<1> QED
  BY <1>1, <1>2, <1>3, <1>4

OpsInv == OpsIn(SoundOps) /\ TodoInv

LEMMA InitOps == Init => OpsInv
<1> SUFFICES ASSUME Init PROVE OpsInv
  OBVIOUS
<1>1. /\ job \in Jobs /\ chan = <<>> /\ wr.op = NoOp /\ wr.todo = <<>> /\ wr.ret = "none"
      /\ rd.at \in {"plan", "next"}
  BY DEF Init
<1>2. <<>> \in Seq(SpanType) /\ Len(<<>>) = 0 /\ NoOp.spans = <<>>
  BY EmptySeq DEF NoOp
<1> QED
  BY <1>1, <1>2, NoOpSound DEF OpsInv, OpsIn, TodoInv

LEMMA StepTodo ==
  ASSUME Shape, OpsInv, IsSeq(chan), [Next]_vars, wr'.op \in SoundOps
  PROVE  TodoInv'
<1> USE DEF OpsInv
<1>1. <<>> \in Seq(SpanType) /\ Len(<<>>) = 0
  BY EmptySeq
<1>2. Len(wr'.op.spans) \in Nat
  BY SoundFacts
<1>3. CASE UNCHANGED wr
  BY <1>3 DEF TodoInv, Streaming
<1>4. CASE Writer
  <2> USE DEF Shape, WriterFields, WriterStep
  <2>1. CASE Receive
    <3>1. /\ wr'.at = "work" /\ wr'.ret = wr.ret /\ wr'.todo = Head(chan).spans
          /\ wr'.op = Head(chan) /\ wr.at = "recv"
      BY <2>1 DEF Receive
    <3>2. wr'.op.spans \in Seq(SpanType) /\ wr'.todo = wr'.op.spans
      BY <3>1, SoundFacts
    <3> DEFINE m == Len(wr'.op.spans)
    <3>3. \A i \in 1..m : i + m - m = i
      <4> HIDE DEF m
      <4> QED
        BY <1>2 DEF m
    <3>4. \A i \in 1..Len(wr'.todo) :
            wr'.todo[i] = wr'.op.spans[i + Len(wr'.op.spans) - Len(wr'.todo)]
      BY <3>2, <3>3
    <3> QED
      BY <1>2, <3>1, <3>2, <3>4 DEF TodoInv, Streaming
  <2>2. CASE ElideSpan \/ ZeroSpan \/ WriteSpan
    <3>1. /\ wr.todo # <<>> /\ wr'.op = wr.op /\ wr'.todo = Tail(wr.todo)
          /\ wr'.ret = wr.ret /\ wr'.at = wr.at /\ wr.at = "work"
      BY <2>2 DEF ElideSpan, ZeroSpan, WriteSpan
    <3> QED
      BY <3>1, SpanDone DEF OpsIn
  <2>3. CASE SpanFails
    <3>1. wr'.at = "closing" /\ wr'.todo = <<>>
      BY <2>3 DEF SpanFails
    <3> QED
      BY <1>1, <1>2, <3>1 DEF TodoInv, Streaming
  <2>4. CASE FinishOp
    <3>1. wr'.at = "sync" /\ wr'.todo = <<>> /\ wr'.ret = wr.ret /\ wr.at = "work"
      BY <2>4 DEF FinishOp
    <3> QED
      BY <1>1, <1>2, <3>1 DEF TodoInv, Streaming
  <2>5. CASE SyncOrNot
    <3>1. wr'.at = "recv" /\ wr'.todo = wr.todo /\ wr'.ret = wr.ret /\ wr.at = "sync"
      BY <2>5 DEF SyncOrNot
    <3> QED
      BY <1>1, <1>2, <3>1 DEF TodoInv, Streaming
  <2>6. CASE SyncFails \/ StreamEnds
    <3>1. wr'.at = "closing" /\ wr'.todo = wr.todo /\ wr.at # "work"
      BY <2>6 DEF SyncFails, StreamEnds
    <3> QED
      BY <1>1, <1>2, <3>1 DEF TodoInv, Streaming
  <2>7. CASE DropRx \/ DropPoolTx \/ Join
    <3>1. /\ wr'.at \in {"rxDropped", "joining", "joined"} /\ wr'.todo = wr.todo
          /\ wr.at # "work"
      BY <2>7 DEF DropRx, DropPoolTx, Join
    <3> QED
      BY <1>1, <1>2, <3>1 DEF TodoInv, Streaming
  <2> QED
    BY <1>4, <2>1, <2>2, <2>3, <2>4, <2>5, <2>6, <2>7 DEF Writer
<1>5. Caller \/ Reader \/ UNCHANGED vars => UNCHANGED wr
  BY CallerKeeps, ReaderKeeps DEF vars, threadVars, readerFrame
<1> QED
  BY <1>3, <1>4, <1>5 DEF Next, Returned

LEMMA JobKept == [Next]_vars => UNCHANGED job
  BY CallerKeeps, ReaderKeeps, WriterKeeps DEF vars, threadVars, readerFrame, Next, Returned

LEMMA StepOps ==
  ASSUME Shape, OrderInv, OwnerInv, ReadOn, Aligned, OpsInv, [Next]_vars
  PROVE  OpsInv'
<1>1. job \in Jobs /\ IsSeq(chan) /\ Placed /\ InPlace /\ NeverBack
  BY DEF Shape, OwnerInv, InTransit, OrderInv
<1>2. OpsIn(SoundOps) /\ NoOp \in SoundOps
  BY <1>1, NoOpSound DEF OpsInv
<1>3. MeetGap => GapOp \in SoundOps
  BY <1>1, GapSound
<1>4. ReadBatch => rd'.op \in SoundOps
  BY <1>1, BatchSound
<1>5. /\ wr'.op \in SoundOps
      /\ \A i \in 1..Len(chan') : chan'[i] \in SoundOps
      /\ rd'.at \in {"gap", "send"} => rd'.op \in SoundOps
  <2> DEFINE S == SoundOps
  <2>1. OpsIn(S) /\ NoOp \in S /\ (MeetGap => GapOp \in S) /\ (ReadBatch => rd'.op \in S)
    BY <1>2, <1>3, <1>4
  <2> HIDE DEF S
  <2>2. /\ wr'.op \in S
        /\ \A i \in 1..Len(chan') : chan'[i] \in S
        /\ rd'.at \in {"gap", "send"} => rd'.op \in S
    BY <1>1, <2>1, OpsStayIn
  <2> QED
    BY <2>2 DEF S
<1>6. SoundOps' = SoundOps
  BY JobKept, JobFixedMore
<1>7. TodoInv'
  BY <1>1, <1>5, StepTodo
<1> QED
  BY <1>5, <1>6, <1>7 DEF OpsInv, OpsIn

-----------------------------------------------------------------------------
(* What the operations of a destination do to it.                          *)

DestSet ==
  [kind : {"file", "device", "sink"}, cap : 0..MaxOffset, len : 0..MaxOffset,
   cells : [0..MaxOffset -> CellSet], fast : BOOLEAN, dirty : Nat]

(* A file reads as zero past its end.                                      *)
Sane(d) ==
  /\ d \in DestSet
  /\ d.kind = "file" => \A c \in 0..MaxOffset : c >= d.len => d.cells[c] = Zero

(* e is d once `what` has been put on the n cells at `at`: no other cell   *)
(* changes, a file does not get shorter, and at most n cells await a sync. *)
Paints(d, e, at, n, what) ==
  /\ Sane(e) /\ e.kind = d.kind /\ e.cap = d.cap
  /\ d.len <= e.len
  /\ \A c \in 0..MaxOffset :
       e.cells[c] = IF ~IsSink(d) /\ at <= c /\ c < at + n THEN what[c - at] ELSE d.cells[c]
  /\ e.dirty <= d.dirty + n
  /\ IsSink(d) => e.dirty = d.dirty

Zeroes(n) == [i \in 0..(n - 1) |-> Zero]

LEMMA PaintsNothing ==
  ASSUME NEW d, Sane(d), NEW at \in Nat, NEW n \in Nat, NEW what, IsSink(d) \/ n = 0
  PROVE  Paints(d, d, at, n, what)
<1>1. d.len \in Nat /\ d.dirty \in Nat
  BY DEF Sane, DestSet
<1>2. \A c \in 0..MaxOffset : ~(~IsSink(d) /\ at <= c /\ c < at + n)
  OBVIOUS
<1> QED
  BY <1>1, <1>2 DEF Paints

LEMMA Writing ==
  ASSUME NEW d, Sane(d), NEW at \in Nat, NEW n \in Nat, at + n <= MaxOffset,
         NEW what, \A i \in 0..(n - 1) : what[i] \in CellSet \ {Old}
  PROVE  Paints(d, WriteAllAt(d, at, n, what), at, n, what)
<1> DEFINE e == WriteAllAt(d, at, n, what)
           cells == [c \in DOMAIN d.cells |->
                       IF c \in at..(at + n - 1) THEN what[c - at] ELSE d.cells[c]]
           len == IF d.kind = "file" THEN Greater(d.len, at + n) ELSE d.len
<1>1. CASE IsSink(d) \/ n = 0
  <2>1. e = d
    BY <1>1, Zenon DEF WriteAllAt
  <2> QED
    BY <1>1, <2>1, PaintsNothing
<1>2. CASE ~(IsSink(d) \/ n = 0)
  <2>1. e = [d EXCEPT !.cells = cells, !.len = len, !.dirty = d.dirty + n]
    BY <1>2, Zenon DEF WriteAllAt
  <2>2. /\ d.cells \in [0..MaxOffset -> CellSet] /\ d.len \in 0..MaxOffset /\ d.dirty \in Nat
        /\ d.cap \in 0..MaxOffset /\ MaxOffset \in Nat
    BY OffsetAssumption DEF Sane, DestSet
  <2>3. \A c \in 0..MaxOffset : cells[c] = IF at <= c /\ c < at + n THEN what[c - at] ELSE d.cells[c]
    BY <2>2
  <2>4. cells \in [0..MaxOffset -> CellSet]
    <3>1. \A c \in 0..MaxOffset : c \in at..(at + n - 1) => c - at \in 0..(n - 1)
      BY <2>2
    <3> QED
      BY <2>2, <3>1
  <2>5. len \in 0..MaxOffset /\ d.len <= len /\ (d.kind = "file" => at + n <= len)
    BY <2>2 DEF Greater
  <2> HIDE DEF cells, len
  <2>6. /\ e.cells = cells /\ e.len = len /\ e.dirty = d.dirty + n
        /\ e.kind = d.kind /\ e.cap = d.cap /\ e \in DestSet
    <3> DEFINE dirty == d.dirty + n
    <3>1. dirty \in Nat /\ len \in 0..MaxOffset
      BY <2>2, <2>5
    <3>2. e = [d EXCEPT !.cells = cells, !.len = len, !.dirty = dirty]
      BY <2>1
    <3> HIDE DEF e, dirty
    <3>3. /\ e.cells = cells /\ e.len = len /\ e.dirty = dirty
          /\ e.kind = d.kind /\ e.cap = d.cap /\ e \in DestSet
      BY <2>4, <3>1, <3>2 DEF Sane, DestSet
    <3> QED
      BY <3>3 DEF dirty
  <2>7. ASSUME e.kind = "file", NEW c \in 0..MaxOffset, c >= e.len
        PROVE  e.cells[c] = Zero
    <3>1. c >= d.len /\ c >= at + n
      <4> HIDE DEF e
      <4> QED
        BY <2>2, <2>5, <2>6, <2>7
    <3>2. cells[c] = d.cells[c]
      BY <2>3, <3>1
    <3> QED
      BY <2>6, <2>7, <3>1, <3>2 DEF Sane
  <2> HIDE DEF e
  <2>8. Sane(e)
    BY <2>6, <2>7 DEF Sane
  <2> QED
    BY <1>2, <2>2, <2>3, <2>5, <2>6, <2>8 DEF Paints, e
<1> QED
  BY <1>1, <1>2

LEMMA Filling ==
  ASSUME NEW d, Sane(d), NEW at \in Nat, NEW n \in Nat, at + n <= MaxOffset
  PROVE  Paints(d, FillZero(d, at, n), at, n, Zeroes(n))
<1> DEFINE w == WriteAllAt(d, at, n, Zeroes(n))
           e == FillZero(d, at, n)
<1>1. \A i \in 0..(n - 1) : Zeroes(n)[i] \in CellSet \ {Old}
  BY DEF Zeroes, CellSet, Zero, Old
<1>2. Paints(d, w, at, n, Zeroes(n))
  BY <1>1, Writing
<1>3. e = [w EXCEPT !.fast = FALSE]
  BY DEF FillZero, Zeroes
<1> HIDE DEF e, w
<1>4. w \in DestSet
  BY <1>2 DEF Paints, Sane
<1>5. /\ e.cells = w.cells /\ e.len = w.len /\ e.dirty = w.dirty /\ e.kind = w.kind
      /\ e.cap = w.cap /\ e \in DestSet
  BY <1>3, <1>4 DEF DestSet
<1>6. Sane(e)
  BY <1>2, <1>5 DEF Paints, Sane
<1>7. Paints(d, e, at, n, Zeroes(n))
  BY <1>2, <1>5, <1>6 DEF Paints
<1> QED
  BY <1>7 DEF e

LEMMA Punching ==
  ASSUME NEW d, Sane(d), NEW at \in Nat, NEW n \in Nat
  PROVE  Paints(d, PunchHole(d, at, n), at, n, Zeroes(n))
<1> DEFINE e == PunchHole(d, at, n)
           cells == [c \in DOMAIN d.cells |-> IF c \in at..(at + n - 1) THEN Zero ELSE d.cells[c]]
<1>1. CASE IsSink(d)
  <2>1. e = d
    BY <1>1, Zenon DEF PunchHole
  <2> QED
    BY <1>1, <2>1, PaintsNothing
<1>2. CASE ~IsSink(d)
  <2>1. e = [d EXCEPT !.cells = cells]
    BY <1>2, Zenon DEF PunchHole
  <2>2. d.cells \in [0..MaxOffset -> CellSet] /\ d.len \in 0..MaxOffset /\ d.dirty \in Nat
    BY DEF Sane, DestSet
  <2>3. \A c \in 0..MaxOffset :
          cells[c] = IF at <= c /\ c < at + n THEN Zeroes(n)[c - at] ELSE d.cells[c]
    <3> SUFFICES ASSUME NEW c \in 0..MaxOffset
                 PROVE  cells[c] = IF at <= c /\ c < at + n THEN Zeroes(n)[c - at] ELSE d.cells[c]
      OBVIOUS
    <3>1. at <= c /\ c < at + n => c \in at..(at + n - 1) /\ Zeroes(n)[c - at] = Zero
      BY OffsetAssumption DEF Zeroes
    <3>2. c \in at..(at + n - 1) => at <= c /\ c < at + n
      OBVIOUS
    <3> QED
      BY <2>2, <3>1, <3>2
  <2>4. cells \in [0..MaxOffset -> CellSet]
    BY <2>2 DEF CellSet
  <2>5. \A c \in 0..MaxOffset : cells[c] \in {Zero, d.cells[c]}
    BY <2>2
  <2> HIDE DEF cells, e
  <2>6. /\ e.cells = cells /\ e.len = d.len /\ e.dirty = d.dirty
        /\ e.kind = d.kind /\ e.cap = d.cap /\ e \in DestSet
    BY <2>1, <2>4 DEF Sane, DestSet
  <2>7. Sane(e)
    BY <2>5, <2>6 DEF Sane
  <2> QED
    BY <1>2, <2>2, <2>3, <2>6, <2>7 DEF Paints, e
<1> QED
  BY <1>1, <1>2

LEMMA Zeroing ==
  ASSUME NEW d, Sane(d), NEW at \in Nat, NEW n \in Nat, at + n <= MaxOffset,
         NEW e \in ZeroRange(d, at, n)
  PROVE  Paints(d, e, at, n, Zeroes(n))
<1>1. CASE n = 0
  BY <1>1, PaintsNothing DEF ZeroRange
<1>2. CASE n # 0
  <2>1. e = PunchHole(d, at, n) \/ e = FillZero(d, at, n)
    BY <1>2 DEF ZeroRange
  <2> QED
    BY <2>1, Filling, Punching
<1> QED
  BY <1>1, <1>2

(* e is d with the length that an image of s cells at o gives it.          *)
Sized(d, e, o, s) ==
  /\ Sane(e) /\ e.kind = d.kind /\ e.cap = d.cap /\ e.dirty = d.dirty
  /\ d.kind # "file" => e = d
  /\ d.kind = "file" /\ o = 0 => e.len = s
  /\ d.kind = "file" /\ o # 0 => e.len = Greater(d.len, o + s)
  /\ \A c \in 0..MaxOffset :
       e.cells[c] = IF d.kind = "file" /\ o = 0 /\ c >= s THEN Zero ELSE d.cells[c]

LEMMA SettingLength ==
  ASSUME NEW d, Sane(d), d.kind = "file", NEW s \in 0..MaxOffset
  PROVE  /\ Sane(SetLen(d, s)) /\ SetLen(d, s).kind = d.kind /\ SetLen(d, s).cap = d.cap
         /\ SetLen(d, s).dirty = d.dirty /\ SetLen(d, s).len = s
         /\ \A c \in 0..MaxOffset :
              SetLen(d, s).cells[c] = IF c >= s THEN Zero ELSE d.cells[c]
<1> DEFINE e == SetLen(d, s)
           cells == [c \in DOMAIN d.cells |-> IF c < s THEN d.cells[c] ELSE Zero]
<1>1. e = [d EXCEPT !.len = s, !.cells = cells]
  BY Zenon DEF SetLen
<1>2. d.cells \in [0..MaxOffset -> CellSet]
  BY DEF Sane, DestSet
<1>3. cells \in [0..MaxOffset -> CellSet]
  BY <1>2 DEF CellSet
<1>4. \A c \in 0..MaxOffset : cells[c] = IF c >= s THEN Zero ELSE d.cells[c]
  BY <1>2, OffsetAssumption
<1> HIDE DEF cells, e
<1>5. /\ e.cells = cells /\ e.len = s /\ e.dirty = d.dirty
      /\ e.kind = d.kind /\ e.cap = d.cap /\ e \in DestSet
  BY <1>1, <1>3 DEF Sane, DestSet
<1>6. Sane(e)
  BY <1>4, <1>5 DEF Sane
<1> QED
  BY <1>4, <1>5, <1>6 DEF e

LEMMA Sizing ==
  ASSUME NEW d, Sane(d), NEW o \in Nat, NEW s \in Nat, o + s <= MaxOffset
  PROVE  Sized(d, SizeDestination(d, o, s), o, s)
<1> DEFINE e == SizeDestination(d, o, s)
<1>1. /\ d.len \in 0..MaxOffset /\ s \in 0..MaxOffset /\ o + s \in 0..MaxOffset
      /\ d.kind \in {"file", "device", "sink"} /\ d.dirty \in Nat
  BY OffsetAssumption DEF Sane, DestSet
<1>2. CASE d.kind # "file"
  <2>1. e = d
    BY <1>2, Zenon DEF SizeDestination, SetLen, GrowTo
  <2> HIDE DEF e
  <2> QED
    BY <1>1, <1>2, <2>1 DEF Sized, e
<1>3. CASE d.kind = "file" /\ o = 0
  <2>1. e = SetLen(d, s)
    BY <1>3, Zenon DEF SizeDestination
  <2>2. /\ Sane(e) /\ e.kind = d.kind /\ e.cap = d.cap /\ e.dirty = d.dirty /\ e.len = s
        /\ \A c \in 0..MaxOffset : e.cells[c] = IF c >= s THEN Zero ELSE d.cells[c]
    BY <1>1, <1>3, <2>1, SettingLength
  <2> HIDE DEF e
  <2> QED
    BY <1>3, <2>2 DEF Sized, e
<1>4. CASE d.kind = "file" /\ o # 0 /\ d.len < o + s
  <2>1. e = SetLen(d, o + s)
    BY <1>4, Zenon DEF SizeDestination, GrowTo
  <2>2. /\ Sane(e) /\ e.kind = d.kind /\ e.cap = d.cap /\ e.dirty = d.dirty /\ e.len = o + s
        /\ \A c \in 0..MaxOffset : e.cells[c] = IF c >= o + s THEN Zero ELSE d.cells[c]
    BY <1>1, <1>4, <2>1, SettingLength
  <2> HIDE DEF e
  <2>3. \A c \in 0..MaxOffset : c >= o + s => d.cells[c] = Zero
    BY <1>1, <1>4 DEF Sane
  <2>4. e.len = Greater(d.len, o + s)
    BY <1>1, <1>4, <2>2 DEF Greater
  <2> QED
    BY <1>4, <2>2, <2>3, <2>4 DEF Sized, e
<1>5. CASE d.kind = "file" /\ o # 0 /\ ~(d.len < o + s)
  <2>1. e = d
    BY <1>5, Zenon DEF SizeDestination, GrowTo
  <2> HIDE DEF e
  <2>2. d.len = Greater(d.len, o + s)
    BY <1>1, <1>5 DEF Greater
  <2> QED
    BY <1>5, <2>1, <2>2 DEF Sized, e
<1> QED
  BY <1>2, <1>3, <1>4, <1>5

(* e is d with zeroes in the cells S.                                      *)
Blanks(d, e, S) ==
  /\ Sane(e) /\ e.kind = d.kind /\ e.cap = d.cap
  /\ d.len <= e.len
  /\ \A c \in 0..MaxOffset : e.cells[c] = IF c \in S THEN Zero ELSE d.cells[c]

(* Both ends of a device of cap cells, or all of it when it has no middle. *)
BothEnds(cap, span) == {c \in 0..(cap - 1) : c < span \/ c >= cap - span}

LEMMA BlankingOnce ==
  ASSUME NEW d, ~IsSink(d), NEW e, NEW at \in Nat, NEW n \in Nat, Paints(d, e, at, n, Zeroes(n))
  PROVE  Blanks(d, e, at..(at + n - 1))
<1> SUFFICES ASSUME NEW c \in 0..MaxOffset
             PROVE  e.cells[c] = IF c \in at..(at + n - 1) THEN Zero ELSE d.cells[c]
  BY DEF Paints, Blanks
<1>1. c \in at..(at + n - 1) <=> at <= c /\ c < at + n
  OBVIOUS
<1>2. at <= c /\ c < at + n => Zeroes(n)[c - at] = Zero
  BY DEF Zeroes
<1> QED
  BY <1>1, <1>2 DEF Paints

LEMMA BlankingTwice ==
  ASSUME NEW d, Sane(d), NEW x, NEW e, NEW S, NEW T, Blanks(d, x, S), Blanks(x, e, T)
  PROVE  Blanks(d, e, S \cup T)
<1>1. d.len <= e.len
  BY DEF Blanks, Sane, DestSet
<1> QED
  BY <1>1 DEF Blanks

LEMMA ClearingDevice ==
  ASSUME NEW d, Sane(d), d.kind = "device", NEW span \in Nat
  PROVE  /\ \A e \in Wipe(d) : Blanks(d, e, 0..(d.cap - 1))
         /\ \A e \in WipePartly(d) : \E S \in SUBSET (0..(d.cap - 1)) : Blanks(d, e, S)
         /\ \A e \in Zap(d, span) : Blanks(d, e, BothEnds(d.cap, span))
         /\ \A e \in ZapPartly(d, span) : \E S \in SUBSET BothEnds(d.cap, span) : Blanks(d, e, S)
<1> DEFINE cap == d.cap
           whole == 0..(cap - 1)
<1>1. cap \in Nat /\ cap <= MaxOffset /\ MaxOffset \in Nat /\ ~IsSink(d) /\ 0 \in Nat
  BY OffsetAssumption DEF Sane, DestSet, IsSink
<1>2. ASSUME NEW x, Sane(x), ~IsSink(x), NEW at \in Nat, NEW n \in Nat, at + n <= MaxOffset
      PROVE  /\ \A e \in ZeroRange(x, at, n) : Blanks(x, e, at..(at + n - 1))
             /\ Blanks(x, FillZero(x, at, n), at..(at + n - 1))
  BY <1>2, Zeroing, Filling, BlankingOnce
<1>3. \A e \in ZeroRange(d, 0, cap) : Blanks(d, e, whole)
  <2>1. 0 + cap - 1 = cap - 1 /\ 0 + cap <= MaxOffset
    BY <1>1
  <2> HIDE DEF cap
  <2> QED
    BY <1>1, <1>2, <2>1
<1>4. \A e \in Wipe(d) : Blanks(d, e, whole)
  BY <1>3 DEF Wipe
<1>5. ASSUME NEW e \in WipePartly(d)
      PROVE  \E S \in SUBSET whole : Blanks(d, e, S)
  <2>1. PICK n \in 0..(cap - 1) : e = FillZero(d, 0, n)
    BY DEF WipePartly
  <2>2. n \in Nat /\ 0 + n <= MaxOffset /\ 0..(0 + n - 1) \subseteq whole
    BY <1>1, <2>1
  <2>3. Blanks(d, e, 0..(0 + n - 1))
    BY <1>1, <1>2, <2>1, <2>2
  <2> QED
    BY <2>2, <2>3
<1>6. CASE cap <= span * 2
  <2>1. BothEnds(cap, span) = whole
    BY <1>1, <1>6 DEF BothEnds
  <2>2. Zap(d, span) = ZeroRange(d, 0, cap) /\ ZapPartly(d, span) = WipePartly(d)
    BY <1>6 DEF Zap, ZapPartly
  <2> QED
    BY <1>3, <1>4, <1>5, <2>1, <2>2
<1>7. CASE ~(cap <= span * 2)
  <2> DEFINE head == 0..(0 + span - 1)
             tail == (cap - span)..((cap - span) + span - 1)
  <2>1. /\ span <= MaxOffset /\ 0 + span <= MaxOffset
        /\ cap - span \in Nat /\ (cap - span) + span <= MaxOffset
    BY <1>1, <1>7
  <2>2. head \cup tail = BothEnds(cap, span)
    BY <1>1, <1>7 DEF BothEnds
  <2>3. ASSUME NEW x \in ZeroRange(d, 0, span)
        PROVE  Blanks(d, x, head) /\ Sane(x) /\ ~IsSink(x)
    <3>1. Blanks(d, x, head)
      BY <1>1, <1>2, <2>1
    <3> QED
      BY <1>1, <3>1 DEF Blanks, IsSink
  <2>4. ASSUME NEW e \in Zap(d, span)
        PROVE  Blanks(d, e, BothEnds(cap, span))
    <3>1. PICK x \in ZeroRange(d, 0, span) : e \in ZeroRange(x, cap - span, span)
      BY <1>7 DEF Zap
    <3>2. Blanks(x, e, tail)
      BY <1>2, <2>1, <2>3, <3>1
    <3>3. Blanks(d, e, head \cup tail)
      BY <2>3, <3>1, <3>2, BlankingTwice
    <3> QED
      BY <2>2, <3>3
  <2>5. ASSUME NEW e \in ZapPartly(d, span)
        PROVE  \E S \in SUBSET BothEnds(cap, span) : Blanks(d, e, S)
    <3>1. \/ \E n \in 0..(span - 1) : e = FillZero(d, 0, n)
          \/ \E x \in ZeroRange(d, 0, span), n \in 0..(span - 1) : e = FillZero(x, cap - span, n)
      BY <1>7 DEF ZapPartly
    <3>2. CASE \E n \in 0..(span - 1) : e = FillZero(d, 0, n)
      <4>1. PICK n \in 0..(span - 1) : e = FillZero(d, 0, n)
        BY <3>2
      <4>2. n \in Nat /\ 0 + n <= MaxOffset /\ 0..(0 + n - 1) \subseteq head
        BY <1>1, <2>1
      <4>3. Blanks(d, e, 0..(0 + n - 1))
        BY <1>1, <1>2, <4>1, <4>2
      <4> QED
        BY <2>2, <4>2, <4>3
    <3>3. CASE \E x \in ZeroRange(d, 0, span), n \in 0..(span - 1) : e = FillZero(x, cap - span, n)
      <4>1. PICK x \in ZeroRange(d, 0, span), n \in 0..(span - 1) : e = FillZero(x, cap - span, n)
        BY <3>3
      <4> DEFINE part == (cap - span)..((cap - span) + n - 1)
      <4>2. n \in Nat /\ (cap - span) + n <= MaxOffset /\ part \subseteq tail
        BY <1>1, <2>1
      <4>3. Blanks(x, e, part)
        BY <1>2, <2>1, <2>3, <4>1, <4>2
      <4>4. Blanks(d, e, head \cup part)
        BY <2>3, <4>1, <4>3, BlankingTwice
      <4>5. head \cup part \in SUBSET BothEnds(cap, span)
        <5> HIDE DEF head, part, tail
        <5> QED
          BY <2>2, <4>2
      <4> HIDE DEF head, part
      <4> QED
        BY <4>4, <4>5
    <3> QED
      BY <3>1, <3>2, <3>3
  <2> QED
    BY <1>4, <1>5, <2>4, <2>5
<1> QED
  BY <1>6, <1>7

-----------------------------------------------------------------------------
(* The destination during a copy.                                          *)

Refused == SizeKnown /\ (Overflows \/ (job.kind = "device" /\ job.offset + job.size > job.cap))

InImage(c) == c >= job.offset /\ c < job.offset + Extent

AllUntouched == \A c \in 0..MaxOffset : Untouched(c)

(* A cell changes only in the image's extent, or becomes zero where that   *)
(* is asked for.                                                           *)
Kept(c) ==
  \/ Untouched(c)
  \/ InImage(c)
  \/ dest.cells[c] = Zero /\ (Cleared(c) \/ (job.kind = "file" /\ job.offset = 0))

WasCleared == phase \in {"size", "stream", "finish", "resize", "sync"} \/ Ok

DestOk == Sane(dest) /\ dest.kind = job.kind /\ dest.cap = job.cap

DestInv ==
  /\ DestOk
  /\ IsSink(dest) => dest.dirty = 0 /\ AllUntouched
  /\ phase \in {"check", "clear"} => dest.len = job.len /\ dest.dirty = 0 /\ AllUntouched
  /\ Refused => phase \in {"check", "done"} /\ AllUntouched
  /\ \A c \in 0..MaxOffset : Kept(c)
  /\ job.kind = "file" =>
       /\ job.offset > 0 /\ ~job.wipe => dest.len >= job.len
       /\ (phase = "sync" \/ Ok) /\ job.offset = 0 => dest.len = FinalSize
       /\ phase = "sync" \/ Ok => dest.len >= job.offset + FinalSize
  /\ job.kind = "device" => \A c \in 0..MaxOffset : c >= job.cap => dest.cells[c] = Old
  /\ WasCleared /\ job.kind = "device" =>
       \A c \in 0..(job.cap - 1) : Cleared(c) => dest.cells[c] # Old

LEMMA InitDest == Init => DestInv
<1> SUFFICES ASSUME Init PROVE DestInv
  OBVIOUS
<1>1. job \in Jobs /\ phase = "check" /\ result = "none"
  BY DEF Init
<1>2. /\ job.cap \in 0..MaxOffset /\ job.len \in 0..MaxOffset
      /\ job.kind \in {"file", "device", "sink"} /\ MaxOffset \in Nat
  BY <1>1, JobMore
<1> DEFINE cells == [c \in 0..MaxOffset |-> IF job.kind = "file" /\ c >= job.len THEN Zero ELSE Old]
<1>3. dest = [kind |-> job.kind, cap |-> job.cap, len |-> job.len, fast |-> TRUE, dirty |-> 0,
              cells |-> cells]
  BY DEF Init
<1>4. cells \in [0..MaxOffset -> CellSet]
  BY DEF CellSet
<1>5. \A c \in 0..MaxOffset : cells[c] = Found(c)
  BY DEF Found
<1>6. \A c \in 0..MaxOffset : job.kind = "file" /\ c >= job.len => cells[c] = Zero
  OBVIOUS
<1> HIDE DEF cells
<1>7. AllUntouched
  BY <1>3, <1>5 DEF AllUntouched, Untouched
<1>8. DestOk
  BY <1>2, <1>3, <1>4, <1>6 DEF DestOk, Sane, DestSet
<1>9. job.kind = "device" => \A c \in 0..MaxOffset : dest.cells[c] = Old
  BY <1>7 DEF AllUntouched, Untouched, Found
<1> QED
  BY <1>1, <1>2, <1>3, <1>7, <1>8, <1>9 DEF DestInv, Kept, AllUntouched, WasCleared, Ok

(* The image, if it is not refused, lies within what an offset can reach.  *)
LEMMA ExtentFits ==
  ASSUME job \in Jobs, ~Refused
  PROVE  /\ Extent \in Nat /\ job.offset \in Nat /\ job.offset + Extent <= MaxOffset
         /\ SizeKnown => job.size \in Nat /\ job.offset + job.size <= MaxOffset
<1>1. /\ job.size \in Nat /\ job.srcLen \in Nat /\ job.offset \in Nat
      /\ job.offset + job.srcLen <= MaxOffset /\ MaxOffset \in Nat
  BY JobFacts, JobMore
<1>2. SizeKnown => job.offset + job.size <= MaxOffset
  BY <1>1 DEF Refused, Overflows
<1> QED
  BY <1>1, <1>2 DEF Extent, Greater

(* A step of the pipeline puts something on cells of the image.            *)
Puts == \E at \in Nat, n \in Nat : \E what :
          /\ Paints(dest, dest', at, n, what)
          /\ job.offset <= at /\ at + n <= job.offset + Extent
          /\ \A i \in 0..(n - 1) : what[i] # Old
          /\ job.kind = "device" => n = 0 \/ at + n <= job.cap

LEMMA PutsNothing ==
  ASSUME job \in Jobs, Sane(dest), dest' = dest \/ (dest' = Sync(dest) /\ SupportsSync(dest))
  PROVE  Puts
<1>1. job.offset \in Nat /\ Extent \in Nat
  BY JobMore, JobFacts DEF Extent, Greater
<1>2. Paints(dest, dest', job.offset, 0, Zeroes(0))
  <2>1. CASE dest' = dest
    BY <1>1, <2>1, PaintsNothing
  <2>2. CASE dest' = Sync(dest) /\ SupportsSync(dest)
    <3>1. dest \in DestSet /\ dest' = [dest EXCEPT !.dirty = 0]
      BY <2>2 DEF Sane, Sync
    <3>2. /\ dest' \in DestSet /\ dest'.cells = dest.cells /\ dest'.len = dest.len
          /\ dest'.dirty = 0 /\ dest'.kind = dest.kind /\ dest'.cap = dest.cap
      BY <3>1 DEF DestSet
    <3>3. Sane(dest')
      BY <3>2 DEF Sane
    <3>4. dest.dirty \in Nat /\ dest.len \in Nat
      BY <3>1 DEF DestSet
    <3>5. \A c \in 0..MaxOffset : ~(job.offset <= c /\ c < job.offset + 0)
      BY <1>1
    <3>6. ~IsSink(dest) /\ 0 <= dest.dirty + 0
      BY <2>2, <3>4 DEF SupportsSync
    <3> QED
      BY <3>2, <3>3, <3>4, <3>5, <3>6 DEF Paints
  <2> QED
    BY <2>1, <2>2
<1>3. job.offset <= job.offset /\ job.offset + 0 <= job.offset + Extent /\ 0 \in Nat
      /\ \A i \in 0..(0 - 1) : Zeroes(0)[i] # Old
  BY <1>1
<1>4. job.kind = "device" => 0 = 0 \/ job.offset + 0 <= job.cap
  OBVIOUS
<1> QED
  BY <1>1, <1>2, <1>3, <1>4 DEF Puts

(* The cells of the span that is up lie in the image.                      *)
LEMMA SpanFits ==
  ASSUME job \in Jobs, OpsInv, wr.todo # <<>>
  PROVE  /\ At \in Nat /\ At = job.offset + Reached /\ Span.len \in Nat \ {0}
         /\ job.offset <= At /\ At + Span.len <= job.offset + Extent
         /\ \A n \in 0..Span.len : \A i \in 0..(n - 1) : Payload[i] \in CellSet \ {Old}
<1>1. wr.op \in SoundOps /\ TodoInv
  BY DEF OpsInv, OpsIn
<1>2. /\ Span.offset \in Nat /\ Span.len \in Nat \ {0}
      /\ Span.offset + Span.len <= wr.op.len
      /\ wr.op.off \in Nat /\ wr.op.len \in Nat /\ Reached = wr.op.off + Span.offset
  BY <1>1, NextSpan
<1>3. wr.op.off + wr.op.len <= Extent
  BY <1>1, SoundFacts DEF EndOf
<1>4. job.offset \in Nat /\ Extent \in Nat
  BY JobMore, JobFacts DEF Extent, Greater
<1>5. At = job.offset + wr.op.off + Span.offset
  BY DEF At
<1>6. \A i \in 0..(Span.len - 1) : Payload[i] \in CellSet \ {Old}
  <2> SUFFICES ASSUME NEW i \in 0..(Span.len - 1) PROVE Payload[i] \in CellSet \ {Old}
    OBVIOUS
  <2>1. Payload[i] = Content(wr.op.off + Span.offset + i)
    BY DEF Payload
  <2> QED
    BY <2>1, JobMore
<1>7. \A n \in 0..Span.len : \A i \in 0..(n - 1) : i \in 0..(Span.len - 1)
  BY <1>2
<1> DEFINE a == Span.offset
           l == Span.len
           o == wr.op.off
           m == wr.op.len
           s == job.offset
<1>8. /\ s + o + a \in Nat /\ s + o + a = s + (o + a) /\ s <= s + o + a
      /\ s + o + a + l <= s + Extent
  <2>1. a \in Nat /\ l \in Nat /\ o \in Nat /\ m \in Nat /\ s \in Nat /\ Extent \in Nat
        /\ a + l <= m /\ o + m <= Extent
    BY <1>2, <1>3, <1>4
  <2> HIDE DEF a, l, o, m, s
  <2> QED
    BY <2>1
<1> QED
  BY <1>2, <1>5, <1>6, <1>7, <1>8

LEMMA StreamPuts ==
  ASSUME Shape, OpsInv, DestOk, ~Refused, Reader \/ Writer
  PROVE  Puts
<1>1. job \in Jobs /\ Sane(dest)
  BY DEF Shape, DestOk
<1>2. MaxOffset \in Nat /\ job.offset + Extent <= MaxOffset /\ job.offset \in Nat /\ Extent \in Nat
  BY <1>1, ExtentFits, OffsetAssumption
<1>3. Reader => dest' = dest
  BY ReaderKeeps DEF readerFrame
<1>4. CASE Receive \/ ElideSpan \/ FinishOp \/ SyncFails \/ StreamEnds \/ DropRx \/ DropPoolTx \/ Join
  <2>1. dest' = dest
    BY <1>4 DEF Receive, ElideSpan, FinishOp, SyncFails, StreamEnds, DropRx, DropPoolTx, Join
  <2> QED
    BY <1>1, <2>1, PutsNothing
<1>5. CASE SyncOrNot
  <2>1. dest' = dest \/ (dest' = Sync(dest) /\ SupportsSync(dest))
    BY <1>5 DEF SyncOrNot, SyncDue
  <2> QED
    BY <1>1, <2>1, PutsNothing
<1>6. ASSUME wr.todo # <<>>, NEW n \in 0..Span.len
      PROVE  /\ n \in Nat /\ At \in Nat /\ At + n <= MaxOffset /\ job.offset <= At
             /\ At + n <= job.offset + Extent
             /\ \A i \in 0..(n - 1) : Payload[i] \in CellSet \ {Old}
  <2>1. /\ At \in Nat /\ Span.len \in Nat /\ job.offset <= At /\ At + Span.len <= job.offset + Extent
        /\ \A i \in 0..(n - 1) : Payload[i] \in CellSet \ {Old}
    BY <1>1, <1>6, SpanFits
  <2>2. n \in Nat /\ n <= Span.len
    BY <2>1
  <2> QED
    BY <1>2, <2>1, <2>2
<1>7. \A n \in Nat : \A i \in 0..(n - 1) : Zeroes(n)[i] # Old
  BY DEF Zeroes, Zero, Old
<1>11. ASSUME NEW at \in Nat, NEW l \in Nat, NEW n \in Nat, n <= Room(dest, at, l)
       PROVE  job.kind = "device" => n = 0 \/ at + n <= job.cap
  <2>1. dest.kind = job.kind /\ dest.cap = job.cap /\ job.cap \in Nat
    BY <1>1, JobMore DEF DestOk
  <2> QED
    BY <1>11, <2>1 DEF Room, Greater, Lesser
<1>8. CASE ZeroSpan
  <2>1. wr.todo # <<>> /\ dest' \in ZeroRange(dest, At, Span.len)
    BY <1>8 DEF ZeroSpan
  <2>2. Span.len \in Nat /\ Span.len \in 0..Span.len
    BY <1>1, <2>1, SpanFits
  <2>3. Paints(dest, dest', At, Span.len, Zeroes(Span.len))
    BY <1>1, <1>6, <2>1, <2>2, Zeroing
  <2>4. Span.len # 0 => Span.len <= Room(dest, At, Span.len)
    BY <2>1, <2>2 DEF ZeroRange
  <2>5. job.kind = "device" => Span.len = 0 \/ At + Span.len <= job.cap
    BY <1>6, <1>11, <2>1, <2>2, <2>4
  <2> QED
    BY <1>6, <1>7, <2>1, <2>2, <2>3, <2>5 DEF Puts
<1>9. CASE WriteSpan
  <2>1. wr.todo # <<>> /\ dest' = WriteAllAt(dest, At, Span.len, Payload)
    BY <1>9 DEF WriteSpan
  <2>2. Span.len \in Nat /\ Span.len \in 0..Span.len
    BY <1>1, <2>1, SpanFits
  <2>3. Paints(dest, dest', At, Span.len, Payload)
    BY <1>1, <1>6, <2>1, <2>2, Writing
  <2>4. Span.len <= Room(dest, At, Span.len)
    BY <1>9, <2>2 DEF WriteSpan
  <2>5. job.kind = "device" => Span.len = 0 \/ At + Span.len <= job.cap
    BY <1>6, <1>11, <2>1, <2>2, <2>4
  <2> QED
    BY <1>6, <2>1, <2>2, <2>3, <2>5 DEF Puts
<1>10. CASE SpanFails
  <2>1. wr.todo # <<>>
    BY <1>10 DEF SpanFails
  <2>2. PICK n \in 0..Lesser(Span.len - 1, Room(dest, At, Span.len)) :
          dest' = IF Span.zero THEN FillZero(dest, At, n) ELSE WriteAllAt(dest, At, n, Payload)
    BY <1>10 DEF SpanFails
  <2>3. n \in 0..Span.len /\ n <= Room(dest, At, Span.len) /\ Span.len \in Nat
    <3>1. Span.len \in Nat /\ At \in Nat /\ dest.cap \in Nat
      BY <1>1, <2>1, SpanFits DEF Sane, DestSet
    <3>2. Room(dest, At, Span.len) \in Nat
      BY <3>1 DEF Room, Greater, Lesser
    <3> QED
      BY <2>2, <3>1, <3>2 DEF Lesser
  <2>6. job.kind = "device" => n = 0 \/ At + n <= job.cap
    BY <1>6, <1>11, <2>1, <2>3
  <2>4. CASE Span.zero
    <3>1. Paints(dest, dest', At, n, Zeroes(n))
      BY <1>1, <1>6, <2>1, <2>2, <2>3, <2>4, Filling
    <3> QED
      BY <1>6, <1>7, <2>1, <2>3, <2>6, <3>1 DEF Puts
  <2>5. CASE ~Span.zero
    <3>1. Paints(dest, dest', At, n, Payload)
      BY <1>1, <1>6, <2>1, <2>2, <2>3, <2>5, Writing
    <3> QED
      BY <1>6, <2>1, <2>3, <2>6, <3>1 DEF Puts
  <2> QED
    BY <2>4, <2>5
<1> QED
  BY <1>1, <1>3, <1>4, <1>5, <1>8, <1>9, <1>10, PutsNothing DEF Writer

OnDevice(c) == job.kind = "device" => c < job.cap

(* What wipe and zap do before anything else is written.                   *)
LEMMA ClearingStep ==
  ASSUME job \in Jobs, DestOk, Clear \/ (MainFails /\ phase = "clear")
  PROVE  /\ DestOk' /\ (IsSink(dest) => dest' = dest)
         /\ \A c \in 0..MaxOffset : \/ dest'.cells[c] = dest.cells[c]
                                    \/ dest'.cells[c] = Zero /\ Cleared(c) /\ OnDevice(c)
         /\ ~job.wipe => dest.len <= dest'.len
         /\ ~job.wipe /\ job.zap = 0 => dest' = dest
         /\ phase' \in {"size", "done"}
         /\ result' # "ok" \/ (phase' = "size" /\ result' = result)
         /\ phase' = "size" /\ job.kind = "device" =>
              \A c \in 0..(job.cap - 1) : Cleared(c) => dest'.cells[c] = Zero
         /\ phase' = "size" /\ job.wipe =>
              /\ job.kind # "sink"
              /\ job.kind = "file" => \A c \in 0..MaxOffset : dest'.cells[c] = Zero
<1>1. /\ job.kind \in {"file", "device", "sink"} /\ job.cap \in 0..MaxOffset /\ job.zap \in Nat
      /\ job.wipe \in BOOLEAN /\ MaxOffset \in Nat
  BY JobMore
<1>2. /\ Sane(dest) /\ dest.kind = job.kind /\ dest.cap = job.cap
      /\ dest.len \in Nat /\ UNCHANGED job
  BY DEF DestOk, Sane, DestSet, Clear, MainFails
<1>3. /\ phase' \in {"size", "done"}
      /\ \/ dest' = dest /\ (phase' = "size" => ~job.wipe /\ (job.zap = 0 \/ job.kind # "device"))
         \/ job.wipe /\ ~IsSink(dest) /\ dest' \in Wipe(dest)
         \/ ~job.wipe /\ job.zap > 0 /\ job.kind = "device" /\ dest' \in Zap(dest, job.zap)
         \/ phase' = "done" /\ job.wipe /\ ~IsSink(dest) /\ dest' \in WipePartly(dest)
         \/ /\ phase' = "done" /\ ~job.wipe /\ job.zap > 0 /\ job.kind = "device"
            /\ dest' \in ZapPartly(dest, job.zap)
      /\ phase' = "size" => (Clear /\ result' = result)
      /\ phase' = "done" => result' # "ok"
  <2>1. CASE Clear
    <3>1. CASE job.wipe /\ IsSink(dest)
      <4>1. Return("CannotWipe") /\ UNCHANGED dest
        BY <2>1, <3>1, Zenon DEF Clear
      <4> QED
        BY <4>1 DEF Return
    <3>2. CASE ~(job.wipe /\ IsSink(dest))
      <4>1. /\ dest' \in IF job.wipe THEN Wipe(dest)
                         ELSE IF job.zap > 0 THEN Zap(dest, job.zap) ELSE {dest}
            /\ phase' = "size" /\ UNCHANGED result
        BY <2>1, <3>2, Zenon DEF Clear
      <4>2. CASE job.wipe
        BY <2>1, <3>2, <4>1, <4>2
      <4>3. CASE ~job.wipe /\ job.zap > 0 /\ job.kind = "device"
        BY <2>1, <4>1, <4>3
      <4>4. CASE ~job.wipe /\ job.zap > 0 /\ job.kind # "device"
        <5>1. Zap(dest, job.zap) = {dest}
          BY <1>2, <4>4 DEF Zap
        <5> QED
          BY <2>1, <4>1, <4>4, <5>1
      <4>5. CASE ~job.wipe /\ ~(job.zap > 0)
        BY <1>1, <2>1, <4>1, <4>5
      <4> QED
        BY <4>2, <4>3, <4>4, <4>5
    <3> QED
      BY <3>1, <3>2
  <2>2. CASE MainFails /\ phase = "clear"
    BY <2>2 DEF MainFails, Return
  <2> QED
    BY <2>1, <2>2
<1> DEFINE Result(e) ==
             /\ Sane(e) /\ e.kind = job.kind /\ e.cap = job.cap
             /\ IsSink(dest) => e = dest
             /\ \A c \in 0..MaxOffset : \/ e.cells[c] = dest.cells[c]
                                        \/ e.cells[c] = Zero /\ Cleared(c) /\ OnDevice(c)
             /\ ~job.wipe => dest.len <= e.len
             /\ ~job.wipe /\ job.zap = 0 => e = dest
           Whole(e) ==
             /\ job.kind = "device" =>
                  \A c \in 0..(job.cap - 1) : Cleared(c) => e.cells[c] = Zero
             /\ job.wipe =>
                  /\ job.kind # "sink"
                  /\ job.kind = "file" => \A c \in 0..MaxOffset : e.cells[c] = Zero
<1>4. Result(dest)
  BY <1>2
<1>5. ~job.wipe /\ (job.zap = 0 \/ job.kind # "device") => Whole(dest)
  BY <1>1 DEF Cleared
<1>6. ASSUME job.kind = "device", NEW e, NEW S \in SUBSET (0..MaxOffset), Blanks(dest, e, S),
             \A c \in S : Cleared(c) /\ OnDevice(c), job.wipe \/ job.zap > 0
      PROVE  Result(e)
  <2>1. Sane(e) /\ e.kind = job.kind /\ e.cap = job.cap /\ dest.len <= e.len
    BY <1>2, <1>6 DEF Blanks
  <2>2. ~IsSink(dest)
    BY <1>2, <1>6 DEF IsSink
  <2>3. \A c \in 0..MaxOffset : e.cells[c] = IF c \in S THEN Zero ELSE dest.cells[c]
    BY <1>6 DEF Blanks
  <2> QED
    BY <1>1, <1>6, <2>1, <2>2, <2>3
<1>7. CASE job.wipe /\ dest' \in Wipe(dest) /\ job.kind = "device"
  <2>1. Blanks(dest, dest', 0..(job.cap - 1)) /\ 0..(job.cap - 1) \in SUBSET (0..MaxOffset)
    BY <1>1, <1>2, <1>7, ClearingDevice
  <2>2. Result(dest')
    BY <1>1, <1>6, <1>7, <2>1 DEF Cleared, OnDevice
  <2>3. Whole(dest')
    BY <1>1, <1>7, <2>1 DEF Blanks
  <2> HIDE DEF Result, Whole
  <2> QED
    BY <2>2, <2>3, <1>2, <1>3 DEF DestOk, Result, Whole
<1>8. CASE job.wipe /\ dest' \in Wipe(dest) /\ job.kind = "file"
  <2>1. dest' = SetLen(dest, 0) /\ 0 \in 0..MaxOffset
    BY <1>1, <1>2, <1>8 DEF Wipe
  <2>2. /\ Sane(dest') /\ dest'.kind = dest.kind /\ dest'.cap = dest.cap
        /\ \A c \in 0..MaxOffset : dest'.cells[c] = IF c >= 0 THEN Zero ELSE dest.cells[c]
    BY <1>2, <1>8, <2>1, SettingLength
  <2>3. \A c \in 0..MaxOffset : dest'.cells[c] = Zero /\ Cleared(c) /\ OnDevice(c)
    BY <1>8, <2>2 DEF Cleared, OnDevice
  <2>4. ~IsSink(dest)
    BY <1>2, <1>8 DEF IsSink
  <2> QED
    BY <1>2, <1>3, <1>8, <2>2, <2>3, <2>4 DEF DestOk
<1>9. CASE job.wipe /\ ~IsSink(dest) /\ phase' = "done" /\ dest' \in WipePartly(dest)
  <2>1. Result(dest')
    <3>1. CASE job.kind = "device"
      <4>1. PICK S \in SUBSET (0..(dest.cap - 1)) : Blanks(dest, dest', S)
        BY <1>2, <1>9, <3>1, ClearingDevice
      <4>2. S \in SUBSET (0..MaxOffset) /\ \A c \in S : Cleared(c) /\ OnDevice(c)
        BY <1>1, <1>2, <1>9, <4>1 DEF Cleared, OnDevice
      <4> QED
        BY <1>6, <1>9, <3>1, <4>1, <4>2
    <3>2. CASE job.kind # "device"
      <4>1. dest' = dest
        BY <1>2, <1>9, <3>2 DEF WipePartly
      <4> QED
        BY <1>4, <4>1
    <3> QED
      BY <3>1, <3>2
  <2> HIDE DEF Result
  <2> QED
    BY <1>2, <1>3, <1>9, <2>1 DEF DestOk, Result
<1>10. CASE /\ ~job.wipe /\ job.zap > 0 /\ job.kind = "device"
            /\ dest' \in Zap(dest, job.zap) \/ (phase' = "done" /\ dest' \in ZapPartly(dest, job.zap))
  <2> DEFINE T == BothEnds(dest.cap, job.zap)
  <2>1. T \in SUBSET (0..MaxOffset) /\ \A c \in T : Cleared(c) /\ OnDevice(c)
    BY <1>1, <1>2, <1>10 DEF BothEnds, Cleared, OnDevice
  <2>2. PICK S \in SUBSET T : Blanks(dest, dest', S)
    <3>1. T \in SUBSET T
      OBVIOUS
    <3> QED
      BY <1>1, <1>2, <1>10, <3>1, ClearingDevice
  <2>3. Result(dest')
    <3>1. S \in SUBSET (0..MaxOffset) /\ \A c \in S : Cleared(c) /\ OnDevice(c)
      BY <2>1, <2>2
    <3> QED
      BY <1>6, <1>10, <2>2, <3>1
  <2>4. phase' = "size" => Whole(dest')
    <3> SUFFICES ASSUME phase' = "size" PROVE Whole(dest')
      OBVIOUS
    <3>1. Blanks(dest, dest', T)
      BY <1>1, <1>2, <1>10, ClearingDevice
    <3>2. ASSUME NEW c \in 0..(job.cap - 1), Cleared(c)
          PROVE  dest'.cells[c] = Zero
      <4>1. c \in T /\ c \in 0..MaxOffset
        BY <1>1, <1>2, <1>10, <3>2 DEF BothEnds, Cleared
      <4> QED
        BY <3>1, <4>1 DEF Blanks
    <3> QED
      BY <1>10, <3>2
  <2> HIDE DEF Result, Whole
  <2> QED
    BY <1>2, <1>3, <1>10, <2>3, <2>4 DEF DestOk, Result, Whole
<1>11. CASE dest' = dest /\ (phase' = "size" => ~job.wipe /\ (job.zap = 0 \/ job.kind # "device"))
  <2> HIDE DEF Result, Whole
  <2> QED
    BY <1>2, <1>3, <1>4, <1>5, <1>11 DEF DestOk, Result, Whole
<1> QED
  BY <1>1, <1>2, <1>3, <1>7, <1>8, <1>9, <1>10, <1>11 DEF IsSink

(* A file that gets its length, at first or at last.                       *)
LEMMA SizingStep ==
  ASSUME job \in Jobs, DestOk, NEW s \in Nat, job.offset + s <= MaxOffset,
         dest' = SizeDestination(dest, job.offset, s)
  PROVE  Sized(dest, dest', job.offset, s)
  BY JobMore, Sizing DEF DestOk

LEMMA RefusedFixed ==
  ASSUME UNCHANGED job
  PROVE  /\ UNCHANGED Refused
         /\ \A c : UNCHANGED <<InImage(c), Cleared(c), Found(c)>>
  BY JobFixedMore DEF Refused, InImage, Overflows, SizeKnown

(* The steps of the pipeline.                                              *)
LEMMA StreamDest ==
  ASSUME Shape, OpsInv, DestInv, OkIsPassedOn, Reader \/ Writer
  PROVE  DestInv'
<1>1. phase = "stream" /\ UNCHANGED <<job, result>> /\ phase' \in {"stream", "finish"}
  BY ReaderKeeps, WriterKeeps DEF readerFrame, Join
<1>2. ~Refused /\ ~Ok /\ ~Ok' /\ job \in Jobs /\ DestOk
  BY <1>1 DEF DestInv, OkIsPassedOn, Ok, Shape
<1>0. PICK at \in Nat, n \in Nat : \E what :
        /\ Paints(dest, dest', at, n, what)
        /\ job.offset <= at /\ at + n <= job.offset + Extent
        /\ \A i \in 0..(n - 1) : what[i] # Old
        /\ job.kind = "device" => n = 0 \/ at + n <= job.cap
  BY <1>2, StreamPuts DEF Puts
<1>3. PICK what :
        /\ Paints(dest, dest', at, n, what)
        /\ job.offset <= at /\ at + n <= job.offset + Extent
        /\ \A i \in 0..(n - 1) : what[i] # Old
        /\ job.kind = "device" => n = 0 \/ at + n <= job.cap
  BY <1>0
<1>4. /\ UNCHANGED Refused
      /\ \A c : UNCHANGED <<InImage(c), Cleared(c), Found(c)>>
  BY <1>1, RefusedFixed
<1>5. /\ Sane(dest') /\ dest'.kind = dest.kind /\ dest'.cap = dest.cap /\ dest.len <= dest'.len
      /\ dest'.len \in Nat /\ dest.len \in Nat
  BY <1>2, <1>3 DEF Paints, DestOk, Sane, DestSet
<1>6. ASSUME NEW c \in 0..MaxOffset
      PROVE  /\ dest'.cells[c] = dest.cells[c] \/ (InImage(c) /\ dest'.cells[c] # Old)
             /\ IsSink(dest) => dest'.cells[c] = dest.cells[c]
  <2>1. dest'.cells[c] =
          IF ~IsSink(dest) /\ at <= c /\ c < at + n THEN what[c - at] ELSE dest.cells[c]
    BY <1>3 DEF Paints
  <2>2. CASE ~IsSink(dest) /\ at <= c /\ c < at + n
    <3>1. job.offset \in Nat /\ Extent \in Nat
      BY <1>2, ExtentFits
    <3>2. InImage(c) /\ c - at \in 0..(n - 1)
      BY <1>3, <2>2, <3>1 DEF InImage
    <3> QED
      BY <1>3, <2>1, <2>2, <3>2
  <2>3. CASE ~(~IsSink(dest) /\ at <= c /\ c < at + n)
    <3>1. dest'.cells[c] = dest.cells[c]
      BY <2>1, <2>3, Zenon
    <3> QED
      BY <3>1
  <2> QED
    BY <2>2, <2>3
<1>7. DestOk'
  BY <1>1, <1>2, <1>5 DEF DestOk
<1>8. IsSink(dest)' => dest'.dirty = 0 /\ AllUntouched'
  <2>1. IsSink(dest)' = IsSink(dest)
    BY <1>5 DEF IsSink
  <2>2. IsSink(dest) => dest'.dirty = dest.dirty
    BY <1>3 DEF Paints
  <2> QED
    BY <1>4, <1>6, <2>1, <2>2 DEF DestInv, AllUntouched, Untouched
<1>9. \A c \in 0..MaxOffset : Kept(c)'
  BY <1>1, <1>4, <1>6 DEF DestInv, Kept, Untouched
<1>10. job'.kind = "file" =>
         /\ job'.offset > 0 /\ ~job'.wipe => dest'.len >= job'.len
         /\ (phase' = "sync" \/ Ok') /\ job'.offset = 0 => dest'.len = FinalSize'
  <2>1. job.len \in Nat
    BY <1>2, JobMore
  <2> QED
    BY <1>1, <1>2, <1>5, <2>1 DEF DestInv
<1>11. WasCleared' /\ job'.kind = "device" =>
         \A c \in 0..(job'.cap - 1) : Cleared(c)' => dest'.cells[c] # Old
  <2>1. \A c \in 0..(job.cap - 1) : c \in 0..MaxOffset
    BY <1>2, JobMore
  <2> QED
    BY <1>1, <1>4, <1>6, <2>1 DEF DestInv, WasCleared
<1>12. job'.kind = "device" => \A c \in 0..MaxOffset : c >= job'.cap => dest'.cells[c] = Old
  <2> SUFFICES ASSUME job.kind = "device", NEW c \in 0..MaxOffset, c >= job.cap
               PROVE  dest'.cells[c] = Old
    BY <1>1
  <2>1. job.cap \in Nat /\ MaxOffset \in Nat
    BY <1>2, JobMore
  <2>2. ~(at <= c /\ c < at + n)
    BY <1>3, <2>1
  <2>3. dest'.cells[c] = dest.cells[c]
    BY <1>3, <2>2 DEF Paints
  <2> QED
    BY <2>3 DEF DestInv
<1> QED
  BY <1>1, <1>2, <1>4, <1>7, <1>8, <1>9, <1>10, <1>11, <1>12 DEF DestInv

(* Steps that leave what is stored alone.                                  *)
LEMMA SameDest ==
  ASSUME Shape, DestInv, UNCHANGED <<job, rd>>, UNCHANGED <<dest.cells, dest.len>>,
         DestOk', dest'.dirty \in {0, dest.dirty},
         phase' \in {"check", "clear"} => phase \in {"check", "clear"},
         Refused => phase' \in {"check", "done"},
         phase' = "sync" \/ Ok' => phase = "sync" \/ Ok,
         WasCleared' => WasCleared
  PROVE  DestInv'
<1>1. /\ UNCHANGED Refused
      /\ \A c : UNCHANGED <<InImage(c), Cleared(c), Found(c)>>
  BY RefusedFixed
<1>2. \A c : UNCHANGED <<Untouched(c), Kept(c)>>
  BY <1>1 DEF Untouched, Kept
<1>3. UNCHANGED <<AllUntouched, FinalSize>>
  BY <1>2 DEF AllUntouched, FinalSize, SizeKnown
<1>4. UNCHANGED IsSink(dest)
  BY DEF DestInv, DestOk, IsSink
<1>5. dest.dirty = 0 => dest'.dirty = 0
  OBVIOUS
<1> QED
  BY <1>1, <1>2, <1>3, <1>4, <1>5 DEF DestInv

LEMMA ClearDest ==
  ASSUME Shape, DestInv, OkIsPassedOn, Clear \/ (MainFails /\ phase = "clear")
  PROVE  DestInv'
<1>1. phase = "clear" /\ UNCHANGED <<job, rd>> /\ job \in Jobs
  BY DEF Clear, MainFails, threadVars, Shape
<1>2. DestOk /\ AllUntouched /\ ~Refused /\ dest.len = job.len /\ dest.dirty = 0 /\ ~Ok
  BY <1>1 DEF DestInv, OkIsPassedOn, Ok
<1>3. /\ DestOk' /\ (IsSink(dest) => dest' = dest)
      /\ \A c \in 0..MaxOffset : \/ dest'.cells[c] = dest.cells[c]
                                 \/ dest'.cells[c] = Zero /\ Cleared(c) /\ OnDevice(c)
      /\ ~job.wipe => dest.len <= dest'.len
      /\ phase' \in {"size", "done"}
      /\ result' # "ok" \/ (phase' = "size" /\ result' = result)
      /\ phase' = "size" /\ job.kind = "device" =>
           \A c \in 0..(job.cap - 1) : Cleared(c) => dest'.cells[c] = Zero
  BY <1>1, <1>2, ClearingStep
<1>4. /\ UNCHANGED Refused
      /\ \A c : UNCHANGED <<InImage(c), Cleared(c), Found(c)>>
  BY <1>1, RefusedFixed
<1>5. ~Ok' /\ UNCHANGED IsSink(dest)
  BY <1>1, <1>2, <1>3 DEF Ok, DestOk, IsSink
<1>6. \A c \in 0..MaxOffset : Kept(c)'
  BY <1>2, <1>3, <1>4 DEF Kept, AllUntouched, Untouched
<1>7. IsSink(dest) => dest'.dirty = 0 /\ AllUntouched'
  BY <1>2, <1>3, <1>4 DEF AllUntouched, Untouched
<1>8. ~job.wipe => dest'.len >= job.len
  BY <1>2, <1>3 DEF DestOk, Sane, DestSet
<1>9. WasCleared' /\ job.kind = "device" =>
        \A c \in 0..(job.cap - 1) : Cleared(c) => dest'.cells[c] # Old
  BY <1>3, <1>5 DEF WasCleared, Zero, Old
<1>10. job.kind = "device" => \A c \in 0..MaxOffset : c >= job.cap => dest'.cells[c] = Old
  <2>1. job.cap \in Nat
    BY <1>1, JobMore
  <2> QED
    BY <1>3, <2>1 DEF DestInv, OnDevice
<1> QED
  BY <1>1, <1>2, <1>3, <1>4, <1>5, <1>6, <1>7, <1>8, <1>9, <1>10 DEF DestInv

(* A file is sized for s cells, for good (phase' = "sync") or not.         *)
LEMMA SizeDest ==
  ASSUME Shape, DestInv, OkIsPassedOn, UNCHANGED <<job, rd>>,
         phase \in {"size", "resize"}, phase' \in {"stream", "sync", "done"}, ~Ok',
         NEW s \in Nat, job.offset + s <= MaxOffset,
         dest' = SizeDestination(dest, job.offset, s),
         phase' = "sync" => s = FinalSize
  PROVE  DestInv'
<1>1. job \in Jobs /\ DestOk /\ ~Refused /\ WasCleared
  BY DEF DestInv, Shape, WasCleared
<1>2. Sized(dest, dest', job.offset, s)
  BY <1>1, SizingStep
<1>3. /\ DestOk' /\ dest'.dirty = dest.dirty /\ (job.kind # "file" => dest' = dest)
      /\ job.kind = "file" /\ job.offset = 0 => dest'.len = s
      /\ job.kind = "file" /\ job.offset # 0 => dest'.len = Greater(dest.len, job.offset + s)
      /\ \A c \in 0..MaxOffset :
           \/ dest'.cells[c] = dest.cells[c]
           \/ dest'.cells[c] = Zero /\ job.kind = "file" /\ job.offset = 0
  BY <1>1, <1>2 DEF Sized, DestOk
<1>4. /\ UNCHANGED Refused
      /\ \A c : UNCHANGED <<InImage(c), Cleared(c), Found(c)>>
  BY RefusedFixed
<1>5. UNCHANGED <<IsSink(dest), FinalSize>>
  BY <1>1, <1>3 DEF DestOk, IsSink, FinalSize, SizeKnown
<1>6. \A c \in 0..MaxOffset : Kept(c)'
  BY <1>3, <1>4 DEF DestInv, Kept, Untouched
<1>7. IsSink(dest) => dest'.dirty = 0 /\ AllUntouched'
  <2>1. IsSink(dest) => job.kind # "file"
    BY <1>1 DEF DestOk, IsSink
  <2> QED
    BY <1>3, <1>4, <2>1 DEF DestInv, AllUntouched, Untouched
<1>8. job.kind = "file" =>
        /\ job.offset > 0 /\ ~job.wipe => dest'.len >= job.len
        /\ phase' = "sync" /\ job.offset = 0 => dest'.len = FinalSize
        /\ phase' = "sync" => dest'.len >= job.offset + FinalSize
  <2>1. dest.len \in Nat /\ job.offset \in Nat /\ job.len \in Nat
    BY <1>1, JobMore DEF DestOk, Sane, DestSet
  <2> QED
    BY <1>3, <2>1 DEF DestInv, Greater
<1>9. job.kind = "device" =>
        /\ \A c \in 0..(job.cap - 1) : Cleared(c) => dest'.cells[c] # Old
        /\ \A c \in 0..MaxOffset : c >= job.cap => dest'.cells[c] = Old
  BY <1>1, <1>3 DEF DestInv
<1> QED
  BY <1>1, <1>3, <1>4, <1>5, <1>6, <1>7, <1>8, <1>9 DEF DestInv

LEMMA FinalSizeFits ==
  ASSUME Shape, Placed, InPlace, ReadOn, ~Refused
  PROVE  FinalSize \in Nat /\ job.offset + FinalSize <= MaxOffset
<1>1. job \in Jobs /\ job.offset + job.srcLen <= MaxOffset /\ job.srcLen \in Nat
      /\ job.offset \in Nat
  BY JobFacts, JobMore DEF Shape
<1>2. CASE SizeKnown
  BY <1>1, <1>2, ExtentFits DEF FinalSize
<1>3. CASE ~SizeKnown
  <2>1. ~ByRanges
    BY <1>3 DEF ByRanges, SizeKnown
  <2>2. FinalSize = rd.read /\ rd.read <= job.srcLen /\ rd.read \in Nat
    BY <1>3, <2>1 DEF FinalSize, ReadOn
  <2> QED
    BY <1>1, <2>2, OffsetAssumption
<1> QED
  BY <1>2, <1>3

LEMMA SizeFits ==
  ASSUME Shape, ~Refused, SizeKnown
  PROVE  job.size \in Nat /\ job.offset + job.size <= MaxOffset
  BY ExtentFits DEF Shape

LEMMA CallerDest ==
  ASSUME Shape, Placed, InPlace, ReadOn, DestInv, OkIsPassedOn, Caller
  PROVE  DestInv'
<1>1. UNCHANGED <<job, rd>> /\ DestOk /\ job \in Jobs
  BY CallerKeeps DEF threadVars, DestInv, Shape
<1>2. Ok => phase = "done"
  BY DEF OkIsPassedOn, Ok
<1>3. dest' = dest => DestOk' /\ UNCHANGED <<dest.cells, dest.len>> /\ dest'.dirty = dest.dirty
  BY <1>1 DEF DestOk
<1>4. CASE Check
  <2>1. dest' = dest /\ phase = "check"
    BY <1>4 DEF Check
  <2>2. \/ phase' = "done" /\ result' # "ok"
        \/ /\ phase' = "clear" /\ result' = result /\ ~(SizeKnown /\ Overflows)
           /\ ~(SizeKnown /\ ~Fits(dest, job.size, job.offset))
    BY <1>4 DEF Check, Return
  <2>3. phase' = "clear" => ~Refused
    <3>1. dest.kind = job.kind /\ dest.cap = job.cap /\ job.size \in Nat /\ job.offset \in Nat
          /\ job.cap \in Nat
      BY <1>1, JobFacts, JobMore DEF DestOk
    <3> QED
      BY <2>2, <3>1 DEF Refused, Fits
  <2> QED
    BY <1>1, <1>2, <1>3, <2>1, <2>2, <2>3, SameDest DEF Ok, WasCleared
<1>5. CASE Clear \/ (MainFails /\ phase = "clear")
  BY <1>5, ClearDest
<1>6. CASE SizeAndPlan
  <2>1. phase = "size" /\ phase' = "stream" /\ result' = result /\ ~Ok /\ ~Refused
    BY <1>2, <1>6 DEF SizeAndPlan, DestInv
  <2>2. CASE SizeKnown
    <3>1. dest' = SizeDestination(dest, job.offset, job.size)
      BY <1>6, <2>2 DEF SizeAndPlan
    <3> QED
      BY <1>1, <2>1, <2>2, <3>1, SizeFits, SizeDest DEF Ok
  <2>3. CASE ~SizeKnown
    <3>1. dest' = dest
      BY <1>6, <2>3 DEF SizeAndPlan
    <3> QED
      BY <1>1, <1>3, <2>1, <3>1, SameDest DEF Ok, WasCleared
  <2> QED
    BY <2>2, <2>3
<1>7. CASE MainFails /\ phase # "clear"
  <2>1. phase' = "done" /\ result' = "Io"
    BY <1>7 DEF MainFails, Return
  <2>2. \/ dest' = dest
        \/ /\ phase = "size" /\ ByRanges
           /\ dest' = SizeDestination(dest, job.offset, job.size)
    BY <1>7 DEF MainFails
  <2>3. CASE dest' = dest
    BY <1>1, <1>3, <2>1, <2>3, SameDest DEF Ok, WasCleared
  <2>4. CASE phase = "size" /\ ByRanges /\ dest' = SizeDestination(dest, job.offset, job.size)
    <3>1. SizeKnown /\ ~Refused
      BY <2>4 DEF ByRanges, SizeKnown, DestInv
    <3> QED
      BY <1>1, <2>1, <2>4, <3>1, SizeFits, SizeDest DEF Ok
  <2> QED
    BY <2>2, <2>3, <2>4
<1>8. CASE Finish
  <2>1. dest' = dest /\ phase = "finish"
    BY <1>8 DEF Finish
  <2>2. (phase' = "done" /\ result' # "ok") \/ (phase' = "resize" /\ result' = result)
    <3>1. \/ Outcome # "ok" /\ Return(Outcome)
          \/ Return("MappedBlockMismatch")
          \/ phase' = "resize" /\ UNCHANGED result
      BY <1>8, Zenon DEF Finish
    <3> QED
      BY <3>1 DEF Return
  <2>3. ~Refused
    BY <2>1 DEF DestInv
  <2> QED
    BY <1>1, <1>2, <1>3, <2>1, <2>2, <2>3, SameDest DEF Ok, WasCleared
<1>9. CASE Resize
  <2>1. phase = "resize" /\ phase' = "sync" /\ result' = result /\ ~Ok /\ ~Refused
        /\ dest' = SizeDestination(dest, job.offset, FinalSize)
    BY <1>2, <1>9 DEF Resize, DestInv
  <2> QED
    BY <1>1, <2>1, FinalSizeFits, SizeDest DEF Ok
<1>10. CASE FinalSync
  <2>1. phase = "sync" /\ phase' = "done" /\ result' = "ok"
        /\ dest' = IF job.sync /\ SupportsSync(dest) THEN Sync(dest) ELSE dest
    BY <1>10 DEF FinalSync, Return
  <2>2. /\ UNCHANGED <<dest.cells, dest.len, dest.kind, dest.cap>>
        /\ dest'.dirty \in {0, dest.dirty} /\ Sane(dest')
    <3>1. dest \in DestSet
      BY <1>1 DEF DestOk, Sane
    <3>2. CASE dest' = dest
      BY <1>1, <3>2 DEF DestOk
    <3>3. CASE dest' = [dest EXCEPT !.dirty = 0]
      <4>1. /\ dest' \in DestSet /\ dest'.cells = dest.cells /\ dest'.len = dest.len
            /\ dest'.dirty = 0 /\ dest'.kind = dest.kind /\ dest'.cap = dest.cap
        BY <3>1, <3>3 DEF DestSet
      <4> QED
        BY <1>1, <4>1 DEF DestOk, Sane
    <3> QED
      BY <2>1, <3>2, <3>3 DEF Sync
  <2>3. DestOk'
    BY <1>1, <2>2 DEF DestOk
  <2>4. ~Refused
    BY <2>1 DEF DestInv
  <2> QED
    BY <1>1, <2>1, <2>2, <2>3, <2>4, SameDest DEF WasCleared
<1> QED
  BY <1>4, <1>5, <1>6, <1>7, <1>8, <1>9, <1>10 DEF Caller

LEMMA StepDest ==
  ASSUME Shape, Placed, InPlace, ReadOn, OpsInv, DestInv, OkIsPassedOn, [Next]_vars
  PROVE  DestInv'
<1>1. CASE UNCHANGED vars
  <2>1. UNCHANGED <<job, rd, dest, phase, result>>
    BY <1>1 DEF vars
  <2>2. DestOk' /\ (Refused => phase' \in {"check", "done"}) /\ (WasCleared' => WasCleared)
        /\ (Ok' => Ok)
    BY <2>1 DEF DestInv, DestOk, WasCleared, Ok
  <2> QED
    BY <2>1, <2>2, SameDest
<1> QED
  BY <1>1, CallerDest, StreamDest DEF Next, Returned

-----------------------------------------------------------------------------
(* Control: where copy is, what was returned, what Progress was told.      *)

Verdicts == {"none", "ok", "Io"}
ReaderVerdicts == Verdicts \cup {"ShortImage", "NotSeekable", "RangeChecksum", "panic"}
Results ==
  (ReaderVerdicts \ {"panic"})
    \cup {"InvalidOffset", "DestinationTooSmall", "CannotWipe", "ReaderLost", "MappedBlockMismatch"}

ControlInv ==
  /\ phase \in {"check", "clear", "size", "stream", "finish", "resize", "sync", "done"}
  /\ result \in Results
  /\ rd.ret \in ReaderVerdicts
  /\ wr.at \in {"recv", "work", "sync", "closing", "rxDropped", "joining", "joined"}
  /\ wr.ret \in Verdicts
  /\ Len(chan) <= QueueDepth
  /\ prog = [f \in {"announced", "total", "advanced", "finished"} |-> prog[f]]
  /\ phase \in {"check", "clear", "size", "stream"} => wr.at # "joined"
  /\ phase \in {"finish", "resize", "sync"} \/ Ok => wr.at = "joined"
  /\ prog.finished = IF wr.at = "joined" /\ phase # "finish" THEN 1 ELSE 0
  /\ prog.announced \in BOOLEAN
  /\ phase \in {"check", "clear", "size"} => ~prog.announced
  /\ phase = "done" /\ prog.announced => wr.at = "joined"
  /\ prog.announced => prog.total = TotalCells
  /\ phase \in {"stream", "finish", "resize", "sync"} \/ Ok => prog.announced
  /\ result = "ok" => phase = "done"

LEMMA DepthIsNat == QueueDepth \in Nat
  BY PoolAssumption, FS_CardinalityType DEF QueueDepth

LEMMA TotalFixed ==
  ASSUME UNCHANGED job
  PROVE  UNCHANGED <<TotalCells, QueueDepth>>
<1>1. UNCHANGED TotalCells
  BY DEF TotalCells, RangeCells, RangeEnd, RangeStart, Entry, RangeCount, ByRanges, SizeKnown,
         MapThenSumSet, MapThenFoldSet
<1> QED
  BY <1>1 DEF QueueDepth

LEMMA InitControl == Init => ControlInv
<1> SUFFICES ASSUME Init PROVE ControlInv
  OBVIOUS
<1>1. /\ phase = "check" /\ result = "none" /\ chan = <<>> /\ rd.ret = "none"
      /\ wr.at = "recv" /\ wr.ret = "none" /\ prog = [announced |-> FALSE, total |-> Unknown, advanced |-> 0, finished |-> 0]
  BY DEF Init
<1>2. Len(chan) <= QueueDepth
  BY <1>1, EmptySeq, DepthIsNat
<1> QED
  BY <1>1, <1>2 DEF ControlInv, Results, ReaderVerdicts, Verdicts, Ok

(* What the steps outside the pipeline can lead to.                        *)
LEMMA CallerControl ==
  ASSUME Shape, ControlInv, Caller
  PROVE  ControlInv'
<1> USE DEF ControlInv
<1>1. UNCHANGED <<job, rd, chan, wr>>
  BY CallerKeeps DEF threadVars
<1>2. UNCHANGED <<TotalCells, QueueDepth, Outcome>>
  BY <1>1, TotalFixed DEF Outcome
<1>3. Outcome \in Results
  BY DEF Outcome, Results, ReaderVerdicts, Verdicts
<1>4. CASE Check
  <2>1. /\ phase = "check" /\ UNCHANGED prog
        /\ \/ phase' = "done" /\ result' \in Results \ {"ok"}
           \/ phase' = "clear" /\ result' = result
    BY <1>4 DEF Check, Return, Results
  <2> QED
    BY <1>1, <1>2, <2>1 DEF Ok
<1>5. CASE Clear \/ MainFails
  <2>1. /\ phase \in {"clear", "size", "resize", "sync"} /\ UNCHANGED prog
        /\ \/ phase' = "done" /\ result' \in {"CannotWipe", "Io"}
           \/ phase = "clear" /\ phase' = "size" /\ result' = result
    BY <1>5 DEF Clear, MainFails, Return
  <2> QED
    BY <1>1, <1>2, <2>1 DEF Ok, Results, ReaderVerdicts, Verdicts
<1>6. CASE SizeAndPlan
  <2>1. /\ phase = "size" /\ phase' = "stream" /\ result' = result
        /\ prog' = [prog EXCEPT !.announced = TRUE, !.total = TotalCells]
    BY <1>6 DEF SizeAndPlan
  <2> QED
    BY <1>1, <1>2, <2>1 DEF Ok
<1>7. CASE Finish
  <2>1. /\ phase = "finish" /\ prog' = [prog EXCEPT !.finished = @ + 1]
        /\ \/ Outcome # "ok" /\ Return(Outcome)
           \/ Return("MappedBlockMismatch")
           \/ phase' = "resize" /\ UNCHANGED result
    BY <1>7, Zenon DEF Finish
  <2>2. \/ phase' = "done" /\ result' \in Results \ {"ok"}
        \/ phase' = "resize" /\ result' = result
    BY <1>3, <2>1 DEF Return, Results
  <2> QED
    BY <1>1, <1>2, <2>1, <2>2 DEF Ok
<1>8. CASE Resize
  BY <1>1, <1>2, <1>8 DEF Resize, Ok
<1>9. CASE FinalSync
  <2>1. phase = "sync" /\ phase' = "done" /\ result' = "ok" /\ UNCHANGED prog
    BY <1>9 DEF FinalSync, Return
  <2> QED
    BY <1>1, <1>2, <2>1 DEF Ok, Results, ReaderVerdicts, Verdicts
<1> QED
  BY <1>4, <1>5, <1>6, <1>7, <1>8, <1>9 DEF Caller

LEMMA ReaderControl ==
  ASSUME Shape, InTransit, ControlInv, Reader
  PROVE  ControlInv'
<1>1. UNCHANGED <<job, phase, result, wr, prog>>
  BY ReaderKeeps DEF readerFrame
<1>2. UNCHANGED <<TotalCells, QueueDepth>>
  BY <1>1, TotalFixed
<1>3. chan' = chan \/ (Len(chan) < QueueDepth /\ chan' = Append(chan, rd.op))
  BY DEF Reader, MeetGap, ReportGap, ReportGapClosed, EnterRange, PlanDone,
         TakeBuffer, PoolClosed, ReadBatch, ReadEnds, ReadFails, ReaderPanics, SendBatch,
         SendBatchClosed, NextBatch, CloseRange
<1>4. Len(chan') <= QueueDepth
  <2>1. CASE chan' = chan
    BY <2>1 DEF ControlInv
  <2>2. CASE Len(chan) < QueueDepth /\ chan' = Append(chan, rd.op)
    <3>1. PICK S : chan \in Seq(S)
      BY DEF InTransit, IsSeq
    <3>2. chan \in Seq(S \cup {rd.op}) /\ Len(chan) \in Nat
      BY <3>1, SeqMonotonic, LenProperties
    <3>3. Len(chan') = Len(chan) + 1
      BY <2>2, <3>2, AppendProperties
    <3> QED
      BY <2>2, <3>2, <3>3, DepthIsNat
  <2> QED
    BY <1>3, <2>1, <2>2
<1>5. rd'.ret \in ReaderVerdicts
  <2> USE DEF Shape, ReaderFields
  <2>1. CASE MeetGap \/ ReportGap \/ ReportGapClosed
    BY <2>1 DEF MeetGap, ReportGap, ReportGapClosed, ControlInv
  <2>2. CASE EnterRange
    <3> DEFINE start == RangeStart(Entry(rd.range))
    <3>1. SkipTo(start) \in ReaderVerdicts
      BY DEF SkipTo, ReaderVerdicts, Verdicts
    <3>2. CASE SkipTo(start) = "ok"
      <4>1. rd' = [rd EXCEPT !.at = "await", !.off = start, !.pos = start,
                             !.unmapped = Entry(rd.range).last + 1]
        BY <2>2, <3>2, Zenon DEF EnterRange
      <4> QED
        BY <4>1 DEF ControlInv
    <3>3. CASE SkipTo(start) # "ok"
      <4>1. ReaderEnds(SkipTo(start))
        BY <2>2, <3>3, Zenon DEF EnterRange
      <4> QED
        BY <3>1, <4>1 DEF ReaderEnds
    <3> QED
      BY <3>2, <3>3
  <2>3. CASE PlanDone \/ PoolClosed \/ ReadEnds \/ ReadFails \/ ReaderPanics \/ SendBatchClosed
    BY <2>3 DEF PlanDone, PoolClosed, ReadEnds, ReadFails, ReaderPanics, SendBatchClosed,
                ReaderEnds, ReaderVerdicts, Verdicts
  <2>4. CASE TakeBuffer \/ NextBatch \/ SendBatch \/ ReadBatch
    BY <2>4 DEF TakeBuffer, NextBatch, SendBatch, ReadBatch, ControlInv
  <2>5. CASE CloseRange
    BY <2>5, ClosingRange DEF ControlInv, ReaderVerdicts
  <2> QED
    BY <2>1, <2>2, <2>3, <2>4, <2>5 DEF Reader
<1> QED
  BY <1>1, <1>2, <1>4, <1>5 DEF ControlInv, Ok

LEMMA WriterControl ==
  ASSUME Shape, InTransit, ControlInv, Writer
  PROVE  ControlInv'
<1>1. UNCHANGED <<job, result, rd, cut>> /\ phase = "stream"
  BY WriterKeeps
<1>2. UNCHANGED <<TotalCells, QueueDepth>>
  BY <1>1, TotalFixed
<1>3. ~Ok /\ ~Ok' /\ prog.finished = 0 /\ prog.announced /\ prog.total = TotalCells
  BY <1>1 DEF ControlInv, Ok
<1>4. Len(chan') <= QueueDepth
  <2>1. chan' = chan \/ (chan # <<>> /\ chan' = Tail(chan)) \/ chan' = <<>>
    BY DEF Writer, Receive, ElideSpan, ZeroSpan, WriteSpan, SpanFails, FinishOp, SyncOrNot,
           SyncFails, StreamEnds, DropRx, DropPoolTx, Join
  <2>2. CASE chan # <<>> /\ chan' = Tail(chan)
    <3>1. PICK S : chan \in Seq(S)
      BY DEF InTransit, IsSeq
    <3>2. Len(chan') = Len(chan) - 1 /\ Len(chan) \in Nat
      BY <2>2, <3>1, HeadTailProperties, LenProperties
    <3> QED
      BY <3>2, DepthIsNat DEF ControlInv
  <2>3. CASE chan' = <<>>
    BY <2>3, EmptySeq, DepthIsNat
  <2> QED
    BY <2>1, <2>2, <2>3 DEF ControlInv
<1>5. wr'.at \in {"recv", "work", "sync", "closing", "rxDropped", "joining"} \/ Join
  BY DEF Writer, Receive, ElideSpan, ZeroSpan, WriteSpan, SpanFails, FinishOp, SyncOrNot,
         SyncFails, StreamEnds, DropRx, DropPoolTx, WriterStep, Shape, WriterFields
<1>6. Join => wr'.at = "joined" /\ phase' = "finish"
  BY DEF Join, Shape, WriterFields
<1>7. wr'.ret \in Verdicts
  BY WriterMoves DEF ControlInv, Verdicts
<1>8. /\ prog' = [f \in {"announced", "total", "advanced", "finished"} |-> prog'[f]]
      /\ prog'.finished = prog.finished /\ prog'.total = prog.total
      /\ prog'.announced = prog.announced
  <2>1. CASE UNCHANGED prog
    BY <2>1 DEF ControlInv
  <2>2. CASE FinishOp
    <3>1. UNCHANGED prog \/ prog' = [prog EXCEPT !.advanced = @ + wr.op.len]
      BY <2>2, Zenon DEF FinishOp
    <3> QED
      BY <2>1, <3>1 DEF ControlInv
  <2> QED
    BY <2>1, <2>2 DEF Writer, Receive, ElideSpan, ZeroSpan, WriteSpan, SpanFails, SyncOrNot,
                      SyncFails, StreamEnds, DropRx, DropPoolTx, Join
<1>9. CASE Join
  BY <1>1, <1>2, <1>3, <1>4, <1>6, <1>7, <1>8, <1>9 DEF ControlInv
<1>10. CASE ~Join
  <2>1. phase' = "stream"
    BY <1>1, <1>10, WriterKeeps
  <2> QED
    BY <1>1, <1>2, <1>3, <1>4, <1>5, <1>7, <1>8, <1>10, <2>1 DEF ControlInv
<1> QED
  BY <1>9, <1>10

LEMMA StepControl ==
  ASSUME Shape, InTransit, ControlInv, [Next]_vars
  PROVE  ControlInv'
<1>1. CASE UNCHANGED vars
  <2>1. UNCHANGED <<job, phase, result, rd, chan, wr, prog>>
    BY <1>1 DEF vars
  <2>2. UNCHANGED <<TotalCells, QueueDepth>>
    BY <2>1, TotalFixed
  <2> QED
    BY <2>1, <2>2 DEF ControlInv, Ok
<1> QED
  BY <1>1, CallerControl, ReaderControl, WriterControl DEF Next, Returned

-----------------------------------------------------------------------------
(* What holds in every state of a copy.                                    *)

EngineInv ==
  /\ SuccessInv /\ OrderInv /\ TileInv /\ OwnerInv /\ ControlInv
  /\ ReadOn /\ Aligned /\ OpsInv /\ DestInv

LEMMA StepReadOn ==
  ASSUME Shape, InPlace, Placed, ReadOn, [Next]_vars
  PROVE  ReadOn'
<1>1. Caller \/ Writer \/ UNCHANGED vars => UNCHANGED <<job, rd>>
  BY CallerKeeps, WriterKeeps DEF threadVars, vars
<1> QED
  BY <1>1, ReaderReadOn, OthersReadOn DEF Next, Returned

LEMMA StepOwner ==
  ASSUME Shape, OwnerInv, [Next]_vars
  PROVE  OwnerInv'
<1>1. Caller \/ UNCHANGED vars => UNCHANGED threadVars
  BY CallerKeeps DEF vars, threadVars
<1> QED
  BY <1>1, ReaderImplements, WriterImplements, OthersStutter DEF Next, Returned

(* The invariant that the properties of copy follow from, and that the     *)
(* steps of both threads and of the caller preserve: ranges are read in    *)
(* order and operations tile the image, each is sound, and the destination *)
(* changes only where they allow it.  (copy.rs:121-581)                    *)
THEOREM EngineInvHolds == Spec => []EngineInv
<1> DEFINE Rest == /\ OrderInv /\ TileInv /\ OwnerInv /\ ControlInv
                   /\ ReadOn /\ Aligned /\ OpsInv /\ DestInv
<1>1. Init => Rest
  BY InitOrder, InitTile, InitOwner, InitControl, InitReadOn, InitAligned, InitOps, InitDest
<1>2. SuccessInv /\ Rest /\ [Next]_vars => Rest'
  <2> SUFFICES ASSUME SuccessInv, Rest, [Next]_vars PROVE Rest'
    OBVIOUS
  <2>1. Shape /\ OkIsPassedOn /\ InPlace /\ Placed /\ InTransit
    BY DEF SuccessInv, OrderInv, OwnerInv
  <2>2. OrderInv' /\ TileInv' /\ OwnerInv'
    BY <2>1, StepOrder, StepTile, StepOwner
  <2>3. ControlInv' /\ ReadOn' /\ Aligned' /\ OpsInv'
    BY <2>1, StepControl, StepReadOn, StepAligned, StepOps
  <2>4. DestInv'
    BY <2>1, StepDest
  <2> QED
    BY <2>2, <2>3, <2>4
<1> HIDE DEF Rest
<1>3. SuccessInv /\ Rest => EngineInv
  BY DEF Rest, EngineInv
<1> QED
  BY <1>1, <1>2, <1>3, SuccessInvHolds, PTL DEF Spec

(* Every variable keeps its type: nothing is written beyond the offsets a  *)
(* u64 can hold, at most queue_depth operations are in flight, and the     *)
(* pool never holds anything but buffers.  (copy.rs:256-293)               *)
THEOREM CopyTypeCorrect == Spec => []TypeOK
<1>1. EngineInv => TypeOK
  <2> SUFFICES ASSUME EngineInv PROVE TypeOK
    OBVIOUS
  <2>1. /\ dest.kind = job.kind /\ dest.cap = job.cap
        /\ dest.cells \in [0..MaxOffset -> {Old, Zero} \cup (1..MaxOffset)]
        /\ dest.len \in 0..MaxOffset
    BY DEF EngineInv, DestInv, DestOk, Sane, DestSet, CellSet
  <2>2. /\ rd.at \in {"plan", "range", "await", "fill", "send", "gap", "next", "ended"}
        /\ rd.buf \in Buffers \cup {NoBuffer} /\ rd.pos \in Nat /\ pool \in Seq(Buffers)
    BY DEF EngineInv, OwnerInv, Placed, InTransit, OrderInv, InPlace
  <2>3. ControlInv
    BY DEF EngineInv
  <2>4. prog.finished \in Nat
    BY <2>3 DEF ControlInv
  <2> QED
    BY <2>1, <2>2, <2>3, <2>4 DEF TypeOK, ControlInv, Results, ReaderVerdicts, Verdicts
<1> QED
  BY <1>1, EngineInvHolds, PTL

(* On every path, the failing ones included, a copy leaves alone what lies *)
(* outside the image, but for what wipe, zap or the final length of a file *)
(* removes; and it touches nothing if the image is known not to fit.       *)
(* (copy.rs:121-253, dest.rs:215-340)                                      *)
THEOREM OutsideStaysUntouched == Spec => []OutsideUntouched
<1>1. EngineInv => OutsideUntouched
  <2> SUFFICES ASSUME EngineInv PROVE OutsideUntouched
    OBVIOUS
  <2> DEFINE extent == Greater(job.srcLen, IF SizeKnown THEN job.size ELSE 0)
             misfit == SizeKnown /\ job.kind = "device" /\ job.offset + job.size > job.cap
  <2>1. extent = Extent /\ (misfit => Refused)
    BY DEF Extent, Refused
  <2>2. ASSUME NEW c \in 0..MaxOffset
        PROVE  \/ Untouched(c)
               \/ ~misfit /\ c >= job.offset /\ c < job.offset + extent
               \/ /\ ~misfit /\ dest.cells[c] = Zero
                  /\ Cleared(c) \/ (job.kind = "file" /\ job.offset = 0)
    <3>1. misfit => Untouched(c)
      BY <2>1 DEF EngineInv, DestInv, AllUntouched
    <3>2. Kept(c)
      BY DEF EngineInv, DestInv
    <3> HIDE DEF misfit, extent
    <3> QED
      BY <2>1, <3>1, <3>2 DEF Kept, InImage
  <2> QED
    BY <2>2 DEF OutsideUntouched
<1> QED
  BY <1>1, EngineInvHolds, PTL

(* A copy with an offset never makes a file shorter, on any path; one at   *)
(* offset zero that succeeds leaves the file as long as the image.         *)
(* (copy.rs:165-253)                                                       *)
THEOREM FileKeepsItsTail == Spec => []FileLengthExact
<1>1. EngineInv => FileLengthExact
  BY DEF EngineInv, DestInv, FileLengthExact
<1> QED
  BY <1>1, EngineInvHolds, PTL

(* What wipe and zap clear stays free of old bytes through the whole copy. *)
(* (copy.rs:143-163, dest.rs:290-340)                                      *)
THEOREM ClearedStaysClean == Spec => []ClearedIsClean
<1>1. EngineInv => ClearedIsClean
  BY DEF EngineInv, DestInv, ClearedIsClean, WasCleared
<1> QED
  BY <1>1, EngineInvHolds, PTL

=============================================================================
