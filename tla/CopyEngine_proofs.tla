------------------------- MODULE CopyEngine_proofs -------------------------
(***************************************************************************)
(* Proofs about a whole call of copy, for any image, destination, list of  *)
(* ranges and number of buffers, for failures anywhere, and however the    *)
(* two threads interleave: what success rests on, the order of ranges and  *)
(* operations, and that CopyEngine implements Pipeline, since every step   *)
(* of a copy is a step of its two threads, or none of theirs.              *)
(***************************************************************************)
EXTENDS CopyProperties, FiniteSetTheorems, SequenceTheorems, TLAPS

(* What the state is made of, as far as control depends on it.  What is in *)
(* the channel has no type here: module CopyDestination_proofs gives it    *)
(* one.                                                                    *)
ReaderFields ==
  {"at", "range", "off", "pos", "unmapped", "read", "blocks", "buf", "op", "ret"}
WriterFields == {"at", "op", "todo", "ret", "written", "elided", "zeroed", "since"}

Shape ==
  /\ job \in Jobs
  /\ rd = [f \in ReaderFields |-> rd[f]]
  /\ wr = [f \in WriterFields |-> wr[f]]
  /\ rd.range \in Nat \ {0}

LEMMA JobFacts ==
  ASSUME job \in Jobs
  PROVE  /\ job.bs \in Nat \ {0} /\ BatchCells \in Nat \ {0}
         /\ job.size \in Nat /\ job.srcLen \in Nat
         /\ ByRanges \in BOOLEAN
         /\ RangeCount \in Nat
         /\ \A i \in 1..RangeCount :
              /\ Entry(i).first \in Nat /\ Entry(i).last \in Nat
              /\ Entry(i).first <= Entry(i).last
              /\ Entry(i).last * job.bs < job.size
<1>1. /\ job.bs \in Nat \ {0} /\ job.batch \in Nat \ {0}
      /\ job.size \in Nat /\ job.srcLen \in Nat
  BY JobsAssumption
<1>2. BatchCells \in Nat \ {0}
  BY <1>1 DEF BatchCells, Greater
<1>3. job.ranges \in Seq([first : Nat, last : Nat, sum : {"none", "good", "bad"}])
  BY JobsAssumption
<1>4. RangeCount \in Nat
  BY <1>3, LenProperties DEF RangeCount
<1>5. ASSUME NEW i \in 1..RangeCount
      PROVE  /\ Entry(i).first \in Nat /\ Entry(i).last \in Nat
             /\ Entry(i).first <= Entry(i).last
             /\ Entry(i).last * job.bs < job.size
  <2>1. job.ranges[i] \in [first : Nat, last : Nat, sum : {"none", "good", "bad"}]
    BY <1>3, <1>5, ElementOfSeq DEF RangeCount
  <2>2. job.ranges[i].first <= job.ranges[i].last /\ job.ranges[i].last * job.bs < job.size
    BY <1>5, JobsAssumption DEF RangeCount
  <2> QED
    BY <2>1, <2>2 DEF Entry
<1>6. ByRanges \in BOOLEAN
  BY DEF ByRanges
<1> QED
  BY <1>1, <1>2, <1>4, <1>5, <1>6

(* The cells of a range: at least one, all of them inside the image.       *)
LEMMA RangeFacts ==
  ASSUME job \in Jobs, NEW i \in 1..RangeCount
  PROVE  /\ RangeStart(Entry(i)) \in Nat /\ RangeEnd(Entry(i)) \in Nat
         /\ RangeStart(Entry(i)) < RangeEnd(Entry(i))
         /\ RangeEnd(Entry(i)) <= job.size
         /\ RangeEnd(Entry(i)) = Lesser((Entry(i).last + 1) * job.bs, job.size)
<1> DEFINE first == Entry(i).first
           last == Entry(i).last
<1>1. first \in Nat /\ last \in Nat /\ first <= last /\ last * job.bs < job.size
      /\ job.bs \in Nat \ {0} /\ job.size \in Nat
  BY JobFacts
<1> HIDE DEF first, last
<1>2. first * job.bs \in Nat /\ last * job.bs \in Nat /\ first * job.bs <= last * job.bs
  BY <1>1
<1>3. (last + 1) * job.bs = last * job.bs + job.bs
  BY <1>1
<1> QED
  BY <1>1, <1>2, <1>3 DEF RangeStart, RangeEnd, Lesser, first, last

-----------------------------------------------------------------------------

LEMMA InitShape == Init => Shape
  BY DEF Init, Shape, ReaderFields, WriterFields

(* Each thread writes its own record, and nobody the job.                  *)
LEMMA CallerKeeps == Caller => UNCHANGED <<job, threadVars>>
  BY DEF Caller, Check, Clear, SizeAndPlan, MainFails, Finish, Resize, FinalSync

LEMMA ReaderKeeps == Reader => phase = "stream" /\ UNCHANGED readerFrame
  BY DEF Reader, ReaderStep, PastGap, MeetGap, ReportGap, ReportGapClosed, EnterRange, PlanDone,
         TakeBuffer, PoolClosed, ReadBatch, ReadEnds, ReadFails, ReaderPanics, SendBatch,
         SendBatchClosed, NextBatch, CloseRange

LEMMA WriterKeeps ==
  Writer => phase = "stream" /\ UNCHANGED <<job, result, rd, cut>> /\ (~Join => phase' = phase)
  BY DEF Writer, WriterStep, writerFrame, Receive, ElideSpan, ZeroSpan, WriteSpan, SpanFails,
         FinishOp, SyncOrNot, SyncFails, StreamEnds, DropRx, DropPoolTx, Join

(* What the reader's position and verdict become, and which entry of the   *)
(* plan it is at.                                                          *)
LEMMA ReaderMoves ==
  ASSUME Shape, Reader
  PROVE  /\ rd' = [f \in ReaderFields |-> rd'[f]]
         /\ rd.at # "ended"
         /\ \/ rd'.at # "ended" /\ rd'.ret = rd.ret
            \/ rd'.at = "ended" /\ rd'.range = rd.range
         /\ \/ rd'.range = rd.range
            \/ CloseRange /\ rd'.range = rd.range + 1
<1> USE DEF Shape, ReaderFields
<1>1. CASE MeetGap \/ ReportGap \/ ReportGapClosed
  BY <1>1 DEF MeetGap, ReportGap, ReportGapClosed, ReaderStep
<1>2. CASE EnterRange
  BY <1>2 DEF EnterRange, PastGap, ReaderStep, ReaderEnds
<1>3. CASE PlanDone \/ PoolClosed \/ ReadEnds \/ ReadFails \/ ReaderPanics \/ SendBatchClosed
  BY <1>3 DEF PlanDone, PoolClosed, ReadEnds, ReadFails, ReaderPanics, SendBatchClosed,
              PastGap, ReaderStep, ReaderEnds
<1>4. CASE TakeBuffer \/ NextBatch \/ SendBatch
  BY <1>4 DEF TakeBuffer, NextBatch, SendBatch, ReaderStep
<1>5. CASE ReadBatch
  BY <1>5 DEF ReadBatch, ReaderStep
<1>6. CASE CloseRange
  BY <1>6 DEF CloseRange, ReaderStep, ReaderEnds
<1> QED
  BY <1>1, <1>2, <1>3, <1>4, <1>5, <1>6 DEF Reader

(* The end of a range: its checksum fails, or the next entry is up.        *)
LEMMA ClosingRange ==
  ASSUME Shape, CloseRange
  PROVE  /\ ByRanges /\ rd.at = "next" /\ rd.off >= RangeEnd(Entry(rd.range))
         /\ \/ rd'.ret = "RangeChecksum" /\ rd'.at = "ended" /\ rd'.range = rd.range
            \/ /\ ~(Checked(rd.range) /\ Entry(rd.range).sum = "bad")
               /\ rd'.at = "plan" /\ rd'.range = rd.range + 1 /\ rd'.ret = rd.ret
               /\ UNCHANGED <<rd.off, rd.pos, rd.unmapped>>
<1> USE DEF Shape, ReaderFields
<1>1. ByRanges /\ rd.at = "next" /\ rd.off >= RangeEnd(Entry(rd.range))
  BY DEF CloseRange, RangeRead, ReaderStep
<1>2. CASE Checked(rd.range) /\ Entry(rd.range).sum = "bad"
  <2>1. ReaderEnds("RangeChecksum")
    BY <1>2, Zenon DEF CloseRange
  <2> QED
    BY <1>1, <2>1 DEF ReaderEnds
<1>3. CASE ~(Checked(rd.range) /\ Entry(rd.range).sum = "bad")
  <2>1. rd' = [rd EXCEPT !.at = "plan", !.range = rd.range + 1,
                         !.blocks = rd.blocks + RangeBlocks(rd.range)]
    BY <1>3, Zenon DEF CloseRange
  <2> QED
    BY <1>1, <1>3, <2>1
<1> QED
  BY <1>2, <1>3

(* What the writer's position and verdict become.                          *)
LEMMA WriterMoves ==
  ASSUME Shape, Writer
  PROVE  /\ wr' = [f \in WriterFields |-> wr'[f]]
         /\ RxOpen' => RxOpen
         /\ \/ wr'.ret = wr.ret
            \/ wr'.ret = "Io"
            \/ wr'.ret = "ok" /\ StreamEnds
<1> USE DEF Shape, WriterFields, WriterStep, RxOpen
<1>1. CASE Receive
  BY <1>1 DEF Receive
<1>2. CASE ElideSpan \/ ZeroSpan \/ WriteSpan
  BY <1>2 DEF ElideSpan, ZeroSpan, WriteSpan
<1>3. CASE SpanFails
  BY <1>3 DEF SpanFails
<1>4. CASE FinishOp
  BY <1>4 DEF FinishOp
<1>5. CASE SyncOrNot \/ SyncFails
  BY <1>5 DEF SyncOrNot, SyncFails
<1>6. CASE StreamEnds
  BY <1>6 DEF StreamEnds
<1>7. CASE DropRx \/ DropPoolTx \/ Join
  BY <1>7 DEF DropRx, DropPoolTx, Join
<1> QED
  BY <1>1, <1>2, <1>3, <1>4, <1>5, <1>6, <1>7 DEF Writer

LEMMA StepShape == Shape /\ [Next]_vars => Shape'
<1> SUFFICES ASSUME Shape, [Next]_vars PROVE Shape'
  OBVIOUS
<1>1. CASE Caller
  BY <1>1, CallerKeeps DEF Shape, threadVars
<1>2. CASE Reader
  <2>1. rd'.range \in Nat \ {0}
    BY <1>2, ReaderMoves DEF Shape
  <2> QED
    BY <1>2, <2>1, ReaderMoves, ReaderKeeps DEF Shape, readerFrame
<1>3. CASE Writer
  BY <1>3, WriterMoves, WriterKeeps DEF Shape
<1>4. CASE UNCHANGED vars
  BY <1>4 DEF Shape, vars
<1> QED
  BY <1>1, <1>2, <1>3, <1>4 DEF Next, Returned

-----------------------------------------------------------------------------
(* Checksums.                                                              *)

(* A range is left behind only when its checksum, if it is to be compared, *)
(* agrees.                                                                 *)
RangesClosed ==
  ByRanges => \A i \in 1..RangeCount : i < rd.range /\ Checked(i) => Entry(i).sum # "bad"

(* A reader that returned Ok went through the plan or was cut short, which *)
(* takes a writer that has left its loop; and not one that returned Ok.    *)
OkIsEarned ==
  /\ rd.ret = "ok" => cut \/ ~ByRanges \/ rd.range > RangeCount
  /\ cut => ~RxOpen
  /\ wr.ret = "ok" => rd.at = "ended" /\ ~cut

(* Beyond the join, copy goes on only if both threads returned Ok.         *)
OkIsPassedOn ==
  /\ result = "ok" => phase = "done"
  /\ phase \in {"resize", "sync"} \/ result = "ok" => Outcome = "ok"

SuccessInv == Shape /\ RangesClosed /\ OkIsEarned /\ OkIsPassedOn

LEMMA InitSuccess == Init => SuccessInv
<1> SUFFICES ASSUME Init PROVE SuccessInv
  OBVIOUS
<1>1. rd.range = 1 /\ rd.ret = "none" /\ wr.ret = "none" /\ ~cut /\ phase = "check"
      /\ result = "none" /\ job \in Jobs
  BY DEF Init
<1> QED
  BY <1>1, InitShape DEF SuccessInv, RangesClosed, OkIsEarned, OkIsPassedOn

LEMMA CallerSuccess == SuccessInv /\ Caller => RangesClosed' /\ OkIsEarned' /\ OkIsPassedOn'
<1> SUFFICES ASSUME SuccessInv, Caller PROVE RangesClosed' /\ OkIsEarned' /\ OkIsPassedOn'
  OBVIOUS
<1>1. UNCHANGED <<job, rd, wr, cut>>
  BY CallerKeeps DEF threadVars
<1>2. RangesClosed' /\ OkIsEarned'
  BY <1>1 DEF SuccessInv, RangesClosed, OkIsEarned, ByRanges, RangeCount, Checked, Entry, RxOpen
<1>3. Outcome' = Outcome
  BY <1>1 DEF Outcome
<1>4. OkIsPassedOn'
  BY <1>3 DEF Caller, Check, Clear, SizeAndPlan, MainFails, Finish, Resize, FinalSync, Return,
              SuccessInv, OkIsPassedOn
<1> QED
  BY <1>2, <1>4

LEMMA ReaderSuccess == SuccessInv /\ Reader => RangesClosed' /\ OkIsEarned' /\ OkIsPassedOn'
<1> SUFFICES ASSUME SuccessInv, Reader PROVE RangesClosed' /\ OkIsEarned' /\ OkIsPassedOn'
  OBVIOUS
<1>1. UNCHANGED <<job, wr, result, phase>> /\ phase = "stream"
  BY ReaderKeeps DEF readerFrame
<1>2. UNCHANGED <<ByRanges, RangeCount, RxOpen>> /\ \A i : UNCHANGED <<Checked(i), Entry(i)>>
  BY <1>1 DEF ByRanges, RangeCount, RxOpen, Checked, Entry
<1>3. RangesClosed'
  <2>1. CASE rd'.range = rd.range
    BY <1>2, <2>1 DEF SuccessInv, RangesClosed
  <2>2. CASE CloseRange /\ rd'.range = rd.range + 1
    <3>1. ~(Checked(rd.range) /\ Entry(rd.range).sum = "bad")
      BY <2>2, ClosingRange DEF SuccessInv, Shape
    <3>2. \A i \in 1..RangeCount : i < rd'.range => i < rd.range \/ i = rd.range
      BY <2>2 DEF SuccessInv, Shape
    <3> QED
      BY <1>2, <3>1, <3>2 DEF SuccessInv, RangesClosed
  <2> QED
    BY <2>1, <2>2, ReaderMoves DEF SuccessInv
<1>4. cut' => cut \/ ~RxOpen
  BY DEF Reader, MeetGap, ReportGap, ReportGapClosed, EnterRange, PlanDone, TakeBuffer,
         PoolClosed, ReadBatch, ReadEnds, ReadFails, ReaderPanics, SendBatch, SendBatchClosed,
         NextBatch, CloseRange, PoolTxOpen
<1>5. rd'.ret = "ok" => cut' \/ ~ByRanges \/ rd'.range > RangeCount
  <2> USE DEF SuccessInv, Shape, ReaderFields
  <2>1. CASE MeetGap \/ ReportGap \/ ReportGapClosed \/ TakeBuffer \/ NextBatch \/ SendBatch
             \/ ReadBatch
    BY <2>1 DEF MeetGap, ReportGap, ReportGapClosed, TakeBuffer, NextBatch, SendBatch, ReadBatch,
                OkIsEarned
  <2>2. CASE EnterRange
    BY <2>2 DEF EnterRange, ReaderEnds, OkIsEarned
  <2>3. CASE PlanDone \/ PoolClosed \/ SendBatchClosed
    BY <2>3 DEF PlanDone, PoolClosed, SendBatchClosed, ReaderEnds
  <2>4. CASE ReadEnds \/ ReadFails \/ ReaderPanics
    BY <2>4 DEF ReadEnds, ReadFails, ReaderPanics, ReaderEnds
  <2>5. CASE CloseRange
    <3>1. cut' = cut
      BY <2>5 DEF CloseRange
    <3>2. rd.ret = "ok" => cut \/ ~ByRanges \/ rd.range > RangeCount
      BY DEF OkIsEarned
    <3> QED
      BY <2>5, <3>1, <3>2, ClosingRange, JobFacts
  <2> QED
    BY <2>1, <2>2, <2>3, <2>4, <2>5 DEF Reader
<1>6. OkIsEarned'
  BY <1>1, <1>2, <1>4, <1>5, ReaderMoves DEF SuccessInv, OkIsEarned
<1>7. OkIsPassedOn'
  BY <1>1 DEF SuccessInv, OkIsPassedOn
<1> QED
  BY <1>3, <1>6, <1>7

LEMMA WriterSuccess == SuccessInv /\ Writer => RangesClosed' /\ OkIsEarned' /\ OkIsPassedOn'
<1> SUFFICES ASSUME SuccessInv, Writer PROVE RangesClosed' /\ OkIsEarned' /\ OkIsPassedOn'
  OBVIOUS
<1>1. UNCHANGED <<job, rd, cut, result>> /\ phase = "stream"
  BY WriterKeeps
<1>2. UNCHANGED <<ByRanges, RangeCount>> /\ \A i : UNCHANGED <<Checked(i), Entry(i)>>
  BY <1>1 DEF ByRanges, RangeCount, Checked, Entry
<1>3. RangesClosed'
  BY <1>1, <1>2 DEF SuccessInv, RangesClosed
<1>4. OkIsEarned'
  <2>1. StreamEnds => RxOpen /\ rd.at = "ended"
    BY DEF StreamEnds, WriterStep, ReaderGone, RxOpen
  <2> QED
    BY <1>1, <1>2, <2>1, WriterMoves DEF SuccessInv, OkIsEarned
<1>5. phase' \in {"stream", "finish"}
  BY <1>1, WriterKeeps DEF Join
<1>6. OkIsPassedOn'
  BY <1>1, <1>5 DEF SuccessInv, OkIsPassedOn
<1> QED
  BY <1>3, <1>4, <1>6

(* What success rests on holds in every state: closed ranges were checked, *)
(* and Ok, once returned by a thread or by copy, was earned.               *)
(* (run_pipeline, copy.rs:256-293)                                         *)
THEOREM SuccessInvHolds == Spec => []SuccessInv
<1>1. SuccessInv /\ [Next]_vars => SuccessInv'
  <2>1. SuccessInv /\ [Next]_vars => Shape'
    BY StepShape DEF SuccessInv
  <2>2. SuccessInv /\ UNCHANGED vars => RangesClosed' /\ OkIsEarned' /\ OkIsPassedOn'
    BY DEF SuccessInv, RangesClosed, OkIsEarned, OkIsPassedOn, vars, ByRanges, RangeCount,
           Checked, Entry, RxOpen, Outcome
  <2> QED
    BY <2>1, <2>2, CallerSuccess, ReaderSuccess, WriterSuccess DEF Next, Returned, SuccessInv
<1> QED
  BY <1>1, InitSuccess, PTL DEF Spec

(* An image that disagrees with a checksum is never reported as copied:    *)
(* the reader's error is not masked by a writer that ended before it, nor  *)
(* by a reader that was cut short.  (copy.rs:420-475)                      *)
THEOREM BadChecksumNeverSucceeds == Spec => []ChecksumsHonoured
<1>1. SuccessInv => ChecksumsHonoured
  <2> SUFFICES ASSUME SuccessInv, Ok, job.bmap, job.verify, NEW r \in 1..RangeCount
               PROVE  Entry(r).sum # "bad"
    BY DEF ChecksumsHonoured
  <2>1. rd.ret = "ok" /\ wr.ret = "ok"
    BY DEF SuccessInv, OkIsPassedOn, Outcome, Ok
  <2>2. ByRanges /\ rd.range > RangeCount
    BY <2>1 DEF SuccessInv, OkIsEarned, ByRanges
  <2>3. r < rd.range
    BY <2>2, JobFacts DEF SuccessInv, Shape
  <2> QED
    BY <2>2, <2>3 DEF SuccessInv, RangesClosed, Checked
<1> QED
  BY <1>1, SuccessInvHolds, PTL

-----------------------------------------------------------------------------
(* Order of ranges.                                                        *)

Inside == rd.at \in {"await", "fill", "send", "next"}
Between == rd.at \in {"plan", "gap", "range"}

(* Where the reader is in the image.  In a range the next batch starts at  *)
(* the position of the source, which has not passed the end of the range;  *)
(* between two it is where the last one ended.                             *)
InPlace ==
  /\ {rd.off, rd.pos, rd.unmapped} \subseteq Nat
  /\ Between => ByRanges /\ rd.pos = Lesser(rd.unmapped * job.bs, job.size)
  /\ rd.at = "send" => rd.op.len \in Nat \ {0} /\ rd.op.off = rd.off
  /\ ByRanges /\ Inside =>
       /\ rd.range <= RangeCount
       /\ rd.unmapped = Entry(rd.range).last + 1
       /\ rd.pos = IF rd.at = "send" THEN rd.off + rd.op.len ELSE rd.off
       /\ rd.pos <= RangeEnd(Entry(rd.range))
       /\ rd.at \in {"await", "fill"} => rd.off < RangeEnd(Entry(rd.range))

(* No range that was read lies behind the position of the source ...       *)
NeverBack ==
  ByRanges => \A i \in 1..RangeCount : i < rd.range => RangeEnd(Entry(i)) <= rd.pos

(* ... so those that were entered were in order.                           *)
Entered(k) == k < rd.range \/ (k = rd.range /\ Inside)
Ascending ==
  ByRanges =>
    \A i, k \in 1..RangeCount : i < k /\ Entered(k) => Entry(i).last < Entry(k).first

OrderInv == InPlace /\ NeverBack /\ Ascending

LEMMA OrderFromCells ==
  ASSUME job \in Jobs, NEW i \in 1..RangeCount, NEW k \in 1..RangeCount,
         RangeEnd(Entry(i)) <= RangeStart(Entry(k))
  PROVE  Entry(i).last < Entry(k).first
<1> DEFINE last == Entry(i).last
           first == Entry(k).first
           bs == job.bs
<1>1. /\ last \in Nat /\ first \in Nat /\ bs \in Nat \ {0}
      /\ RangeStart(Entry(k)) < job.size /\ job.size \in Nat
  BY JobFacts, RangeFacts
<1>2. (last + 1) * bs \in Nat /\ first * bs \in Nat
  BY <1>1
<1>3. (last + 1) * bs <= first * bs
  BY <1>1, <1>2 DEF RangeEnd, RangeStart, Lesser
<1> HIDE DEF last, first, bs
<1>4. ASSUME first <= last
      PROVE  FALSE
  <2>1. first * bs <= last * bs
    BY <1>1, <1>4
  <2>2. (last + 1) * bs = last * bs + bs /\ last * bs \in Nat
    BY <1>1
  <2> QED
    BY <1>1, <1>2, <1>3, <2>1, <2>2
<1>5. last < first
  BY <1>1, <1>4
<1> QED
  BY <1>5 DEF last, first

LEMMA InitOrder == Init => OrderInv
<1> SUFFICES ASSUME Init PROVE OrderInv
  OBVIOUS
<1>1. /\ rd.at = (IF ByRanges THEN "plan" ELSE "next") /\ job \in Jobs
      /\ rd.range = 1 /\ rd.off = 0 /\ rd.pos = 0 /\ rd.unmapped = 0
  BY DEF Init
<1>2. job.bs \in Nat /\ job.size \in Nat /\ RangeCount \in Nat
  BY <1>1, JobFacts
<1>3. InPlace
  BY <1>1, <1>2 DEF InPlace, Between, Inside, Lesser
<1>4. NeverBack /\ Ascending
  BY <1>1, <1>2 DEF NeverBack, Ascending, Entered, Inside
<1> QED
  BY <1>3, <1>4 DEF OrderInv

(* What is read into a buffer never reaches past the range.                *)
LEMMA FilledFits ==
  ASSUME Shape, InPlace, ReadBatch
  PROVE  /\ Filled \in Nat \ {0}
         /\ ByRanges => rd.off + Filled <= RangeEnd(Entry(rd.range))
<1>1. /\ rd.at = "fill" /\ Filled > 0
      /\ rd.off \in Nat /\ rd.pos \in Nat /\ rd.range \in Nat \ {0}
  BY DEF ReadBatch, ReaderStep, InPlace, Shape
<1>2. BatchCells \in Nat /\ job.srcLen \in Nat /\ RangeCount \in Nat /\ ByRanges \in BOOLEAN
  BY JobFacts DEF Shape
<1>3. CASE ByRanges
  <2>1. rd.range \in 1..RangeCount
    BY <1>1, <1>2, <1>3 DEF InPlace, Inside
  <2>2. RangeEnd(Entry(rd.range)) \in Nat
    BY <2>1, RangeFacts DEF Shape
  <2>3. Want = Lesser(RangeEnd(Entry(rd.range)) - rd.off, BatchCells)
    BY <1>3 DEF Want
  <2> QED
    BY <1>1, <1>2, <2>2, <2>3 DEF Filled, Lesser, Greater
<1>4. CASE ~ByRanges
  <2>1. Want = BatchCells
    BY <1>4 DEF Want
  <2> QED
    BY <1>1, <1>2, <1>4, <2>1 DEF Filled, Lesser, Greater
<1> QED
  BY <1>2, <1>3, <1>4

(* Steps of the reader by what they do to its position.                    *)
Ends == rd'.at = "ended" /\ UNCHANGED <<rd.range, rd.off, rd.pos, rd.unmapped>>

LEMMA ReaderPaths ==
  ASSUME Shape, Reader
  PROVE  \/ Ends
         \/ /\ MeetGap \/ ReportGap \/ ReportGapClosed
            /\ Between /\ Between' /\ UNCHANGED <<rd.range, rd.off, rd.pos, rd.unmapped>>
         \/ /\ EnterRange /\ rd.at \in {"plan", "range"} /\ rd.range <= RangeCount
            /\ rd.at = "plan" => ~GapAhead
            /\ SkipTo(RangeStart(Entry(rd.range))) = "ok"
            /\ rd'.at = "await" /\ rd'.off = RangeStart(Entry(rd.range)) /\ rd'.pos = rd'.off
            /\ rd'.range = rd.range /\ rd'.unmapped = Entry(rd.range).last + 1
         \/ /\ TakeBuffer /\ rd.at = "await" /\ rd'.at = "fill"
            /\ UNCHANGED <<rd.range, rd.off, rd.pos, rd.unmapped>>
         \/ /\ ReadBatch /\ rd.at = "fill" /\ rd'.at = "send"
            /\ UNCHANGED <<rd.range, rd.off, rd.unmapped>> /\ rd'.pos = rd.pos + Filled
            /\ rd'.op.off = rd.off /\ rd'.op.len = Filled
         \/ /\ SendBatch /\ rd.at = "send" /\ rd'.at = "next"
            /\ UNCHANGED <<rd.range, rd.pos, rd.unmapped>> /\ rd'.off = rd.off + rd.op.len
         \/ /\ NextBatch /\ rd.at = "next" /\ rd'.at = "await" /\ ~RangeRead
            /\ UNCHANGED <<rd.range, rd.off, rd.pos, rd.unmapped>>
         \/ /\ CloseRange /\ rd.at = "next" /\ rd'.at = "plan" /\ RangeRead
            /\ rd'.range = rd.range + 1 /\ UNCHANGED <<rd.off, rd.pos, rd.unmapped>>
<1> USE DEF Shape, ReaderFields
<1>1. CASE MeetGap \/ ReportGap \/ ReportGapClosed
  BY <1>1 DEF MeetGap, ReportGap, ReportGapClosed, ReaderStep, Between
<1>2. CASE EnterRange
  <2> DEFINE start == RangeStart(Entry(rd.range))
  <2>1. rd.range <= RangeCount /\ PastGap
    BY <1>2 DEF EnterRange
  <2>2. rd.at \in {"plan", "range"} /\ (rd.at = "plan" => ~GapAhead)
    BY <2>1 DEF PastGap, ReaderStep
  <2>3. CASE SkipTo(start) = "ok"
    <3>1. rd' = [rd EXCEPT !.at = "await", !.off = start, !.pos = start,
                           !.unmapped = Entry(rd.range).last + 1]
      BY <1>2, <2>3, Zenon DEF EnterRange
    <3> HIDE DEF start
    <3> QED
      BY <1>2, <2>1, <2>2, <2>3, <3>1 DEF start
  <2>4. CASE SkipTo(start) # "ok"
    <3>1. ReaderEnds(SkipTo(start))
      BY <1>2, <2>4, Zenon DEF EnterRange
    <3> QED
      BY <3>1 DEF ReaderEnds, Ends
  <2> QED
    BY <2>3, <2>4
<1>3. CASE PlanDone \/ PoolClosed \/ ReadEnds \/ ReadFails \/ ReaderPanics \/ SendBatchClosed
  BY ZenonT(40), <1>3 DEF PlanDone, PoolClosed, ReadEnds, ReadFails, ReaderPanics, SendBatchClosed,
              ReaderEnds, Ends
<1>4. CASE TakeBuffer
  BY <1>4 DEF TakeBuffer, ReaderStep
<1>5. CASE NextBatch
  BY <1>5 DEF NextBatch, ReaderStep
<1>6. CASE SendBatch
  BY <1>6 DEF SendBatch, ReaderStep
<1>7. CASE ReadBatch
  BY <1>7 DEF ReadBatch, ReaderStep
<1>8. CASE CloseRange
  <2>1. RangeRead
    BY <1>8 DEF CloseRange
  <2> QED
    BY <1>8, <2>1, ClosingRange DEF CloseRange, ReaderEnds, Ends
<1> QED
  BY <1>1, <1>2, <1>3, <1>4, <1>5, <1>6, <1>7, <1>8 DEF Reader

LEMMA JobFixed ==
  ASSUME UNCHANGED job
  PROVE  /\ UNCHANGED <<ByRanges, RangeCount>>
         /\ \A i : UNCHANGED <<Entry(i), RangeStart(Entry(i)), RangeEnd(Entry(i))>>
  BY DEF ByRanges, RangeCount, Entry, RangeStart, RangeEnd

LEMMA ReaderOrder ==
  ASSUME Shape, OrderInv, Reader
  PROVE  OrderInv'
<1> USE DEF OrderInv
<1>1. UNCHANGED job
  BY ReaderKeeps DEF readerFrame
<1>2. /\ UNCHANGED <<ByRanges, RangeCount>>
      /\ \A i : UNCHANGED <<Entry(i), RangeStart(Entry(i)), RangeEnd(Entry(i))>>
  BY <1>1, JobFixed
<1>3. /\ job \in Jobs /\ job.bs \in Nat \ {0} /\ job.size \in Nat /\ RangeCount \in Nat
      /\ rd.range \in Nat \ {0} /\ rd.off \in Nat /\ rd.pos \in Nat /\ rd.unmapped \in Nat
  BY JobFacts DEF Shape, InPlace
<1>4. \A i \in 1..RangeCount :
        /\ RangeStart(Entry(i)) \in Nat /\ RangeEnd(Entry(i)) \in Nat
        /\ Entry(i).first \in Nat /\ Entry(i).last \in Nat
        /\ RangeStart(Entry(i)) < RangeEnd(Entry(i))
  BY <1>3, RangeFacts, JobFacts
<1>5. CASE Ends
  <2>1. InPlace'
    BY <1>3, <1>5 DEF Ends, InPlace, Inside, Between
  <2>2. NeverBack' /\ Ascending'
    BY <1>2, <1>5 DEF Ends, NeverBack, Ascending, Entered, Inside
  <2> QED
    BY <2>1, <2>2
<1>6. CASE Between /\ Between' /\ UNCHANGED <<rd.range, rd.off, rd.pos, rd.unmapped>>
  <2>1. InPlace'
    BY <1>1, <1>2, <1>3, <1>6 DEF InPlace, Inside, Between
  <2>2. NeverBack' /\ Ascending'
    BY <1>2, <1>6 DEF Between, NeverBack, Ascending, Entered, Inside
  <2> QED
    BY <2>1, <2>2
<1>7. CASE /\ rd.at \in {"plan", "range"} /\ rd.range <= RangeCount
           /\ SkipTo(RangeStart(Entry(rd.range))) = "ok"
           /\ rd'.at = "await" /\ rd'.off = RangeStart(Entry(rd.range)) /\ rd'.pos = rd'.off
           /\ rd'.range = rd.range /\ rd'.unmapped = Entry(rd.range).last + 1
  <2>1. rd.range \in 1..RangeCount
    BY <1>3, <1>7
  <2>2. rd.pos <= RangeStart(Entry(rd.range))
    BY <1>3, <1>4, <1>7, <2>1 DEF SkipTo
  <2>3. InPlace'
    BY <1>2, <1>3, <1>4, <1>7, <2>1 DEF InPlace, Inside, Between
  <2>4. NeverBack'
    BY <1>2, <1>3, <1>4, <1>7, <2>1, <2>2 DEF NeverBack
  <2>5. ASSUME ByRanges, NEW i \in 1..RangeCount, i < rd.range
        PROVE  Entry(i).last < Entry(rd.range).first
    <3>1. RangeEnd(Entry(i)) <= RangeStart(Entry(rd.range))
      BY <1>3, <1>4, <2>1, <2>2, <2>5 DEF NeverBack
    <3> QED
      BY <1>3, <2>1, <3>1, OrderFromCells
  <2>6. Ascending'
    BY <1>2, <1>7, <2>5 DEF Ascending, Entered
  <2> QED
    BY <2>3, <2>4, <2>6
<1>8. CASE /\ rd.at \in {"await", "next"} /\ rd'.at \in {"fill", "await"}
           /\ rd.at = "next" => ~RangeRead
           /\ UNCHANGED <<rd.range, rd.off, rd.pos, rd.unmapped>>
  <2>1. ByRanges => rd.range \in 1..RangeCount
    BY <1>3, <1>8 DEF InPlace, Inside
  <2>2. ByRanges => rd.off < RangeEnd(Entry(rd.range))
    BY <1>3, <1>4, <1>8, <2>1 DEF InPlace, Inside, RangeRead
  <2>3. InPlace'
    BY <1>2, <1>3, <1>8, <2>2 DEF InPlace, Inside, Between
  <2>4. NeverBack' /\ Ascending'
    BY <1>2, <1>8 DEF NeverBack, Ascending, Entered, Inside
  <2> QED
    BY <2>3, <2>4
<1>9. CASE /\ ReadBatch /\ rd.at = "fill" /\ rd'.at = "send"
           /\ UNCHANGED <<rd.range, rd.off, rd.unmapped>> /\ rd'.pos = rd.pos + Filled
           /\ rd'.op.off = rd.off /\ rd'.op.len = Filled
  <2>1. Filled \in Nat \ {0} /\ (ByRanges => rd.off + Filled <= RangeEnd(Entry(rd.range)))
    BY <1>9, FilledFits
  <2>2. InPlace'
    BY <1>2, <1>3, <1>9, <2>1 DEF InPlace, Inside, Between
  <2>3. NeverBack'
    BY <1>2, <1>3, <1>4, <1>9, <2>1 DEF NeverBack
  <2>4. Ascending'
    BY <1>2, <1>9 DEF Ascending, Entered, Inside
  <2> QED
    BY <2>2, <2>3, <2>4
<1>10. CASE /\ rd.at = "send" /\ rd'.at = "next"
            /\ UNCHANGED <<rd.range, rd.pos, rd.unmapped>> /\ rd'.off = rd.off + rd.op.len
  <2>1. InPlace'
    BY <1>2, <1>3, <1>10 DEF InPlace, Inside, Between
  <2>2. NeverBack' /\ Ascending'
    BY <1>2, <1>10 DEF NeverBack, Ascending, Entered, Inside
  <2> QED
    BY <2>1, <2>2
<1>11. CASE /\ CloseRange /\ rd.at = "next" /\ rd'.at = "plan" /\ RangeRead
            /\ rd'.range = rd.range + 1 /\ UNCHANGED <<rd.off, rd.pos, rd.unmapped>>
  <2>1. ByRanges /\ rd.off >= RangeEnd(Entry(rd.range))
    BY <1>11 DEF RangeRead
  <2>2. rd.range \in 1..RangeCount /\ rd.unmapped = Entry(rd.range).last + 1
    BY <1>3, <1>11, <2>1 DEF InPlace, Inside
  <2>3. rd.pos = RangeEnd(Entry(rd.range))
    BY <1>3, <1>4, <1>11, <2>1, <2>2 DEF InPlace, Inside
  <2>4. rd.pos = Lesser(rd.unmapped * job.bs, job.size)
    BY <1>3, <2>2, <2>3, RangeFacts
  <2>5. InPlace'
    BY <1>1, <1>2, <1>3, <1>11, <2>1, <2>4 DEF InPlace, Inside, Between
  <2>6. \A i \in 1..RangeCount : i < rd'.range => i < rd.range \/ i = rd.range
    BY <1>3, <1>11
  <2>7. NeverBack'
    BY <1>2, <1>3, <1>4, <1>11, <2>2, <2>3, <2>6 DEF NeverBack
  <2>8. Ascending'
    BY <1>2, <1>11, <2>6 DEF Ascending, Entered, Inside
  <2> QED
    BY <2>5, <2>7, <2>8
<1> QED
  BY <1>5, <1>6, <1>7, <1>8, <1>9, <1>10, <1>11, ReaderPaths

(* Nobody else moves the reader.                                           *)
LEMMA OthersOrder ==
  ASSUME OrderInv, UNCHANGED <<job, rd>>
  PROVE  OrderInv'
<1>1. /\ UNCHANGED <<ByRanges, RangeCount>>
      /\ \A i : UNCHANGED <<Entry(i), RangeStart(Entry(i)), RangeEnd(Entry(i))>>
  BY JobFixed
<1>2. UNCHANGED <<Inside, Between>>
  BY DEF Inside, Between
<1> QED
  BY <1>1, <1>2 DEF OrderInv, InPlace, NeverBack, Ascending, Entered

LEMMA StepOrder ==
  ASSUME Shape, OrderInv, [Next]_vars
  PROVE  OrderInv'
<1>1. Caller \/ Writer \/ UNCHANGED vars => UNCHANGED <<job, rd>>
  BY CallerKeeps, WriterKeeps DEF threadVars, vars
<1> QED
  BY <1>1, ReaderOrder, OthersOrder DEF Next, Returned

(* A plan whose ranges are out of order, which Bmap::parse accepts, is     *)
(* never copied with success.  (bmap.rs:45, source.rs:208)                 *)
THEOREM DisorderNeverSucceeds == Spec => []OnlyAscendingSucceeds
<1>1. Init => Shape /\ OrderInv
  BY InitShape, InitOrder
<1>2. Shape /\ OrderInv /\ [Next]_vars => (Shape /\ OrderInv)'
  BY StepShape, StepOrder
<1>3. SuccessInv /\ OrderInv => OnlyAscendingSucceeds
  <2> SUFFICES ASSUME SuccessInv, OrderInv, Ok, ByRanges,
                      NEW i \in 1..RangeCount, NEW k \in 1..RangeCount, i < k
               PROVE  Entry(i).last < Entry(k).first
    BY DEF OnlyAscendingSucceeds
  <2>1. rd.ret = "ok" /\ wr.ret = "ok"
    BY DEF SuccessInv, OkIsPassedOn, Outcome, Ok
  <2>2. rd.range > RangeCount
    BY <2>1 DEF SuccessInv, OkIsEarned
  <2>3. k < rd.range
    BY <2>2, JobFacts DEF SuccessInv, Shape
  <2> QED
    BY <2>3 DEF OrderInv, Ascending, Entered
<1> QED
  BY <1>1, <1>2, <1>3, SuccessInvHolds, PTL DEF Spec

-----------------------------------------------------------------------------
(* Operations.                                                             *)

Streaming == wr.at \in {"recv", "work", "sync"}

IsOp(op) == op.off \in Nat /\ op.len \in Nat
EndOf(op) == op.off + op.len

(* How far the image has been handed to the writer.                        *)
SentEnd == IF Len(chan) = 0 THEN EndOf(wr.op) ELSE EndOf(chan[Len(chan)])

(* Each operation in flight starts where the one before it ends, the first *)
(* where the one does that the writer has.                                 *)
Linked ==
  /\ \E S : chan \in Seq(S)
  /\ IsOp(wr.op)
  /\ \A i \in 1..Len(chan) :
       /\ IsOp(chan[i])
       /\ chan[i].off = IF i = 1 THEN EndOf(wr.op) ELSE EndOf(chan[i - 1])

(* What the reader makes next starts where the last one ends.              *)
Frontier ==
  /\ Inside => rd.off = SentEnd
  /\ rd.at = "plan" => rd.pos = SentEnd
  /\ rd.at = "gap" => IsOp(rd.op) /\ rd.op.off = SentEnd /\ EndOf(rd.op) = GapEnd
  /\ rd.at = "range" => GapEnd = SentEnd

TileInv == Streaming => Linked /\ Frontier

LEMMA InitTile == Init => TileInv
<1> SUFFICES ASSUME Init PROVE TileInv
  OBVIOUS
<1>1. /\ chan = <<>> /\ wr.op = NoOp /\ rd.off = 0 /\ rd.pos = 0
      /\ rd.at \in {"plan", "next"}
  BY DEF Init
<1>2. chan \in Seq({}) /\ Len(chan) = 0
  BY <1>1, EmptySeq
<1>3. IsOp(wr.op) /\ EndOf(wr.op) = 0
  BY <1>1 DEF NoOp, IsOp, EndOf
<1> QED
  BY <1>1, <1>2, <1>3 DEF TileInv, Linked, Frontier, SentEnd, Inside

(* Sending an operation that starts where the last one ends.               *)
LEMMA SendingTiles ==
  ASSUME Linked, UNCHANGED wr, NEW op, IsOp(op), op.off = SentEnd, chan' = Append(chan, op)
  PROVE  Linked' /\ SentEnd' = EndOf(op)
<1>1. PICK S : chan \in Seq(S)
  BY DEF Linked
<1>2. chan \in Seq(S \cup {op}) /\ Len(chan) \in Nat
  BY <1>1, SeqMonotonic, LenProperties
<1>3. /\ chan' \in Seq(S \cup {op})
      /\ Len(chan') = Len(chan) + 1
      /\ \A i \in 1..Len(chan) : chan'[i] = chan[i]
      /\ chan'[Len(chan) + 1] = op
  BY <1>2, AppendProperties
<1>4. \A i \in 1..Len(chan') : i \in 1..Len(chan) \/ i = Len(chan) + 1
  BY <1>2, <1>3
<1>5. \A i \in 1..Len(chan) : i # 1 => i - 1 \in 1..Len(chan)
  BY <1>2
<1>6. \E T : chan' \in Seq(T)
  BY <1>3
<1>7. ASSUME NEW i \in 1..Len(chan')
      PROVE  /\ IsOp(chan'[i])
             /\ chan'[i].off = IF i = 1 THEN EndOf(wr.op) ELSE EndOf(chan'[i - 1])
  <2>1. CASE i \in 1..Len(chan)
    BY <1>3, <1>5, <2>1 DEF Linked
  <2>2. CASE i = Len(chan) + 1
    <3>1. chan'[i] = op
      BY <1>3, <2>2
    <3>2. CASE Len(chan) = 0
      BY <2>2, <3>1, <3>2 DEF SentEnd
    <3>3. CASE Len(chan) # 0
      <4>1. i # 1 /\ i - 1 = Len(chan) /\ Len(chan) \in 1..Len(chan)
        BY <1>2, <2>2, <3>3
      <4> QED
        BY <1>3, <3>1, <3>3, <4>1 DEF SentEnd
    <3> QED
      BY <3>2, <3>3
  <2> QED
    BY <1>4, <2>1, <2>2
<1>8. Linked'
  BY <1>6, <1>7 DEF Linked, IsOp, EndOf
<1>9. SentEnd' = EndOf(op)
  BY <1>2, <1>3 DEF SentEnd, EndOf
<1> QED
  BY <1>8, <1>9

(* Receiving moves the first operation to the writer.                      *)
LEMMA ReceivingTiles ==
  ASSUME Linked, chan # <<>>, chan' = Tail(chan), wr'.op = Head(chan)
  PROVE  Linked' /\ SentEnd' = SentEnd /\ wr'.op.off = EndOf(wr.op)
<1>1. PICK S : chan \in Seq(S)
  BY DEF Linked
<1>2. /\ chan' \in Seq(S) /\ Len(chan) \in Nat \ {0} /\ Len(chan') = Len(chan) - 1
      /\ \A i \in 1..Len(chan') : chan'[i] = chan[i + 1]
  BY <1>1, EmptySeq, HeadTailProperties
<1>3. Head(chan) = chan[1]
  BY <1>1, <1>2
<1>4. wr'.op = chan[1] /\ 1 \in 1..Len(chan)
  BY <1>2, <1>3
<1>5. IsOp(wr'.op) /\ wr'.op.off = EndOf(wr.op)
  BY <1>4 DEF Linked
<1>6. ASSUME NEW i \in 1..Len(chan')
      PROVE  /\ IsOp(chan'[i])
             /\ chan'[i].off = IF i = 1 THEN EndOf(wr'.op) ELSE EndOf(chan'[i - 1])
  <2>1. i + 1 \in 1..Len(chan) /\ i + 1 # 1 /\ (i + 1) - 1 = i
    BY <1>2
  <2>2. IsOp(chan[i + 1]) /\ chan[i + 1].off = EndOf(chan[i])
    BY <2>1 DEF Linked
  <2>3. i # 1 => i - 1 \in 1..Len(chan') /\ (i - 1) + 1 = i
    BY <1>2
  <2> QED
    BY <1>2, <1>4, <2>2, <2>3
<1>7. Linked'
  BY <1>2, <1>5, <1>6 DEF Linked, IsOp, EndOf
<1>8. SentEnd' = SentEnd
  <2>1. CASE Len(chan) = 1
    BY <1>2, <1>4, <2>1 DEF SentEnd, EndOf
  <2>2. CASE Len(chan) # 1
    <3>1. Len(chan') # 0 /\ Len(chan') \in 1..Len(chan') /\ Len(chan') + 1 = Len(chan)
      BY <1>2, <2>2
    <3> QED
      BY <1>2, <3>1 DEF SentEnd, EndOf
  <2> QED
    BY <2>1, <2>2
<1> QED
  BY <1>5, <1>7, <1>8

(* The gap before the next entry, or after the last one.                   *)
LEMMA GapFacts ==
  ASSUME Shape, InPlace
  PROVE  /\ GapStart \in Nat /\ GapEnd \in Nat /\ GapEnd <= job.size
         /\ rd.range <= RangeCount => GapEnd = RangeStart(Entry(rd.range))
<1>1. /\ job.bs \in Nat \ {0} /\ job.size \in Nat /\ RangeCount \in Nat
      /\ rd.range \in Nat \ {0} /\ rd.unmapped \in Nat
  BY JobFacts DEF Shape, InPlace
<1>2. GapStart \in Nat
  BY <1>1 DEF GapStart
<1>3. CASE rd.range <= RangeCount
  <2>1. rd.range \in 1..RangeCount
    BY <1>1, <1>3
  <2>2. /\ RangeStart(Entry(rd.range)) \in Nat
        /\ RangeStart(Entry(rd.range)) < job.size
    BY <1>1, <2>1, RangeFacts DEF Shape
  <2>3. GapEnd = Lesser(Entry(rd.range).first * job.bs, job.size)
    BY <1>3 DEF GapEnd
  <2> QED
    BY <1>1, <1>2, <2>2, <2>3 DEF RangeStart, Lesser
<1>4. CASE ~(rd.range <= RangeCount)
  <2>1. CeilDiv(job.size, job.bs) \in Nat
    BY <1>1 DEF CeilDiv
  <2>2. CeilDiv(job.size, job.bs) * job.bs \in Nat
    BY <1>1, <2>1
  <2>3. GapEnd = Lesser(CeilDiv(job.size, job.bs) * job.bs, job.size)
    BY <1>4 DEF GapEnd
  <2> QED
    BY <1>1, <1>2, <1>4, <2>2, <2>3 DEF Lesser
<1> QED
  BY <1>3, <1>4

LEMMA ReaderTile ==
  ASSUME Shape, OrderInv, TileInv, Reader
  PROVE  TileInv'
<1> SUFFICES ASSUME Streaming PROVE Linked' /\ Frontier'
  <2>1. Streaming' = Streaming
    BY ReaderKeeps DEF readerFrame, Streaming
  <2> QED
    BY <2>1 DEF TileInv
<1>1. Linked /\ Frontier /\ InPlace /\ RxOpen
  BY DEF TileInv, OrderInv, Streaming, RxOpen
<1>2. UNCHANGED <<job, wr>>
  BY ReaderKeeps DEF readerFrame
<1>3. /\ job \in Jobs /\ job.bs \in Nat \ {0} /\ job.size \in Nat /\ RangeCount \in Nat
      /\ rd.range \in Nat \ {0} /\ rd.off \in Nat /\ rd.pos \in Nat /\ rd.unmapped \in Nat
  BY <1>1, JobFacts DEF Shape, InPlace
<1>4. GapStart \in Nat /\ GapEnd \in Nat /\ GapEnd <= job.size
  BY <1>1, GapFacts
<1>5. chan' = chan => Linked' /\ SentEnd' = SentEnd
  BY <1>1, <1>2 DEF Linked, SentEnd, IsOp, EndOf
<1>6. rd'.range = rd.range => GapEnd' = GapEnd
  BY <1>2 DEF GapEnd, RangeCount, Entry
<1> USE DEF Frontier, Inside
<1>7. CASE Ends
  <2>1. chan' = chan
    BY <1>7 DEF Ends, Reader, MeetGap, ReportGap, ReportGapClosed, EnterRange, PlanDone,
                TakeBuffer, PoolClosed, ReadBatch, ReadEnds, ReadFails, ReaderPanics, SendBatch,
                SendBatchClosed, NextBatch, CloseRange, Shape, ReaderFields, ReaderStep
  <2> QED
    BY <1>5, <1>7, <2>1 DEF Ends
<1>8. CASE MeetGap
  <2>1. rd.at = "plan" /\ GapAhead /\ rd' = [rd EXCEPT !.at = "gap", !.op = GapOp]
        /\ chan' = chan
    BY <1>8 DEF MeetGap, ReaderStep
  <2>2. rd'.at = "gap" /\ rd'.op = GapOp /\ rd'.range = rd.range
    BY <2>1 DEF Shape, ReaderFields
  <2>3. GapEnd > GapStart /\ rd.pos = Lesser(GapStart, job.size)
    BY <1>1, <2>1 DEF GapAhead, GapStart, InPlace, Between
  <2>4. GapStart = SentEnd
    BY <1>1, <1>3, <1>4, <2>1, <2>3 DEF Lesser
  <2>5. IsOp(GapOp) /\ GapOp.off = GapStart /\ EndOf(GapOp) = GapEnd
    BY <1>4, <2>3 DEF GapOp, IsOp, EndOf
  <2> QED
    BY <1>5, <1>6, <2>1, <2>2, <2>4, <2>5 DEF IsOp, EndOf
<1>9. CASE ReportGap
  <2>1. rd.at = "gap" /\ chan' = Append(chan, rd.op)
        /\ rd' = [rd EXCEPT !.at = "range", !.op = NoOp]
    BY <1>9 DEF ReportGap, ReaderStep
  <2>2. rd'.at = "range" /\ rd'.range = rd.range
    BY <2>1 DEF Shape, ReaderFields
  <2>3. Linked' /\ SentEnd' = EndOf(rd.op)
    BY <1>1, <1>2, <2>1, SendingTiles
  <2> QED
    BY <1>1, <1>6, <2>1, <2>2, <2>3
<1>10. CASE ReportGapClosed
  BY <1>1, <1>10 DEF ReportGapClosed
<1>11. CASE /\ EnterRange /\ rd.at \in {"plan", "range"} /\ rd.range <= RangeCount
            /\ rd.at = "plan" => ~GapAhead
            /\ SkipTo(RangeStart(Entry(rd.range))) = "ok"
            /\ rd'.at = "await" /\ rd'.off = RangeStart(Entry(rd.range)) /\ rd'.pos = rd'.off
            /\ rd'.range = rd.range /\ rd'.unmapped = Entry(rd.range).last + 1
  <2>1. chan' = chan
    BY <1>11 DEF EnterRange
  <2>2. GapEnd = RangeStart(Entry(rd.range))
    BY <1>1, <1>11, GapFacts
  <2>3. CASE rd.at = "range"
    BY <1>1, <1>5, <1>11, <2>1, <2>2, <2>3
  <2>4. CASE rd.at = "plan"
    <3>1. GapEnd <= GapStart
      BY <1>4, <1>11, <2>4 DEF GapAhead
    <3>2. rd.pos = Lesser(GapStart, job.size) /\ rd.pos = SentEnd
      BY <1>1, <2>4 DEF GapStart, InPlace, Between
    <3>3. rd.pos <= GapEnd
      BY <1>3, <1>4, <1>11, <2>2 DEF SkipTo
    <3>4. rd.range \in 1..RangeCount
      BY <1>3, <1>11
    <3>5. GapEnd < job.size
      BY <1>3, <2>2, <3>4, RangeFacts
    <3>6. GapEnd = SentEnd
      BY <1>3, <1>4, <3>1, <3>2, <3>3, <3>5 DEF Lesser
    <3> QED
      BY <1>5, <1>11, <2>1, <2>2, <3>6
  <2> QED
    BY <1>11, <2>3, <2>4
<1>12. CASE /\ TakeBuffer \/ NextBatch
            /\ rd.at \in {"await", "next"} /\ rd'.at \in {"fill", "await"}
            /\ UNCHANGED <<rd.range, rd.off, rd.pos, rd.unmapped>>
  <2>1. chan' = chan
    BY <1>12 DEF TakeBuffer, NextBatch
  <2> QED
    BY <1>1, <1>5, <1>12, <2>1
<1>13. CASE /\ ReadBatch /\ rd.at = "fill" /\ rd'.at = "send"
            /\ UNCHANGED <<rd.range, rd.off, rd.unmapped>>
  <2>1. chan' = chan
    BY <1>13 DEF ReadBatch
  <2> QED
    BY <1>1, <1>5, <1>13, <2>1
<1>14. CASE /\ SendBatch /\ rd.at = "send" /\ rd'.at = "next"
            /\ rd'.off = rd.off + rd.op.len
  <2>1. chan' = Append(chan, rd.op)
    BY <1>14 DEF SendBatch
  <2>2. IsOp(rd.op) /\ rd.op.off = rd.off /\ EndOf(rd.op) = rd.off + rd.op.len
    BY <1>1, <1>3, <1>14 DEF InPlace, IsOp, EndOf
  <2>3. Linked' /\ SentEnd' = EndOf(rd.op)
    BY <1>1, <1>2, <1>14, <2>1, <2>2, SendingTiles
  <2> QED
    BY <1>14, <2>2, <2>3
<1>15. CASE /\ CloseRange /\ rd.at = "next" /\ rd'.at = "plan" /\ RangeRead
            /\ rd'.range = rd.range + 1 /\ UNCHANGED <<rd.off, rd.pos, rd.unmapped>>
  <2>1. chan' = chan
    BY <1>15 DEF CloseRange
  <2>2. rd.pos = rd.off
    BY <1>1, <1>15 DEF InPlace, RangeRead
  <2> QED
    BY <1>1, <1>5, <1>15, <2>1, <2>2
<1> QED
  BY <1>7, <1>8, <1>9, <1>10, <1>11, <1>12, <1>13, <1>14, <1>15, ReaderPaths

LEMMA WriterTile ==
  ASSUME Shape, TileInv, Writer
  PROVE  TileInv'
<1>1. UNCHANGED <<job, rd>>
  BY WriterKeeps
<1>2. UNCHANGED <<Inside, GapEnd>>
  BY <1>1 DEF Inside, GapEnd, RangeCount, Entry
<1>3. CASE Receive
  <2>1. Linked /\ Frontier /\ chan # <<>> /\ chan' = Tail(chan) /\ wr'.op = Head(chan)
    BY <1>3 DEF Receive, WriterStep, TileInv, Streaming, Shape, WriterFields
  <2>2. Linked' /\ SentEnd' = SentEnd
    BY <2>1, ReceivingTiles
  <2>3. Frontier'
    BY <1>1, <1>2, <2>1, <2>2 DEF Frontier, IsOp, EndOf
  <2> QED
    BY <2>2, <2>3 DEF TileInv
<1>4. CASE ElideSpan \/ ZeroSpan \/ WriteSpan \/ FinishOp \/ SyncOrNot
  <2>1. wr'.op = wr.op /\ chan' = chan /\ Streaming
    BY <1>4 DEF ElideSpan, ZeroSpan, WriteSpan, FinishOp, SyncOrNot, WriterStep, Streaming,
                Shape, WriterFields
  <2>2. Linked /\ Frontier
    BY <2>1 DEF TileInv
  <2>3. Linked' /\ SentEnd' = SentEnd
    BY <2>1, <2>2 DEF Linked, SentEnd, IsOp, EndOf
  <2>4. Frontier'
    BY <1>1, <1>2, <2>2, <2>3 DEF Frontier, IsOp, EndOf
  <2> QED
    BY <2>3, <2>4 DEF TileInv
<1>5. CASE SpanFails \/ SyncFails \/ StreamEnds \/ DropRx \/ DropPoolTx \/ Join
  <2>1. wr'.at \in {"closing", "rxDropped", "joining", "joined"}
    <3> USE DEF Shape, WriterFields
    <3>1. CASE SpanFails
      BY <3>1 DEF SpanFails
    <3>2. CASE SyncFails \/ StreamEnds
      BY <3>2 DEF SyncFails, StreamEnds
    <3>3. CASE DropRx \/ DropPoolTx \/ Join
      BY <3>3 DEF DropRx, DropPoolTx, Join
    <3> QED
      BY <1>5, <3>1, <3>2, <3>3
  <2> QED
    BY <2>1 DEF TileInv, Streaming
<1> QED
  BY <1>3, <1>4, <1>5 DEF Writer

LEMMA OthersTile ==
  ASSUME TileInv, UNCHANGED <<job, threadVars>>
  PROVE  TileInv'
<1>1. UNCHANGED <<rd, wr, chan>>
  BY DEF threadVars
<1>2. UNCHANGED <<Inside, GapEnd, SentEnd, Streaming>>
  BY <1>1 DEF Inside, GapEnd, RangeCount, Entry, SentEnd, EndOf, Streaming
<1> QED
  BY <1>1, <1>2 DEF TileInv, Linked, Frontier, IsOp, EndOf

LEMMA StepTile ==
  ASSUME Shape, OrderInv, TileInv, [Next]_vars
  PROVE  TileInv'
<1>1. UNCHANGED vars => UNCHANGED <<job, threadVars>>
  BY DEF vars, threadVars
<1> QED
  BY <1>1, CallerKeeps, ReaderTile, WriterTile, OthersTile DEF Next, Returned

(* Only Receive puts the writer to work on an operation.                   *)
LEMMA ReceivesNext ==
  ASSUME Shape, TileInv, [Next]_vars, wr.at = "recv", wr'.at = "work"
  PROVE  wr'.op.off = wr.op.off + wr.op.len
<1>1. Writer
  BY CallerKeeps, ReaderKeeps DEF Next, Returned, threadVars, readerFrame, vars
<1>2. Receive
  BY <1>1 DEF Writer, WriterStep, ElideSpan, ZeroSpan, WriteSpan, SpanFails, FinishOp, SyncOrNot,
              SyncFails, StreamEnds, DropRx, DropPoolTx, Join, Shape, WriterFields
<1>3. Linked /\ chan # <<>> /\ chan' = Tail(chan) /\ wr'.op = Head(chan)
  BY <1>2 DEF Receive, WriterStep, TileInv, Streaming, Shape, WriterFields
<1> QED
  BY <1>3, ReceivingTiles DEF EndOf

(* What the writer receives tiles the image: for any plan, and whatever    *)
(* has failed elsewhere, each operation starts where the one before it     *)
(* ended.  (copy.rs:386-498)                                               *)
THEOREM ImageIsTiled == Spec => OpsTileImage
<1> DEFINE IInv == Shape /\ OrderInv /\ TileInv
           Follows == wr.at = "recv" /\ wr'.at = "work" => wr'.op.off = wr.op.off + wr.op.len
<1>1. Init => IInv
  BY InitShape, InitOrder, InitTile
<1>2. IInv /\ [Next]_vars => IInv'
  BY StepShape, StepOrder, StepTile
<1>3. IInv /\ [Next]_vars => [Follows]_vars
  BY ReceivesNext
<1> QED
  BY <1>1, <1>2, <1>3, PTL DEF Spec, OpsTileImage

-----------------------------------------------------------------------------
(* Sequences of buffers and of operations.                                 *)

IsSeq(s) == \E S : s \in Seq(S)

Elements(s) == {s[i] : i \in 1..Len(s)}

Distinct(s) == \A i, k \in 1..Len(s) : s[i] = s[k] => i = k

LEMMA Adding ==
  ASSUME NEW s, IsSeq(s), NEW x, NEW t, t = Append(s, x)
  PROVE  /\ IsSeq(t) /\ Len(s) \in Nat /\ Len(t) = Len(s) + 1
         /\ \A i \in 1..Len(s) : t[i] = s[i]
         /\ t[Len(t)] = x
         /\ \A i \in 1..Len(t) : i \in 1..Len(s) \/ i = Len(t)
<1>1. PICK S : s \in Seq(S)
  BY DEF IsSeq
<1>2. s \in Seq(S \cup {x}) /\ Len(s) \in Nat
  BY <1>1, SeqMonotonic, LenProperties
<1>3. /\ t \in Seq(S \cup {x})
      /\ Len(t) = Len(s) + 1
      /\ \A i \in 1..Len(s) : t[i] = s[i]
      /\ t[Len(s) + 1] = x
  BY <1>2, AppendProperties
<1> QED
  BY <1>2, <1>3 DEF IsSeq

LEMMA Removing ==
  ASSUME NEW s, IsSeq(s), s # <<>>, NEW t, t = Tail(s)
  PROVE  /\ IsSeq(t) /\ Len(s) \in Nat \ {0} /\ Len(t) = Len(s) - 1
         /\ Head(s) = s[1]
         /\ \A i \in 1..Len(t) : t[i] = s[i + 1]
         /\ \A i \in 1..Len(s) : i = 1 \/ i - 1 \in 1..Len(t)
<1>1. PICK S : s \in Seq(S)
  BY DEF IsSeq
<1>2. /\ t \in Seq(S) /\ Len(s) \in Nat \ {0} /\ Len(t) = Len(s) - 1
      /\ \A i \in 1..Len(t) : t[i] = s[i + 1]
  BY <1>1, EmptySeq, HeadTailProperties
<1>3. Head(s) = s[1]
  BY <1>1, <1>2
<1> QED
  BY <1>2, <1>3 DEF IsSeq

LEMMA AddingElements ==
  ASSUME NEW s, IsSeq(s), NEW x, NEW t, t = Append(s, x)
  PROVE  /\ Elements(t) = Elements(s) \cup {x}
         /\ Distinct(s) /\ x \notin Elements(s) => Distinct(t)
<1>1. /\ Len(s) \in Nat /\ Len(t) = Len(s) + 1
      /\ \A i \in 1..Len(s) : t[i] = s[i]
      /\ t[Len(t)] = x
      /\ \A i \in 1..Len(t) : i \in 1..Len(s) \/ i = Len(t)
  BY Adding
<1>2. Len(t) \in 1..Len(t) /\ \A i \in 1..Len(s) : i \in 1..Len(t)
  BY <1>1
<1>3. Elements(t) = Elements(s) \cup {x}
  BY <1>1, <1>2 DEF Elements
<1>4. ASSUME Distinct(s), x \notin Elements(s)
      PROVE  Distinct(t)
  BY <1>1, <1>4 DEF Distinct, Elements
<1> QED
  BY <1>3, <1>4

LEMMA RemovingElements ==
  ASSUME NEW s, IsSeq(s), s # <<>>, Distinct(s), NEW t, t = Tail(s)
  PROVE  /\ Head(s) \in Elements(s) /\ Elements(t) = Elements(s) \ {Head(s)}
         /\ Distinct(t)
<1>1. /\ Len(s) \in Nat \ {0} /\ Len(t) = Len(s) - 1
      /\ Head(s) = s[1]
      /\ \A i \in 1..Len(t) : t[i] = s[i + 1]
      /\ \A i \in 1..Len(s) : i = 1 \/ i - 1 \in 1..Len(t)
  BY Removing
<1>2. 1 \in 1..Len(s) /\ \A i \in 1..Len(t) : i + 1 \in 1..Len(s) /\ i + 1 # 1
  BY <1>1
<1>3. Head(s) \in Elements(s)
  BY <1>1, <1>2 DEF Elements
<1>4. ASSUME NEW x \in Elements(t)
      PROVE  x \in Elements(s) \ {Head(s)}
  <2>1. PICK i \in 1..Len(t) : x = t[i]
    BY <1>4 DEF Elements
  <2>2. x = s[i + 1] /\ i + 1 \in 1..Len(s) /\ i + 1 # 1
    BY <1>1, <1>2, <2>1
  <2> QED
    BY <1>1, <1>2, <2>2 DEF Elements, Distinct
<1>5. ASSUME NEW x \in Elements(s), x # Head(s)
      PROVE  x \in Elements(t)
  <2>1. PICK i \in 1..Len(s) : x = s[i]
    BY <1>5 DEF Elements
  <2>2. i - 1 \in 1..Len(t) /\ (i - 1) + 1 = i
    BY <1>1, <1>5, <2>1
  <2>3. t[i - 1] = x
    BY <1>1, <2>1, <2>2
  <2> QED
    BY <2>2, <2>3 DEF Elements
<1>6. Distinct(t)
  <2> SUFFICES ASSUME NEW i \in 1..Len(t), NEW k \in 1..Len(t), t[i] = t[k] PROVE i = k
    BY DEF Distinct
  <2>1. i + 1 = k + 1
    BY <1>1, <1>2 DEF Distinct
  <2> QED
    BY <2>1
<1> QED
  BY <1>3, <1>4, <1>5, <1>6

(* The pool the pipeline starts with holds every buffer once.              *)
LEMMA FirstPool ==
  /\ SetToSeq(Buffers) \in Seq(Buffers)
  /\ Elements(SetToSeq(Buffers)) = Buffers
  /\ Distinct(SetToSeq(Buffers))
<1> DEFINE n == Cardinality(Buffers)
           f == SetToSeq(Buffers)
<1>1. n \in Nat /\ ExistsBijection(1..n, Buffers)
  BY PoolAssumption, FS_CardinalityType
<1>2. \E g \in [1..n -> Buffers] : IsInjective(g)
  BY <1>1 DEF ExistsBijection, Bijection, Injection
<1>3. f \in [1..n -> Buffers] /\ IsInjective(f)
  BY <1>2 DEF SetToSeq
<1>4. IsFiniteSet(1..n) /\ Cardinality(1..n) = n
  BY <1>1, FS_Interval
<1> HIDE DEF f
<1>5. f \in Surjection(1..n, Buffers)
  <2>1. f \in Injection(1..n, Buffers)
    BY <1>3 DEF Injection
  <2> HIDE DEF n
  <2> QED
    BY <1>4, <2>1, PoolAssumption, FS_Injection DEF n
<1>6. f \in Seq(Buffers) /\ Len(f) = n
  BY <1>1, <1>3
<1>7. Elements(f) = Buffers
  <2>1. \A b \in Buffers : \E i \in 1..n : f[i] = b
    BY <1>5 DEF Surjection
  <2> HIDE DEF n
  <2> QED
    BY <1>3, <1>6, <2>1 DEF Elements
<1>8. Distinct(f)
  BY <1>3, <1>6 DEF Distinct, IsInjective
<1> QED
  BY <1>6, <1>7, <1>8 DEF f

-----------------------------------------------------------------------------
(* Who owns a buffer.                                                      *)

OpBuffers == Buffers \cup {Gap}

Sent == Elements(ChannelOf)

(* Each thread has the buffer that its position calls for, and a result    *)
(* once it has returned.                                                   *)
Placed ==
  /\ rd.at \in {"plan", "range", "await", "fill", "send", "gap", "next", "ended"}
  /\ rd.buf \in IF rd.at \in {"fill", "send"} THEN Buffers ELSE {NoBuffer}
  /\ rd.at = "send" => rd.op.buf = rd.buf
  /\ rd.at = "gap" => rd.op.buf = Gap
  /\ wr.at = "work" => wr.op.buf \in OpBuffers
  /\ wr.at = "joined" => rd.at = "ended"
  /\ rd.at = "ended" => rd.ret # "none"
  /\ wr.at \in {"closing", "rxDropped", "joining", "joined"} => wr.ret \in {"ok", "Io"}

InTransit ==
  /\ pool \in Seq(Buffers)
  /\ IsSeq(chan)
  /\ \A i \in 1..Len(chan) : chan[i].buf \in OpBuffers

SentOnce ==
  \A i, k \in 1..Len(chan) : chan[i].buf = chan[k].buf /\ chan[i].buf # Gap => i = k

(* No buffer is in two places.                                             *)
InOnePlace ==
  /\ Distinct(pool)
  /\ SentOnce
  /\ PoolOf \cap Sent = {}
  /\ rd.buf \in Buffers => rd.buf \notin PoolOf \cup Sent
  /\ CurrentOf \in Buffers => CurrentOf \notin PoolOf \cup Sent
  /\ rd.buf = CurrentOf => rd.buf \notin Buffers

OwnerInv == Placed /\ InTransit /\ InOnePlace

(* The cardinality Pipeline counts with is this module's.                  *)
LEMMA SameCardinality == Threads!Cardinality(Buffers) = Cardinality(Buffers)
  BY Zenon DEF Cardinality, Threads!Cardinality

LEMMA ChannelFacts ==
  ASSUME InTransit
  PROVE  /\ ChannelOf \in Seq(OpBuffers) /\ Len(ChannelOf) = Len(chan) /\ Len(chan) \in Nat
         /\ \A i \in 1..Len(chan) : ChannelOf[i] = chan[i].buf
         /\ Sent \subseteq OpBuffers
         /\ Sent = {chan[i].buf : i \in 1..Len(chan)}
         /\ PoolOf = Elements(pool) /\ PoolOf \subseteq Buffers
<1>1. Len(chan) \in Nat
  BY LenProperties DEF InTransit, IsSeq
<1>2. ChannelOf \in [1..Len(chan) -> OpBuffers]
  BY DEF InTransit, ChannelOf
<1>3. ChannelOf \in Seq(OpBuffers) /\ Len(ChannelOf) = Len(chan)
  BY <1>1, <1>2
<1>4. \A i \in 1..Len(chan) : ChannelOf[i] = chan[i].buf
  BY DEF ChannelOf
<1>5. Sent = {chan[i].buf : i \in 1..Len(chan)}
  BY <1>3, <1>4 DEF Sent, Elements
<1>6. Sent \subseteq OpBuffers
  BY <1>5 DEF InTransit
<1>7. PoolOf = Elements(pool)
  BY DEF PoolOf, Elements
<1>8. PoolOf \subseteq Buffers
  BY ElementOfSeq DEF PoolOf, InTransit
<1> QED
  BY <1>1, <1>3, <1>4, <1>5, <1>6, <1>7, <1>8

(* Sending an operation sends its buffer.                                  *)
LEMMA SendingBuffers ==
  ASSUME InTransit, NEW op, op.buf \in OpBuffers, chan' = Append(chan, op)
  PROVE  /\ IsSeq(chan') /\ \A i \in 1..Len(chan') : chan'[i].buf \in OpBuffers
         /\ ChannelOf' = Append(ChannelOf, op.buf)
         /\ Sent' = Sent \cup {op.buf}
         /\ SentOnce /\ (op.buf = Gap \/ op.buf \notin Sent) => SentOnce'
<1>1. /\ IsSeq(chan') /\ Len(chan) \in Nat /\ Len(chan') = Len(chan) + 1
      /\ \A i \in 1..Len(chan) : chan'[i] = chan[i]
      /\ chan'[Len(chan')] = op
      /\ \A i \in 1..Len(chan') : i \in 1..Len(chan) \/ i = Len(chan')
  <2>1. IsSeq(chan) /\ chan' = Append(chan, op)
    BY DEF InTransit
  <2> QED
    BY <2>1, Adding
<1>2. \A i \in 1..Len(chan') : chan'[i].buf \in OpBuffers
  BY <1>1 DEF InTransit
<1>3. /\ ChannelOf \in Seq(OpBuffers) /\ Len(ChannelOf) = Len(chan)
      /\ \A i \in 1..Len(chan) : ChannelOf[i] = chan[i].buf
      /\ Sent = {chan[i].buf : i \in 1..Len(chan)}
  BY ChannelFacts
<1>4. ChannelOf' = [i \in 1..Len(chan') |-> chan'[i].buf]
  BY DEF ChannelOf
<1> DEFINE sent == Append(ChannelOf, op.buf)
<1>5. /\ sent \in Seq(OpBuffers) /\ Len(sent) = Len(chan')
      /\ \A i \in 1..Len(chan) : sent[i] = chan[i].buf
      /\ sent[Len(chan')] = op.buf
  BY <1>1, <1>3, AppendProperties
<1> HIDE DEF sent
<1>6. ChannelOf' = sent
  <2>1. sent = [i \in 1..Len(chan') |-> sent[i]]
    BY <1>5, LenProperties
  <2>2. \A i \in 1..Len(chan') : sent[i] = chan'[i].buf
    BY <1>1, <1>5
  <2> QED
    BY <1>4, <2>1, <2>2
<1>7. Sent' = Sent \cup {op.buf}
  <2>1. Sent' = Elements(sent)
    BY <1>6 DEF Sent, Elements
  <2>2. IsSeq(ChannelOf) /\ sent = Append(ChannelOf, op.buf)
    BY <1>3 DEF IsSeq, sent
  <2> QED
    BY <2>1, <2>2, AddingElements DEF Sent
<1>8. ASSUME SentOnce, op.buf = Gap \/ op.buf \notin Sent
      PROVE  SentOnce'
  <2>1. \A i \in 1..Len(chan) : chan[i].buf = op.buf => op.buf = Gap
    BY <1>3, <1>8
  <2> QED
    BY <1>1, <1>8, <2>1 DEF SentOnce
<1> QED
  BY <1>1, <1>2, <1>6, <1>7, <1>8 DEF sent

(* Receiving an operation receives its buffer.                             *)
LEMMA ReceivingBuffers ==
  ASSUME InTransit, SentOnce, chan # <<>>, chan' = Tail(chan)
  PROVE  /\ IsSeq(chan') /\ \A i \in 1..Len(chan') : chan'[i].buf \in OpBuffers
         /\ ChannelOf # <<>> /\ ChannelOf' = Tail(ChannelOf) /\ Head(ChannelOf) = Head(chan).buf
         /\ Head(chan).buf \in Sent /\ Sent' \subseteq Sent
         /\ Head(chan).buf \in Buffers => Head(chan).buf \notin Sent'
         /\ SentOnce'
<1>1. /\ IsSeq(chan') /\ Len(chan) \in Nat \ {0} /\ Len(chan') = Len(chan) - 1
      /\ Head(chan) = chan[1]
      /\ \A i \in 1..Len(chan') : chan'[i] = chan[i + 1]
  BY Removing DEF InTransit
<1>2. 1 \in 1..Len(chan) /\ \A i \in 1..Len(chan') : i + 1 \in 1..Len(chan) /\ i + 1 # 1
  BY <1>1
<1>3. \A i \in 1..Len(chan') : chan'[i].buf \in OpBuffers
  BY <1>1, <1>2 DEF InTransit
<1>4. /\ ChannelOf \in Seq(OpBuffers) /\ Len(ChannelOf) = Len(chan)
      /\ \A i \in 1..Len(chan) : ChannelOf[i] = chan[i].buf
      /\ Sent = {chan[i].buf : i \in 1..Len(chan)}
  BY ChannelFacts
<1>5. ChannelOf' = [i \in 1..Len(chan') |-> chan'[i].buf]
  BY DEF ChannelOf
<1>6. ChannelOf # <<>>
  BY <1>1, <1>4, EmptySeq
<1> DEFINE rest == Tail(ChannelOf)
<1>7. IsSeq(ChannelOf) /\ rest = Tail(ChannelOf)
  BY <1>4 DEF IsSeq
<1> HIDE DEF rest
<1>8. /\ IsSeq(rest) /\ Len(rest) = Len(chan') /\ Head(ChannelOf) = ChannelOf[1]
      /\ \A i \in 1..Len(chan') : rest[i] = ChannelOf[i + 1]
  <2>1. /\ IsSeq(rest) /\ Len(rest) = Len(ChannelOf) - 1 /\ Head(ChannelOf) = ChannelOf[1]
        /\ \A i \in 1..Len(rest) : rest[i] = ChannelOf[i + 1]
    BY <1>6, <1>7, Removing
  <2> QED
    BY <1>1, <1>4, <2>1
<1>9. ChannelOf' = rest
  <2>1. rest = [i \in 1..Len(chan') |-> rest[i]]
    BY <1>8, LenProperties DEF IsSeq
  <2>2. \A i \in 1..Len(chan') : rest[i] = chan'[i].buf
    BY <1>1, <1>2, <1>4, <1>8
  <2> QED
    BY <1>5, <2>1, <2>2
<1>10. Sent' = {chan'[i].buf : i \in 1..Len(chan')}
  <2>1. Sent' = {rest[i] : i \in 1..Len(rest)}
    BY <1>9 DEF Sent, Elements
  <2>2. \A i \in 1..Len(chan') : rest[i] = chan'[i].buf
    BY <1>5, <1>9
  <2> QED
    BY SMTT(30), <1>8, <2>1, <2>2
<1>11. Head(chan).buf \in Sent /\ Sent' \subseteq Sent
  BY <1>1, <1>2, <1>4, <1>10
<1>12. Head(chan).buf \in Buffers => Head(chan).buf \notin Sent'
  BY <1>1, <1>2, <1>10, MarkerAssumption DEF SentOnce
<1>13. SentOnce'
  <2> SUFFICES ASSUME NEW i \in 1..Len(chan'), NEW k \in 1..Len(chan'),
                      chan'[i].buf = chan'[k].buf, chan'[i].buf # Gap
               PROVE  i = k
    BY DEF SentOnce
  <2>1. i + 1 = k + 1
    BY <1>1, <1>2 DEF SentOnce
  <2> QED
    BY <2>1
<1> QED
  BY <1>1, <1>2, <1>3, <1>4, <1>6, <1>8, <1>9, <1>11, <1>12, <1>13 DEF rest

-----------------------------------------------------------------------------
(* The initial state, and steps that neither thread of Pipeline notices.   *)

LEMMA InitOwner == Init => OwnerInv /\ Threads!Init
<1> SUFFICES ASSUME Init PROVE OwnerInv /\ Threads!Init
  OBVIOUS
<1>1. /\ chan = <<>> /\ pool = SetToSeq(Buffers) /\ rd.at \in {"plan", "next"}
      /\ rd.buf = NoBuffer /\ rd.ret = "none" /\ wr.at = "recv" /\ wr.ret = "none"
      /\ ~cut /\ ~dropped /\ cut \in BOOLEAN /\ dropped \in BOOLEAN
  BY DEF Init
<1>2. IsSeq(chan) /\ Len(chan) = 0
  BY <1>1, EmptySeq DEF IsSeq
<1>3. pool \in Seq(Buffers) /\ Elements(pool) = Buffers /\ Distinct(pool)
  BY <1>1, FirstPool
<1>4. Placed /\ InTransit
  BY <1>1, <1>2, <1>3 DEF Placed, InTransit
<1>5. Sent = {} /\ PoolOf = Buffers
  BY <1>2, <1>3, <1>4, ChannelFacts
<1>6. CurrentOf = NoBuffer
  BY <1>1 DEF CurrentOf
<1>7. InOnePlace
  BY <1>1, <1>2, <1>3, <1>5, <1>6, MarkerAssumption DEF InOnePlace, SentOnce
<1>8. ChannelOf = <<>>
  BY <1>2, <1>4, ChannelFacts, EmptySeq
<1>9. ReaderIn = "plan" /\ OutcomeOf = "none" /\ ReturnedAs(rd.ret) = "none"
      /\ ReturnedAs(wr.ret) = "none"
  BY <1>1 DEF ReaderIn, OutcomeOf, ReturnedAs
<1>10. Threads!Init
  BY <1>1, <1>5, <1>6, <1>8, <1>9 DEF Threads!Init
<1> QED
  BY <1>4, <1>7, <1>10 DEF OwnerInv

(* Nothing moves between the threads.                                      *)
LEMMA StaysInPlace ==
  ASSUME OwnerInv, UNCHANGED <<chan, pool, rd.buf, CurrentOf>>
  PROVE  /\ InTransit' /\ InOnePlace'
         /\ UNCHANGED <<ChannelOf, PoolOf, Sent>>
<1>1. UNCHANGED <<ChannelOf, PoolOf>>
  BY DEF ChannelOf, PoolOf
<1>2. UNCHANGED Sent
  BY <1>1 DEF Sent, Elements
<1> QED
  BY <1>1, <1>2 DEF OwnerInv, InTransit, InOnePlace, SentOnce, Distinct, IsSeq

(* The threads of Pipeline see nothing of what copy does on its own.       *)
LEMMA OthersStutter ==
  ASSUME OwnerInv, UNCHANGED <<threadVars>>
  PROVE  OwnerInv' /\ UNCHANGED Threads!vars
<1>1. UNCHANGED <<rd, wr, chan, pool, cut, dropped>>
  BY DEF threadVars
<1>2. UNCHANGED <<CurrentOf, ReaderIn, OutcomeOf, ReturnedAs(rd.ret), ReturnedAs(wr.ret)>>
  BY <1>1 DEF CurrentOf, CarriesBuffer, ReaderIn, OutcomeOf, ReturnedAs
<1>3. InTransit' /\ InOnePlace' /\ UNCHANGED <<ChannelOf, PoolOf>>
  BY <1>1, <1>2, StaysInPlace
<1>4. Placed'
  BY <1>1 DEF OwnerInv, Placed
<1> QED
  BY <1>1, <1>2, <1>3, <1>4 DEF OwnerInv, Threads!vars, Threads!readerVars, Threads!writerVars

-----------------------------------------------------------------------------
(* The reader.                                                             *)

(* What the reader leaves alone of the writer of Pipeline.                 *)
LEMMA ReaderFrame ==
  ASSUME Shape, OwnerInv, Reader
  PROVE  UNCHANGED <<wr, wr.at, wr.op, CurrentOf, ReturnedAs(wr.ret), OutcomeOf>>
<1>1. UNCHANGED wr /\ rd.at # "ended"
  BY ReaderKeeps, ReaderMoves DEF readerFrame
<1>2. wr.at # "joined"
  BY <1>1 DEF OwnerInv, Placed
<1> QED
  BY <1>1, <1>2 DEF CurrentOf, CarriesBuffer, ReturnedAs, OutcomeOf

(* The reader returns, and what it owned goes.                             *)
LEMMA EndsOwner ==
  ASSUME Shape, OwnerInv, NEW r, r # "none", ReaderEnds(r), UNCHANGED <<chan, wr>>
  PROVE  /\ OwnerInv'
         /\ ReaderIn' = "ended" /\ ReturnedAs(rd.ret)' = ReturnedAs(r)
         /\ rd'.buf = NoBuffer /\ PoolOf' = {} /\ ChannelOf' = ChannelOf
<1>1. rd'.at = "ended" /\ rd'.ret = r /\ rd'.buf = NoBuffer /\ pool' = <<>>
  BY DEF ReaderEnds, Shape, ReaderFields
<1>2. pool' \in Seq(Buffers) /\ Len(pool') = 0
  BY <1>1, EmptySeq
<1>3. PoolOf' = {} /\ ChannelOf' = ChannelOf
  BY <1>2 DEF PoolOf, ChannelOf
<1>4. UNCHANGED <<Sent, CurrentOf>>
  BY <1>3 DEF Sent, Elements, CurrentOf, CarriesBuffer
<1>5. Placed'
  BY <1>1 DEF OwnerInv, Placed
<1>6. InTransit'
  BY <1>2 DEF OwnerInv, InTransit, IsSeq
<1>7. InOnePlace'
  BY <1>1, <1>2, <1>3, <1>4, MarkerAssumption DEF OwnerInv, InOnePlace, SentOnce, Distinct
<1>8. ReaderIn' = "ended" /\ ReturnedAs(rd.ret)' = ReturnedAs(r)
  BY <1>1 DEF ReaderIn, ReturnedAs
<1> QED
  BY <1>1, <1>3, <1>5, <1>6, <1>7, <1>8 DEF OwnerInv

LEMMA ReaderImplements ==
  ASSUME Shape, OwnerInv, Reader
  PROVE  OwnerInv' /\ [Threads!Next]_(Threads!vars)
<1>1. UNCHANGED <<wr, wr.at, wr.op, CurrentOf, ReturnedAs(wr.ret), OutcomeOf>>
  BY ReaderFrame
<1>2. Placed /\ InTransit /\ InOnePlace
  BY DEF OwnerInv
<1>3. UNCHANGED Threads!writerVars
  BY <1>1 DEF Threads!writerVars
<1> USE DEF Threads!Next, Threads!Reader, Threads!readerVars, Threads!vars
<1>4. ASSUME UNCHANGED <<chan, pool, rd.buf>>
      PROVE  InTransit' /\ InOnePlace' /\ UNCHANGED <<ChannelOf, PoolOf>>
  BY <1>1, <1>4, StaysInPlace
<1>5. CASE MeetGap
  <2>1. /\ rd.at = "plan" /\ rd'.at = "gap" /\ rd'.op.buf = Gap /\ rd'.buf = rd.buf
        /\ rd'.ret = rd.ret /\ UNCHANGED <<chan, pool, cut, dropped>>
    BY <1>5 DEF MeetGap, ReaderStep, GapOp, Shape, ReaderFields
  <2>2. OwnerInv' /\ UNCHANGED <<ChannelOf, PoolOf>>
    BY <1>1, <1>2, <1>4, <2>1 DEF OwnerInv, Placed
  <2>3. Threads!MeetGap
    BY <1>3, <2>1, <2>2 DEF Threads!MeetGap, ReaderIn, ReturnedAs
  <2> QED
    BY <2>2, <2>3
<1>6. CASE ReportGap
  <2>1. /\ rd.at = "gap" /\ rd.op.buf = Gap /\ RxOpen /\ Len(chan) < Cardinality(Buffers)
        /\ chan' = Append(chan, rd.op) /\ rd'.at = "range" /\ rd'.buf = rd.buf
        /\ rd'.ret = rd.ret /\ UNCHANGED <<pool, cut, dropped>>
    BY <1>2, <1>6 DEF ReportGap, ReaderStep, QueueDepth, Placed, Shape, ReaderFields
  <2>2. /\ IsSeq(chan') /\ \A i \in 1..Len(chan') : chan'[i].buf \in OpBuffers
        /\ ChannelOf' = Append(ChannelOf, Gap) /\ Sent' = Sent \cup {Gap} /\ SentOnce'
    BY <1>2, <2>1, SendingBuffers DEF OpBuffers, InOnePlace
  <2>3. PoolOf' = PoolOf /\ PoolOf \subseteq Buffers /\ Len(ChannelOf) = Len(chan)
    BY <1>2, <2>1, ChannelFacts DEF PoolOf
  <2>4. Placed' /\ InTransit'
    BY <1>1, <1>2, <2>1, <2>2 DEF Placed, InTransit
  <2>5. InOnePlace'
    BY <1>1, <1>2, <2>1, <2>2, <2>3, MarkerAssumption DEF InOnePlace, Distinct
  <2>6. Threads!RxOpen
    BY <2>1 DEF Threads!RxOpen, Threads!Streaming, RxOpen
  <2>7. Len(ChannelOf) < Threads!QueueDepth
    BY <2>1, <2>3, SameCardinality, Zenon DEF Threads!QueueDepth
  <2>8. ReaderIn = "gap" /\ ReaderIn' = "range" /\ UNCHANGED ReturnedAs(rd.ret)
    BY <2>1 DEF ReaderIn, ReturnedAs
  <2>9. ChannelOf' = Append(ChannelOf, Gap) /\ UNCHANGED <<rd.buf, PoolOf, cut, dropped>>
    BY <2>1, <2>2, <2>3
  <2>10. Threads!ReportGap
    BY <1>3, <2>6, <2>7, <2>8, <2>9, Zenon DEF Threads!ReportGap
  <2> QED
    BY <2>4, <2>5, <2>10 DEF OwnerInv
<1>7. CASE ReportGapClosed
  <2>1. /\ rd.at = "gap" /\ ~RxOpen /\ rd'.at = "range" /\ rd'.buf = rd.buf
        /\ rd'.ret = rd.ret /\ cut' = TRUE /\ dropped' = TRUE /\ UNCHANGED <<chan, pool>>
    BY <1>7 DEF ReportGapClosed, ReaderStep, Shape, ReaderFields
  <2>2. OwnerInv' /\ UNCHANGED <<ChannelOf, PoolOf>>
    BY <1>1, <1>2, <1>4, <2>1 DEF OwnerInv, Placed
  <2>3. Threads!ReportGapClosed
    BY <1>3, <2>1, <2>2 DEF Threads!ReportGapClosed, Threads!RxOpen, Threads!Streaming, RxOpen,
       ReaderIn, ReturnedAs
  <2> QED
    BY <2>2, <2>3
<1>8. ASSUME rd.at \in {"plan", "range", "fill", "next"}, UNCHANGED <<chan, cut, dropped>>,
             NEW r, r # "none", ReaderEnds(r), ReturnedAs(r) \in {"ok", "err", "panic"}
      PROVE  OwnerInv' /\ [Threads!Next]_(Threads!vars)
  <2>1. /\ OwnerInv' /\ ReaderIn' = "ended" /\ ReturnedAs(rd.ret)' = ReturnedAs(r)
        /\ rd'.buf = NoBuffer /\ PoolOf' = {} /\ ChannelOf' = ChannelOf
    BY <1>1, <1>8, EndsOwner
  <2>2. ReaderIn \in {"plan", "range", "fill"}
    BY <1>8 DEF ReaderIn
  <2>3. Threads!ReaderReturns
    BY <1>3, <1>8, <2>1, <2>2 DEF Threads!ReaderReturns, Threads!ReaderEnds
  <2> QED
    BY <2>1, <2>3
<1>9. CASE PlanDone \/ ReadEnds \/ ReadFails \/ ReaderPanics
  <2>1. rd.at \in {"plan", "range", "fill", "next"} /\ UNCHANGED <<chan, cut, dropped>>
    BY <1>9 DEF PlanDone, ReadEnds, ReadFails, ReaderPanics, PastGap, ReaderStep
  <2>2. \E r \in {"ok", "ShortImage", "Io", "panic"} : ReaderEnds(r)
    BY <1>9 DEF PlanDone, ReadEnds, ReadFails, ReaderPanics
  <2>3. PICK r \in {"ok", "ShortImage", "Io", "panic"} : ReaderEnds(r)
    BY <2>2
  <2>4. ReturnedAs(r) \in {"ok", "err", "panic"}
    BY <2>3 DEF ReturnedAs
  <2> QED
    BY <1>8, <2>1, <2>3, <2>4
<1>10. ASSUME rd.at \in {"plan", "range", "next"}, rd'.at = "await", rd'.buf = rd.buf,
              rd'.ret = rd.ret, UNCHANGED <<chan, pool, cut, dropped>>
       PROVE  OwnerInv' /\ [Threads!Next]_(Threads!vars)
  <2>1. OwnerInv' /\ UNCHANGED <<ChannelOf, PoolOf>>
    BY <1>1, <1>2, <1>4, <1>10 DEF OwnerInv, Placed
  <2>2. ReaderIn \in {"plan", "range"} /\ ReaderIn' = "await"
    BY <1>10 DEF ReaderIn
  <2>3. Threads!WantBuffer
    BY <1>3, <1>10, <2>1, <2>2 DEF Threads!WantBuffer, ReturnedAs
  <2> QED
    BY <2>1, <2>3
<1>11. CASE EnterRange
  <2> DEFINE start == RangeStart(Entry(rd.range))
  <2>1. rd.at \in {"plan", "range"} /\ UNCHANGED <<chan, cut, dropped>>
    BY <1>11 DEF EnterRange, PastGap, ReaderStep
  <2>2. CASE SkipTo(start) = "ok"
    <3>1. rd' = [rd EXCEPT !.at = "await", !.off = start, !.pos = start,
                           !.unmapped = Entry(rd.range).last + 1] /\ pool' = pool
      BY <1>11, <2>2, Zenon DEF EnterRange
    <3>2. rd'.at = "await" /\ rd'.buf = rd.buf /\ rd'.ret = rd.ret
      BY <3>1 DEF Shape, ReaderFields
    <3> QED
      BY <1>10, <2>1, <3>1, <3>2
  <2>3. CASE SkipTo(start) # "ok"
    <3>1. ReaderEnds(SkipTo(start))
      BY <1>11, <2>3, Zenon DEF EnterRange
    <3>2. SkipTo(start) \in {"NotSeekable", "ShortImage"}
      BY <2>3 DEF SkipTo
    <3>3. PICK r \in {"NotSeekable", "ShortImage"} : ReaderEnds(r)
      BY <3>1, <3>2
    <3>4. ReturnedAs(r) = "err"
      BY <3>3 DEF ReturnedAs
    <3> QED
      BY <1>8, <2>1, <3>3, <3>4
  <2> QED
    BY <2>2, <2>3
<1>12. CASE NextBatch
  <2>1. rd.at = "next" /\ rd'.at = "await" /\ rd'.buf = rd.buf /\ rd'.ret = rd.ret
        /\ UNCHANGED <<chan, pool, cut, dropped>>
    BY <1>12 DEF NextBatch, ReaderStep, Shape, ReaderFields
  <2> QED
    BY <1>10, <2>1
<1>13. CASE TakeBuffer
  <2>1. /\ rd.at = "await" /\ pool # <<>> /\ pool' = Tail(pool) /\ rd'.at = "fill"
        /\ rd'.buf = Head(pool) /\ rd'.ret = rd.ret /\ UNCHANGED <<chan, cut, dropped>>
    BY <1>13 DEF TakeBuffer, ReaderStep, Shape, ReaderFields
  <2>2. PoolOf = Elements(pool) /\ PoolOf \subseteq Buffers /\ PoolOf' = Elements(pool')
    BY <1>2, ChannelFacts DEF PoolOf, Elements
  <2>3. IsSeq(pool) /\ Distinct(pool)
    BY <1>2 DEF IsSeq, InTransit, InOnePlace
  <2>4. Head(pool) \in PoolOf /\ PoolOf' = PoolOf \ {Head(pool)} /\ Distinct(pool')
    BY <2>1, <2>2, <2>3, RemovingElements
  <2>5. pool' \in Seq(Buffers) /\ Head(pool) \in Buffers
    BY <1>2, <2>1, HeadTailProperties DEF InTransit
  <2>6. UNCHANGED <<ChannelOf, Sent>>
    BY <2>1 DEF ChannelOf, Sent, Elements
  <2>7. Placed' /\ InTransit'
    BY <1>1, <1>2, <2>1, <2>5 DEF Placed, InTransit, IsSeq
  <2>8. InOnePlace'
    BY <1>1, <1>2, <2>1, <2>4, <2>6 DEF InOnePlace, SentOnce
  <2>9. Threads!TakeBuffer
    BY <1>3, <2>1, <2>4, <2>6 DEF Threads!TakeBuffer, ReaderIn, ReturnedAs
  <2> QED
    BY <2>7, <2>8, <2>9 DEF OwnerInv
<1>14. CASE PoolClosed
  <2>1. /\ rd.at = "await" /\ pool = <<>> /\ ~PoolTxOpen /\ ReaderEnds("ok") /\ cut' = TRUE
        /\ UNCHANGED <<chan, dropped>>
    BY <1>14 DEF PoolClosed, ReaderStep
  <2>2. /\ OwnerInv' /\ ReaderIn' = "ended" /\ ReturnedAs(rd.ret)' = ReturnedAs("ok")
        /\ rd'.buf = NoBuffer /\ PoolOf' = {} /\ ChannelOf' = ChannelOf
    BY <1>1, <2>1, EndsOwner
  <2>3. PoolOf = {}
    BY <2>1, EmptySeq DEF PoolOf
  <2>4. Threads!PoolClosed
    BY <1>3, <2>1, <2>2, <2>3 DEF Threads!PoolClosed, Threads!ReaderEnds, Threads!PoolTxOpen,
       Threads!RxOpen, Threads!Streaming, PoolTxOpen, RxOpen, ReaderIn, ReturnedAs
  <2> QED
    BY <2>2, <2>4
<1>15. CASE ReadBatch
  <2>1. /\ rd.at = "fill" /\ rd'.at = "send" /\ rd'.buf = rd.buf /\ rd'.ret = rd.ret
        /\ rd'.op.buf = rd.buf /\ UNCHANGED <<chan, pool, cut, dropped>>
    BY <1>15 DEF ReadBatch, ReaderStep, Shape, ReaderFields
  <2>2. OwnerInv' /\ UNCHANGED <<ChannelOf, PoolOf>>
    BY <1>1, <1>2, <1>4, <2>1 DEF OwnerInv, Placed
  <2>3. Threads!FillBuffer
    BY <1>3, <2>1, <2>2 DEF Threads!FillBuffer, ReaderIn, ReturnedAs
  <2> QED
    BY <2>2, <2>3
<1>16. CASE SendBatch
  <2>1. /\ rd.at = "send" /\ RxOpen /\ Len(chan) < Cardinality(Buffers)
        /\ chan' = Append(chan, rd.op) /\ rd'.at = "next" /\ rd'.buf = NoBuffer
        /\ rd'.ret = rd.ret /\ UNCHANGED <<pool, cut, dropped>>
    BY <1>16 DEF SendBatch, ReaderStep, QueueDepth, Shape, ReaderFields
  <2>2. rd.op.buf = rd.buf /\ rd.buf \in Buffers
    BY <1>2, <2>1 DEF Placed
  <2>3. /\ IsSeq(chan') /\ \A i \in 1..Len(chan') : chan'[i].buf \in OpBuffers
        /\ ChannelOf' = Append(ChannelOf, rd.buf) /\ Sent' = Sent \cup {rd.buf} /\ SentOnce'
    BY <1>2, <2>1, <2>2, SendingBuffers DEF OpBuffers, InOnePlace
  <2>4. PoolOf' = PoolOf /\ Len(ChannelOf) = Len(chan)
    BY <1>2, <2>1, ChannelFacts DEF PoolOf
  <2>5. Placed' /\ InTransit'
    BY <1>1, <1>2, <2>1, <2>3 DEF Placed, InTransit
  <2>6. InOnePlace'
    BY <1>1, <1>2, <2>1, <2>2, <2>3, <2>4, MarkerAssumption DEF InOnePlace, Distinct
  <2>7. Threads!RxOpen
    BY <2>1 DEF Threads!RxOpen, Threads!Streaming, RxOpen
  <2>8. Len(ChannelOf) < Threads!QueueDepth
    BY <2>1, <2>4, SameCardinality, Zenon DEF Threads!QueueDepth
  <2>9. ReaderIn = "send" /\ ReaderIn' = "plan" /\ UNCHANGED ReturnedAs(rd.ret)
    BY <2>1 DEF ReaderIn, ReturnedAs
  <2>10. ChannelOf' = Append(ChannelOf, rd.buf) /\ rd'.buf = NoBuffer
         /\ UNCHANGED <<PoolOf, cut, dropped>>
    BY <2>1, <2>3, <2>4
  <2>11. Threads!SendBatch
    BY <1>3, <2>7, <2>8, <2>9, <2>10, Zenon DEF Threads!SendBatch
  <2> QED
    BY <2>5, <2>6, <2>11 DEF OwnerInv
<1>17. CASE SendBatchClosed
  <2>1. /\ rd.at = "send" /\ ~RxOpen /\ ReaderEnds("ok") /\ cut' = TRUE /\ dropped' = TRUE
        /\ UNCHANGED chan
    BY <1>17 DEF SendBatchClosed, ReaderStep
  <2>2. /\ OwnerInv' /\ ReaderIn' = "ended" /\ ReturnedAs(rd.ret)' = ReturnedAs("ok")
        /\ rd'.buf = NoBuffer /\ PoolOf' = {} /\ ChannelOf' = ChannelOf
    BY <1>1, <2>1, EndsOwner
  <2>3. Threads!SendBatchClosed
    BY <1>3, <2>1, <2>2 DEF Threads!SendBatchClosed, Threads!ReaderEnds, Threads!RxOpen,
       Threads!Streaming, RxOpen, ReaderIn, ReturnedAs
  <2> QED
    BY <2>2, <2>3
<1>18. CASE CloseRange
  <2>1. rd.at = "next" /\ UNCHANGED <<chan, cut, dropped>>
    BY <1>18 DEF CloseRange, ReaderStep
  <2>2. CASE Checked(rd.range) /\ Entry(rd.range).sum = "bad"
    <3>1. ReaderEnds("RangeChecksum")
      BY <1>18, <2>2, Zenon DEF CloseRange
    <3>2. ReturnedAs("RangeChecksum") = "err"
      BY DEF ReturnedAs
    <3> QED
      BY <1>8, <2>1, <3>1, <3>2
  <2>3. CASE ~(Checked(rd.range) /\ Entry(rd.range).sum = "bad")
    <3>1. rd' = [rd EXCEPT !.at = "plan", !.range = rd.range + 1,
                           !.blocks = rd.blocks + RangeBlocks(rd.range)] /\ pool' = pool
      BY <1>18, <2>3, Zenon DEF CloseRange
    <3>2. rd'.at = "plan" /\ rd'.buf = rd.buf /\ rd'.ret = rd.ret
      BY <3>1 DEF Shape, ReaderFields
    <3>3. OwnerInv' /\ UNCHANGED <<ChannelOf, PoolOf>>
      BY <1>1, <1>2, <1>4, <2>1, <3>1, <3>2 DEF OwnerInv, Placed
    <3>4. UNCHANGED Threads!vars
      BY <1>3, <2>1, <3>2, <3>3 DEF ReaderIn, ReturnedAs
    <3> QED
      BY <3>3, <3>4
  <2> QED
    BY <2>2, <2>3
<1> QED
  BY <1>5, <1>6, <1>7, <1>9, <1>11, <1>12, <1>13, <1>14, <1>15, <1>16, <1>17, <1>18 DEF Reader

-----------------------------------------------------------------------------
(* The writer.                                                             *)

(* What the writer leaves alone of the reader of Pipeline.                 *)
LEMMA WriterFrame ==
  ASSUME Shape, OwnerInv, Writer
  PROVE  /\ UNCHANGED <<rd, cut, rd.buf>> /\ UNCHANGED Threads!readerVars
         /\ wr' = [f \in WriterFields |-> wr'[f]]
<1>1. UNCHANGED <<rd, cut>>
  BY WriterKeeps
<1>2. wr' = [f \in WriterFields |-> wr'[f]]
  BY WriterMoves
<1> QED
  BY <1>1, <1>2 DEF Threads!readerVars, ReaderIn, ReturnedAs

(* Pipeline does not see the spans of an operation.                        *)
LEMMA SpanImplements ==
  ASSUME Shape, OwnerInv, ElideSpan \/ ZeroSpan \/ WriteSpan
  PROVE  OwnerInv' /\ UNCHANGED Threads!vars
<1>1. /\ wr.at = "work" /\ wr'.at = "work" /\ wr'.op = wr.op /\ wr'.ret = wr.ret
      /\ UNCHANGED <<rd, chan, pool, cut, dropped>>
  BY DEF ElideSpan, ZeroSpan, WriteSpan, WriterStep, writerFrame, Shape, WriterFields
<1>2. UNCHANGED <<CurrentOf, ReaderIn, OutcomeOf, ReturnedAs(rd.ret), ReturnedAs(wr.ret), rd.buf>>
  BY <1>1 DEF CurrentOf, CarriesBuffer, ReaderIn, OutcomeOf, ReturnedAs
<1>3. InTransit' /\ InOnePlace' /\ UNCHANGED <<ChannelOf, PoolOf>>
  BY <1>1, <1>2, StaysInPlace
<1>4. Placed'
  BY <1>1 DEF OwnerInv, Placed
<1> QED
  BY <1>1, <1>2, <1>3, <1>4 DEF OwnerInv, Threads!vars, Threads!readerVars, Threads!writerVars

LEMMA ReceiveImplements ==
  ASSUME Shape, OwnerInv, Receive
  PROVE  OwnerInv' /\ Threads!Receive
<1> DEFINE got == Head(chan).buf
<1>1. /\ wr.at = "recv" /\ chan # <<>> /\ chan' = Tail(chan) /\ wr'.at = "work"
      /\ wr'.op = Head(chan) /\ wr'.ret = wr.ret /\ UNCHANGED <<rd, pool, cut, dropped>>
  BY DEF Receive, WriterStep, writerFrame, Shape, WriterFields
<1>2. Placed /\ InTransit /\ InOnePlace /\ SentOnce
  BY DEF OwnerInv, InOnePlace
<1>3. /\ IsSeq(chan') /\ \A i \in 1..Len(chan') : chan'[i].buf \in OpBuffers
      /\ ChannelOf # <<>> /\ ChannelOf' = Tail(ChannelOf) /\ Head(ChannelOf) = got
      /\ got \in Sent /\ Sent' \subseteq Sent
      /\ got \in Buffers => got \notin Sent'
      /\ SentOnce'
  BY <1>1, <1>2, ReceivingBuffers
<1>4. got \in OpBuffers /\ UNCHANGED PoolOf
  BY <1>1, <1>2, <1>3, ChannelFacts DEF PoolOf
<1>5. CurrentOf' = IF got = Gap THEN NoBuffer ELSE got
  BY <1>1, <1>4, MarkerAssumption DEF CurrentOf, CarriesBuffer, OpBuffers
<1>6. Placed' /\ InTransit'
  BY <1>1, <1>2, <1>3, <1>4 DEF Placed, InTransit
<1>7. InOnePlace'
  <2>1. CurrentOf' \in Buffers => CurrentOf' = got
    BY <1>5, MarkerAssumption
  <2>2. got \in Buffers => got \notin PoolOf /\ got # rd.buf
    BY <1>2, <1>3 DEF InOnePlace
  <2>3. Distinct(pool)' /\ (PoolOf \cap Sent)' = {}
    BY <1>1, <1>2, <1>3, <1>4 DEF InOnePlace, Distinct
  <2> HIDE DEF got
  <2> QED
    BY <1>1, <1>2, <1>3, <1>4, <2>1, <2>2, <2>3 DEF InOnePlace
<1>8. UNCHANGED <<ReturnedAs(wr.ret), OutcomeOf>>
  BY <1>1 DEF ReturnedAs, OutcomeOf
<1>9. Threads!Receive
  <2>1. UNCHANGED Threads!readerVars
    BY <1>1 DEF Threads!readerVars, ReaderIn, ReturnedAs
  <2>2. ChannelOf' = Tail(ChannelOf)
        /\ CurrentOf' = IF Head(ChannelOf) = Gap THEN NoBuffer ELSE Head(ChannelOf)
    BY <1>3, <1>5
  <2> QED
    BY <1>1, <1>3, <1>4, <1>8, <2>1, <2>2 DEF Threads!Receive
<1> QED
  BY <1>6, <1>7, <1>9 DEF OwnerInv

(* The operation is done: its buffer goes back to the pool of a reader     *)
(* that still runs.                                                        *)
LEMMA FinishImplements ==
  ASSUME Shape, OwnerInv, FinishOp
  PROVE  OwnerInv' /\ Threads!FinishOp
<1>1. /\ wr.at = "work" /\ wr'.at = "sync" /\ wr'.ret = wr.ret
      /\ UNCHANGED <<rd, chan, cut, dropped>>
  BY DEF FinishOp, WriterStep, writerFrame, Shape, WriterFields
<1>2. Placed /\ InTransit /\ InOnePlace
  BY DEF OwnerInv
<1>3. CurrentOf' = NoBuffer /\ UNCHANGED <<ChannelOf, Sent, ReturnedAs(wr.ret), OutcomeOf>>
  BY <1>1 DEF CurrentOf, ChannelOf, Sent, Elements, ReturnedAs, OutcomeOf
<1>4. UNCHANGED Threads!readerVars /\ (Threads!ReaderRunning <=> ~ReaderGone)
  BY <1>1 DEF Threads!readerVars, Threads!ReaderRunning, ReaderGone, ReaderIn, ReturnedAs
<1>5. Placed'
  BY <1>1, <1>2 DEF Placed
<1>6. SentOnce'
  BY <1>1, <1>2 DEF InOnePlace, SentOnce
<1>7. CASE CarriesBuffer(wr.op) /\ ~ReaderGone
  <2>1. pool' = Append(pool, wr.op.buf)
    BY <1>7, Zenon DEF FinishOp
  <2>2. CurrentOf = wr.op.buf /\ wr.op.buf \in Buffers
    BY <1>1, <1>7 DEF CurrentOf, CarriesBuffer
  <2>3. IsSeq(pool) /\ PoolOf = Elements(pool)
    BY <1>2, ChannelFacts DEF IsSeq, InTransit
  <2>4. /\ Elements(pool') = Elements(pool) \cup {wr.op.buf}
        /\ Distinct(pool) /\ wr.op.buf \notin Elements(pool) => Distinct(pool')
    <3> DEFINE b == wr.op.buf
               s == Append(pool, b)
    <3>1. /\ Elements(s) = Elements(pool) \cup {b}
          /\ Distinct(pool) /\ b \notin Elements(pool) => Distinct(s)
      <4>1. s = Append(pool, b)
        OBVIOUS
      <4> HIDE DEF s, b
      <4> QED
        BY <2>3, <4>1, AddingElements
    <3> QED
      BY <2>1, <3>1, Zenon
  <2>5. PoolOf' = PoolOf \cup {CurrentOf} /\ Distinct(pool)'
    <3>1. PoolOf' = Elements(pool')
      BY DEF PoolOf, Elements
    <3>2. wr.op.buf \notin Elements(pool) /\ Distinct(pool)
      BY <1>2, <2>2, <2>3 DEF InOnePlace
    <3>3. Distinct(pool)' <=> Distinct(pool')
      BY DEF Distinct
    <3> QED
      BY <2>2, <2>3, <2>4, <3>1, <3>2, <3>3
  <2>6. pool' \in Seq(Buffers)
    BY <1>2, <2>1, <2>2, AppendProperties DEF InTransit
  <2>7. InTransit'
    BY <1>1, <1>2, <2>6 DEF InTransit, IsSeq
  <2>8. InOnePlace'
    BY <1>1, <1>2, <1>3, <1>6, <2>2, <2>5, MarkerAssumption DEF InOnePlace
  <2>9. Threads!FinishOp
    BY <1>1, <1>3, <1>4, <1>7, <2>2, <2>5, MarkerAssumption DEF Threads!FinishOp
  <2> QED
    BY <1>5, <2>7, <2>8, <2>9 DEF OwnerInv
<1>8. CASE ~(CarriesBuffer(wr.op) /\ ~ReaderGone)
  <2>1. pool' = pool
    BY <1>8, Zenon DEF FinishOp
  <2>2. CurrentOf = NoBuffer \/ ReaderGone
    BY <1>8 DEF CurrentOf
  <2>3. PoolOf' = PoolOf
    BY <2>1 DEF PoolOf
  <2>4. InTransit'
    BY <1>1, <1>2, <2>1 DEF InTransit, IsSeq
  <2>5. InOnePlace'
    BY <1>1, <1>2, <1>3, <1>6, <2>1, <2>3, MarkerAssumption DEF InOnePlace, Distinct
  <2>6. Threads!FinishOp
    BY <1>1, <1>3, <1>4, <2>2, <2>3 DEF Threads!FinishOp
  <2> QED
    BY <1>5, <2>4, <2>5, <2>6 DEF OwnerInv
<1> QED
  BY <1>7, <1>8

(* Whatever the writer does without touching the pool or adding to the     *)
(* channel, it takes no buffer.                                            *)
LEMMA LetsGo ==
  ASSUME OwnerInv, UNCHANGED <<rd, pool>>, CurrentOf' = NoBuffer,
         chan' = chan \/ chan' = <<>>
  PROVE  /\ InTransit' /\ InOnePlace' /\ UNCHANGED PoolOf
         /\ ChannelOf' = IF chan' = <<>> THEN <<>> ELSE ChannelOf
         /\ chan = <<>> <=> ChannelOf = <<>>
<1>1. Placed /\ InTransit /\ InOnePlace
  BY DEF OwnerInv
<1>2. UNCHANGED PoolOf
  BY DEF PoolOf
<1>3. /\ Len(chan) \in Nat /\ ChannelOf \in Seq(OpBuffers) /\ Len(ChannelOf) = Len(chan)
  BY <1>1, ChannelFacts
<1>4. chan = <<>> <=> ChannelOf = <<>>
  <2>1. PICK S : chan \in Seq(S)
    BY <1>1 DEF InTransit, IsSeq
  <2> QED
    BY <1>3, <2>1, EmptySeq
<1>5. CASE chan' = chan
  <2>1. UNCHANGED <<ChannelOf, Sent>>
    BY <1>5 DEF ChannelOf, Sent, Elements
  <2> QED
    BY <1>1, <1>2, <1>4, <1>5, <2>1, MarkerAssumption
       DEF InTransit, InOnePlace, SentOnce, Distinct, IsSeq
<1>6. CASE chan' = <<>>
  <2>1. IsSeq(chan') /\ Len(chan') = 0
    BY <1>6, EmptySeq DEF IsSeq
  <2>2. InTransit'
    BY <1>1, <2>1 DEF InTransit, IsSeq
  <2>3. ChannelOf' = <<>>
    BY <2>1 DEF ChannelOf
  <2>4. Sent' = {}
    BY <2>3, EmptySeq DEF Sent, Elements
  <2>5. InOnePlace'
    BY <1>1, <1>2, <2>1, <2>4, MarkerAssumption DEF InOnePlace, SentOnce, Distinct
  <2> QED
    BY <1>2, <1>4, <1>6, <2>2, <2>3, <2>5
<1> QED
  BY <1>5, <1>6

LEMMA WriterImplements ==
  ASSUME Shape, OwnerInv, Writer
  PROVE  OwnerInv' /\ [Threads!Next]_(Threads!vars)
<1> USE DEF Threads!Next, Threads!Writer
<1>1. Placed /\ UNCHANGED <<rd, cut, rd.buf>> /\ UNCHANGED Threads!readerVars
  BY WriterFrame DEF OwnerInv
<1>2. CASE ElideSpan \/ ZeroSpan \/ WriteSpan
  BY <1>2, SpanImplements
<1>3. CASE Receive
  BY <1>3, ReceiveImplements
<1>4. CASE FinishOp
  BY <1>4, FinishImplements
<1>5. ASSUME UNCHANGED pool, wr'.at # "work", chan' = chan \/ chan' = <<>>
      PROVE  /\ InTransit' /\ InOnePlace' /\ UNCHANGED PoolOf /\ CurrentOf' = NoBuffer
             /\ ChannelOf' = IF chan' = <<>> THEN <<>> ELSE ChannelOf
             /\ chan = <<>> <=> ChannelOf = <<>>
  <2>1. CurrentOf' = NoBuffer
    BY <1>5 DEF CurrentOf
  <2> QED
    BY <1>1, <1>5, <2>1, LetsGo
<1>6. ASSUME wr.at # "work" PROVE CurrentOf = NoBuffer
  BY <1>6 DEF CurrentOf
<1>7. ASSUME wr.at # "joined", wr'.at # "joined" PROVE UNCHANGED OutcomeOf
  BY <1>7 DEF OutcomeOf
<1>8. CASE SpanFails
  <2>1. /\ wr.at = "work" /\ wr'.at = "closing" /\ wr'.ret = "Io" /\ dropped' = TRUE
        /\ UNCHANGED <<chan, pool>>
    BY <1>8 DEF SpanFails, WriterStep, Shape, WriterFields
  <2>2. /\ InTransit' /\ InOnePlace' /\ UNCHANGED <<PoolOf, OutcomeOf>> /\ CurrentOf' = NoBuffer
        /\ ReturnedAs(wr.ret)' = "err"
    BY <1>5, <1>7, <2>1 DEF ReturnedAs
  <2>3. UNCHANGED ChannelOf
    BY <2>1 DEF ChannelOf
  <2>4. Placed'
    BY <1>1, <2>1 DEF Placed
  <2>5. Threads!OpFails
    BY <1>1, <2>1, <2>2, <2>3 DEF Threads!OpFails
  <2> QED
    BY <2>2, <2>4, <2>5 DEF OwnerInv
<1>9. CASE SyncOrNot
  <2>1. /\ wr.at = "sync" /\ wr'.at = "recv" /\ wr'.ret = wr.ret
        /\ UNCHANGED <<chan, pool, dropped>>
    BY <1>9 DEF SyncOrNot, WriterStep, Shape, WriterFields
  <2>2. /\ InTransit' /\ InOnePlace' /\ UNCHANGED <<PoolOf, OutcomeOf, CurrentOf>>
        /\ UNCHANGED ReturnedAs(wr.ret)
    BY <1>5, <1>6, <1>7, <2>1 DEF ReturnedAs
  <2>3. UNCHANGED ChannelOf
    BY <2>1 DEF ChannelOf
  <2>4. Placed'
    BY <1>1, <2>1 DEF Placed
  <2>5. Threads!SyncOrNot
    BY <1>1, <2>1, <2>2, <2>3 DEF Threads!SyncOrNot
  <2> QED
    BY <2>2, <2>4, <2>5 DEF OwnerInv
<1>10. CASE SyncFails
  <2>1. /\ wr.at = "sync" /\ wr'.at = "closing" /\ wr'.ret = "Io"
        /\ UNCHANGED <<chan, pool, dropped>>
    BY <1>10 DEF SyncFails, WriterStep, Shape, WriterFields
  <2>2. /\ InTransit' /\ InOnePlace' /\ UNCHANGED <<PoolOf, OutcomeOf, CurrentOf>>
        /\ ReturnedAs(wr.ret)' = "err"
    BY <1>5, <1>6, <1>7, <2>1 DEF ReturnedAs
  <2>3. UNCHANGED ChannelOf
    BY <2>1 DEF ChannelOf
  <2>4. Placed'
    BY <1>1, <2>1 DEF Placed
  <2>5. Threads!SyncFails
    BY <1>1, <2>1, <2>2, <2>3 DEF Threads!SyncFails
  <2> QED
    BY <2>2, <2>4, <2>5 DEF OwnerInv
<1>11. CASE StreamEnds
  <2>1. /\ wr.at = "recv" /\ chan = <<>> /\ rd.at = "ended" /\ wr'.at = "closing"
        /\ wr'.ret = "ok" /\ UNCHANGED <<chan, pool, dropped>>
    BY <1>11 DEF StreamEnds, ReaderGone, WriterStep, Shape, WriterFields
  <2>2. /\ InTransit' /\ InOnePlace' /\ UNCHANGED <<PoolOf, OutcomeOf, CurrentOf>>
        /\ ReturnedAs(wr.ret)' = "ok" /\ ChannelOf = <<>>
    BY <1>5, <1>6, <1>7, <2>1 DEF ReturnedAs
  <2>3. UNCHANGED ChannelOf
    BY <2>1 DEF ChannelOf
  <2>4. Placed'
    BY <1>1, <2>1 DEF Placed
  <2>5. ~Threads!ReaderRunning
    BY <2>1 DEF Threads!ReaderRunning, ReaderIn
  <2>6. Threads!StreamEnds
    BY <1>1, <2>1, <2>2, <2>3, <2>5 DEF Threads!StreamEnds
  <2> QED
    BY <2>2, <2>4, <2>6 DEF OwnerInv
<1>12. CASE DropRx
  <2>1. /\ wr.at = "closing" /\ wr'.at = "rxDropped" /\ wr'.ret = wr.ret /\ chan' = <<>>
        /\ dropped' = (dropped \/ chan # <<>>) /\ UNCHANGED pool
    BY <1>12 DEF DropRx, WriterStep, Shape, WriterFields
  <2>2. /\ InTransit' /\ InOnePlace' /\ UNCHANGED <<PoolOf, OutcomeOf, CurrentOf>>
        /\ UNCHANGED ReturnedAs(wr.ret) /\ ChannelOf' = <<>> /\ (chan = <<>> <=> ChannelOf = <<>>)
    BY <1>5, <1>6, <1>7, <2>1 DEF ReturnedAs
  <2>3. Placed'
    BY <1>1, <2>1 DEF Placed
  <2>4. dropped' = (dropped \/ ChannelOf # <<>>)
    BY <2>1, <2>2
  <2>5. Threads!DropRx
    BY <1>1, <2>1, <2>2, <2>4 DEF Threads!DropRx
  <2> QED
    BY <2>2, <2>3, <2>5 DEF OwnerInv
<1>13. CASE DropPoolTx
  <2>1. /\ wr.at = "rxDropped" /\ wr'.at = "joining" /\ wr'.ret = wr.ret
        /\ UNCHANGED <<chan, pool, dropped>>
    BY <1>13 DEF DropPoolTx, WriterStep, Shape, WriterFields
  <2>2. /\ InTransit' /\ InOnePlace' /\ UNCHANGED <<PoolOf, OutcomeOf, CurrentOf>>
        /\ UNCHANGED ReturnedAs(wr.ret)
    BY <1>5, <1>6, <1>7, <2>1 DEF ReturnedAs
  <2>3. UNCHANGED ChannelOf
    BY <2>1 DEF ChannelOf
  <2>4. Placed'
    BY <1>1, <2>1 DEF Placed
  <2>5. Threads!DropPoolTx
    BY <1>1, <2>1, <2>2, <2>3 DEF Threads!DropPoolTx
  <2> QED
    BY <2>2, <2>4, <2>5 DEF OwnerInv
<1>14. CASE Join
  <2>1. /\ wr.at = "joining" /\ rd.at = "ended" /\ wr'.at = "joined" /\ wr'.ret = wr.ret
        /\ UNCHANGED <<chan, pool, dropped>>
    BY <1>14 DEF Join, ReaderGone, WriterStep, Shape, WriterFields
  <2>2. /\ InTransit' /\ InOnePlace' /\ UNCHANGED <<PoolOf, CurrentOf>>
        /\ UNCHANGED ReturnedAs(wr.ret)
    BY <1>5, <1>6, <2>1 DEF ReturnedAs
  <2>3. UNCHANGED ChannelOf
    BY <2>1 DEF ChannelOf
  <2>4. Placed'
    BY <1>1, <2>1 DEF Placed
  <2>5. OutcomeOf' = IF ReturnedAs(rd.ret) = "panic" THEN "ReaderLost"
                     ELSE IF ReturnedAs(wr.ret) = "err" THEN "writerErr"
                     ELSE IF ReturnedAs(rd.ret) = "err" THEN "readerErr"
                     ELSE "ok"
    <3>1. OutcomeOf' = IF rd.ret = "panic" THEN "ReaderLost"
                       ELSE IF wr.ret # "ok" THEN "writerErr"
                       ELSE IF rd.ret # "ok" THEN "readerErr"
                       ELSE "ok"
      BY <1>1, <2>1 DEF OutcomeOf
    <3>2. rd.ret # "none" /\ wr.ret \in {"ok", "Io"}
      BY <1>1, <2>1 DEF Placed
    <3> QED
      BY <3>1, <3>2 DEF ReturnedAs
  <2>6. ~Threads!ReaderRunning
    BY <2>1 DEF Threads!ReaderRunning, ReaderIn
  <2>7. Threads!Join
    BY <1>1, <2>1, <2>2, <2>3, <2>5, <2>6 DEF Threads!Join
  <2> QED
    BY <2>2, <2>4, <2>7 DEF OwnerInv
<1> QED
  BY <1>2, <1>3, <1>4, <1>8, <1>9, <1>10, <1>11, <1>12, <1>13, <1>14 DEF Writer

-----------------------------------------------------------------------------

(* Every copy, with its plan of ranges and gaps, its batches and spans, is *)
(* a run of the two threads of Pipeline: the refinement that the run copy  *)
(* checks on its instances, for any image, plan, number of buffers and     *)
(* failures (run_pipeline, read_image and write_stream, copy.rs:256-581).  *)
THEOREM EngineImplementsPipeline == Spec => ThreadsImplemented
<1> DEFINE Inv == Shape /\ OwnerInv
<1>1. Init => Inv /\ Threads!Init
  BY InitShape, InitOwner
<1>2. Inv /\ [Next]_vars => Inv' /\ [Threads!Next]_(Threads!vars)
  <2> SUFFICES ASSUME Inv, [Next]_vars PROVE Inv' /\ [Threads!Next]_(Threads!vars)
    OBVIOUS
  <2>1. Shape'
    BY StepShape
  <2>2. CASE Reader
    BY <2>1, <2>2, ReaderImplements
  <2>3. CASE Writer
    BY <2>1, <2>3, WriterImplements
  <2>4. CASE Caller \/ UNCHANGED vars
    <3>1. UNCHANGED threadVars
      BY <2>4, CallerKeeps DEF vars, threadVars
    <3> QED
      BY <2>1, <3>1, OthersStutter
  <2> QED
    BY <2>2, <2>3, <2>4 DEF Next, Returned
<1> QED
  BY <1>1, <1>2, PTL DEF Spec, ThreadsImplemented, Threads!Spec

=============================================================================
