----------------------------- MODULE CopyEngine -----------------------------
(***************************************************************************)
(* copy.rs: one call of copy, from its checks to its result, with what the *)
(* two threads of Pipeline carry: the plan, the batches, the zero spans,   *)
(* the writes.                                                             *)
(*                                                                         *)
(* Sizes are counted in cells.  Cell i of the image holds Zero or the      *)
(* payload i + 1, so that a payload that lands in the wrong place shows;   *)
(* every cell of the destination starts as Old.  A block is job.bs cells   *)
(* and a batch job.batch, so partial blocks, partial batches and batches   *)
(* that are not a whole number of blocks all occur.                        *)
(***************************************************************************)
EXTENDS Destination, FiniteSets

CONSTANTS Jobs,      \* the calls of copy: a set of records, see JobsAssumption
          Buffers,   \* the buffers of the pool; their number is queue_depth
          Gap,       \* the buffer of an operation that carries none
          NoBuffer,
          Faults,    \* which calls may fail: "read", "write", "sync", "main"
                     \* (those made outside the pipeline), "panic"
          MaxOffset  \* the largest offset a u64 can hold, in cells

(* queue_depth is opts.queue_depth.max(1): there is at least one buffer.   *)
ASSUME PoolAssumption == IsFiniteSet(Buffers) /\ Buffers # {}

ASSUME MarkerAssumption == Gap \notin Buffers /\ NoBuffer \notin Buffers

ASSUME OffsetAssumption == MaxOffset \in Nat

Old == -1
Unknown == -1

(* bmap      a bmap was supplied; ranges come from it, with their checksums *)
(*           ("none", or whether the image agrees: "good", "bad")           *)
(* stream    the source cannot seek, and does not know its size             *)
(* holes     detect.uses_holes();  zeros  detect.uses_zeros()               *)
(* ranges    the bmap's ranges, else what candidate_ranges finds            *)
(* size      the bmap's image_size, else the size of a source that seeks    *)
(* srcLen    how many cells the source really yields                        *)
(* data      the cells of the image that are not zero                       *)
(* kind, cap, len  the destination when it is opened                        *)
(* mark      sync_watermark, 0 when there is none;  zap  0 when not asked   *)
ASSUME JobsAssumption ==
  \A j \in Jobs :
    /\ \A flag \in {j.bmap, j.stream, j.holes, j.zeros, j.zeroMode, j.verify,
                    j.sync, j.wipe} : flag \in BOOLEAN
    /\ j.bs \in Nat \ {0} /\ j.batch \in Nat \ {0}
    /\ {j.size, j.srcLen, j.mark, j.zap, j.offset} \subseteq Nat
    /\ j.kind \in {"file", "device", "sink"} /\ {j.cap, j.len} \subseteq 0..MaxOffset
    /\ j.data \subseteq 0..(j.srcLen - 1) /\ j.offset + j.srcLen <= MaxOffset
    /\ j.ranges \in Seq([first : Nat, last : Nat, sum : {"none", "good", "bad"}])
    /\ \A i \in 1..Len(j.ranges) :
         j.ranges[i].first <= j.ranges[i].last /\ j.ranges[i].last * j.bs < j.size

VARIABLES
  job,     \* the call: chosen at the start, never changed
  phase,   \* where copy is: "check" "clear" "size" "stream" "finish" "resize"
           \* "sync" "done"
  result,  \* what copy returned: "none", "ok" or the error
  dest,    \* the destination, see module Destination
  rd,      \* the reader thread
  chan,    \* Op values in flight
  pool,    \* buffers waiting for the reader, oldest first
  wr,      \* the writer
  prog,    \* what the Progress reporter was told
  cut, dropped   \* history, as in Pipeline

vars == <<job, phase, result, dest, rd, chan, pool, wr, prog, cut, dropped>>

-----------------------------------------------------------------------------
(* The plan.                                                               *)

QueueDepth == Cardinality(Buffers)

(* batch_bytes is raised to one block, but not rounded to whole blocks.    *)
BatchCells == Greater(job.batch, job.bs)

SizeKnown == job.bmap \/ ~job.stream

(* build_plan: a bmap, or holes of a file that can be asked about them,    *)
(* give ranges; anything else is read until the image ends.                *)
ByRanges == job.bmap \/ (~job.stream /\ job.holes)

RangeStart(r) == r.first * job.bs
RangeEnd(r) == Lesser((r.last + 1) * job.bs, job.size)

Entry(i) == job.ranges[i]
RangeCount == Len(job.ranges)

RangeCells(i) == RangeEnd(Entry(i)) - RangeStart(Entry(i))
RangeBlocks(i) == Entry(i).last - Entry(i).first + 1

(* Plan::total_bytes, what set_total announces.                            *)
TotalCells ==
  IF ByRanges THEN MapThenSumSet(RangeCells, 1..RangeCount)
  ELSE IF SizeKnown THEN job.size ELSE Unknown

MappedBlocksCnt == MapThenSumSet(RangeBlocks, 1..RangeCount)

Content(i) == IF i \in job.data THEN i + 1 ELSE Zero

-----------------------------------------------------------------------------
(* classify, of a batch of n cells read from offset `off`.                 *)
Spans(off, n) == Classify([c \in 1..n |-> Content(off + c - 1)], job.bs, job.zeros)

-----------------------------------------------------------------------------

NoOp == [buf |-> Gap, off |-> 0, len |-> 0, spans |-> <<>>]

(* rd: at, as in Pipeline, and "next" between two batches;                 *)
(* range, the index of the entry; off, the image offset of the next batch; *)
(* pos, the position of the source; unmapped, next_unmapped_block;         *)
(* read and blocks, the tallies; op, the operation being made.             *)
(* wr: at, as in Pipeline, and "idle" before the pipeline; todo, the spans *)
(* of op that are left; written, elided, zeroed and since, the tallies.    *)
Init ==
  /\ job \in Jobs
  /\ phase = "check"
  /\ result = "none"
  /\ dest = [kind |-> job.kind, cap |-> job.cap, len |-> job.len, fast |-> TRUE, dirty |-> 0,
             cells |-> [c \in 0..MaxOffset |->
                          IF job.kind = "file" /\ c >= job.len THEN Zero ELSE Old]]
  /\ rd = [at |-> IF ByRanges THEN "plan" ELSE "next", range |-> 1, off |-> 0, pos |-> 0,
           unmapped |-> 0, read |-> 0, blocks |-> 0, buf |-> NoBuffer, op |-> NoOp,
           ret |-> "none"]
  /\ chan = <<>>
  /\ pool = SetToSeq(Buffers)
  /\ wr = [at |-> "recv", op |-> NoOp, todo |-> <<>>, ret |-> "none",
           written |-> 0, elided |-> 0, zeroed |-> 0, since |-> 0]
  /\ prog = [announced |-> FALSE, total |-> Unknown, advanced |-> 0, finished |-> 0]
  /\ cut = FALSE
  /\ dropped = FALSE

threadVars == <<rd, chan, pool, wr, cut, dropped>>

Return(r) == phase' = "done" /\ result' = r

-----------------------------------------------------------------------------
(* copy before the pipeline.                                               *)

Overflows == job.offset + job.size > MaxOffset

(* The offset and the capacity are checked, if the size is known.          *)
Check ==
  /\ phase = "check"
  /\ IF SizeKnown /\ Overflows THEN Return("InvalidOffset")
     ELSE IF SizeKnown /\ ~Fits(dest, job.size, job.offset) THEN Return("DestinationTooSmall")
     ELSE phase' = "clear" /\ UNCHANGED result
  /\ UNCHANGED <<job, dest, threadVars, prog>>

(* wipe refuses what it cannot clear; zap has nothing to do there.         *)
Clear ==
  /\ phase = "clear"
  /\ IF job.wipe /\ IsSink(dest)
     THEN Return("CannotWipe") /\ UNCHANGED dest
     ELSE /\ dest' \in IF job.wipe THEN Wipe(dest)
                       ELSE IF job.zap > 0 THEN Zap(dest, job.zap) ELSE {dest}
          /\ phase' = "size"
          /\ UNCHANGED result
  /\ UNCHANGED <<job, threadVars, prog>>

(* The file gets its length, the plan is built and its total announced.    *)
SizeAndPlan ==
  /\ phase = "size"
  /\ dest' = IF SizeKnown THEN SizeDestination(dest, job.offset, job.size) ELSE dest
  /\ prog' = [prog EXCEPT !.announced = TRUE, !.total = TotalCells]
  /\ phase' = "stream"
  /\ UNCHANGED <<job, result, threadVars>>

(* The clearing fails, with part of it done; a file cannot be sized; the   *)
(* hole lookup fails; or the last fsync does.                              *)
MainFails ==
  /\ "main" \in Faults
  /\ \/ /\ phase = "clear" /\ job.wipe /\ ~IsSink(dest)
        /\ dest' \in WipePartly(dest)
     \/ /\ phase = "clear" /\ ~job.wipe /\ job.zap > 0 /\ job.kind = "device"
        /\ dest' \in ZapPartly(dest, job.zap)
     \/ /\ \/ phase = "size" /\ SizeKnown /\ job.kind = "file"
           \/ phase = "resize" /\ job.kind = "file"
           \/ phase = "sync" /\ job.sync /\ SupportsSync(dest)
        /\ UNCHANGED dest
     \/ /\ phase = "size" /\ ByRanges /\ ~job.bmap
        /\ dest' = SizeDestination(dest, job.offset, job.size)
  /\ Return("Io")
  /\ UNCHANGED <<job, threadVars, prog>>

-----------------------------------------------------------------------------
(* read_image.                                                             *)

ReaderStep(at) == phase = "stream" /\ rd.at = at

readerFrame == <<job, phase, result, dest, wr, prog>>

(* read_image returns r: tx and pool_rx go, with the buffers in the pool.  *)
ReaderEnds(r) ==
  /\ rd' = [rd EXCEPT !.at = "ended", !.ret = r, !.buf = NoBuffer, !.op = NoOp]
  /\ pool' = <<>>

(* The blocks [rd.unmapped, gapEnd) before the current entry, or after the *)
(* last, clamped to the image.                                             *)
GapStart == rd.unmapped * job.bs

(* Broken: the gap after the last range runs to the end of its block.      *)
GapEnd_Unclamped ==
  job.bs * (IF rd.range <= RangeCount THEN Entry(rd.range).first
            ELSE CeilDiv(job.size, job.bs))

GapEnd ==
  LET block == IF rd.range <= RangeCount THEN Entry(rd.range).first
               ELSE CeilDiv(job.size, job.bs)
  IN  Lesser(block * job.bs, job.size)
GapAhead == GapEnd > GapStart

GapOp ==
  [buf |-> Gap, off |-> GapStart, len |-> GapEnd - GapStart,
   spans |-> <<[offset |-> 0, len |-> GapEnd - GapStart, zero |-> TRUE]>>]

MeetGap ==
  /\ ReaderStep("plan")
  /\ GapAhead
  /\ rd' = [rd EXCEPT !.at = "gap", !.op = GapOp]
  /\ UNCHANGED <<readerFrame, chan, pool, cut, dropped>>

RxOpen == wr.at \in {"recv", "work", "sync", "closing"}
PoolTxOpen == RxOpen \/ wr.at = "rxDropped"

(* Broken: a channel without a bound.                                      *)
ReportGap_Unbounded ==
  /\ ReaderStep("gap")
  /\ RxOpen
  /\ chan' = Append(chan, rd.op)
  /\ rd' = [rd EXCEPT !.at = "range", !.op = NoOp]
  /\ UNCHANGED <<readerFrame, pool, cut, dropped>>

ReportGap ==
  /\ ReaderStep("gap")
  /\ RxOpen
  /\ Len(chan) < QueueDepth
  /\ chan' = Append(chan, rd.op)
  /\ rd' = [rd EXCEPT !.at = "range", !.op = NoOp]
  /\ UNCHANGED <<readerFrame, pool, cut, dropped>>

ReportGapClosed ==
  /\ ReaderStep("gap")
  /\ ~RxOpen
  /\ rd' = [rd EXCEPT !.at = "range", !.op = NoOp]
  /\ cut' = TRUE
  /\ dropped' = TRUE
  /\ UNCHANGED <<readerFrame, chan, pool>>

PastGap == ReaderStep("range") \/ (ReaderStep("plan") /\ ~GapAhead)

(* Broken: a file may seek back.                                           *)
SkipTo_Rewinds(offset) ==
  IF job.stream /\ offset < rd.pos THEN "NotSeekable"
  ELSE IF job.stream /\ job.srcLen < offset THEN "ShortImage"
  ELSE "ok"

(* skip_to: a file seeks, a stream reads up to the offset; neither goes    *)
(* back.  The error, or "ok".                                              *)
SkipTo(offset) ==
  IF offset < rd.pos THEN "NotSeekable"
  ELSE IF job.stream /\ job.srcLen < offset THEN "ShortImage"
  ELSE "ok"

(* Broken: the position after the entry is not remembered.                 *)
EnterRange_NoUnmapped ==
  /\ PastGap
  /\ rd.range <= RangeCount
  /\ LET start == RangeStart(Entry(rd.range))
     IN  IF SkipTo(start) = "ok"
         THEN /\ rd' = [rd EXCEPT !.at = "await", !.off = start, !.pos = start]
              /\ UNCHANGED pool
         ELSE ReaderEnds(SkipTo(start))
  /\ UNCHANGED <<readerFrame, chan, cut, dropped>>

EnterRange ==
  /\ PastGap
  /\ rd.range <= RangeCount
  /\ LET start == RangeStart(Entry(rd.range))
     IN  IF SkipTo(start) = "ok"
         THEN /\ rd' = [rd EXCEPT !.at = "await", !.off = start, !.pos = start,
                                  !.unmapped = Entry(rd.range).last + 1]
              /\ UNCHANGED pool
         ELSE ReaderEnds(SkipTo(start))
  /\ UNCHANGED <<readerFrame, chan, cut, dropped>>

PlanDone ==
  /\ PastGap
  /\ rd.range > RangeCount
  /\ ReaderEnds("ok")
  /\ UNCHANGED <<readerFrame, chan, cut, dropped>>

TakeBuffer ==
  /\ ReaderStep("await")
  /\ pool # <<>>
  /\ rd' = [rd EXCEPT !.at = "fill", !.buf = Head(pool)]
  /\ pool' = Tail(pool)
  /\ UNCHANGED <<readerFrame, chan, cut, dropped>>

PoolClosed ==
  /\ ReaderStep("await")
  /\ pool = <<>>
  /\ ~PoolTxOpen
  /\ ReaderEnds("ok")
  /\ cut' = TRUE
  /\ UNCHANGED <<readerFrame, chan, dropped>>

Want == IF ByRanges THEN Lesser(RangeEnd(Entry(rd.range)) - rd.off, BatchCells) ELSE BatchCells

(* read_full stops short only at the end of the source.                    *)
Filled == Lesser(Want, Greater(0, job.srcLen - rd.pos))

ReadBatch ==
  /\ ReaderStep("fill")
  /\ Filled > 0
  /\ rd' = [rd EXCEPT
              !.at = "send",
              !.pos = rd.pos + Filled,
              !.read = rd.read + Filled,
              !.blocks = IF ByRanges THEN rd.blocks ELSE rd.blocks + CeilDiv(Filled, job.bs),
              !.op = [buf |-> rd.buf, off |-> rd.off, len |-> Filled,
                      spans |-> Spans(rd.off, Filled)]]
  /\ UNCHANGED <<readerFrame, chan, pool, cut, dropped>>

(* The image is over: expected of a plan that reads until it is, an error  *)
(* inside a range.                                                         *)
ReadEnds ==
  /\ ReaderStep("fill")
  /\ Filled = 0
  /\ ReaderEnds(IF ByRanges THEN "ShortImage" ELSE "ok")
  /\ UNCHANGED <<readerFrame, chan, cut, dropped>>

(* A read of a batch fails, or the seek to a range does.                   *)
ReadFails ==
  /\ "read" \in Faults
  /\ ReaderStep("fill") \/ (PastGap /\ rd.range <= RangeCount)
  /\ ReaderEnds("Io")
  /\ UNCHANGED <<readerFrame, chan, cut, dropped>>

(* The thread unwinds, wherever it is not blocked.                         *)
ReaderPanics ==
  /\ "panic" \in Faults
  /\ \E at \in {"plan", "range", "fill", "next"} : ReaderStep(at)
  /\ ReaderEnds("panic")
  /\ UNCHANGED <<readerFrame, chan, cut, dropped>>

SendBatch ==
  /\ ReaderStep("send")
  /\ RxOpen
  /\ Len(chan) < QueueDepth
  /\ chan' = Append(chan, rd.op)
  /\ rd' = [rd EXCEPT !.at = "next", !.off = rd.off + rd.op.len,
                      !.buf = NoBuffer, !.op = NoOp]
  /\ UNCHANGED <<readerFrame, pool, cut, dropped>>

SendBatchClosed ==
  /\ ReaderStep("send")
  /\ ~RxOpen
  /\ ReaderEnds("ok")
  /\ cut' = TRUE
  /\ dropped' = TRUE
  /\ UNCHANGED <<readerFrame, chan>>

RangeRead == ByRanges /\ rd.off >= RangeEnd(Entry(rd.range))

NextBatch ==
  /\ ReaderStep("next")
  /\ ~RangeRead
  /\ rd' = [rd EXCEPT !.at = "await"]
  /\ UNCHANGED <<readerFrame, chan, pool, cut, dropped>>

Checked(i) == job.verify /\ Entry(i).sum # "none"

(* Broken: a range's checksum is compared only after the last range.       *)
CloseRange_LastOnly ==
  /\ ReaderStep("next")
  /\ RangeRead
  /\ IF Checked(rd.range) /\ Entry(rd.range).sum = "bad" /\ rd.range = RangeCount
     THEN ReaderEnds("RangeChecksum")
     ELSE /\ rd' = [rd EXCEPT !.at = "plan", !.range = rd.range + 1,
                              !.blocks = rd.blocks + RangeBlocks(rd.range)]
          /\ UNCHANGED pool
  /\ UNCHANGED <<readerFrame, chan, cut, dropped>>

(* The range is counted and its checksum compared: everything in it has    *)
(* already been handed to the writer.                                      *)
CloseRange ==
  /\ ReaderStep("next")
  /\ RangeRead
  /\ IF Checked(rd.range) /\ Entry(rd.range).sum = "bad"
     THEN ReaderEnds("RangeChecksum")
     ELSE /\ rd' = [rd EXCEPT !.at = "plan", !.range = rd.range + 1,
                              !.blocks = rd.blocks + RangeBlocks(rd.range)]
          /\ UNCHANGED pool
  /\ UNCHANGED <<readerFrame, chan, cut, dropped>>

Reader ==
  \/ MeetGap \/ ReportGap \/ ReportGapClosed
  \/ EnterRange \/ PlanDone
  \/ TakeBuffer \/ PoolClosed
  \/ ReadBatch \/ ReadEnds \/ ReadFails \/ ReaderPanics
  \/ SendBatch \/ SendBatchClosed
  \/ NextBatch \/ CloseRange

-----------------------------------------------------------------------------
(* write_stream.                                                           *)

WriterStep(at) == phase = "stream" /\ wr.at = at
ReaderGone == rd.at = "ended"

writerFrame == <<job, phase, result, rd>>

Receive ==
  /\ WriterStep("recv")
  /\ chan # <<>>
  /\ chan' = Tail(chan)
  /\ wr' = [wr EXCEPT !.at = "work", !.op = Head(chan), !.todo = Head(chan).spans]
  /\ UNCHANGED <<writerFrame, dest, pool, prog, cut, dropped>>

Span == Head(wr.todo)

(* Broken: the offset of the span inside its batch is forgotten.           *)
At_BatchStart == job.offset + wr.op.off

At == job.offset + wr.op.off + Span.offset

ElideSpan ==
  /\ WriterStep("work")
  /\ wr.todo # <<>>
  /\ Span.zero /\ ~job.zeroMode
  /\ wr' = [wr EXCEPT !.todo = Tail(@), !.elided = @ + Span.len]
  /\ UNCHANGED <<writerFrame, dest, chan, pool, prog, cut, dropped>>

ZeroSpan ==
  /\ WriterStep("work")
  /\ wr.todo # <<>>
  /\ Span.zero /\ job.zeroMode
  /\ dest' \in ZeroRange(dest, At, Span.len)
  /\ wr' = [wr EXCEPT !.todo = Tail(@), !.zeroed = @ + Span.len]
  /\ UNCHANGED <<writerFrame, chan, pool, prog, cut, dropped>>

(* What the buffer holds from the span on.                                 *)
Payload == [i \in 0..(Span.len - 1) |-> Content(wr.op.off + Span.offset + i)]

WriteSpan ==
  /\ WriterStep("work")
  /\ wr.todo # <<>>
  /\ ~Span.zero
  /\ Room(dest, At, Span.len) = Span.len
  /\ dest' = WriteAllAt(dest, At, Span.len, Payload)
  /\ wr' = [wr EXCEPT !.todo = Tail(@), !.written = @ + Span.len]
  /\ UNCHANGED <<writerFrame, chan, pool, prog, cut, dropped>>

(* A write, or the explicit zeroing zero_range falls back to, fails after  *)
(* part of the span: the device is full, or worn out.                      *)
SpanFails ==
  /\ WriterStep("work")
  /\ wr.todo # <<>>
  /\ Span.zero => job.zeroMode
  /\ "write" \in Faults \/ Room(dest, At, Span.len) < Span.len
  /\ \E n \in 0..Lesser(Span.len - 1, Room(dest, At, Span.len)) :
       dest' = IF Span.zero THEN FillZero(dest, At, n) ELSE WriteAllAt(dest, At, n, Payload)
  /\ wr' = [wr EXCEPT !.at = "closing", !.ret = "Io", !.op = NoOp, !.todo = <<>>]
  /\ dropped' = TRUE
  /\ UNCHANGED <<writerFrame, chan, pool, prog, cut>>

CarriesBuffer(op) == op.buf \in Buffers
DataCells(op) ==
  MapThenSumSet(LAMBDA i : op.spans[i].len, {i \in 1..Len(op.spans) : ~op.spans[i].zero})

(* Broken: the zero spans of a batch are not reported as dealt with.       *)
FinishOp_CountsData ==
  /\ WriterStep("work")
  /\ wr.todo = <<>>
  /\ wr' = [wr EXCEPT !.at = "sync", !.since = @ + DataCells(wr.op)]
  /\ IF CarriesBuffer(wr.op)
     THEN /\ pool' = IF ReaderGone THEN pool ELSE Append(pool, wr.op.buf)
          /\ prog' = [prog EXCEPT !.advanced = @ + DataCells(wr.op)]
     ELSE UNCHANGED <<pool, prog>>
  /\ UNCHANGED <<writerFrame, dest, chan, cut, dropped>>

(* Broken: the buffer is dropped with the operation.                       *)
FinishOp_Leaks ==
  /\ WriterStep("work")
  /\ wr.todo = <<>>
  /\ wr' = [wr EXCEPT !.at = "sync", !.since = @ + DataCells(wr.op)]
  /\ UNCHANGED pool
  /\ prog' = IF CarriesBuffer(wr.op)
             THEN [prog EXCEPT !.advanced = @ + wr.op.len] ELSE prog
  /\ UNCHANGED <<writerFrame, dest, chan, cut, dropped>>

(* The operation is dealt with: a batch gives its buffer back, and only    *)
(* then is reported.  since_sync counts data, not explicit zeroes.         *)
FinishOp ==
  /\ WriterStep("work")
  /\ wr.todo = <<>>
  /\ wr' = [wr EXCEPT !.at = "sync", !.since = @ + DataCells(wr.op)]
  /\ IF CarriesBuffer(wr.op)
     THEN /\ pool' = IF ReaderGone THEN pool ELSE Append(pool, wr.op.buf)
          /\ prog' = [prog EXCEPT !.advanced = @ + wr.op.len]
     ELSE UNCHANGED <<pool, prog>>
  /\ UNCHANGED <<writerFrame, dest, chan, cut, dropped>>

(* Broken: the watermark is never compared.                                *)
SyncDue_Never == FALSE

SyncDue == job.mark > 0 /\ wr.since >= job.mark /\ SupportsSync(dest)

SyncOrNot ==
  /\ WriterStep("sync")
  /\ dest' = IF SyncDue THEN Sync(dest) ELSE dest
  /\ wr' = [wr EXCEPT !.at = "recv", !.since = IF SyncDue THEN 0 ELSE @]
  /\ UNCHANGED <<writerFrame, chan, pool, prog, cut, dropped>>

SyncFails ==
  /\ "sync" \in Faults
  /\ WriterStep("sync")
  /\ SyncDue
  /\ wr' = [wr EXCEPT !.at = "closing", !.ret = "Io"]
  /\ UNCHANGED <<writerFrame, dest, chan, pool, prog, cut, dropped>>

(* Broken: an empty channel is taken for a closed one.                     *)
StreamEnds_Eager ==
  /\ WriterStep("recv")
  /\ chan = <<>>
  /\ wr' = [wr EXCEPT !.at = "closing", !.ret = "ok"]
  /\ UNCHANGED <<writerFrame, dest, chan, pool, prog, cut, dropped>>

StreamEnds ==
  /\ WriterStep("recv")
  /\ chan = <<>>
  /\ ReaderGone
  /\ wr' = [wr EXCEPT !.at = "closing", !.ret = "ok"]
  /\ UNCHANGED <<writerFrame, dest, chan, pool, prog, cut, dropped>>

DropRx ==
  /\ WriterStep("closing")
  /\ wr' = [wr EXCEPT !.at = "rxDropped"]
  /\ chan' = <<>>
  /\ dropped' = (dropped \/ chan # <<>>)
  /\ UNCHANGED <<writerFrame, dest, pool, prog, cut>>

DropPoolTx ==
  /\ WriterStep("rxDropped")
  /\ wr' = [wr EXCEPT !.at = "joining"]
  /\ UNCHANGED <<writerFrame, dest, chan, pool, prog, cut, dropped>>

Join ==
  /\ WriterStep("joining")
  /\ ReaderGone
  /\ wr' = [wr EXCEPT !.at = "joined"]
  /\ phase' = "finish"
  /\ UNCHANGED <<job, result, rd, dest, chan, pool, prog, cut, dropped>>

Writer ==
  \/ Receive \/ ElideSpan \/ ZeroSpan \/ WriteSpan \/ SpanFails \/ FinishOp
  \/ SyncOrNot \/ SyncFails \/ StreamEnds \/ DropRx \/ DropPoolTx \/ Join

-----------------------------------------------------------------------------
(* copy after the pipeline.                                                *)

(* What run_pipeline returned: a panic, the writer's error, the reader's.  *)
Outcome ==
  IF rd.ret = "panic" THEN "ReaderLost"
  ELSE IF wr.ret # "ok" THEN wr.ret
  ELSE rd.ret

(* Broken: an error travels on before Progress hears of the end.           *)
Finish_OnSuccess ==
  /\ phase = "finish"
  /\ IF Outcome # "ok" THEN Return(Outcome) /\ UNCHANGED prog
     ELSE /\ prog' = [prog EXCEPT !.finished = @ + 1]
          /\ IF job.bmap /\ rd.blocks # MappedBlocksCnt THEN Return("MappedBlockMismatch")
             ELSE phase' = "resize" /\ UNCHANGED result
  /\ UNCHANGED <<job, dest, threadVars>>

(* Progress hears the end before an error travels on; then the number of   *)
(* mapped blocks read is compared with the bmap's.                         *)
Finish ==
  /\ phase = "finish"
  /\ prog' = [prog EXCEPT !.finished = @ + 1]
  /\ IF Outcome # "ok" THEN Return(Outcome)
     ELSE IF job.bmap /\ rd.blocks # MappedBlocksCnt THEN Return("MappedBlockMismatch")
     ELSE phase' = "resize" /\ UNCHANGED result
  /\ UNCHANGED <<job, dest, threadVars>>

(* An image of unknown size turned out to be as long as what was read.     *)
FinalSize == IF SizeKnown THEN job.size ELSE rd.read

Resize ==
  /\ phase = "resize"
  /\ dest' = SizeDestination(dest, job.offset, FinalSize)
  /\ phase' = "sync"
  /\ UNCHANGED <<job, result, threadVars, prog>>

FinalSync ==
  /\ phase = "sync"
  /\ dest' = IF job.sync /\ SupportsSync(dest) THEN Sync(dest) ELSE dest
  /\ Return("ok")
  /\ UNCHANGED <<job, threadVars, prog>>

Caller ==
  \/ Check \/ Clear \/ SizeAndPlan \/ MainFails \/ Finish \/ Resize \/ FinalSync

-----------------------------------------------------------------------------

Returned == phase = "done" /\ UNCHANGED vars

Next == Caller \/ Reader \/ Writer \/ Returned

Spec == Init /\ [][Next]_vars

(* The calling thread runs copy and the writer; the reader is the other.   *)
Fairness == WF_vars(Reader) /\ WF_vars(Caller \/ Writer)

FairSpec == Spec /\ Fairness

=============================================================================
