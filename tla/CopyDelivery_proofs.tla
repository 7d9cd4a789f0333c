------------------------ MODULE CopyDelivery_proofs ------------------------
(***************************************************************************)
(* What a copy that succeeds has done: the image is there, and the tallies *)
(* and the progress reported add up to it; for any job, buffers, failures  *)
(* and interleaving.  And what `copy --verify` then says is sound, and a   *)
(* mismatch it reports has a cause: for any image and medium that has      *)
(* changed since, any offset and any size of batch.                        *)
(***************************************************************************)
EXTENDS ReadBack, CopyDestination_proofs

-----------------------------------------------------------------------------
(* What has been delivered.                                                *)

(* The writer has not failed.                                              *)
Going == Streaming \/ wr.ret = "ok"

(* Cell i of the image is as ImageDelivered wants it, and as               *)
(* WholeBlocksWritten does.                                                *)
Right(i) ==
  LET found == dest.cells[job.offset + i]
  IN  IF Expected(i) # Zero THEN found = Expected(i)
      ELSE \/ found = Zero
           \/ /\ found = Old /\ ~job.zeroMode /\ (~job.wipe \/ PastDevice(i))
              /\ WholeBatch => ~Touched(i)

(* A cell that copy has not come to.                                       *)
Fresh(c) ==
  /\ dest.cells[c] \in {Old, Zero}
  /\ phase \in {"size", "stream"} /\ job.wipe /\ dest.cells[c] = Old =>
       job.kind = "device" /\ c >= job.cap

Unstarted ==
  phase \in {"check", "clear", "size"} =>
    /\ wr.op = NoOp /\ wr.todo = <<>> /\ Streaming
    /\ wr.written = 0 /\ wr.elided = 0 /\ wr.zeroed = 0

Ahead == Streaming => \A c \in 0..MaxOffset : c >= job.offset + Reached => Fresh(c)

Behind(i) ==
  i < Reached /\ job.offset + i <= MaxOffset /\ (phase \in {"sync", "done"} => i < FinalSize)

Delivered ==
  Going /\ InOrder /\ job.kind # "sink" => \A i \in Nat : Behind(i) => Right(i)

Tallied ==
  /\ {wr.written, wr.elided, wr.zeroed} \subseteq Nat
  /\ Going => wr.written + wr.elided + wr.zeroed = Reached

(* A reader that got to the end sent everything, and a writer that got to  *)
(* the end received it.                                                    *)
Ended ==
  /\ Going /\ rd.ret = "ok" /\ ~cut =>
       /\ SentEnd = IF ByRanges THEN job.size ELSE rd.pos
       /\ ~ByRanges => rd.pos = job.srcLen
  /\ wr.ret = "ok" => chan = <<>>
  /\ rd.at # "ended" => rd.ret = "none"

DeliveryInv == Unstarted /\ Ahead /\ Delivered /\ Tallied /\ Ended

LEMMA ReachedIsNat ==
  ASSUME OpsInv
  PROVE  Reached \in Nat
<1>1. wr.op \in SoundOps /\ TodoInv
  BY DEF OpsInv, OpsIn
<1>2. CASE wr.todo = <<>>
  BY <1>1, <1>2, SoundFacts DEF Reached, EndOf
<1> QED
  BY <1>1, <1>2, NextSpan

LEMMA InitDelivery == Init => DeliveryInv
<1> SUFFICES ASSUME Init PROVE DeliveryInv
  OBVIOUS
<1>1. /\ wr = [at |-> "recv", op |-> NoOp, todo |-> <<>>, ret |-> "none",
               written |-> 0, elided |-> 0, zeroed |-> 0, since |-> 0]
      /\ rd.ret = "none" /\ phase = "check" /\ job \in Jobs
  BY DEF Init
<1>2. Reached = 0
  BY <1>1 DEF Reached, EndOf, NoOp
<1>3. DestInv
  BY InitDest
<1>4. Unstarted
  BY <1>1 DEF Unstarted, Streaming
<1>5. Ahead
  BY <1>1, <1>3 DEF Ahead, Fresh, DestInv, AllUntouched, Untouched, Found
<1>6. Delivered
  BY <1>2 DEF Delivered, Behind
<1>7. Tallied
  BY <1>1, <1>2 DEF Tallied
<1>8. Ended
  BY <1>1 DEF Ended
<1> QED
  BY <1>4, <1>5, <1>6, <1>7, <1>8 DEF DeliveryInv

(* What the properties of a cell rest on.                                  *)
LEMMA RightFixed ==
  ASSUME UNCHANGED job, NEW i, dest'.cells[job.offset + i] = dest.cells[job.offset + i]
  PROVE  Right(i)' = Right(i)
<1>1. UNCHANGED <<Expected(i), Touched(i), WholeBatch>>
  BY JobFixedMore
<1> QED
  BY <1>1 DEF Right, PastDevice

(* Steps that change neither what is stored nor how far the writer is.     *)
LEMMA SameDelivery ==
  ASSUME Shape, OpsInv, DeliveryInv, UNCHANGED <<job, phase, rd, dest.cells, Reached>>,
         UNCHANGED <<wr.written, wr.elided, wr.zeroed>>,
         phase = "stream", Streaming' => Streaming, Going' => Going
  PROVE  Unstarted' /\ Ahead' /\ Delivered' /\ Tallied'
<1> USE DEF DeliveryInv
<1>1. Unstarted'
  BY DEF Unstarted
<1>2. Ahead'
  BY DEF Ahead, Fresh
<1>3. UNCHANGED <<InOrder, FinalSize>>
  BY JobFixedMore DEF FinalSize, SizeKnown
<1>4. \A i : UNCHANGED <<Right(i), Behind(i)>>
  BY <1>3, RightFixed DEF Behind
<1>5. Delivered'
  BY <1>3, <1>4 DEF Delivered
<1>6. Tallied'
  BY DEF Tallied
<1> QED
  BY <1>1, <1>2, <1>5, <1>6

(* Receiving an operation, the writer stays where it is in the image.      *)
LEMMA ReceiveReaches ==
  ASSUME Shape, TileInv, OpsInv, OpsInv', Receive
  PROVE  Reached' = Reached
<1>1. /\ wr.at = "recv" /\ wr'.at = "work" /\ wr'.op = Head(chan) /\ wr'.todo = wr'.op.spans
      /\ chan # <<>> /\ chan' = Tail(chan)
  BY DEF Receive, WriterStep, Shape, WriterFields
<1>2. Linked /\ wr'.op.off = EndOf(wr.op)
  BY <1>1, ReceivingTiles DEF TileInv, Streaming
<1>3. wr.todo = <<>> /\ wr.op \in SoundOps /\ wr'.op \in SoundOps
  BY <1>1, JobFixedMore DEF OpsInv, TodoInv, OpsIn, Receive, writerFrame
<1>4. Reached = EndOf(wr.op) /\ EndOf(wr.op) \in Nat
  BY <1>3, SoundFacts DEF Reached, EndOf
<1>5. Reached' = IF wr'.op.spans = <<>> THEN wr'.op.off + wr'.op.len
                 ELSE wr'.op.off + Head(wr'.op.spans).offset
  BY <1>1 DEF Reached, EndOf, Span
<1>6. /\ wr'.op.spans = <<>> => wr'.op.len = 0
      /\ wr'.op.spans # <<>> => Head(wr'.op.spans).offset = 0
  BY <1>3, SoundFacts
<1> QED
  BY <1>2, <1>4, <1>5, <1>6

(* The span that is up, cell by cell.                                      *)
LEMMA SpanTells ==
  ASSUME OpsInv, wr.todo # <<>>, NEW i \in Nat, Reached <= i, i < Reached + Span.len
  PROVE  /\ i - Reached \in 0..(Span.len - 1)
         /\ IF Span.zero
            THEN InOrder => Expected(i) = Zero /\ (WholeBatch => ~Touched(i))
            ELSE /\ Mapped(i) /\ Payload[i - Reached] = Content(i)
<1>1. /\ wr.op \in SoundOps /\ TodoInv
  BY DEF OpsInv, OpsIn
<1>2. /\ Current \in 1..Len(wr.op.spans) /\ Span = wr.op.spans[Current]
      /\ Span.offset \in Nat /\ Span.len \in Nat \ {0} /\ Span.zero \in BOOLEAN
      /\ wr.op.off \in Nat /\ wr.op.len \in Nat
      /\ Reached = wr.op.off + Span.offset /\ Reached \in Nat
      /\ \A c \in Span.offset..(Span.offset + Span.len - 1) :
           c \in 0..(wr.op.len - 1) /\ Covers(wr.op, Current, c)
  BY <1>1, NextSpan
<1> DEFINE o == wr.op.off
           s == Span.offset
           l == Span.len
           c == i - o
<1>3. o \in Nat /\ s \in Nat /\ l \in Nat /\ Reached = o + s /\ o + s <= i /\ i < (o + s) + l
  BY <1>2
<1> HIDE DEF o, s, l
<1>4. /\ c \in s..(s + l - 1) /\ o + c = i /\ i - Reached \in 0..(l - 1)
      /\ o + s + (i - Reached) = i
  BY <1>3
<1> HIDE DEF c
<1>5. c \in 0..(wr.op.len - 1) /\ Covers(wr.op, Current, c)
  BY <1>2, <1>4 DEF s, l
<1>6. Truthful(wr.op, Current, c)
  BY <1>1, <1>2, <1>5 DEF SoundOps, Sound
<1>7. Payload[i - Reached] = Content(i)
  BY <1>4 DEF Payload, o, s, l
<1> QED
  BY <1>2, <1>4, <1>6, <1>7 DEF Truthful, o, l

(* A span is elided, zeroed or written: its cells come out right, and the  *)
(* others stay as they are.                                                *)
LEMMA SpanDelivers ==
  ASSUME Shape, OpsInv, DestInv, DeliveryInv, ElideSpan \/ ZeroSpan \/ WriteSpan
  PROVE  Unstarted' /\ Ahead' /\ Delivered' /\ Tallied'
<1>1. /\ phase = "stream" /\ wr.at = "work" /\ wr.todo # <<>> /\ UNCHANGED <<job, phase, result, rd>>
      /\ wr'.op = wr.op /\ wr'.todo = Tail(wr.todo) /\ wr'.at = "work" /\ wr'.ret = wr.ret
  BY DEF ElideSpan, ZeroSpan, WriteSpan, WriterStep, writerFrame, Shape, WriterFields
<1>2. /\ wr.op \in SoundOps /\ TodoInv /\ Unstarted /\ Ahead /\ Delivered /\ Tallied
      /\ job \in Jobs /\ Sane(dest) /\ dest.kind = job.kind /\ ~Refused
  BY <1>1 DEF OpsInv, OpsIn, DeliveryInv, DestInv, DestOk, Shape
<1>3. Reached' = Reached + Span.len /\ Reached \in Nat
  BY <1>1, <1>2, SpanDone, ReachedIsNat
<1>4. /\ At \in Nat /\ At = job.offset + Reached /\ Span.len \in Nat \ {0} /\ job.offset \in Nat
      /\ At + Span.len <= job.offset + Extent /\ Extent \in Nat /\ job.offset + Extent <= MaxOffset
      /\ MaxOffset \in Nat
      /\ \A n \in 0..Span.len : \A i \in 0..(n - 1) : Payload[i] \in CellSet \ {Old}
  BY <1>1, <1>2, SpanFits, ExtentFits, JobMore
<1>5. At + Span.len <= MaxOffset /\ Span.len \in 0..Span.len
  BY <1>4
<1> DEFINE Becomes(what) ==
             \A c \in 0..MaxOffset :
               dest'.cells[c] = IF ~IsSink(dest) /\ At <= c /\ c < At + Span.len
                                THEN what[c - At] ELSE dest.cells[c]
<1>6. /\ ZeroSpan => Becomes(Zeroes(Span.len))
      /\ WriteSpan => Becomes(Payload)
      /\ ElideSpan => dest' = dest
  <2>1. ZeroSpan => Paints(dest, dest', At, Span.len, Zeroes(Span.len))
    BY <1>2, <1>4, <1>5, Zeroing DEF ZeroSpan
  <2>2. WriteSpan => Paints(dest, dest', At, Span.len, Payload)
    BY <1>2, <1>4, <1>5, Writing DEF WriteSpan
  <2> QED
    BY <2>1, <2>2 DEF Paints, ElideSpan
<1>7. \A c \in 0..MaxOffset : c < At \/ c >= At + Span.len => dest'.cells[c] = dest.cells[c]
  BY <1>4, <1>6
<1>8. Unstarted'
  BY <1>1 DEF Unstarted
<1>9. Ahead'
  <2> SUFFICES ASSUME NEW c \in 0..MaxOffset, c >= job.offset + Reached'
               PROVE  Fresh(c)'
    BY <1>1 DEF Ahead
  <2>1. c >= job.offset + Reached /\ c >= At + Span.len
    BY <1>3, <1>4
  <2>2. Fresh(c) /\ dest'.cells[c] = dest.cells[c]
    BY <1>1, <1>2, <1>7, <2>1 DEF Ahead, Streaming
  <2> QED
    BY <1>1, <2>2 DEF Fresh
<1>10. Delivered'
  <2> SUFFICES ASSUME InOrder, job.kind # "sink", NEW i \in Nat, Behind(i)'
               PROVE  Right(i)'
    BY <1>1, JobFixedMore DEF Delivered
  <2>1. i < Reached + Span.len /\ job.offset + i \in 0..MaxOffset
    BY SMTT(30), <1>1, <1>3, <1>4 DEF Behind
  <2>2. CASE i < Reached
    <3>1. Right(i)
      BY <1>1, <1>2, <2>1, <2>2 DEF Delivered, Behind, Going, Streaming
    <3>2. dest'.cells[job.offset + i] = dest.cells[job.offset + i]
      BY <1>3, <1>4, <1>7, <2>1, <2>2
    <3> QED
      BY <1>1, <3>1, <3>2, RightFixed
  <2>3. CASE ~(i < Reached)
    <3> DEFINE c == job.offset + i
    <3>1. /\ i - Reached \in 0..(Span.len - 1)
          /\ IF Span.zero
             THEN InOrder => Expected(i) = Zero /\ (WholeBatch => ~Touched(i))
             ELSE Mapped(i) /\ Payload[i - Reached] = Content(i)
      BY <1>1, <1>3, <2>1, <2>3, SpanTells
    <3>2. c \in 0..MaxOffset /\ At <= c /\ c < At + Span.len /\ c - At = i - Reached
          /\ c >= job.offset + Reached
      BY <1>3, <1>4, <2>1, <2>3
    <3>3. /\ Expected(i)' = Expected(i) /\ job' = job
          /\ Touched(i)' = Touched(i) /\ WholeBatch' = WholeBatch
      BY <1>1, JobFixedMore
    <3>4. CASE ElideSpan
      <4>1. Span.zero /\ ~job.zeroMode /\ dest' = dest
        BY <3>4 DEF ElideSpan
      <4>2. Fresh(c)
        BY <1>1, <1>2, <3>2 DEF Ahead, Streaming
      <4>3. dest.cells[c] \in {Old, Zero} /\ (job.wipe /\ dest.cells[c] = Old => PastDevice(i))
        BY <1>1, <4>2 DEF Fresh, PastDevice
      <4> QED
        BY <3>1, <3>3, <4>1, <4>3, JobMore, <1>2 DEF Right, PastDevice
    <3>5. CASE ZeroSpan
      <4>1. Span.zero /\ dest'.cells[c] = Zero
        <5>1. dest'.cells[c] = Zeroes(Span.len)[c - At]
          BY <1>2, <1>6, <3>2, <3>5 DEF IsSink
        <5> QED
          BY <3>1, <3>2, <3>5, <5>1 DEF ZeroSpan, Zeroes
      <4> QED
        BY <3>1, <3>3, <4>1 DEF Right
    <3>6. CASE WriteSpan
      <4>1. ~Span.zero
        BY <3>6 DEF WriteSpan
      <4>2. dest'.cells[c] = Payload[c - At]
        BY <1>2, <1>6, <3>2, <3>6 DEF IsSink
      <4>3. dest'.cells[c] = Content(i) /\ Expected(i) = Content(i)
        BY <3>1, <3>2, <4>1, <4>2 DEF Expected
      <4> QED
        BY <3>3, <4>3 DEF Right
    <3> QED
      BY <3>4, <3>5, <3>6
  <2> QED
    BY <2>2, <2>3
<1>11. Tallied'
  <2> DEFINE w == wr.written
             e == wr.elided
             z == wr.zeroed
             l == Span.len
             r == Reached
  <2>1. w \in Nat /\ e \in Nat /\ z \in Nat /\ l \in Nat /\ w + e + z = r
    BY <1>1, <1>2, <1>4 DEF Tallied, Going, Streaming
  <2>2. \/ wr'.written = w /\ wr'.elided = e + l /\ wr'.zeroed = z
        \/ wr'.written = w /\ wr'.elided = e /\ wr'.zeroed = z + l
        \/ wr'.written = w + l /\ wr'.elided = e /\ wr'.zeroed = z
    <3> HIDE DEF l
    <3>1. ElideSpan => wr' = [wr EXCEPT !.todo = Tail(@), !.elided = @ + l]
      BY DEF ElideSpan, l
    <3>2. ZeroSpan => wr' = [wr EXCEPT !.todo = Tail(@), !.zeroed = @ + l]
      BY DEF ZeroSpan, l
    <3>3. WriteSpan => wr' = [wr EXCEPT !.todo = Tail(@), !.written = @ + l]
      BY DEF WriteSpan, l
    <3> QED
      BY <3>1, <3>2, <3>3 DEF Shape, WriterFields
  <2>3. Reached' = r + l
    BY <1>3
  <2> HIDE DEF w, e, z, l, r
  <2> QED
    BY <2>1, <2>2, <2>3 DEF Tallied
<1> QED
  BY <1>8, <1>9, <1>10, <1>11

LEMMA WriterDelivers ==
  ASSUME Shape, TileInv, OpsInv, OpsInv', DestInv, DeliveryInv, Writer
  PROVE  Unstarted' /\ Ahead' /\ Delivered' /\ Tallied'
<1>1. phase = "stream" /\ UNCHANGED <<job, result, rd, cut>> /\ (~Join => phase' = phase)
  BY WriterKeeps
<1>2. TodoInv /\ Unstarted /\ Ahead /\ Delivered /\ Tallied
  BY DEF OpsInv, DeliveryInv
<1> USE DEF Shape, WriterFields, WriterStep
<1>3. CASE ElideSpan \/ ZeroSpan \/ WriteSpan
  BY <1>3, SpanDelivers
<1>4. CASE Receive
  <2>1. /\ Reached' = Reached /\ UNCHANGED dest /\ wr.at = "recv"
        /\ UNCHANGED <<wr.written, wr.elided, wr.zeroed, wr.ret>>
    BY <1>4, ReceiveReaches DEF Receive
  <2> QED
    BY <1>1, <1>4, <2>1, SameDelivery DEF Going, Streaming, Join
<1>5. CASE SpanFails \/ SyncFails
  <2>1. /\ wr'.at = "closing" /\ wr'.ret = "Io" /\ phase' = phase
        /\ UNCHANGED <<wr.written, wr.elided, wr.zeroed>>
    BY <1>1, <1>5 DEF SpanFails, SyncFails, Join
  <2>2. ~Streaming' /\ ~Going'
    BY <2>1 DEF Streaming, Going
  <2> QED
    BY <1>1, <1>2, <2>1, <2>2 DEF Unstarted, Ahead, Delivered, Tallied
<1>6. CASE FinishOp \/ SyncOrNot \/ StreamEnds
  <2>1. /\ wr'.op = wr.op /\ wr'.todo = wr.todo /\ Streaming
        /\ UNCHANGED <<wr.written, wr.elided, wr.zeroed>>
    BY <1>6 DEF FinishOp, SyncOrNot, StreamEnds, Streaming
  <2>2. UNCHANGED dest.cells
    <3>1. dest' = dest \/ dest' = Sync(dest)
      BY <1>6 DEF FinishOp, SyncOrNot, StreamEnds
    <3>2. dest \in DestSet
      BY DEF DestInv, DestOk, Sane
    <3> QED
      BY <3>1, <3>2 DEF Sync, DestSet
  <2>3. UNCHANGED Reached
    BY <2>1 DEF Reached, EndOf, Span
  <2>4. phase' = phase
    BY <1>1, <1>6 DEF Join, FinishOp, SyncOrNot, StreamEnds
  <2> QED
    BY <1>1, <2>1, <2>2, <2>3, <2>4, SameDelivery DEF Going
<1>7. CASE DropRx \/ DropPoolTx \/ Join
  <2>1. /\ wr'.op = wr.op /\ wr'.todo = wr.todo /\ wr'.ret = wr.ret /\ ~Streaming /\ ~Streaming'
        /\ UNCHANGED <<wr.written, wr.elided, wr.zeroed, dest>>
    BY <1>7 DEF DropRx, DropPoolTx, Join, Streaming
  <2>2. UNCHANGED Reached
    BY <2>1 DEF Reached, EndOf, Span
  <2>3. phase' \in {"stream", "finish"}
    BY <1>1 DEF Join
  <2>4. UNCHANGED InOrder /\ \A i : Right(i)' = Right(i) /\ Behind(i)' = Behind(i)
    BY <1>1, <2>1, <2>2, <2>3, JobFixedMore, RightFixed DEF Behind
  <2>5. Delivered'
    BY <1>1, <1>2, <2>1, <2>4 DEF Delivered, Going
  <2>6. Unstarted' /\ Ahead' /\ Tallied'
    BY <1>2, <2>1, <2>2, <2>3 DEF Unstarted, Ahead, Tallied, Going
  <2> QED
    BY <2>5, <2>6
<1> QED
  BY <1>3, <1>4, <1>5, <1>6, <1>7 DEF Writer

LEMMA ReaderDelivers ==
  ASSUME Shape, DeliveryInv, Reader
  PROVE  Unstarted' /\ Ahead' /\ Delivered' /\ Tallied'
<1>1. UNCHANGED <<job, phase, result, dest, wr, prog>> /\ phase = "stream"
  BY ReaderKeeps DEF readerFrame
<1>2. UNCHANGED <<Reached, Streaming, Going>>
  BY <1>1 DEF Reached, EndOf, Span, Streaming, Going
<1>3. UNCHANGED InOrder /\ \A i : Right(i)' = Right(i) /\ Behind(i)' = Behind(i)
  BY <1>1, <1>2, JobFixedMore, RightFixed DEF Behind
<1> QED
  BY <1>1, <1>2, <1>3 DEF DeliveryInv, Unstarted, Ahead, Fresh, Delivered, Tallied

(* Before the pipeline, nothing is behind the writer.                      *)
LEMMA CallerDelivers ==
  ASSUME Shape, Placed, InPlace, ReadOn, OpsInv, ControlInv, DestInv, DeliveryInv, Caller
  PROVE  Unstarted' /\ Ahead' /\ Delivered' /\ Tallied'
<1>1. UNCHANGED <<job, rd, chan, wr>> /\ job \in Jobs /\ DestOk
  BY CallerKeeps DEF threadVars, Shape, DestInv
<1>2. UNCHANGED <<Reached, Streaming, Going, InOrder, FinalSize>> /\ Reached \in Nat
  BY <1>1, ReachedIsNat, JobFixedMore
     DEF Reached, EndOf, Span, Streaming, Going, FinalSize, SizeKnown
<1>3. Unstarted /\ Ahead /\ Delivered /\ Tallied
  BY DEF DeliveryInv
<1>4. Tallied'
  BY <1>1, <1>2, <1>3 DEF Tallied
<1>5. phase \in {"check", "clear", "size"} => Reached = 0 /\ Streaming
  BY <1>3 DEF Unstarted, Reached, EndOf, NoOp
<1>6. phase \in {"check", "clear", "size"} => Delivered'
  BY <1>2, <1>5 DEF Delivered, Behind
<1>7. CASE Check
  <2>1. phase = "check" /\ dest' = dest /\ phase' \in {"clear", "done"}
    BY <1>7 DEF Check, Return
  <2> QED
    BY <1>1, <1>2, <1>3, <1>4, <1>6, <2>1 DEF Unstarted, Ahead, Fresh
<1>8. CASE Clear \/ (MainFails /\ phase = "clear")
  <2>1. phase = "clear"
    BY <1>8 DEF Clear
  <2>2. /\ phase' \in {"size", "done"}
        /\ \A c \in 0..MaxOffset : \/ dest'.cells[c] = dest.cells[c]
                                   \/ dest'.cells[c] = Zero /\ Cleared(c)
        /\ phase' = "size" /\ job.kind = "device" =>
             \A c \in 0..(job.cap - 1) : Cleared(c) => dest'.cells[c] = Zero
        /\ phase' = "size" /\ job.wipe =>
             /\ job.kind # "sink"
             /\ job.kind = "file" => \A c \in 0..MaxOffset : dest'.cells[c] = Zero
    BY <1>1, <1>8, ClearingStep
  <2>3. Ahead'
    <3> SUFFICES ASSUME NEW c \in 0..MaxOffset, c >= job.offset + Reached
                 PROVE  Fresh(c)'
      BY <1>1, <1>2 DEF Ahead
    <3>1. dest.cells[c] \in {Old, Zero}
      BY <1>3, <1>5, <2>1 DEF Ahead, Fresh
    <3>2. dest'.cells[c] \in {Old, Zero}
      BY <2>2, <3>1
    <3>3. ASSUME phase' = "size", job.wipe, dest'.cells[c] = Old
          PROVE  job.kind = "device" /\ c >= job.cap
      <4>1. job.kind = "device"
        BY <1>1, <2>2, <3>3, JobMore DEF Zero, Old
      <4>2. ~(c \in 0..(job.cap - 1))
        BY <2>2, <3>3, <4>1 DEF Cleared, Zero, Old
      <4> QED
        BY <1>1, <4>1, <4>2, JobMore
    <3> QED
      BY <1>1, <2>2, <3>2, <3>3 DEF Fresh
  <2> QED
    BY <1>1, <1>2, <1>3, <1>4, <1>5, <1>6, <2>1, <2>2, <2>3 DEF Unstarted
<1>9. CASE SizeAndPlan \/ (MainFails /\ phase = "size")
  <2>1. /\ phase = "size" /\ phase' \in {"stream", "done"}
        /\ \/ dest' = dest
           \/ SizeKnown /\ dest' = SizeDestination(dest, job.offset, job.size)
    <3>1. SizeAndPlan =>
            dest' = IF SizeKnown THEN SizeDestination(dest, job.offset, job.size) ELSE dest
      BY DEF SizeAndPlan
    <3> QED
      BY <1>9, <3>1 DEF SizeAndPlan, MainFails, Return, ByRanges, SizeKnown
  <2>2. \A c \in 0..MaxOffset : dest'.cells[c] \in {Zero, dest.cells[c]}
    <3>1. CASE dest' = dest
      BY <3>1
    <3>2. CASE SizeKnown /\ dest' = SizeDestination(dest, job.offset, job.size)
      <4>1. ~Refused
        BY <2>1 DEF DestInv
      <4>2. Sized(dest, dest', job.offset, job.size)
        BY <1>1, <3>2, <4>1, SizeFits, SizingStep
      <4> QED
        BY <4>2 DEF Sized
    <3> QED
      BY <2>1, <3>1, <3>2
  <2>3. Ahead'
    <3> SUFFICES ASSUME NEW c \in 0..MaxOffset, c >= job.offset + Reached
                 PROVE  Fresh(c)'
      BY <1>1, <1>2 DEF Ahead
    <3>1. Fresh(c)
      BY <1>3, <1>5, <2>1 DEF Ahead
    <3> QED
      BY <1>1, <2>1, <2>2, <3>1 DEF Fresh, Zero, Old
  <2> QED
    BY <1>1, <1>2, <1>3, <1>4, <1>5, <1>6, <2>1, <2>3 DEF Unstarted
<1>10. phase \in {"finish", "resize", "sync"} => ~Streaming /\ wr.at = "joined"
  BY DEF ControlInv, Streaming
<1>11. CASE Finish \/ (MainFails /\ phase \in {"resize", "sync"})
  <2>1. phase \in {"finish", "resize", "sync"} /\ dest' = dest
    BY <1>11 DEF Finish, MainFails
  <2>2. phase' = "done" \/ (phase = "finish" /\ phase' = "resize")
    <3>1. CASE Finish
      <4>1. \/ Return(Outcome) \/ Return("MappedBlockMismatch") \/ phase' = "resize"
        BY <3>1, Zenon DEF Finish
      <4> QED
        BY <3>1, <4>1 DEF Finish, Return
    <3>2. CASE MainFails
      BY <3>2 DEF MainFails, Return
    <3> QED
      BY <1>11, <3>1, <3>2
  <2>3. \A i : (Right(i)' = Right(i)) /\ (Behind(i)' => Behind(i))
    BY <1>1, <1>2, <2>1, <2>2, RightFixed, JobFixedMore DEF Behind
  <2>4. Delivered'
    BY <1>1, <1>2, <1>3, <2>3 DEF Delivered
  <2> QED
    BY <1>2, <1>4, <1>10, <2>1, <2>2, <2>4 DEF Unstarted, Ahead
<1>12. CASE Resize
  <2>1. phase = "resize" /\ phase' = "sync" /\ dest' = SizeDestination(dest, job.offset, FinalSize)
    BY <1>12 DEF Resize
  <2>2. ~Refused
    BY <2>1 DEF DestInv
  <2>3. Sized(dest, dest', job.offset, FinalSize) /\ FinalSize \in Nat
    BY <1>1, <2>1, <2>2, FinalSizeFits, SizingStep
  <2>4. Delivered'
    <3> SUFFICES ASSUME Going, InOrder, job.kind # "sink", NEW i \in Nat, Behind(i)'
                 PROVE  Right(i)'
      BY <1>1, <1>2 DEF Delivered
    <3>1. i < FinalSize /\ Behind(i) /\ job.offset + i \in 0..MaxOffset /\ job.offset \in Nat
      BY <1>1, <1>2, <2>1, JobMore DEF Behind
    <3>2. Right(i)
      BY <1>3, <3>1 DEF Delivered
    <3>3. ~(job.offset = 0 /\ job.offset + i >= FinalSize)
      BY <2>3, <3>1
    <3>4. dest'.cells[job.offset + i] = dest.cells[job.offset + i]
      BY <2>3, <3>1, <3>3 DEF Sized
    <3> QED
      BY <1>1, <3>2, <3>4, RightFixed
  <2> QED
    BY <1>2, <1>4, <1>10, <2>1, <2>4 DEF Unstarted, Ahead
<1>13. CASE FinalSync
  <2>1. phase = "sync" /\ phase' = "done" /\ UNCHANGED dest.cells
    BY <1>13 DEF FinalSync, Return, Sync
  <2>2. \A i : (Right(i)' = Right(i)) /\ (Behind(i)' => Behind(i))
    BY <1>1, <1>2, <2>1, RightFixed, JobFixedMore DEF Behind
  <2>3. Delivered'
    BY <1>1, <1>2, <1>3, <2>2 DEF Delivered
  <2> QED
    BY <1>2, <1>4, <1>10, <2>1, <2>3 DEF Unstarted, Ahead
<1>14. MainFails => phase \in {"clear", "size", "resize", "sync"}
  BY DEF MainFails
<1> QED
  BY <1>7, <1>8, <1>9, <1>11, <1>12, <1>13, <1>14 DEF Caller

-----------------------------------------------------------------------------
(* The end of the image.                                                   *)

(* The reader returns Ok, not cut short, only at the end of what it is to  *)
(* read, all of which it has sent.                                         *)
LEMMA PlanEnds ==
  ASSUME Shape, OrderInv, Frontier, ReadOn, PlanDone
  PROVE  ByRanges /\ SentEnd = job.size
<1>1. /\ rd.range > RangeCount
      /\ rd.at = "range" \/ (rd.at = "plan" /\ ~GapAhead)
      /\ RangeCount \in Nat /\ rd.range \in Nat
  BY JobFacts DEF PlanDone, PastGap, ReaderStep, Shape
<1>2. /\ ByRanges /\ rd.pos = Lesser(rd.unmapped * job.bs, job.size)
      /\ rd.unmapped \in Nat
  BY <1>1 DEF OrderInv, InPlace, Between
<1>3. job.bs \in Nat \ {0} /\ job.size \in Nat
  BY JobFacts DEF Shape
<1> DEFINE blocks == CeilDiv(job.size, job.bs)
<1>4. blocks \in Nat /\ blocks * job.bs >= job.size
  BY <1>3, CeilFacts
<1>5. GapEnd = Lesser(blocks * job.bs, job.size)
  BY <1>1 DEF GapEnd
<1>6. blocks * job.bs \in Nat
  BY <1>3, <1>4
<1> HIDE DEF blocks
<1>7. GapEnd = job.size
  BY <1>3, <1>4, <1>5, <1>6 DEF Lesser
<1>8. CASE rd.at = "range"
  BY <1>2, <1>7, <1>8 DEF Frontier
<1>9. CASE rd.at = "plan" /\ ~GapAhead
  <2>1. GapStart \in Nat /\ GapStart = rd.unmapped * job.bs
    BY GapFacts DEF GapStart, OrderInv
  <2>2. ~(GapEnd > GapStart)
    BY <1>9 DEF GapAhead
  <2>3. rd.pos = job.size
    BY <1>2, <1>3, <1>7, <2>1, <2>2 DEF Lesser
  <2> QED
    BY <1>2, <1>9, <2>3 DEF Frontier
<1> QED
  BY <1>1, <1>8, <1>9

LEMMA SourceEnds ==
  ASSUME Shape, OrderInv, Frontier, ReadOn, ReadEnds, ~ByRanges
  PROVE  SentEnd = rd.pos /\ rd.pos = job.srcLen
<1>1. /\ rd.at = "fill" /\ Filled = 0 /\ rd.pos \in Nat /\ rd.off \in Nat /\ rd.pos <= job.srcLen
      /\ rd.pos = rd.off /\ SentEnd = rd.off /\ job.srcLen \in Nat /\ BatchCells \in Nat \ {0}
  BY JobFacts DEF ReadEnds, ReaderStep, OrderInv, InPlace, ReadOn, Inside, Frontier, Shape
<1>2. Filled = Lesser(BatchCells, Greater(0, job.srcLen - rd.pos))
  BY DEF Filled, Want
<1> QED
  BY <1>1, <1>2 DEF Lesser, Greater

(* The reader returns Ok, not cut short, at the end of its plan.           *)
LEMMA OkEnds ==
  ASSUME Shape, Reader, rd.ret # "ok", rd'.ret = "ok", ~cut'
  PROVE  PlanDone \/ (ReadEnds /\ ~ByRanges)
<1>1. rd.at # "ended"
  BY ReaderMoves
<1> USE DEF Shape, ReaderFields
<1>2. CASE MeetGap \/ ReportGap \/ ReportGapClosed \/ TakeBuffer \/ NextBatch \/ SendBatch
           \/ ReadBatch
  <2>1. rd'.ret = rd.ret
    BY <1>2 DEF MeetGap, ReportGap, ReportGapClosed, TakeBuffer, NextBatch, SendBatch, ReadBatch
  <2> QED
    BY <2>1
<1>3. CASE EnterRange
  <2> DEFINE start == RangeStart(Entry(rd.range))
  <2>1. CASE SkipTo(start) = "ok"
    <3>1. rd' = [rd EXCEPT !.at = "await", !.off = start, !.pos = start,
                           !.unmapped = Entry(rd.range).last + 1]
      BY <1>3, <2>1, Zenon DEF EnterRange
    <3> HIDE DEF start
    <3> QED
      BY <3>1
  <2>2. CASE SkipTo(start) # "ok"
    <3>1. ReaderEnds(SkipTo(start))
      BY <1>3, <2>2, Zenon DEF EnterRange
    <3> HIDE DEF start
    <3> QED
      BY <2>2, <3>1 DEF ReaderEnds
  <2> QED
    BY <2>1, <2>2
<1>4. CASE PoolClosed \/ SendBatchClosed \/ ReadFails \/ ReaderPanics
  BY <1>4 DEF PoolClosed, SendBatchClosed, ReadFails, ReaderPanics, ReaderEnds
<1>5. CASE CloseRange
  BY <1>5, ClosingRange
<1>6. CASE ReadEnds
  BY <1>6 DEF ReadEnds, ReaderEnds
<1> QED
  BY <1>2, <1>3, <1>4, <1>5, <1>6 DEF Reader

LEMMA ReaderEnded ==
  ASSUME SuccessInv, OrderInv, TileInv, ReadOn, Ended, Reader
  PROVE  Ended'
<1>1. UNCHANGED <<job, wr>> /\ rd.at # "ended" /\ Shape /\ OkIsEarned
  BY ReaderKeeps, ReaderMoves DEF readerFrame, SuccessInv
<1>2. wr.ret # "ok" /\ rd.ret = "none"
  BY <1>1 DEF OkIsEarned, Ended
<1>3. rd'.at # "ended" => rd'.ret = "none"
  BY <1>1, <1>2, ReaderMoves
<1>4. ASSUME Going', rd'.ret = "ok", ~cut'
      PROVE  /\ SentEnd' = IF ByRanges' THEN job'.size ELSE rd'.pos
             /\ ~ByRanges' => rd'.pos = job'.srcLen
  <2>1. Streaming
    BY <1>1, <1>2, <1>4 DEF Going, Streaming
  <2>2. Frontier
    BY <2>1 DEF TileInv
  <2>3. PlanDone \/ ReadEnds
    BY <1>1, <1>2, <1>4, OkEnds
  <2>4. UNCHANGED <<chan, SentEnd, rd.pos, ByRanges>>
    <3>1. UNCHANGED chan
      BY <2>3 DEF PlanDone, ReadEnds
    <3>2. rd'.pos = rd.pos
      BY <1>1, <2>3 DEF PlanDone, ReadEnds, ReaderEnds, Shape, ReaderFields
    <3> QED
      BY <1>1, <3>1, <3>2, JobFixed DEF SentEnd, EndOf
  <2>5. CASE PlanDone
    BY <1>1, <2>2, <2>4, <2>5, PlanEnds
  <2>6. CASE ReadEnds /\ ~PlanDone
    <3>1. ~ByRanges
      BY <1>1, <1>4, <2>6 DEF ReadEnds, ReaderEnds, Shape, ReaderFields
    <3> QED
      BY <1>1, <2>2, <2>4, <2>6, <3>1, SourceEnds
  <2> QED
    BY <2>3, <2>5, <2>6
<1> QED
  BY <1>1, <1>2, <1>3, <1>4 DEF Ended

LEMMA WriterEnded ==
  ASSUME Shape, TileInv, Ended, Writer
  PROVE  Ended'
<1>1. UNCHANGED <<job, rd, cut>>
  BY WriterKeeps
<1>2. UNCHANGED ByRanges
  BY <1>1, JobFixed
<1> USE DEF Shape, WriterFields, WriterStep
<1>3. CASE Receive
  <2>1. /\ Streaming /\ chan # <<>> /\ chan' = Tail(chan) /\ wr'.op = Head(chan)
        /\ wr'.ret = wr.ret
    BY <1>3 DEF Receive, Streaming
  <2>2. SentEnd' = SentEnd
    BY <2>1, ReceivingTiles DEF TileInv
  <2>3. wr.ret # "ok"
    BY <2>1 DEF Ended
  <2> QED
    BY <1>1, <1>2, <2>1, <2>2, <2>3 DEF Ended, Going
<1>4. CASE ElideSpan \/ ZeroSpan \/ WriteSpan \/ FinishOp \/ SyncOrNot
  <2>1. wr'.op = wr.op /\ chan' = chan /\ Streaming /\ wr'.ret = wr.ret
    BY <1>4 DEF ElideSpan, ZeroSpan, WriteSpan, FinishOp, SyncOrNot, Streaming
  <2>2. SentEnd' = SentEnd
    BY <2>1 DEF SentEnd, EndOf
  <2> QED
    BY <1>1, <1>2, <2>1, <2>2 DEF Ended, Going
<1>5. CASE SpanFails \/ SyncFails
  <2>1. wr'.at = "closing" /\ wr'.ret = "Io"
    BY <1>5 DEF SpanFails, SyncFails
  <2>2. ~Going'
    BY <2>1 DEF Going, Streaming
  <2> QED
    BY <1>1, <2>1, <2>2 DEF Ended
<1>6. CASE StreamEnds
  <2>1. wr'.op = wr.op /\ chan' = chan /\ chan = <<>> /\ Streaming
    BY <1>6 DEF StreamEnds, Streaming
  <2>2. SentEnd' = SentEnd
    BY <2>1 DEF SentEnd, EndOf
  <2> QED
    BY <1>1, <1>2, <2>1, <2>2 DEF Ended, Going
<1>7. CASE DropRx \/ DropPoolTx \/ Join
  <2>1. /\ wr'.op = wr.op /\ wr'.ret = wr.ret /\ ~Streaming /\ ~Streaming'
        /\ chan' = chan \/ chan' = <<>>
    BY <1>7 DEF DropRx, DropPoolTx, Join, Streaming
  <2>2. wr.ret = "ok" => chan' = chan
    BY <2>1 DEF Ended
  <2>3. wr.ret = "ok" => SentEnd' = SentEnd
    BY <2>1, <2>2 DEF SentEnd, EndOf
  <2> QED
    BY <1>1, <1>2, <2>1, <2>2, <2>3 DEF Ended, Going
<1> QED
  BY <1>3, <1>4, <1>5, <1>6, <1>7 DEF Writer

LEMMA OthersEnded ==
  ASSUME Ended, UNCHANGED <<job, threadVars>>
  PROVE  Ended'
<1>1. UNCHANGED <<rd, wr, chan, cut, job>>
  BY DEF threadVars
<1>2. UNCHANGED <<SentEnd, Going, ByRanges>>
  BY <1>1, JobFixed DEF SentEnd, EndOf, Going, Streaming
<1> QED
  BY <1>1, <1>2 DEF Ended

LEMMA StepDelivery ==
  ASSUME EngineInv, EngineInv', DeliveryInv, [Next]_vars
  PROVE  DeliveryInv'
<1>1. /\ Shape /\ Placed /\ InPlace /\ ReadOn /\ OpsInv /\ OpsInv' /\ ControlInv /\ DestInv
      /\ TileInv /\ OrderInv /\ SuccessInv /\ Ended
  BY DEF EngineInv, SuccessInv, OwnerInv, OrderInv, DeliveryInv
<1>2. CASE UNCHANGED vars
  <2>1. UNCHANGED <<job, phase, result, dest, rd, wr, threadVars>>
    BY <1>2 DEF vars, threadVars
  <2>2. Ended'
    BY <1>1, <2>1, OthersEnded
  <2>3. UNCHANGED <<Reached, Streaming, Going, InOrder, FinalSize>>
    BY <2>1, JobFixedMore DEF Reached, EndOf, Span, Streaming, Going, FinalSize, SizeKnown
  <2>4. \A i : Right(i)' = Right(i) /\ Behind(i)' = Behind(i)
    BY <2>1, <2>3, JobFixedMore, RightFixed DEF Behind
  <2> QED
    BY <2>1, <2>2, <2>3, <2>4 DEF DeliveryInv, Unstarted, Ahead, Fresh, Delivered, Tallied
<1>3. CASE Caller
  <2>1. Ended'
    BY <1>1, <1>3, CallerKeeps, OthersEnded
  <2> QED
    BY <1>1, <1>3, <2>1, CallerDelivers DEF DeliveryInv
<1>4. CASE Reader
  BY <1>1, <1>4, ReaderDelivers, ReaderEnded DEF DeliveryInv
<1>5. CASE Writer
  BY <1>1, <1>5, WriterDelivers, WriterEnded DEF DeliveryInv
<1> QED
  BY <1>2, <1>3, <1>4, <1>5 DEF Next, Returned

(* What the writer has dealt with is delivered and tallied, cell by cell,  *)
(* what it has not come to is as it was found, and the two threads agree   *)
(* on where the image ends.  (copy.rs:256-581)                             *)
THEOREM DeliveryInvHolds == Spec => []DeliveryInv
<1>1. EngineInv /\ EngineInv' /\ DeliveryInv /\ [Next]_vars => DeliveryInv'
  BY StepDelivery
<1> QED
  BY <1>1, InitDelivery, EngineInvHolds, PTL DEF Spec

(* At the end of a copy that succeeds the writer has dealt with all of it. *)
LEMMA SuccessReachesEnd ==
  ASSUME EngineInv, DeliveryInv, Ok
  PROVE  /\ Going /\ ~Streaming /\ phase = "done"
         /\ Reached = IF ByRanges THEN job.size ELSE rd.read
         /\ ~ByRanges => rd.read = job.srcLen
<1>1. /\ SuccessInv /\ ControlInv /\ OpsInv /\ ReadOn /\ Ended
  BY DEF EngineInv, DeliveryInv
<1>2. rd.ret = "ok" /\ wr.ret = "ok" /\ ~cut /\ phase = "done" /\ wr.at = "joined"
  BY <1>1 DEF SuccessInv, OkIsPassedOn, OkIsEarned, Outcome, Ok, ControlInv
<1>3. Going /\ ~Streaming /\ wr.todo = <<>> /\ chan = <<>>
  BY <1>1, <1>2 DEF Going, Streaming, OpsInv, TodoInv, Ended
<1>4. Reached = SentEnd
  BY <1>3, EmptySeq DEF Reached, SentEnd
<1> QED
  BY <1>1, <1>2, <1>3, <1>4 DEF Ended, ReadOn

(* Then every cell of the image is right.                                  *)
LEMMA SuccessIsRight ==
  ASSUME EngineInv, DeliveryInv, OnlyAscendingSucceeds, Ok, job.kind # "sink",
         NEW i \in 0..(Lesser(FinalSize, job.srcLen) - 1)
  PROVE  Right(i)
<1>1. /\ job \in Jobs /\ Placed /\ InPlace /\ ReadOn /\ DestInv
  BY DEF EngineInv, SuccessInv, Shape, OwnerInv, OrderInv
<1>2. /\ Going /\ phase = "done"
      /\ Reached = IF ByRanges THEN job.size ELSE rd.read
      /\ ~ByRanges => rd.read = job.srcLen
  BY SuccessReachesEnd
<1>3. InOrder
  BY DEF OnlyAscendingSucceeds, InOrder
<1>4. /\ job.size \in Nat /\ job.srcLen \in Nat /\ job.offset \in Nat
      /\ job.offset + job.srcLen <= MaxOffset /\ MaxOffset \in Nat /\ rd.read \in Nat
  BY <1>1, JobFacts, JobMore DEF ReadOn
<1>5. FinalSize \in Nat /\ (ByRanges => FinalSize = job.size)
  BY <1>4 DEF FinalSize, SizeKnown, ByRanges
<1>6. i \in Nat /\ i < FinalSize /\ i < job.srcLen
  BY <1>4, <1>5 DEF Lesser
<1>7. Behind(i)
  BY <1>2, <1>4, <1>5, <1>6 DEF Behind
<1> QED
  BY <1>2, <1>3, <1>6, <1>7 DEF DeliveryInv, Delivered

(* A copy that returns Ok has delivered the image: mapped data in its      *)
(* place, zeroes where ZeroMode::Zero asks for them, and nothing of what   *)
(* was there before but in blocks that the mode or the map leaves out.     *)
(* (dest.rs:43-54, copy.rs:480-581)                                        *)
THEOREM OkDeliversImage == Spec => []ImageDelivered
<1>1. EngineInv /\ DeliveryInv /\ OnlyAscendingSucceeds => ImageDelivered
  <2> SUFFICES ASSUME EngineInv, DeliveryInv, OnlyAscendingSucceeds, Ok, job.kind # "sink",
                      NEW i \in 0..(Lesser(FinalSize, job.srcLen) - 1)
               PROVE  Right(i)
    BY DEF ImageDelivered, Right
  <2> QED
    BY SuccessIsRight
<1> QED
  BY <1>1, EngineInvHolds, DeliveryInvHolds, DisorderNeverSucceeds, PTL

(* Of a block that is mapped and holds data every cell is written, holes   *)
(* and zeroes in it included, when a batch is a whole number of blocks:    *)
(* the copy with batches of three cells and blocks of two does not.        *)
(* (zero.rs:51-84, copy.rs:299-478)                                        *)
THEOREM BlocksAreWhole == Spec => [](WholeBatch => WholeBlocksWritten)
<1>1. EngineInv /\ DeliveryInv /\ OnlyAscendingSucceeds => (WholeBatch => WholeBlocksWritten)
  <2> SUFFICES ASSUME EngineInv, DeliveryInv, OnlyAscendingSucceeds, WholeBatch, Ok,
                      job.kind # "sink", NEW i \in 0..(Lesser(FinalSize, job.srcLen) - 1),
                      Mapped(i), \E k \in job.data : Mapped(k) /\ k \div job.bs = i \div job.bs
               PROVE  dest.cells[job.offset + i] = Content(i)
    BY DEF WholeBlocksWritten
  <2>1. Right(i)
    BY SuccessIsRight
  <2>2. Touched(i) /\ Expected(i) = Content(i)
    BY DEF Touched, Expected
  <2> QED
    BY <2>1, <2>2 DEF Right
<1> QED
  BY <1>1, EngineInvHolds, DeliveryInvHolds, DisorderNeverSucceeds, PTL

-----------------------------------------------------------------------------
(* How much has been read.                                                 *)

(* The cells of the first k entries, as TotalCells adds them up.           *)
Widths == [i \in 1..RangeCount |-> RangeCells(i)]

PlanFold ==
  CHOOSE it : it = [s \in SUBSET (1..RangeCount) |->
                      IF s = {} THEN 0
                      ELSE RangeCells(CHOOSE x \in s : TRUE)
                             + it[s \ {CHOOSE x \in s : TRUE}]]

ReadUpto(k) == PlanFold[1..k]

LEMMA PlanAddsUp ==
  ASSUME job \in Jobs
  PROVE  /\ ReadUpto(0) = 0
         /\ \A k \in 0..RangeCount : ReadUpto(k) \in Nat /\ ReadUpto(k) <= ReadUpto(RangeCount)
         /\ \A k \in 1..RangeCount : /\ RangeCells(k) \in Nat
                                     /\ ReadUpto(k) = ReadUpto(k - 1) + RangeCells(k)
         /\ ByRanges => TotalCells = ReadUpto(RangeCount)
<1> DEFINE S == 1..RangeCount
<1>1. RangeCount \in Nat /\ IsFiniteSet(S) /\ \A k \in S : RangeCells(k) \in Nat
  <2>1. RangeCount \in Nat
    BY JobFacts
  <2>2. IsFiniteSet(S)
    BY <2>1, FS_Interval
  <2>3. ASSUME NEW k \in S PROVE RangeCells(k) \in Nat
    BY <2>3, RangeFacts DEF RangeCells
  <2> QED
    BY <2>1, <2>2, <2>3
<1>2. Widths \in [S -> Nat] /\ \A k \in S : Widths[k] = RangeCells(k)
  BY <1>1 DEF Widths
<1>3. ByRanges => TotalCells = PlanFold[S]
  BY DEF TotalCells, MapThenSumSet, MapThenFoldSet, PlanFold
<1>4. \E it : it = [s \in SUBSET S |->
                      IF s = {} THEN 0
                      ELSE RangeCells(CHOOSE x \in s : TRUE)
                             + it[s \ {CHOOSE x \in s : TRUE}]]
  <2>1. PICK it : Sums(it, S, Widths)
    BY <1>1, <1>2, SumExists
  <2>2. \A s \in SUBSET S : s # {} =>
          Widths[CHOOSE x \in s : TRUE] = RangeCells(CHOOSE x \in s : TRUE)
    BY <1>2
  <2>3. it = [s \in SUBSET S |->
                IF s = {} THEN 0
                ELSE RangeCells(CHOOSE x \in s : TRUE) + it[s \ {CHOOSE x \in s : TRUE}]]
    <3> HIDE DEF S
    <3> QED
      BY <2>1, <2>2 DEF Sums
  <2> QED
    BY <2>3
<1>5. PlanFold = [s \in SUBSET S |->
                    IF s = {} THEN 0
                    ELSE RangeCells(CHOOSE x \in s : TRUE)
                           + PlanFold[s \ {CHOOSE x \in s : TRUE}]]
  BY <1>4 DEF PlanFold
<1>6. Sums(PlanFold, S, Widths)
  <2>2. \A s \in SUBSET S : s # {} =>
          Widths[CHOOSE x \in s : TRUE] = RangeCells(CHOOSE x \in s : TRUE)
    BY <1>2
  <2> HIDE DEF S
  <2> QED
    BY <1>5, <2>2 DEF Sums
<1>7. /\ PlanFold[1..0] = 0
      /\ \A k \in 0..RangeCount : PlanFold[1..k] \in Nat
      /\ \A k \in 1..RangeCount : PlanFold[1..k] = PlanFold[1..(k - 1)] + Widths[k]
      /\ \A k \in 0..RangeCount : PlanFold[1..k] <= PlanFold[1..RangeCount]
  BY <1>1, <1>2, <1>6, SumUpto
<1> QED
  BY <1>1, <1>2, <1>3, <1>7 DEF ReadUpto

LEMMA PlanFixed ==
  ASSUME UNCHANGED job
  PROVE  \A k : UNCHANGED <<ReadUpto(k), RangeCells(k)>>
BY DEF ReadUpto, PlanFold, RangeCells, RangeStart, RangeEnd, RangeCount, Entry

(* What was read is what the plan holds up to where the reader is; and all *)
(* of it once the reader has returned Ok and was not cut short.            *)
ReadHere == IF Inside THEN rd.pos - RangeStart(Entry(rd.range)) ELSE 0

ReadInv ==
  ByRanges =>
    /\ rd.range <= RangeCount + 1
    /\ IF rd.at # "ended" THEN rd.read = ReadUpto(rd.range - 1) + ReadHere
       ELSE /\ rd.read <= TotalCells
            /\ rd.ret = "ok" /\ ~cut => rd.read = TotalCells

LEMMA InitRead == Init => ReadInv
<1> SUFFICES ASSUME Init PROVE ReadInv
  OBVIOUS
<1>1. job \in Jobs /\ rd.range = 1 /\ rd.read = 0 /\ (ByRanges => rd.at = "plan")
  BY DEF Init
<1>2. RangeCount \in Nat /\ ReadUpto(0) = 0
  BY <1>1, JobFacts, PlanAddsUp
<1> QED
  BY <1>1, <1>2 DEF ReadInv, ReadHere, Inside

(* Until it ends, the reader has not read more than the plan holds.        *)
LEMMA ReadBound ==
  ASSUME Shape, InPlace, Placed, ReadOn, ReadInv, ByRanges, rd.at # "ended"
  PROVE  /\ rd.read <= TotalCells
         /\ rd.range > RangeCount => rd.read = TotalCells
<1>1. /\ job \in Jobs /\ rd.range \in Nat \ {0} /\ RangeCount \in Nat
      /\ rd.range <= RangeCount + 1 /\ rd.read = ReadUpto(rd.range - 1) + ReadHere
      /\ rd.pos \in Nat
  BY JobFacts DEF Shape, ReadInv, InPlace
<1>2. /\ \A k \in 0..RangeCount : ReadUpto(k) \in Nat /\ ReadUpto(k) <= ReadUpto(RangeCount)
      /\ TotalCells = ReadUpto(RangeCount)
  BY <1>1, PlanAddsUp
<1>3. CASE Inside
  <2>1. rd.range \in 1..RangeCount /\ rd.pos <= RangeEnd(Entry(rd.range))
    BY <1>1, <1>3 DEF InPlace
  <2>2. /\ RangeStart(Entry(rd.range)) \in Nat /\ RangeEnd(Entry(rd.range)) \in Nat
        /\ RangeCells(rd.range) = RangeEnd(Entry(rd.range)) - RangeStart(Entry(rd.range))
    BY <1>1, <2>1, RangeFacts DEF RangeCells
  <2>3. ReadUpto(rd.range) = ReadUpto(rd.range - 1) + RangeCells(rd.range)
    BY <1>1, <2>1, PlanAddsUp
  <2>4. ReadUpto(rd.range - 1) \in Nat /\ ReadUpto(rd.range) <= ReadUpto(RangeCount)
    BY <1>1, <1>2, <2>1
  <2>5. rd.read <= ReadUpto(rd.range)
    BY <1>1, <1>3, <2>1, <2>2, <2>3, <2>4 DEF ReadHere
  <2>6. rd.read \in Nat /\ ReadUpto(rd.range) \in Nat /\ ReadUpto(RangeCount) \in Nat
    BY <1>1, <1>2, <2>1 DEF ReadOn
  <2> QED
    BY <1>1, <1>2, <2>1, <2>4, <2>5, <2>6
<1>4. CASE ~Inside
  <2>1. rd.read = ReadUpto(rd.range - 1) /\ rd.range - 1 \in 0..RangeCount
    <3>1. rd.range - 1 \in 0..RangeCount
      BY <1>1
    <3> QED
      BY <1>1, <1>2, <1>4, <3>1 DEF ReadHere
  <2>2. rd.range > RangeCount => rd.range - 1 = RangeCount
    BY <1>1
  <2> QED
    BY <1>2, <2>1, <2>2
<1> QED
  BY <1>3, <1>4

LEMMA ReaderRead ==
  ASSUME SuccessInv, OrderInv, Placed, ReadOn, Ended, ReadInv, Reader
  PROVE  ReadInv'
<1> SUFFICES ASSUME ByRanges PROVE ReadInv'
  <2>1. UNCHANGED job
    BY ReaderKeeps DEF readerFrame
  <2> QED
    BY <2>1, JobFixed DEF ReadInv
<1>1. /\ Shape /\ InPlace /\ job \in Jobs /\ UNCHANGED job /\ rd.at # "ended"
      /\ rd.range \in Nat \ {0} /\ RangeCount \in Nat /\ rd.range <= RangeCount + 1
      /\ rd.ret = "none"
      /\ rd.read = ReadUpto(rd.range - 1) + ReadHere /\ rd.read \in Nat
      /\ {rd.off, rd.pos} \subseteq Nat
  BY ReaderKeeps, ReaderMoves, JobFacts
     DEF readerFrame, SuccessInv, OrderInv, Shape, Ended, ReadInv, ReadOn, InPlace
<1>2. /\ UNCHANGED <<ByRanges, RangeCount, TotalCells>>
      /\ \A k : UNCHANGED <<ReadUpto(k), RangeStart(Entry(k)), RangeEnd(Entry(k))>>
  BY <1>1, JobFixed, PlanFixed, TotalFixed
<1>3. rd'.read = IF ReadBatch THEN rd.read + Filled ELSE rd.read
  BY <1>1, ReadGrows
<1>4. ReadBatch => rd.at = "fill"
  BY DEF ReadBatch, ReaderStep
<1>5. rd.range \in 1..RangeCount =>
        /\ RangeStart(Entry(rd.range)) \in Nat
        /\ RangeCells(rd.range) = RangeEnd(Entry(rd.range)) - RangeStart(Entry(rd.range))
        /\ ReadUpto(rd.range - 1) \in Nat
        /\ ReadUpto(rd.range) = ReadUpto(rd.range - 1) + RangeCells(rd.range)
  BY <1>1, RangeFacts, PlanAddsUp DEF RangeCells
<1>6. CASE Ends
  <2>1. /\ rd'.at = "ended" /\ rd'.range = rd.range
    BY <1>6 DEF Ends
  <2>2. ~ReadBatch
    BY <1>1, <2>1 DEF ReadBatch, Shape, ReaderFields
  <2>3. rd.read <= TotalCells /\ (rd.range > RangeCount => rd.read = TotalCells)
    BY <1>1, ReadBound
  <2>4. rd'.ret = "ok" /\ ~cut' => rd.range > RangeCount
    BY <1>1, OkEnds DEF PlanDone
  <2> QED
    BY <1>1, <1>2, <1>3, <2>1, <2>2, <2>3, <2>4 DEF ReadInv
<1>7. CASE /\ MeetGap \/ ReportGap \/ ReportGapClosed
           /\ Between /\ Between' /\ UNCHANGED <<rd.range, rd.off, rd.pos, rd.unmapped>>
  <2>1. ~Inside /\ ~Inside' /\ rd'.at # "ended" /\ ~ReadBatch
    BY <1>4, <1>7 DEF Inside, Between
  <2> QED
    BY <1>1, <1>2, <1>3, <1>7, <2>1 DEF ReadInv, ReadHere
<1>8. CASE /\ EnterRange /\ rd.at \in {"plan", "range"} /\ rd.range <= RangeCount
           /\ rd'.at = "await" /\ rd'.off = RangeStart(Entry(rd.range)) /\ rd'.pos = rd'.off
           /\ rd'.range = rd.range
  <2>1. ~Inside /\ Inside' /\ rd'.at # "ended" /\ ~ReadBatch /\ rd.range \in 1..RangeCount
    BY <1>1, <1>4, <1>8 DEF Inside
  <2>2. rd'.pos = RangeStart(Entry(rd.range)) /\ RangeStart(Entry(rd.range))' = rd'.pos
    BY <1>2, <1>8
  <2>3. rd'.pos \in Nat /\ ReadHere' = 0 /\ ReadHere = 0
    BY <1>5, <2>1, <2>2 DEF ReadHere
  <2> QED
    BY <1>1, <1>2, <1>3, <1>8, <2>1, <2>3 DEF ReadInv
<1>9. CASE /\ rd.at \in {"await", "send", "next"} /\ rd'.at \in {"fill", "next", "await"}
           /\ UNCHANGED <<rd.range, rd.pos>>
  <2>1. Inside /\ Inside' /\ rd'.at # "ended" /\ ~ReadBatch
    BY <1>4, <1>9 DEF Inside
  <2>2. ReadHere' = ReadHere
    BY <1>2, <1>9, <2>1 DEF ReadHere
  <2> QED
    BY <1>1, <1>2, <1>3, <1>9, <2>1, <2>2 DEF ReadInv
<1>10. CASE /\ ReadBatch /\ rd.at = "fill" /\ rd'.at = "send"
            /\ rd'.range = rd.range /\ rd'.pos = rd.pos + Filled
  <2>1. Inside /\ Inside' /\ rd'.at # "ended"
    BY <1>10 DEF Inside
  <2>2. Filled \in Nat /\ rd.range \in 1..RangeCount
    BY <1>1, <1>10, <2>1, FilledFits DEF InPlace
  <2>3. ReadHere' = ReadHere + Filled /\ ReadHere \in Int /\ ReadUpto(rd.range - 1) \in Nat
    <3>1. /\ ReadHere = rd.pos - RangeStart(Entry(rd.range))
          /\ ReadHere' = rd'.pos - RangeStart(Entry(rd.range))
      BY <1>2, <1>10, <2>1 DEF ReadHere
    <3> QED
      BY <1>1, <1>5, <1>10, <2>2, <3>1
  <2>4. rd'.read = ReadUpto(rd.range - 1) + ReadHere'
    BY <1>1, <1>3, <1>10, <2>2, <2>3
  <2> QED
    BY <1>1, <1>2, <1>10, <2>1, <2>4 DEF ReadInv
<1>11. CASE /\ CloseRange /\ rd.at = "next" /\ rd'.at = "plan" /\ RangeRead
            /\ rd'.range = rd.range + 1 /\ UNCHANGED <<rd.off, rd.pos, rd.unmapped>>
  <2>1. Inside /\ ~Inside' /\ rd'.at # "ended" /\ ~ReadBatch
    BY <1>4, <1>11 DEF Inside
  <2>2. rd.range \in 1..RangeCount /\ rd.pos = rd.off /\ rd.pos <= RangeEnd(Entry(rd.range))
    BY <1>1, <1>11, <2>1 DEF InPlace
  <2>3. rd.pos = RangeEnd(Entry(rd.range))
    BY <1>1, <1>11, <2>2, RangeFacts DEF RangeRead
  <2>4. ReadHere = RangeCells(rd.range) /\ ReadHere' = 0 /\ rd'.range - 1 = rd.range
    BY <1>1, <1>5, <1>11, <2>1, <2>2, <2>3 DEF ReadHere
  <2>5. ReadUpto(rd.range) \in Nat /\ rd.read = ReadUpto(rd.range)
    BY <1>1, <1>5, <2>2, <2>4, PlanAddsUp
  <2>6. ReadUpto(rd.range - 1)' = ReadUpto(rd.range)
    BY <1>2, <2>4
  <2> QED
    BY <1>1, <1>2, <1>3, <1>11, <2>1, <2>2, <2>4, <2>5, <2>6 DEF ReadInv
<1> QED
  BY <1>1, <1>6, <1>7, <1>8, <1>9, <1>10, <1>11, ReaderPaths

LEMMA OthersRead ==
  ASSUME ReadInv, UNCHANGED <<job, rd, cut>>
  PROVE  ReadInv'
<1>1. UNCHANGED <<ByRanges, RangeCount, TotalCells, Inside>> /\ \A k : UNCHANGED <<ReadUpto(k), RangeStart(Entry(k))>>
  BY JobFixed, PlanFixed, TotalFixed DEF Inside
<1> QED
  BY <1>1 DEF ReadInv, ReadHere

-----------------------------------------------------------------------------
(* What Progress was told.                                                 *)

(* What finishing an operation tells.                                      *)
Carried(op) == IF CarriesBuffer(op) THEN op.len ELSE 0

InHand == IF wr.at = "work" THEN Carried(wr.op) ELSE 0

(* h counts, operation by operation, what Progress will have been told     *)
(* when the writer has done those in flight.                               *)
Counts(h) ==
  /\ h[0] = prog.advanced + InHand
  /\ \A i \in 1..Len(chan) : h[i] = h[i - 1] + Carried(chan[i])
  /\ \A i \in 0..Len(chan) : h[i] \in Nat /\ h[i] <= rd.read
  /\ rd.read = h[Len(chan)] + (IF rd.at = "send" THEN rd.op.len ELSE 0)

ProgressInv ==
  /\ prog.advanced \in Nat /\ prog.advanced <= rd.read
  /\ Streaming => \E h : Counts(h)
  /\ wr.ret = "ok" => prog.advanced = rd.read

LEMMA InitProgress == Init => ProgressInv
<1> SUFFICES ASSUME Init PROVE ProgressInv
  OBVIOUS
<1>1. /\ prog.advanced = 0 /\ rd.read = 0 /\ rd.at # "send" /\ chan = <<>>
      /\ wr.at = "recv" /\ wr.ret = "none"
  BY DEF Init
<1>2. Counts([i \in {0} |-> 0])
  BY <1>1 DEF Counts, InHand
<1> QED
  BY <1>1, <1>2 DEF ProgressInv

(* Sending an operation counts it.                                         *)
LEMMA CountingOn ==
  ASSUME IsSeq(chan), NEW op, Carried(op) \in Nat, chan' = Append(chan, op),
         NEW h, Counts(h), UNCHANGED <<prog.advanced, InHand, rd.read>>,
         rd.read = h[Len(chan)] + Carried(op), rd'.at # "send"
  PROVE  \E g : Counts(g)'
<1>1. PICK n \in Nat : n = Len(chan)
  BY DEF IsSeq
<1>2. /\ Len(chan') = n + 1 /\ chan'[n + 1] = op
      /\ \A i \in 1..n : chan'[i] = chan[i]
  BY <1>1, Adding
<1>3. /\ h[0] = prog.advanced + InHand
      /\ \A i \in 1..n : h[i] = h[i - 1] + Carried(chan[i])
      /\ \A i \in 0..n : h[i] \in Nat /\ h[i] <= rd.read
      /\ rd.read = h[n] + Carried(op)
  BY <1>1 DEF Counts
<1>4. PICK g : g = [i \in 0..(n + 1) |-> IF i = n + 1 THEN h[n] + Carried(op) ELSE h[i]]
  OBVIOUS
<1>5. /\ g[0] = h[0] /\ g[n + 1] = rd.read /\ g[n + 1] = h[n] + Carried(op)
      /\ \A i \in 0..n : g[i] = h[i]
  BY <1>3, <1>4
<1>6. \A x : Carried(x)' = Carried(x)
  BY DEF Carried, CarriesBuffer
<1>7. ASSUME NEW i \in 1..(n + 1)
      PROVE  g[i] = g[i - 1] + Carried(chan'[i])
  <2>1. CASE i = n + 1
    <3>1. i - 1 = n /\ n \in 0..n
      BY <2>1
    <3> QED
      BY <1>2, <1>5, <2>1, <3>1
  <2>2. CASE i # n + 1
    <3>1. i \in 1..n /\ i \in 0..n /\ i - 1 \in 0..n
      BY <2>2
    <3> QED
      BY <1>2, <1>3, <1>5, <3>1
  <2> QED
    BY <2>1, <2>2
<1>8. ASSUME NEW i \in 0..(n + 1)
      PROVE  g[i] \in Nat /\ g[i] <= rd'.read
  <2>1. i = n + 1 \/ i \in 0..n
    OBVIOUS
  <2>2. h[n] \in Nat /\ rd.read \in Nat /\ rd'.read = rd.read
    BY <1>3
  <2>3. CASE i = n + 1
    BY <1>5, <2>2, <2>3
  <2>4. CASE i \in 0..n
    <3>1. g[i] = h[i] /\ h[i] \in Nat /\ h[i] <= rd.read
      BY <1>3, <1>5, <2>4
    <3> QED
      BY <2>2, <3>1
  <2> QED
    BY <2>1, <2>3, <2>4
<1>9. Counts(g)'
  BY <1>2, <1>3, <1>5, <1>6, <1>7, <1>8 DEF Counts
<1> QED
  BY <1>9

LEMMA ReaderProgress ==
  ASSUME SuccessInv, OwnerInv, ReadOn, OpsInv, InPlace, ProgressInv, Reader
  PROVE  ProgressInv'
<1>1. /\ Shape /\ UNCHANGED <<job, wr, prog>> /\ rd.at # "ended" /\ wr.ret # "ok"
      /\ UNCHANGED <<Streaming, InHand>> /\ rd.read \in Nat
      /\ prog.advanced \in Nat /\ prog.advanced <= rd.read
      /\ IsSeq(chan)
  BY ReaderKeeps, ReaderMoves
     DEF readerFrame, SuccessInv, OkIsEarned, Streaming, InHand, Carried, CarriesBuffer, ReadOn,
         ProgressInv, OwnerInv, InTransit
<1>2. rd'.read = IF ReadBatch THEN rd.read + Filled ELSE rd.read
  BY <1>1, ReadGrows
<1>3. ReadBatch => Filled \in Nat
  BY <1>1, FilledFits
<1>4. prog'.advanced \in Nat /\ prog'.advanced <= rd'.read
  BY <1>1, <1>2, <1>3
<1> SUFFICES ASSUME Streaming PROVE \E h : Counts(h)'
  BY <1>1, <1>4 DEF ProgressInv
<1>5. PICK h : Counts(h)
  BY DEF ProgressInv
<1>6. Len(chan) \in Nat
  BY <1>1 DEF IsSeq
<1>7. CASE ReadBatch
  <2>1. /\ rd.at = "fill" /\ rd'.at = "send" /\ rd'.op.len = Filled /\ UNCHANGED chan
    BY <1>7, <1>1 DEF ReadBatch, ReaderStep, Shape, ReaderFields
  <2>2. rd.read = h[Len(chan)] /\ h[Len(chan)] \in Nat
    BY <1>1, <1>5, <1>6, <2>1 DEF Counts
  <2>3. \A i \in 0..Len(chan) : h[i] \in Nat /\ h[i] <= rd'.read
    BY <1>1, <1>2, <1>3, <1>5, <1>7 DEF Counts
  <2>4. rd'.read = h[Len(chan)] + rd'.op.len
    BY <1>2, <1>7, <2>1, <2>2
  <2> QED
    BY <1>1, <1>5, <2>1, <2>3, <2>4 DEF Counts
<1>8. CASE SendBatch \/ ReportGap
  <2> DEFINE op == rd.op
  <2>1. /\ rd.at \in {"send", "gap"} /\ rd'.at \in {"next", "range"} /\ chan' = Append(chan, op)
        /\ ~ReadBatch
    BY <1>8, <1>1 DEF SendBatch, ReportGap, ReadBatch, ReaderStep, Shape, ReaderFields
  <2>2. rd.read = h[Len(chan)] + (IF rd.at = "send" THEN op.len ELSE 0) /\ h[Len(chan)] \in Nat
    BY <1>5, <1>6 DEF Counts
  <2>3. op.len \in Nat /\ op.buf = IF rd.at = "send" THEN rd.buf ELSE Gap
    BY <2>1, SoundFacts DEF OpsInv, OpsIn, OwnerInv, Placed
  <2>4. rd.at = "send" => rd.buf \in Buffers
    BY DEF OwnerInv, Placed
  <2>5. Carried(op) = IF rd.at = "send" THEN op.len ELSE 0
    BY <2>3, <2>4, MarkerAssumption DEF Carried, CarriesBuffer
  <2> HIDE DEF op
  <2>6. UNCHANGED <<prog.advanced, InHand, rd.read>>
    BY <1>1, <1>2, <2>1
  <2> QED
    BY <1>1, <1>5, <2>1, <2>2, <2>3, <2>5, <2>6, CountingOn
<1>9. CASE ~ReadBatch /\ ~SendBatch /\ ~ReportGap
  <2>1. /\ rd.at # "send" /\ UNCHANGED chan
    BY <1>9 DEF Reader, MeetGap, ReportGapClosed, EnterRange, PlanDone, TakeBuffer, PoolClosed,
                ReadEnds, ReadFails, ReaderPanics, SendBatchClosed, NextBatch, CloseRange,
                ReaderStep, PastGap, RxOpen, Streaming
  <2>2. rd'.at # "send"
    BY <1>1, <1>9, ReaderPaths DEF Ends, Between
  <2>3. UNCHANGED rd.read
    BY <1>2, <1>9
  <2> QED
    BY <1>1, <1>5, <2>1, <2>2, <2>3 DEF Counts
<1> QED
  BY <1>7, <1>8, <1>9

LEMMA WriterProgress ==
  ASSUME SuccessInv, InTransit, ControlInv, OpsInv, ProgressInv, Writer
  PROVE  ProgressInv'
<1>1. /\ Shape /\ UNCHANGED <<job, rd>> /\ IsSeq(chan)
      /\ wr.ret = "ok" => rd.at = "ended"
      /\ \A x : Carried(x)' = Carried(x)
  BY WriterKeeps DEF SuccessInv, OkIsEarned, InTransit, Carried, CarriesBuffer
<1>2. \A op \in SoundOps : Carried(op) \in Nat
  BY SoundFacts DEF Carried
<1>3. prog.advanced \in Nat /\ prog.advanced <= rd.read
  BY DEF ProgressInv
<1>4. Len(chan) \in Nat
  BY <1>1 DEF IsSeq
<1> USE DEF Shape, WriterFields, WriterStep
<1>5. CASE Receive
  <2>1. /\ wr.at = "recv" /\ wr'.at = "work" /\ wr'.op = Head(chan) /\ wr'.ret = wr.ret
        /\ chan # <<>> /\ chan' = Tail(chan) /\ prog' = prog /\ Streaming
    BY <1>5, <1>1 DEF Receive, Streaming
  <2>2. PICK h : Counts(h)
    BY <2>1 DEF ProgressInv
  <2>3. PICK n \in Nat : n = Len(chan')
    BY <1>1, <2>1, Removing DEF IsSeq
  <2>4. /\ Len(chan) = n + 1 /\ wr'.op = chan[1]
        /\ \A i \in 1..n : chan'[i] = chan[i + 1]
    BY <1>1, <2>1, <2>3, Removing
  <2>5. PICK g : g = [i \in 0..n |-> h[i + 1]]
    OBVIOUS
  <2>6. /\ h[0] = prog.advanced /\ h[0] \in Nat
        /\ \A i \in 1..(n + 1) : h[i] = h[i - 1] + Carried(chan[i])
        /\ \A i \in 0..(n + 1) : h[i] \in Nat /\ h[i] <= rd.read
        /\ rd.read = h[n + 1] + (IF rd.at = "send" THEN rd.op.len ELSE 0)
    BY <1>3, <2>1, <2>2, <2>4 DEF Counts, InHand
  <2>7. g[0] = prog'.advanced + InHand'
    <3>1. g[0] = h[1] /\ h[1] = h[0] + Carried(chan[1])
      BY <2>5, <2>6
    <3>2. InHand' = Carried(chan[1])
      BY <1>1, <2>1, <2>4 DEF InHand
    <3> QED
      BY <2>1, <2>6, <3>1, <3>2
  <2>8. ASSUME NEW i \in 1..n PROVE g[i] = g[i - 1] + Carried(chan'[i])
    <3>1. g[i] = h[i + 1] /\ g[i - 1] = h[i] /\ i + 1 \in 1..(n + 1) /\ (i + 1) - 1 = i
      BY <2>5
    <3> QED
      BY <2>4, <2>6, <3>1
  <2>9. \A i \in 0..n : g[i] \in Nat /\ g[i] <= rd.read
    BY <2>5, <2>6
  <2>10. g[n] = h[n + 1]
    BY <2>5
  <2>11. Counts(g)'
    BY <1>1, <2>3, <2>6, <2>7, <2>8, <2>9, <2>10 DEF Counts
  <2> QED
    BY <1>1, <2>1, <2>11 DEF ProgressInv
<1>6. CASE ElideSpan \/ ZeroSpan \/ WriteSpan
  <2>1. /\ wr'.at = "work" /\ wr'.op = wr.op /\ wr.at = "work" /\ UNCHANGED <<prog, chan>>
        /\ wr'.ret = wr.ret
    BY <1>1, <1>6 DEF ElideSpan, ZeroSpan, WriteSpan
  <2>2. UNCHANGED <<Streaming, InHand>>
    BY <1>1, <2>1 DEF Streaming, InHand
  <2>3. ASSUME NEW h, Counts(h) PROVE Counts(h)'
    BY <1>1, <2>1, <2>2, <2>3 DEF Counts
  <2> QED
    BY <1>1, <2>1, <2>2, <2>3 DEF ProgressInv
<1>7. CASE FinishOp
  <2>1. /\ wr.at = "work" /\ wr'.at = "sync" /\ UNCHANGED chan /\ wr'.ret = wr.ret
        /\ prog' = IF CarriesBuffer(wr.op) THEN [prog EXCEPT !.advanced = @ + wr.op.len] ELSE prog
    BY <1>7 DEF FinishOp
  <2>2. prog'.advanced = prog.advanced + Carried(wr.op) /\ Carried(wr.op) \in Nat
    BY <1>2, <1>3, <2>1 DEF Carried, OpsInv, OpsIn, ControlInv
  <2>3. InHand = Carried(wr.op) /\ InHand' = 0 /\ Streaming /\ Streaming'
    BY <2>1 DEF InHand, Streaming
  <2>4. PICK h : Counts(h)
    BY <2>3 DEF ProgressInv
  <2>5. Counts(h)'
    <3>1. h[0] = prog'.advanced + InHand'
      <4>1. h[0] = prog.advanced + InHand
        BY <2>4 DEF Counts
      <4> QED
        BY <1>3, <2>2, <2>3, <4>1
    <3> QED
      BY <1>1, <2>1, <2>4, <3>1 DEF Counts
  <2>6. prog'.advanced \in Nat /\ prog'.advanced <= rd.read
    <3>1. h[0] = prog.advanced + InHand /\ h[0] <= rd.read
      BY <1>4, <2>4 DEF Counts
    <3> QED
      BY <1>3, <2>2, <2>3, <3>1
  <2>7. wr.ret # "ok"
    BY <2>3 DEF OpsInv, TodoInv
  <2> QED
    BY <1>1, <2>1, <2>5, <2>6, <2>7 DEF ProgressInv
<1>8. CASE SyncOrNot
  <2>1. /\ wr.at = "sync" /\ wr'.at = "recv" /\ UNCHANGED <<prog, chan>> /\ wr'.ret = wr.ret
    BY <1>8 DEF SyncOrNot
  <2>2. UNCHANGED <<Streaming, InHand>>
    BY <1>1, <2>1 DEF Streaming, InHand
  <2>3. ASSUME NEW h, Counts(h) PROVE Counts(h)'
    BY <1>1, <2>1, <2>2, <2>3 DEF Counts
  <2> QED
    BY <1>1, <2>1, <2>2, <2>3 DEF ProgressInv
<1>9. CASE StreamEnds
  <2>1. /\ wr.at = "recv" /\ wr'.at = "closing" /\ UNCHANGED <<prog, chan>> /\ chan = <<>>
        /\ rd.at = "ended"
    BY <1>9 DEF StreamEnds, ReaderGone
  <2>2. PICK h : Counts(h)
    BY <2>1 DEF ProgressInv, Streaming
  <2>3. Len(chan) = 0 /\ h[0] = prog.advanced /\ rd.read = h[0]
    BY <1>3, <1>4, <2>1, <2>2 DEF Counts, InHand
  <2> QED
    BY <1>1, <1>3, <2>1, <2>3 DEF ProgressInv, Streaming
<1>10. CASE SpanFails \/ SyncFails \/ DropRx \/ DropPoolTx \/ Join
  <2>1. /\ wr'.at \in {"closing", "rxDropped", "joining", "joined"} /\ prog' = prog
        /\ wr'.ret = "ok" => wr.ret = "ok"
    BY <1>1, <1>10 DEF SpanFails, SyncFails, DropRx, DropPoolTx, Join
  <2> QED
    BY <1>1, <2>1 DEF ProgressInv, Streaming
<1> QED
  BY <1>5, <1>6, <1>7, <1>8, <1>9, <1>10 DEF Writer

LEMMA OthersProgress ==
  ASSUME ProgressInv, UNCHANGED <<rd, wr, chan, prog.advanced>>
  PROVE  ProgressInv'
<1>1. UNCHANGED <<Streaming, InHand>> /\ \A x : Carried(x)' = Carried(x)
  BY DEF Streaming, InHand, Carried, CarriesBuffer
<1>2. ASSUME NEW h, Counts(h) PROVE Counts(h)'
  BY <1>1, <1>2 DEF Counts
<1> QED
  BY <1>1, <1>2 DEF ProgressInv

LEMMA StepReported ==
  ASSUME EngineInv, DeliveryInv, ReadInv, ProgressInv, [Next]_vars
  PROVE  ReadInv' /\ ProgressInv'
<1>1. /\ Shape /\ Placed /\ InPlace /\ ReadOn /\ OpsInv /\ ControlInv /\ OwnerInv /\ InTransit
      /\ TileInv /\ OrderInv /\ SuccessInv /\ Ended
  BY DEF EngineInv, SuccessInv, OwnerInv, OrderInv, DeliveryInv
<1>2. CASE Caller \/ UNCHANGED vars
  <2>1. UNCHANGED <<job, rd, wr, chan, cut>>
    BY <1>2, CallerKeeps DEF vars, threadVars
  <2>2. prog'.advanced = prog.advanced
    BY <1>1, <1>2 DEF Caller, Check, Clear, SizeAndPlan, MainFails, Finish, Resize, FinalSync, vars,
                     ControlInv
  <2> QED
    BY <2>1, <2>2, OthersRead, OthersProgress
<1>3. CASE Reader
  BY <1>1, <1>3, ReaderRead, ReaderProgress
<1>4. CASE Writer
  BY <1>1, <1>4, WriterKeeps, OthersRead, WriterProgress
<1> QED
  BY <1>2, <1>3, <1>4 DEF Next, Returned

(* What was read is what the plan holds up to where the reader is, and     *)
(* Progress was told of all of it that the writer has dealt with, neither  *)
(* more nor twice.  (copy.rs:386-581)                                      *)
THEOREM ReportedInvHolds == Spec => [](ReadInv /\ ProgressInv)
<1>1. Init => ReadInv /\ ProgressInv
  BY InitRead, InitProgress
<1>2. EngineInv /\ DeliveryInv /\ (ReadInv /\ ProgressInv) /\ [Next]_vars
        => (ReadInv /\ ProgressInv)'
  BY StepReported
<1> QED
  BY <1>1, <1>2, EngineInvHolds, DeliveryInvHolds, PTL DEF Spec

LEMMA ReadWithinPlan ==
  ASSUME EngineInv, ReadInv, ByRanges
  PROVE  rd.read <= TotalCells
<1>1. Shape /\ InPlace /\ Placed /\ ReadOn
  BY DEF EngineInv, SuccessInv, OwnerInv, OrderInv
<1> QED
  BY <1>1, ReadBound DEF ReadInv

(* The tallies of a copy that returns Ok add up to the image, and Progress *)
(* was told of every cell read, which is the total it was promised.        *)
(* (copy.rs:215-253, copy.rs:480-581)                                      *)
THEOREM TalliesAddUp == Spec => []AccountingExact
<1>1. EngineInv /\ DeliveryInv /\ ReadInv /\ ProgressInv => AccountingExact
  <2> SUFFICES ASSUME EngineInv, DeliveryInv, ReadInv, ProgressInv, Ok
               PROVE  /\ wr.written + wr.elided + wr.zeroed = IF ByRanges THEN job.size ELSE rd.read
                      /\ prog.advanced = rd.read
                      /\ ByRanges => prog.advanced = prog.total
    BY DEF AccountingExact
  <2>1. Going /\ Reached = IF ByRanges THEN job.size ELSE rd.read
    BY SuccessReachesEnd
  <2>2. SuccessInv /\ ControlInv
    BY DEF EngineInv
  <2>3. rd.ret = "ok" /\ wr.ret = "ok" /\ ~cut /\ prog.total = TotalCells /\ rd.at = "ended"
    BY <2>2 DEF SuccessInv, OkIsPassedOn, OkIsEarned, Outcome, Ok, ControlInv
  <2> QED
    BY <2>1, <2>3 DEF DeliveryInv, Tallied, ReadInv, ProgressInv
<1> QED
  BY <1>1, EngineInvHolds, DeliveryInvHolds, ReportedInvHolds, PTL

(* A copy that has announced a total tells Progress once that the run is   *)
(* over, with whatever result it returns, after both threads are over, and *)
(* never counts past that total.  A copy that fails before it announces    *)
(* one says nothing: see FinishCalledOnce.  (copy.rs:216-222)              *)
THEOREM AnnouncedRunsEndOnce == Spec => []EndReportedOnce
<1>1. EngineInv /\ ReadInv /\ ProgressInv => EndReportedOnce
  <2> SUFFICES ASSUME EngineInv, ReadInv, ProgressInv PROVE EndReportedOnce
    OBVIOUS
  <2>1. ControlInv /\ OwnerInv /\ ReadOn /\ job \in Jobs
    BY DEF EngineInv, SuccessInv, Shape
  <2>2. ASSUME ByRanges, prog.announced PROVE prog.advanced <= prog.total
    <3>1. prog.total = TotalCells
      BY <2>1, <2>2 DEF ControlInv
    <3>2. rd.read <= TotalCells /\ prog.advanced <= rd.read /\ prog.advanced \in Nat
          /\ rd.read \in Nat
      BY <2>1, <2>2, ReadWithinPlan DEF ProgressInv, ReadOn
    <3>3. TotalCells \in Nat
      BY <2>1, <2>2, PlanAddsUp, JobFacts
    <3> QED
      BY <3>1, <3>2, <3>3
  <2>3. wr.at = "joined" => rd.at = "ended"
    BY <2>1 DEF OwnerInv, Placed
  <2> QED
    BY <2>1, <2>2, <2>3 DEF ControlInv, EndReportedOnce
<1> QED
  BY <1>1, EngineInvHolds, ReportedInvHolds, PTL

-----------------------------------------------------------------------------
(* The watermark.                                                          *)

(* The data among the first k spans of an operation, as DataCells adds     *)
(* them up.                                                                *)
DataOf(op) == {i \in 1..Len(op.spans) : ~op.spans[i].zero}

DataFold(op) ==
  CHOOSE it : it = [s \in SUBSET DataOf(op) |->
                      IF s = {} THEN 0
                      ELSE op.spans[CHOOSE x \in s : TRUE].len
                             + it[s \ {CHOOSE x \in s : TRUE}]]

DataUpto(op, k) == DataFold(op)[{i \in DataOf(op) : i <= k}]

LEMMA DataAddsUp ==
  ASSUME NEW op \in SoundOps
  PROVE  /\ DataUpto(op, 0) = 0
         /\ \A k \in 1..Len(op.spans) :
              /\ DataUpto(op, k - 1) \in Nat
              /\ DataUpto(op, k)
                   = DataUpto(op, k - 1) + (IF op.spans[k].zero THEN 0 ELSE op.spans[k].len)
         /\ DataCells(op) = DataUpto(op, Len(op.spans))
         /\ DataCells(op) \in Nat
<1> DEFINE S == DataOf(op)
           w == [i \in S |-> op.spans[i].len]
           f == DataFold(op)
<1>1. /\ Len(op.spans) \in Nat
      /\ \A i \in 1..Len(op.spans) : op.spans[i].len \in Nat /\ op.spans[i].zero \in BOOLEAN
  BY SoundFacts, CutsFacts
<1>2. IsFiniteSet(S) /\ S \subseteq 1..Len(op.spans)
  <2>1. S \subseteq 1..Len(op.spans)
    BY DEF DataOf
  <2>2. IsFiniteSet(1..Len(op.spans))
    BY <1>1, FS_Interval
  <2> HIDE DEF S
  <2> QED
    BY <2>1, <2>2, FS_Subset
<1>20. \A i \in S : i \in Nat /\ 1 <= i /\ i <= Len(op.spans)
  BY <1>1, <1>2
<1>3. w \in [S -> Nat] /\ \A i \in S : w[i] = op.spans[i].len
  BY <1>1, <1>2
<1>4. DataCells(op) = f[S]
  BY DEF DataCells, MapThenSumSet, MapThenFoldSet, DataFold, DataOf
<1> HIDE DEF S, w
<1>5. \A s \in SUBSET S : s # {} => w[CHOOSE x \in s : TRUE] = op.spans[CHOOSE x \in s : TRUE].len
  BY <1>3
<1>6. \E it : it = [s \in SUBSET S |->
                      IF s = {} THEN 0
                      ELSE op.spans[CHOOSE x \in s : TRUE].len
                             + it[s \ {CHOOSE x \in s : TRUE}]]
  <2>1. PICK it : Sums(it, S, w)
    BY <1>2, <1>3, SumExists
  <2>2. it = [s \in SUBSET S |->
                IF s = {} THEN 0
                ELSE op.spans[CHOOSE x \in s : TRUE].len + it[s \ {CHOOSE x \in s : TRUE}]]
    BY <1>5, <2>1 DEF Sums
  <2> QED
    BY <2>2
<1>7. f = [s \in SUBSET S |->
             IF s = {} THEN 0
             ELSE op.spans[CHOOSE x \in s : TRUE].len + f[s \ {CHOOSE x \in s : TRUE}]]
  BY <1>6 DEF DataFold, S
<1> HIDE DEF f
<1>8. Sums(f, S, w)
  BY <1>5, <1>7 DEF Sums
<1>9. f[{}] = 0 /\ (\A s \in SUBSET S : f[s] \in Nat) /\ PeelsOff(f, S, w)
  BY <1>2, <1>3, <1>8, SumFacts
<1>10. DataUpto(op, 0) = 0
  <2>1. {i \in S : i <= 0} = {}
    BY <1>20
  <2> QED
    BY <1>9, <2>1 DEF DataUpto, f, S
<1>11. ASSUME NEW k \in 1..Len(op.spans)
       PROVE  /\ DataUpto(op, k - 1) \in Nat
              /\ DataUpto(op, k)
                   = DataUpto(op, k - 1) + (IF op.spans[k].zero THEN 0 ELSE op.spans[k].len)
  <2> DEFINE upto == {i \in S : i <= k}
             before == {i \in S : i <= k - 1}
  <2>1. /\ DataUpto(op, k) = f[upto] /\ DataUpto(op, k - 1) = f[before]
    BY DEF DataUpto, f, S
  <2>2. f[before] \in Nat
    BY <1>9
  <2>3. CASE op.spans[k].zero
    <3>1. k \notin S
      BY <2>3 DEF S, DataOf
    <3>2. upto = before
      BY <1>1, <1>20, <3>1
    <3> HIDE DEF upto, before
    <3> QED
      BY <2>1, <2>2, <2>3, <3>2
  <2>4. CASE ~op.spans[k].zero
    <3>1. k \in S
      BY <2>4 DEF S, DataOf
    <3>2. upto \in SUBSET S /\ k \in upto /\ upto \ {k} = before
      <4>1. upto \in SUBSET S /\ k \in upto
        BY <1>1, <3>1
      <4>2. \A i : i \in upto /\ i # k <=> i \in before
        BY <1>1, <1>20
      <4> QED
        BY <4>1, <4>2
    <3>3. f[upto] = w[k] + f[before]
      <4> HIDE DEF upto, before
      <4> QED
        BY <1>9, <3>2 DEF PeelsOff
    <3> QED
      BY <1>1, <1>3, <2>1, <2>2, <2>4, <3>1, <3>3
  <2> QED
    BY <2>1, <2>2, <2>3, <2>4
<1>12. DataCells(op) = DataUpto(op, Len(op.spans)) /\ DataCells(op) \in Nat
  <2>1. {i \in S : i <= Len(op.spans)} = S
    BY <1>1, <1>20
  <2> QED
    BY <1>4, <1>9, <2>1 DEF DataUpto, f, S
<1> QED
  BY <1>10, <1>11, <1>12

(* The data before a span is no more than what lies before it.             *)
LEMMA DataFits ==
  ASSUME NEW op \in SoundOps, NEW k \in 1..Len(op.spans)
  PROVE  DataUpto(op, k - 1) \in Nat /\ DataUpto(op, k - 1) <= op.spans[k].offset
<1>1. /\ Len(op.spans) \in Nat /\ op.len \in Nat /\ Cuts(op.spans, op.len)
      /\ \A i \in 1..Len(op.spans) :
           /\ op.spans[i].offset \in Nat /\ op.spans[i].len \in Nat
           /\ op.spans[i].offset = IF i = 1 THEN 0 ELSE SpanEnd(op.spans[i - 1])
  BY SoundFacts, CutsFacts DEF Cuts
<1> DEFINE Fit == {d \in Nat : d + 1 \in 1..Len(op.spans) => DataUpto(op, d) <= op.spans[d + 1].offset}
<1>2. 0 \in Fit
  BY <1>1, DataAddsUp
<1>3. ASSUME NEW d \in Nat, d \in Fit PROVE d + 1 \in Fit
  <2> SUFFICES ASSUME (d + 1) + 1 \in 1..Len(op.spans)
               PROVE  DataUpto(op, d + 1) <= op.spans[(d + 1) + 1].offset
    OBVIOUS
  <2>1. d + 1 \in 1..Len(op.spans) /\ (d + 1) - 1 = d /\ ((d + 1) + 1) - 1 = d + 1 /\ (d + 1) + 1 # 1
    BY <1>1
  <2>2. /\ DataUpto(op, d) \in Nat /\ DataUpto(op, d) <= op.spans[d + 1].offset
        /\ DataUpto(op, d + 1)
             = DataUpto(op, d) + (IF op.spans[d + 1].zero THEN 0 ELSE op.spans[d + 1].len)
    BY <1>3, <2>1, DataAddsUp
  <2>3. op.spans[(d + 1) + 1].offset = op.spans[d + 1].offset + op.spans[d + 1].len
    BY <1>1, <2>1 DEF SpanEnd
  <2>4. op.spans[d + 1].offset \in Nat /\ op.spans[d + 1].len \in Nat
    BY <1>1, <2>1
  <2> DEFINE before == DataUpto(op, d)
             offset == op.spans[d + 1].offset
             size == op.spans[d + 1].len
             more == IF op.spans[d + 1].zero THEN 0 ELSE op.spans[d + 1].len
  <2>5. DataUpto(op, d + 1) = before + more /\ op.spans[(d + 1) + 1].offset = offset + size
    BY <2>2, <2>3
  <2>6. before \in Nat /\ before <= offset /\ offset \in Nat /\ size \in Nat
    BY <2>2, <2>4
  <2>7. more \in Nat /\ more <= size
    BY <2>4
  <2> HIDE DEF before, offset, size, more, Fit
  <2>8. before + more <= offset + size
    BY <2>6, <2>7
  <2> QED
    BY <2>5, <2>8
<1>4. Nat \subseteq Fit
  <2> HIDE DEF Fit
  <2> QED
    BY <1>2, <1>3, Induction
<1>5. k - 1 \in Nat /\ (k - 1) + 1 = k
  BY <1>1
<1> QED
  BY <1>4, <1>5, DataAddsUp

(* A span of data is one of a batch.                                       *)
LEMMA DataInBatch ==
  ASSUME OpsInv, wr.todo # <<>>, ~Span.zero
  PROVE  wr.op.len <= BatchCells
<1>1. /\ wr.op \in SoundOps /\ TodoInv
  BY DEF OpsInv, OpsIn
<1>2. /\ Current \in 1..Len(wr.op.spans) /\ Span = wr.op.spans[Current]
      /\ Span.offset \in Nat /\ Span.len \in Nat \ {0}
      /\ Span.offset \in 0..(wr.op.len - 1) /\ Covers(wr.op, Current, Span.offset)
  <2>1. /\ Current \in 1..Len(wr.op.spans) /\ Span = wr.op.spans[Current]
        /\ Span.offset \in Nat /\ Span.len \in Nat \ {0}
        /\ \A c \in Span.offset..(Span.offset + Span.len - 1) :
             c \in 0..(wr.op.len - 1) /\ Covers(wr.op, Current, c)
    BY <1>1, NextSpan
  <2>2. Span.offset \in Span.offset..(Span.offset + Span.len - 1)
    BY <2>1
  <2> QED
    BY <2>1, <2>2
<1>3. Truthful(wr.op, Current, Span.offset)
  BY <1>1, <1>2 DEF SoundOps, Sound
<1> QED
  BY <1>1, <1>2, <1>3, SoundFacts DEF Truthful

(* Nothing is zeroed explicitly, neither to clear nor to copy.             *)
OnlyData == job.mark > 0 /\ ~job.zeroMode /\ ~job.wipe /\ job.zap = 0 /\ job.kind # "sink"

(* What the destination has been given since the last sync is what the     *)
(* writer has counted, and the data of the operation it is at.             *)
Counted == wr.since + (IF wr.at = "work" THEN DataUpto(wr.op, Current - 1) ELSE 0)

Watermark ==
  /\ Ok /\ job.sync => dest.dirty = 0
  /\ OnlyData =>
       /\ wr.since \in Nat
       /\ phase \in {"check", "clear", "size"} =>
            wr.at = "recv" /\ wr.since = 0 /\ dest.dirty = 0
       /\ phase = "stream" => dest.dirty < job.mark + BatchCells
       /\ Streaming => dest.dirty <= Counted
       /\ wr.at \in {"recv", "work"} => wr.since < job.mark

LEMMA InitWatermark == Init => Watermark
<1> SUFFICES ASSUME Init PROVE Watermark
  OBVIOUS
<1>1. /\ dest.dirty = 0 /\ wr.since = 0 /\ wr.at = "recv" /\ phase = "check" /\ result = "none"
  BY DEF Init
<1> QED
  BY <1>1 DEF Watermark, Counted, Ok, OnlyData

LEMMA CallerWatermark ==
  ASSUME Shape, Placed, InPlace, ReadOn, ControlInv, DestInv, Watermark, Caller
  PROVE  Watermark'
<1>1. /\ UNCHANGED <<job, wr>> /\ job \in Jobs /\ DestOk /\ Sane(dest)
  BY CallerKeeps DEF threadVars, Shape, DestInv, DestOk
<1>2. BatchCells' = BatchCells /\ (\A op, k : DataUpto(op, k)' = DataUpto(op, k))
  BY <1>1, JobFixedMore DEF DataUpto, DataFold, DataOf
<1>3. Counted' = Counted /\ Streaming' = Streaming /\ OnlyData' = OnlyData
  BY <1>1, <1>2 DEF Counted, Current, Streaming, OnlyData
<1>4. CASE FinalSync
  <2>1. /\ phase = "sync" /\ phase' = "done" /\ wr.at = "joined"
        /\ dest' = IF job.sync /\ SupportsSync(dest) THEN Sync(dest) ELSE dest
    BY <1>4 DEF FinalSync, Return, ControlInv
  <2>2. job.sync => dest'.dirty = 0
    BY <1>1, <2>1 DEF DestInv, Sane, DestSet, SupportsSync, Sync
  <2> QED
    BY <1>1, <1>3, <2>1, <2>2 DEF Watermark, Streaming
<1>5. ASSUME ~FinalSync PROVE ~Ok'
  <2>1. result # "ok" /\ Outcome # "ok" => Outcome # "ok"
    BY DEF ControlInv
  <2>2. result # "ok"
    BY DEF Caller, Check, Clear, SizeAndPlan, MainFails, Finish, Resize, FinalSync, ControlInv
  <2>3. CASE Finish
    <3>1. \/ Return(Outcome) /\ Outcome # "ok"
          \/ Return("MappedBlockMismatch")
          \/ result' = result
      BY <2>3, Zenon DEF Finish
    <3> QED
      BY <2>2, <3>1 DEF Return, Ok
  <2> QED
    BY <1>5, <2>2, <2>3 DEF Caller, Check, Clear, SizeAndPlan, MainFails, Resize, Return, Ok
<1>6. CASE Finish \/ Resize \/ (MainFails /\ phase \in {"resize", "sync"})
  <2>1. /\ wr.at = "joined" /\ phase' \notin {"check", "clear", "size", "stream"}
    <3>1. phase \in {"finish", "resize", "sync"}
      BY <1>6 DEF Finish, Resize
    <3>2. Finish => phase' \in {"done", "resize"}
      BY DEF Finish, Return
    <3> QED
      BY <1>6, <3>1, <3>2 DEF Resize, MainFails, Return, ControlInv
  <2>2. ~FinalSync
    BY <1>6 DEF Finish, Resize, MainFails, FinalSync, Return
  <2> QED
    BY <1>1, <1>3, <1>5, <2>1, <2>2 DEF Watermark, Streaming
<1>7. CASE Check \/ Clear \/ SizeAndPlan \/ (MainFails /\ phase \in {"clear", "size"})
  <2>1. /\ phase \in {"check", "clear", "size"} /\ ~FinalSync
        /\ phase' \in {"clear", "size", "stream", "done"}
    BY <1>7 DEF Check, Clear, SizeAndPlan, MainFails, FinalSync, Return
  <2>2. OnlyData => dest'.dirty = dest.dirty
    <3>1. CASE Check
      BY <3>1 DEF Check
    <3>2. CASE Clear \/ (MainFails /\ phase = "clear")
      BY <1>1, <3>2, ClearingStep DEF OnlyData
    <3>3. CASE SizeAndPlan \/ (MainFails /\ phase = "size")
      <4>1. \/ dest' = dest
            \/ SizeKnown /\ dest' = SizeDestination(dest, job.offset, job.size)
        <5>1. SizeAndPlan =>
                dest' = IF SizeKnown THEN SizeDestination(dest, job.offset, job.size) ELSE dest
          BY DEF SizeAndPlan
        <5> QED
          BY <3>3, <5>1 DEF MainFails, ByRanges, SizeKnown
      <4>2. ~Refused
        BY <3>3 DEF DestInv, SizeAndPlan
      <4> QED
        BY <1>1, <4>1, <4>2, SizeFits, SizingStep DEF Sized
    <3> QED
      BY <1>7, <3>1, <3>2, <3>3
  <2>3. OnlyData => dest.dirty = 0 /\ wr.since = 0 /\ wr.at = "recv"
    BY <2>1 DEF Watermark
  <2>4. job.mark \in Nat /\ BatchCells \in Nat \ {0}
    BY <1>1, JobFacts, JobMore
  <2>5. OnlyData => 0 < job.mark + BatchCells /\ 0 < job.mark
    BY <2>4 DEF OnlyData
  <2>6. OnlyData => Counted = 0
    BY <2>3 DEF Counted
  <2> QED
    BY <1>1, <1>2, <1>3, <1>5, <2>1, <2>2, <2>3, <2>5, <2>6 DEF Watermark
<1>8. MainFails => phase \in {"clear", "size", "resize", "sync"}
  BY DEF MainFails
<1> QED
  BY <1>4, <1>6, <1>7, <1>8 DEF Caller

LEMMA ReaderWatermark ==
  ASSUME Watermark, Reader
  PROVE  Watermark'
<1>1. UNCHANGED <<job, phase, result, dest, wr>>
  BY ReaderKeeps DEF readerFrame
<1>2. BatchCells' = BatchCells /\ (\A op, k : DataUpto(op, k)' = DataUpto(op, k))
  BY <1>1, JobFixedMore DEF DataUpto, DataFold, DataOf
<1>3. Counted' = Counted /\ Streaming' = Streaming /\ OnlyData' = OnlyData /\ Ok' = Ok
  BY <1>1, <1>2 DEF Counted, Current, Streaming, OnlyData, Ok
<1> QED
  BY <1>1, <1>2, <1>3 DEF Watermark

LEMMA WriterWatermark ==
  ASSUME Shape, ControlInv, OpsInv, OpsInv', DestInv, Watermark, Writer
  PROVE  Watermark'
<1>1. /\ UNCHANGED <<job, result>> /\ phase = "stream" /\ (~Join => phase' = phase)
      /\ job \in Jobs /\ Sane(dest) /\ dest.kind = job.kind /\ ~Refused /\ ~Ok /\ ~Ok'
      /\ wr.op \in SoundOps /\ TodoInv
  BY WriterKeeps DEF Shape, DestInv, DestOk, ControlInv, Ok, OpsInv, OpsIn
<1>2. BatchCells' = BatchCells /\ (\A op, k : DataUpto(op, k)' = DataUpto(op, k))
      /\ OnlyData' = OnlyData
  BY <1>1, JobFixedMore DEF DataUpto, DataFold, DataOf, OnlyData
<1> SUFFICES ASSUME OnlyData
             PROVE  /\ wr'.since \in Nat
                    /\ phase' = "stream" => dest'.dirty < job.mark + BatchCells
                    /\ Streaming' => dest'.dirty <= Counted'
                    /\ wr'.at \in {"recv", "work"} => wr'.since < job.mark
  <2>1. phase' \in {"stream", "finish"}
    BY <1>1 DEF Join
  <2> QED
    BY <1>1, <1>2, <2>1 DEF Watermark
<1>3. /\ wr.since \in Nat /\ dest.dirty < job.mark + BatchCells
      /\ Streaming => dest.dirty <= Counted
      /\ wr.at \in {"recv", "work"} => wr.since < job.mark
      /\ dest.dirty \in Nat /\ job.mark \in Nat \ {0} /\ BatchCells \in Nat \ {0}
      /\ ~IsSink(dest) /\ ~job.zeroMode
  BY <1>1, JobFacts, JobMore DEF Watermark, OnlyData, Sane, DestSet, IsSink
<1> USE DEF Shape, WriterFields, WriterStep
<1>4. CASE Receive
  <2>1. /\ wr'.at = "work" /\ wr.at = "recv" /\ wr'.since = wr.since /\ dest' = dest
        /\ wr'.todo = wr'.op.spans /\ phase' = phase
    BY <1>1, <1>4 DEF Receive, Join
  <2>2. wr'.op \in SoundOps
    BY <1>1, JobFixedMore DEF OpsInv, OpsIn
  <2>3. Current' - 1 = 0
    BY <2>1, <2>2, SoundFacts DEF Current
  <2>4. DataUpto(wr'.op, 0) = 0
    BY <2>2, DataAddsUp
  <2>5. Counted' = wr.since /\ Counted = wr.since
    <3>1. Counted' = wr'.since + DataUpto(wr.op, Current - 1)'
      BY <2>1 DEF Counted
    <3>2. DataUpto(wr.op, Current - 1)' = DataUpto(wr'.op, 0)
      BY <1>2, <2>3
    <3> QED
      BY <1>3, <2>1, <2>4, <3>1, <3>2 DEF Counted
  <2> QED
    BY <1>3, <2>1, <2>5 DEF Streaming
<1>5. CASE ElideSpan \/ WriteSpan
  <2>1. /\ wr.at = "work" /\ wr'.at = "work" /\ wr'.op = wr.op /\ wr.todo # <<>>
        /\ wr'.todo = Tail(wr.todo) /\ wr'.ret = wr.ret /\ wr'.since = wr.since /\ phase' = phase
    BY <1>1, <1>5 DEF ElideSpan, WriteSpan, Join
  <2> DEFINE n == IF Span.zero THEN 0 ELSE Span.len
             d == DataUpto(wr.op, Current - 1)
  <2>2. /\ Current' = Current + 1 /\ Current \in 1..Len(wr.op.spans) /\ Span = wr.op.spans[Current]
        /\ Span.offset \in Nat /\ Span.len \in Nat /\ Span.offset + Span.len <= wr.op.len
        /\ wr.op.len \in Nat
    BY <1>1, <2>1, SpanDone, NextSpan
  <2>3. d \in Nat /\ d <= Span.offset /\ DataUpto(wr.op, Current) = d + n
    BY <1>1, <2>2, DataFits, DataAddsUp
  <2>4. Counted = wr.since + d /\ Counted' = wr.since + (d + n)
    <3>1. DataUpto(wr.op, Current - 1)' = DataUpto(wr.op, Current)
      <4>1. Current' - 1 = Current
        BY <1>1, <2>2, SoundFacts
      <4> QED
        BY <1>2, <2>1, <4>1
    <3> QED
      BY <2>1, <2>3, <3>1 DEF Counted
  <2>5. dest'.dirty <= dest.dirty + n /\ dest'.dirty \in Nat
    <3>1. CASE ElideSpan
      BY <1>3, <3>1 DEF ElideSpan
    <3>2. CASE WriteSpan
      <4>1. /\ At \in Nat /\ Span.len \in Nat /\ At + Span.len <= MaxOffset
            /\ \A i \in 0..(Span.len - 1) : Payload[i] \in CellSet \ {Old}
        <5>1. /\ At \in Nat /\ Span.len \in Nat /\ Extent \in Nat /\ job.offset \in Nat
              /\ At + Span.len <= job.offset + Extent /\ job.offset + Extent <= MaxOffset
              /\ MaxOffset \in Nat /\ Span.len \in 0..Span.len
              /\ \A k \in 0..Span.len : \A i \in 0..(k - 1) : Payload[i] \in CellSet \ {Old}
          BY SMTT(30), <1>1, <2>1, SpanFits, ExtentFits, JobMore
        <5> QED
          BY <5>1
      <4>2. Paints(dest, dest', At, Span.len, Payload) /\ ~Span.zero
        BY <1>1, <3>2, <4>1, Writing DEF WriteSpan
      <4> QED
        BY <4>2 DEF Paints, Sane, DestSet
    <3> QED
      BY <1>5, <3>1, <3>2
  <2>6. dest.dirty <= Counted
    BY <1>3, <2>1 DEF Streaming
  <2>7. n = 0 \/ (n = Span.len /\ wr.op.len <= BatchCells)
    BY <1>1, <2>1, DataInBatch
  <2>8. n \in Nat
    BY <2>2
  <2>9. wr.since < job.mark
    BY <1>3, <2>1
  <2> HIDE DEF n, d
  <2>10. dest'.dirty <= Counted'
    BY <1>3, <2>3, <2>4, <2>5, <2>6, <2>8
  <2>11. dest'.dirty < job.mark + BatchCells
    <3>1. CASE n = 0
      BY <1>3, <2>5, <3>1
    <3>2. CASE n = Span.len /\ wr.op.len <= BatchCells
      <4>1. d + n <= BatchCells
        BY SMTT(30), <1>3, <2>2, <2>3, <3>2
      <4>2. Counted' < job.mark + BatchCells /\ Counted' \in Nat
        BY <1>3, <2>3, <2>4, <2>8, <2>9, <4>1
      <4> QED
        BY <1>3, <2>5, <2>10, <4>2
    <3> QED
      BY <2>7, <3>1, <3>2
  <2> QED
    BY <1>3, <2>1, <2>9, <2>10, <2>11
<1>6. CASE ZeroSpan
  BY <1>3, <1>6 DEF ZeroSpan
<1>7. CASE SpanFails
  <2>1. /\ wr.at = "work" /\ wr.todo # <<>> /\ ~Span.zero /\ wr'.at = "closing"
        /\ wr'.since = wr.since
    BY <1>1, <1>3, <1>7 DEF SpanFails
  <2>2. PICK n \in 0..Lesser(Span.len - 1, Room(dest, At, Span.len)) :
          dest' = WriteAllAt(dest, At, n, Payload)
    BY <1>7, <2>1 DEF SpanFails
  <2>3. /\ At \in Nat /\ Span.len \in Nat \ {0} /\ Extent \in Nat /\ job.offset \in Nat
        /\ At + Span.len <= job.offset + Extent /\ job.offset + Extent <= MaxOffset
        /\ MaxOffset \in Nat
        /\ \A k \in 0..Span.len : \A i \in 0..(k - 1) : Payload[i] \in CellSet \ {Old}
    BY <1>1, <2>1, SpanFits, ExtentFits, JobMore
  <2>4. n \in Nat /\ n <= Span.len /\ n \in 0..Span.len
    <3>1. Room(dest, At, Span.len) \in Nat
      BY <1>1, <2>3 DEF Room, Greater, Lesser, Sane, DestSet
    <3> QED
      BY <2>2, <2>3, <3>1 DEF Lesser
  <2>5. At + n <= MaxOffset
    BY <2>3, <2>4
  <2>6. Paints(dest, dest', At, n, Payload)
    BY <1>1, <2>2, <2>3, <2>4, <2>5, Writing
  <2>7. dest'.dirty <= dest.dirty + n /\ dest'.dirty \in Nat
    BY <2>6 DEF Paints, Sane, DestSet
  <2>8. /\ Current \in 1..Len(wr.op.spans) /\ Span = wr.op.spans[Current]
        /\ Span.offset \in Nat /\ Span.offset + Span.len <= wr.op.len
        /\ wr.op.len \in Nat
    BY <1>1, <2>1, NextSpan
  <2> DEFINE d == DataUpto(wr.op, Current - 1)
  <2>9. d \in Nat /\ d <= Span.offset /\ Counted = wr.since + d
    BY <1>1, <2>1, <2>8, DataFits DEF Counted
  <2>10. dest.dirty <= Counted /\ wr.op.len <= BatchCells /\ wr.since < job.mark
    BY <1>3, <2>1, DataInBatch DEF Streaming
  <2> HIDE DEF d
  <2>11. dest'.dirty < job.mark + BatchCells
    <3>1. d + n <= BatchCells
      <4> DEFINE o == Span.offset
                 l == Span.len
      <4>1. o \in Nat /\ l \in Nat /\ d \in Nat /\ n \in Nat /\ d <= o /\ n <= l
        BY <2>3, <2>4, <2>8, <2>9
      <4>2. o + l <= wr.op.len /\ wr.op.len \in Nat /\ wr.op.len <= BatchCells /\ BatchCells \in Nat
        BY <1>3, <2>8, <2>10
      <4> HIDE DEF o, l
      <4> QED
        BY <4>1, <4>2
    <3>2. dest'.dirty <= wr.since + (d + n)
      BY <1>3, <2>4, <2>7, <2>9, <2>10
    <3> QED
      BY <1>3, <2>4, <2>7, <2>9, <2>10, <3>1, <3>2
  <2> QED
    BY <1>3, <2>1, <2>11 DEF Streaming
<1>8. CASE FinishOp
  <2>1. /\ wr.at = "work" /\ wr'.at = "sync" /\ wr.todo = <<>> /\ dest' = dest
        /\ wr'.since = wr.since + DataCells(wr.op)
    BY <1>1, <1>8 DEF FinishOp
  <2>2. DataCells(wr.op) \in Nat /\ DataCells(wr.op) = DataUpto(wr.op, Len(wr.op.spans))
    BY <1>1, DataAddsUp
  <2>3. Current - 1 = Len(wr.op.spans)
    BY <1>1, <2>1, SoundFacts DEF Current
  <2>4. Counted = wr.since + DataCells(wr.op) /\ Counted' = wr'.since
    BY <1>3, <2>1, <2>2, <2>3 DEF Counted
  <2>5. wr'.since \in Nat
    BY <1>3, <2>1, <2>2
  <2> QED
    BY <1>3, <2>1, <2>4, <2>5 DEF Streaming
<1>9. CASE SyncOrNot
  <2>1. /\ wr.at = "sync" /\ wr'.at = "recv"
        /\ dest' = IF SyncDue THEN Sync(dest) ELSE dest
        /\ wr'.since = IF SyncDue THEN 0 ELSE wr.since
    BY <1>1, <1>9 DEF SyncOrNot
  <2>2. Counted' = wr'.since /\ Counted = wr.since
    BY <1>3, <2>1 DEF Counted
  <2>3. CASE SyncDue
    <3>1. dest'.dirty = 0
      BY <1>1, <2>1, <2>3 DEF Sync, Sane, DestSet
    <3> QED
      BY <1>3, <2>1, <2>2, <2>3, <3>1
  <2>4. CASE ~SyncDue
    <3>1. wr.since < job.mark
      BY <1>3, <2>4 DEF SyncDue, SupportsSync
    <3> QED
      BY <1>3, <2>1, <2>2, <2>4, <3>1 DEF Streaming
  <2> QED
    BY <2>3, <2>4
<1>10. CASE SyncFails \/ StreamEnds \/ DropRx \/ DropPoolTx \/ Join
  <2>1. /\ wr'.at \in {"closing", "rxDropped", "joining", "joined"} /\ dest' = dest
        /\ wr'.since = wr.since
    BY <1>1, <1>10 DEF SyncFails, StreamEnds, DropRx, DropPoolTx, Join
  <2> QED
    BY <1>3, <2>1 DEF Streaming
<1> QED
  BY <1>4, <1>5, <1>6, <1>7, <1>8, <1>9, <1>10 DEF Writer

LEMMA StepWatermark ==
  ASSUME EngineInv, EngineInv', Watermark, [Next]_vars
  PROVE  Watermark'
<1>1. /\ Shape /\ Placed /\ InPlace /\ ReadOn /\ OpsInv /\ OpsInv' /\ ControlInv /\ DestInv
  BY DEF EngineInv, SuccessInv, OwnerInv, OrderInv
<1>2. CASE UNCHANGED vars
  <2>1. UNCHANGED <<job, phase, result, dest, wr>>
    BY <1>2 DEF vars
  <2>2. BatchCells' = BatchCells /\ (\A op, k : DataUpto(op, k)' = DataUpto(op, k))
    BY <2>1, JobFixedMore DEF DataUpto, DataFold, DataOf
  <2>3. Counted' = Counted /\ Streaming' = Streaming /\ OnlyData' = OnlyData /\ Ok' = Ok
    BY <2>1, <2>2 DEF Counted, Current, Streaming, OnlyData, Ok
  <2> QED
    BY <2>1, <2>2, <2>3 DEF Watermark
<1> QED
  BY <1>1, <1>2, CallerWatermark, ReaderWatermark, WriterWatermark DEF Next, Returned

(* A synced copy that returns Ok has nothing left to be made durable; and  *)
(* while it runs, what a destination has been given and not been asked to  *)
(* keep stays below the watermark and one batch.  (copy.rs:557-581)        *)
THEOREM UnsyncedStaysBounded == Spec => []UnsyncedDataBounded
<1>1. EngineInv /\ EngineInv' /\ Watermark /\ [Next]_vars => Watermark'
  BY StepWatermark
<1>2. EngineInv /\ Watermark => UnsyncedDataBounded
  <2> SUFFICES ASSUME EngineInv, Watermark PROVE UnsyncedDataBounded
    OBVIOUS
  <2>1. DestInv /\ job \in Jobs
    BY DEF EngineInv, SuccessInv, Shape
  <2>2. job.mark \in Nat /\ BatchCells \in Nat \ {0}
    BY <2>1, JobFacts, JobMore
  <2>3. job.kind = "sink" => dest.dirty = 0
    BY <2>1 DEF DestInv, DestOk, IsSink
  <2> QED
    BY <2>2, <2>3 DEF Watermark, OnlyData, UnsyncedDataBounded
<1> QED
  BY <1>1, <1>2, InitWatermark, EngineInvHolds, PTL DEF Spec

-----------------------------------------------------------------------------
(* Reading back.  Every behaviour of a copy with its comparison is one of  *)
(* the copy alone, so what is proved of that one holds here too.           *)

USE JobsAssumption, ReadBackAssumption

BackVerdicts == {"none", "same", "differs", "Io"}

BackTyped ==
  /\ job \in Jobs
  /\ back \in [at : {"copy", "compare", "over"}, image : [len : Nat, data : SUBSET Int],
               start : Nat, stale : SUBSET Int, off : Nat, verdict : BackVerdicts, mark : Int,
               total : Int, finished : Nat]

(* A comparison is only begun when copy is over, and goes through the      *)
(* image from its start without a gap.                                     *)
InStep ==
  /\ back.at # "copy" => phase = "done" /\ Ok
  /\ job.stdin \/ back.start = 0
  /\ back.at # "over" => back.verdict = "none" /\ back.finished = 0
  /\ back.at = "copy" => back.off = 0
  /\ back.at = "compare" =>
       /\ back.off = 0 \/ back.start + back.off <= back.image.len
       /\ back.total # Unknown => back.total = back.image.len /\ back.start = 0
       /\ \A i \in 0..(back.off - 1) : Compared(i)

(* What is found to differ is a cell of the image.                         *)
Marked ==
  back.verdict = "differs" =>
    back.at = "over" /\ back.mark \in Nat /\ back.start + back.mark < back.image.len

BackInv == BackTyped /\ InStep /\ ReadBackSound /\ Marked

(* Nothing of a copy moves once it has returned.                           *)
LEMMA CopyIsOver ==
  ASSUME phase = "done", [Next]_vars
  PROVE  UNCHANGED vars
<1>1. CASE Caller
  BY <1>1 DEF Caller, Check, Clear, SizeAndPlan, MainFails, Finish, Resize, FinalSync
<1>2. CASE Reader
  BY <1>2 DEF Reader, MeetGap, ReportGap, ReportGapClosed, EnterRange, PlanDone, TakeBuffer,
              PoolClosed, ReadBatch, ReadEnds, ReadFails, ReaderPanics, SendBatch,
              SendBatchClosed, NextBatch, CloseRange, PastGap, ReaderStep
<1>3. CASE Writer
  BY <1>3 DEF Writer, Receive, ElideSpan, ZeroSpan, WriteSpan, SpanFails, FinishOp, SyncOrNot,
              SyncFails, StreamEnds, DropRx, DropPoolTx, Join, WriterStep
<1>4. CASE Returned
  BY <1>4 DEF Returned
<1> QED
  BY <1>1, <1>2, <1>3, <1>4 DEF Next

(* What a job and a destination are made of, as far as verify uses them.   *)
LEMMA NumbersOfJob ==
  ASSUME TypeOK, job \in Jobs
  PROVE  /\ job.offset \in Nat /\ job.srcLen \in Nat /\ BackBatch \in Nat \ {0}
         /\ DestEnd \in Nat
         /\ job.data \subseteq Int
         /\ job.stdin => job.stream
<1>1. job \in Jobs /\ dest.len \in Nat /\ dest.kind = job.kind /\ dest.cap = job.cap
  BY DEF TypeOK
<1>2. job.offset \in Nat /\ job.srcLen \in Nat /\ job.batch \in Nat \ {0} /\ job.cap \in Nat
  BY <1>1
<1>3. job.data \subseteq Int /\ (job.stdin => job.stream)
  BY <1>1, <1>2
<1>4. BackBatch \in Nat \ {0}
  BY <1>2 DEF BackBatch, Greater
<1>5. DestEnd \in Nat
  BY <1>1, <1>2 DEF DestEnd
<1> QED
  BY <1>2, <1>3, <1>4, <1>5

(* Left is what lies between a position and an end, a batch at most.       *)
LEMMA LeftBounds ==
  ASSUME TypeOK, job \in Jobs, NEW end \in Nat, NEW from \in Nat
  PROVE  /\ Left(end, from) \in Nat
         /\ Left(end, from) > 0 => from + Left(end, from) <= end
         /\ Left(end, from) = 0 => end <= from
         /\ Left(end, from) < BackBatch => end <= from + Left(end, from)
         /\ Left(end, from) <= BackBatch
<1>1. BackBatch \in Nat \ {0}
  BY NumbersOfJob
<1> HIDE DEF BackBatch
<1> QED
  BY <1>1 DEF Left, Lesser, Greater

(* The same for the batch in hand, of the image and of the destination.    *)
LEMMA BatchBounds ==
  ASSUME TypeOK, BackTyped
  PROVE  /\ Wanted \in Nat /\ Given \in Nat
         /\ Wanted > 0 => back.start + back.off + Wanted <= back.image.len
         /\ Wanted = 0 => back.image.len <= back.start + back.off
         /\ Given > 0 => job.offset + back.off + Given <= DestEnd
         /\ Given <= Wanted
         /\ Given < Wanted => DestEnd <= job.offset + back.off + Given
<1>1. /\ back.start + back.off \in Nat /\ back.image.len \in Nat
      /\ back.start \in Nat /\ back.off \in Nat
  BY DEF BackTyped
<1>2. job.offset \in Nat /\ DestEnd \in Nat /\ job.offset + back.off \in Nat
  BY <1>1, NumbersOfJob DEF BackTyped
<1>3. /\ Wanted \in Nat /\ Wanted <= BackBatch
      /\ Wanted > 0 => back.start + back.off + Wanted <= back.image.len
      /\ Wanted = 0 => back.image.len <= back.start + back.off
  BY <1>1, LeftBounds DEF Wanted, BackTyped
<1> DEFINE left == Left(DestEnd, job.offset + back.off)
<1>4. /\ left \in Nat
      /\ left > 0 => job.offset + back.off + left <= DestEnd
      /\ left < BackBatch => DestEnd <= job.offset + back.off + left
  BY <1>2, LeftBounds DEF BackTyped
<1>5. Given = Lesser(Wanted, left)
  BY DEF Given
<1>6. BackBatch \in Nat
  BY NumbersOfJob DEF BackTyped
<1> HIDE DEF left
<1> QED
  BY <1>1, <1>2, <1>3, <1>4, <1>5, <1>6 DEF Lesser

(* The steps.                                                              *)

LEMMA InitBackInv == TypeOK /\ BackInit => BackInv
<1> SUFFICES ASSUME TypeOK, job \in Jobs, InitBack PROVE BackInv
  BY DEF BackInit, Init
<1>1. job.srcLen \in Nat /\ job.data \subseteq Int
  BY NumbersOfJob
<1> QED
  BY <1>1 DEF InitBack, Image, Unknown, BackInv, BackTyped, InStep, ReadBackSound, Marked, Ok, BackVerdicts

(* A step of the copy itself is taken before the comparison begins.        *)
LEMMA CopyStep ==
  ASSUME BackInv, [Next]_vars, UNCHANGED back
  PROVE  BackInv'
<1>1. BackTyped'
  BY JobKept DEF BackInv, BackTyped
<1>2. CASE back.at = "copy"
  BY <1>1, <1>2, JobKept DEF BackInv, InStep, ReadBackSound, Marked
<1>3. CASE back.at # "copy"
  <2>1. UNCHANGED vars
    BY <1>3, CopyIsOver DEF BackInv, InStep
  <2> QED
    BY <1>1, <2>1 DEF BackInv, InStep, ReadBackSound, Marked, Compared, Got, ToFind, DestEnd, IsSink,
                      Ok, vars
<1> QED
  BY <1>2, <1>3

LEMMA ReopenStep ==
  ASSUME TypeOK, BackInv, Reopen, UNCHANGED vars
  PROVE  BackInv'
<1>1. PICK image \in LaterImages, stale \in Decayed :
        back' = [back EXCEPT !.at = "compare", !.image = image, !.stale = stale,
                             !.start = IF job.stdin THEN rd.pos ELSE 0,
                             !.total = IF job.stream THEN Unknown ELSE image.len]
  BY DEF Reopen
<1>2. /\ job.srcLen \in Nat /\ job.data \subseteq Int /\ (job.stdin => job.stream)
      /\ job.offset \in Nat /\ rd.pos \in Nat
  BY NumbersOfJob DEF TypeOK, BackInv, BackTyped
<1>3. image \in [len : Nat, data : SUBSET Int]
  BY <1>2 DEF LaterImages, Image
<1>4. stale \in SUBSET Int
  BY <1>2 DEF Decayed
<1>5. BackTyped'
  <2>1. (IF job.stdin THEN rd.pos ELSE 0) \in Nat
    BY <1>2
  <2>2. (IF job.stream THEN Unknown ELSE image.len) \in Int
    BY <1>3 DEF Unknown
  <2> HIDE DEF LaterImages, Decayed
  <2> QED
    BY <1>1, <1>3, <1>4, <2>1, <2>2 DEF BackInv, BackTyped, vars
<1>6. back.at = "copy" /\ phase = "done" /\ Ok /\ back.verdict = "none" /\ back.finished = 0
  BY DEF Reopen, BackInv, InStep
<1>7. back.off = 0
  BY <1>6 DEF BackInv, InStep
<1>8. /\ back'.at = "compare" /\ back'.off = 0 /\ back'.image = image
      /\ back'.start = IF job.stdin THEN rd.pos ELSE 0
      /\ back'.total = IF job.stream THEN Unknown ELSE image.len
      /\ back'.verdict = "none" /\ back'.finished = 0
  BY <1>1, <1>6, <1>7 DEF BackInv, BackTyped
<1>9. InStep'
  BY <1>2, <1>6, <1>8 DEF InStep, Ok, vars
<1> QED
  BY <1>5, <1>8, <1>9 DEF BackInv, ReadBackSound, Marked

(* An equal batch: it was compared from where the last one ended.          *)
LEMMA SameStep ==
  ASSUME TypeOK, BackInv, BatchSame, UNCHANGED vars
  PROVE  BackInv'
<1>1. /\ Wanted \in Nat /\ Wanted > 0 /\ Given = Wanted
      /\ back.start + back.off + Wanted <= back.image.len
      /\ job.offset + back.off + Wanted <= DestEnd
      /\ job.offset \in Nat /\ DestEnd \in Nat
  BY BatchBounds, NumbersOfJob DEF BackInv, BackTyped, BatchSame
<1>2. back' = [back EXCEPT !.off = @ + Wanted] /\ back.at = "compare" /\ back.off \in Nat
  BY DEF BatchSame, BackInv, BackTyped
<1>3. BackTyped'
  <2>1. back.off + Wanted \in Nat
    BY <1>1, <1>2
  <2> HIDE DEF Wanted
  <2> QED
    BY <1>2, <2>1 DEF BackInv, BackTyped, vars
<1>4. /\ back'.off = back.off + Wanted /\ back'.at = "compare"
      /\ back'.image = back.image /\ back'.start = back.start /\ back'.stale = back.stale
      /\ back'.total = back.total /\ back'.finished = back.finished
      /\ back'.verdict = back.verdict
  BY <1>2 DEF BackInv, BackTyped
<1>5. \A i : Compared(i)' <=> Compared(i)
  BY <1>4 DEF Compared, Got, ToFind, DestEnd, IsSink, vars
<1>6. ASSUME NEW i \in back.off..(back.off + Wanted - 1)
      PROVE  Compared(i)
  <2>1. i - back.off \in 0..(Wanted - 1) /\ back.off + (i - back.off) = i
        /\ job.offset + back.off + (i - back.off) = job.offset + i
    BY SMTT(30), <1>1, <1>2
  <2>2. Got(job.offset + i) = ToFind(i)
    BY <2>1 DEF BatchSame, Differing
  <2> QED
    BY <1>1, <1>2, <2>2 DEF Compared
<1>7. \A i \in 0..(back'.off - 1) : Compared(i)'
  BY <1>1, <1>2, <1>4, <1>5, <1>6 DEF BackInv, InStep
<1>8. InStep'
  BY SMTT(30), <1>1, <1>2, <1>3, <1>4, <1>7 DEF BackInv, InStep, BackTyped, Ok, vars
<1> QED
  BY <1>3, <1>4, <1>8 DEF BackInv, InStep, ReadBackSound, Marked

(* A verdict is reached: everything but what it says stays as it is.       *)
LEMMA VerdictStep ==
  ASSUME BackInv, UNCHANGED vars, back.at = "compare", NEW verdict \in {"same", "differs"},
         NEW mark \in Int, Verdict(verdict, mark),
         verdict = "same" => /\ back.image.len <= back.start + back.off
                             /\ \A i \in 0..(back.off - 1) : Compared(i),
         verdict = "differs" =>
           ~Compared(mark) /\ mark \in Nat /\ back.start + mark < back.image.len
  PROVE  BackInv'
<1>1. back' = [back EXCEPT !.at = "over", !.verdict = verdict, !.mark = mark, !.finished = @ + 1]
  BY DEF Verdict
<1>2. BackTyped'
  <2>1. back.finished + 1 \in Nat /\ verdict \in BackVerdicts
    BY DEF BackInv, BackTyped, BackVerdicts
  <2> QED
    BY <1>1, <2>1 DEF BackInv, BackTyped, vars
<1>3. /\ back'.off = back.off /\ back'.at = "over" /\ back'.mark = mark
      /\ back'.image = back.image /\ back'.start = back.start /\ back'.stale = back.stale
      /\ back'.total = back.total /\ back'.finished = 1 /\ back'.verdict = verdict
  BY <1>1 DEF BackInv, BackTyped, InStep
<1>4. \A i : Compared(i)' <=> Compared(i)
  BY <1>3 DEF Compared, Got, ToFind, DestEnd, IsSink, vars
<1>5. InStep'
  BY <1>3 DEF BackInv, InStep, Ok, vars
<1>6. back.image.len \in Nat /\ back.start \in Nat /\ back.off \in Nat
  BY DEF BackInv, BackTyped
<1>7. CASE verdict = "same"
  <2>1. \A i \in 0..(back'.image.len - back'.start - 1) : Compared(i)'
    BY <1>3, <1>4, <1>6, <1>7
  <2>2. back'.total # Unknown => back'.off = back'.total
    BY <1>3, <1>6, <1>7 DEF BackInv, InStep
  <2> QED
    BY <1>2, <1>3, <1>5, <1>7, <2>1, <2>2 DEF BackInv, ReadBackSound, Marked
<1>8. CASE verdict = "differs"
  BY <1>2, <1>3, <1>4, <1>5, <1>8 DEF BackInv, ReadBackSound, Marked
<1> QED
  BY <1>7, <1>8

LEMMA VerifyStep ==
  ASSUME TypeOK, BackInv, Verify
  PROVE  BackInv'
<1> USE DEF Verify
<1>1. UNCHANGED vars
  OBVIOUS
<1>2. CASE Reopen
  BY <1>1, <1>2, ReopenStep
<1>3. CASE ReopenFails \/ CompareFails
  <2>1. back' = [back EXCEPT !.at = "over", !.verdict = "Io"] /\ phase = "done" /\ Ok
    BY <1>3 DEF ReopenFails, CompareFails, BackInv, InStep
  <2>2. back'.at = "over" /\ back'.verdict = "Io"
    BY <2>1 DEF BackInv, BackTyped
  <2>3. BackTyped'
    BY <2>1 DEF BackInv, BackTyped, vars, BackVerdicts
  <2> QED
    BY <1>1, <2>1, <2>2, <2>3 DEF BackInv, InStep, ReadBackSound, Marked, Ok, vars
<1>4. CASE BatchSame
  BY <1>1, <1>4, SameStep
<1>5. CASE BatchDiffers
  <2>1. PICK i \in Differing : Verdict("differs", back.off + i) /\ back.at = "compare"
    BY <1>5 DEF BatchDiffers
  <2>2. /\ job.offset \in Nat /\ back.off \in Nat /\ Wanted \in Nat /\ Wanted > 0
        /\ back.start + back.off + Wanted <= back.image.len
        /\ back.start \in Nat /\ back.image.len \in Nat
    BY <1>5, BatchBounds, NumbersOfJob DEF BackInv, BackTyped, BatchDiffers
  <2>3. /\ i \in 0..(Wanted - 1) /\ Got(job.offset + back.off + i) # ToFind(back.off + i)
        /\ job.offset + back.off + i = job.offset + (back.off + i)
    BY <2>2 DEF Differing
  <2>4. ~Compared(back.off + i)
    BY <2>3 DEF Compared
  <2>5. back.off + i \in Nat /\ back.start + (back.off + i) < back.image.len
    <3> HIDE DEF Wanted
    <3> QED
      BY SMTT(30), <2>2, <2>3
  <2> QED
    BY <1>1, <2>1, <2>4, <2>5, VerdictStep
<1>6. CASE BatchShort
  <2>1. /\ back.off \in Nat /\ Given \in Nat /\ DestEnd <= job.offset + back.off + Given
        /\ job.offset \in Nat /\ DestEnd \in Nat
    BY <1>6, BatchBounds, NumbersOfJob DEF BackInv, BackTyped, BatchShort
  <2>2. ~Compared(back.off + Given) /\ back.off + Given \in Nat
    BY <2>1 DEF Compared
  <2>3. /\ Given < Wanted /\ Given \in Nat /\ Wanted \in Nat /\ back.start \in Nat
        /\ Wanted > 0 => back.start + back.off + Wanted <= back.image.len
        /\ back.image.len \in Nat
    BY <1>6, BatchBounds DEF BackInv, BackTyped, BatchShort
  <2>4. back.start + (back.off + Given) < back.image.len
    <3> HIDE DEF Wanted, Given
    <3> QED
      BY SMTT(30), <2>1, <2>3
  <2> QED
    BY <1>1, <1>6, <2>2, <2>4, VerdictStep DEF BatchShort
<1>7. CASE CompareEnds
  <2>1. back.image.len <= back.start + back.off /\ \A i \in 0..(back.off - 1) : Compared(i)
    BY <1>7, BatchBounds DEF BackInv, InStep, CompareEnds
  <2>2. back.at = "compare" /\ Verdict("same", Unknown) /\ Unknown \in Int
    BY <1>7 DEF CompareEnds, Unknown
  <2> QED
    BY <1>1, <2>1, <2>2, VerdictStep
<1> QED
  BY <1>2, <1>3, <1>4, <1>5, <1>6, <1>7

(* To the copy, comparing is doing nothing.                                *)
LEMMA CopyUnderneath == BackSpec => Spec
<1>1. BackInit => Init
  BY DEF BackInit
<1>2. [BackNext]_backVars => [Next]_vars
  BY DEF BackNext, Verify, backVars
<1> QED
  BY <1>1, <1>2, PTL DEF BackSpec, Spec

(* The comparison goes through the image as it is now without a gap, after *)
(* a copy that succeeded, and what it reports is so. (copy.rs:616-661)     *)
THEOREM BackInvHolds == BackSpec => []BackInv
<1>1. TypeOK /\ BackInit => BackInv
  BY InitBackInv
<1>2. TypeOK /\ BackInv /\ [BackNext]_backVars => BackInv'
  <2>1. ASSUME BackInv, UNCHANGED backVars
        PROVE  BackInv'
    BY <2>1, CopyStep DEF backVars
  <2> QED
    BY <2>1, CopyStep, VerifyStep DEF BackNext
<1> QED
  BY <1>1, <1>2, CopyUnderneath, CopyTypeCorrect, PTL DEF BackSpec

(* A copy that is verified is reported as identical only if every cell of  *)
(* the image, as it is when it is read again, is what the destination      *)
(* gives back, and as different only at a cell that differs. (copy.rs:602) *)
THEOREM VerdictIsSound == BackSpec => []ReadBackSound
<1>1. BackInv => ReadBackSound
  BY DEF BackInv
<1> QED
  BY <1>1, BackInvHolds, PTL

(* A mismatch that is reported has a cause outside the copy, or is an old  *)
(* cell where ZeroMode::Skip left it: copy itself has put every other cell *)
(* in its place, and made the file long enough. (copy.rs:607)              *)
THEOREM MismatchHasACause == BackSpec => []ReadBackConfirms
<1>1. EngineInv /\ DeliveryInv /\ OnlyAscendingSucceeds /\ BackInv => ReadBackConfirms
  <2> SUFFICES ASSUME EngineInv, DeliveryInv, OnlyAscendingSucceeds, BackInv,
                      back.verdict = "differs",
                      back.image = Image, back.stale = {}, ~job.stdin, ~IsSink(dest),
                      job.srcLen = FinalSize, \A i \in job.data : Mapped(i)
               PROVE  /\ ~job.zeroMode
                      /\ \E i \in 0..(job.srcLen - 1) :
                           dest.cells[job.offset + i] = Old /\ (~job.wipe \/ PastDevice(i))
    BY DEF ReadBackConfirms
  <2> DEFINE m == back.mark
             c == job.offset + m
  <2>1. Ok /\ back.start = 0 /\ m \in Nat /\ m < job.srcLen /\ ~Compared(m)
    BY DEF BackInv, BackTyped, InStep, Marked, ReadBackSound, Image
  <2>2. /\ job \in Jobs /\ DestInv /\ DestOk /\ phase = "done"
    BY <2>1 DEF EngineInv, DestInv, SuccessInv, Shape, ControlInv, Ok
  <2>3. /\ job.srcLen \in Nat /\ job.offset \in Nat /\ job.offset + job.srcLen <= MaxOffset
        /\ MaxOffset \in Nat /\ job.cap \in 0..MaxOffset /\ dest.len \in Nat
        /\ job.kind \in {"file", "device", "sink"} /\ dest.kind = job.kind /\ dest.cap = job.cap
    BY <2>2, JobFacts, JobMore DEF DestOk, Sane, DestSet
  <2>4. m \in 0..(job.srcLen - 1) /\ c \in 0..MaxOffset /\ m \in 0..(Lesser(FinalSize, job.srcLen) - 1)
    BY <2>1, <2>3 DEF Lesser
  <2>5. Right(m)
    BY <2>1, <2>3, <2>4, SuccessIsRight DEF IsSink
  <2>6. Expected(m) = Content(m) /\ ToFind(m) = Content(m) /\ Got(c) = dest.cells[c]
    BY <2>1 DEF Expected, Content, ToFind, Got, Image
  <2>7. c < DestEnd => dest.cells[c] # Expected(m)
    BY <2>1, <2>6 DEF Compared
  <2>8. CASE c < DestEnd
    BY <2>4, <2>5, <2>7, <2>8 DEF Right
  <2>9. CASE ~(c < DestEnd)
    <3>1. job.kind = "file" => dest.len >= job.offset + FinalSize
      BY <2>1, <2>2 DEF DestInv
    <3>2. job.kind = "device" /\ c >= job.cap
      BY <2>1, <2>3, <2>9, <3>1 DEF DestEnd, IsSink
    <3>3. dest.cells[c] = Old /\ PastDevice(m)
      BY <2>2, <2>4, <3>2 DEF DestInv, PastDevice
    <3>4. Expected(m) # Old
      BY <2>2, <2>6, JobMore
    <3> QED
      BY <2>4, <2>5, <3>3, <3>4 DEF Right, Old, Zero
  <2> QED
    BY <2>8, <2>9
<1> QED
  BY <1>1, BackInvHolds, CopyUnderneath, EngineInvHolds, DeliveryInvHolds,
     DisorderNeverSucceeds, PTL

=============================================================================
