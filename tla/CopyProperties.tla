--------------------------- MODULE CopyProperties ---------------------------
(***************************************************************************)
(* What a call of copy promises, stated over CopyEngine.                   *)
(***************************************************************************)
EXTENDS CopyEngine

Ok == result = "ok"

(* The cells copy is told to read, and what the image should become: what  *)
(* is not mapped counts as zero.                                           *)
Mapped(i) ==
  IF ByRanges
  THEN \E r \in 1..RangeCount : RangeStart(Entry(r)) <= i /\ i < RangeEnd(Entry(r))
  ELSE i < job.srcLen

Expected(i) == IF Mapped(i) THEN Content(i) ELSE Zero

(* The destination as it was found, and the part of it wipe or zap clears. *)
Found(c) == IF job.kind = "file" /\ c >= job.len THEN Zero ELSE Old

Cleared(c) ==
  \/ job.wipe
  \/ /\ job.zap > 0 /\ job.kind = "device"
     /\ c < job.zap \/ c >= job.cap - job.zap

Untouched(c) == dest.cells[c] = Found(c)

-----------------------------------------------------------------------------

TypeOK ==
  /\ phase \in {"check", "clear", "size", "stream", "finish", "resize", "sync", "done"}
  /\ result \in {"none", "ok", "InvalidOffset", "DestinationTooSmall", "CannotWipe", "Io",
                 "ShortImage", "NotSeekable", "RangeChecksum", "ReaderLost",
                 "MappedBlockMismatch"}
  /\ dest.kind = job.kind /\ dest.cap = job.cap
  /\ dest.cells \in [0..MaxOffset -> {Old, Zero} \cup (1..MaxOffset)]
  /\ dest.len \in 0..MaxOffset
  /\ rd.at \in {"plan", "range", "await", "fill", "send", "gap", "next", "ended"}
  /\ rd.buf \in Buffers \cup {NoBuffer}
  /\ rd.pos \in Nat
  /\ Len(chan) <= QueueDepth
  /\ pool \in Seq(Buffers)
  /\ wr.at \in {"recv", "work", "sync", "closing", "rxDropped", "joining", "joined"}
  /\ prog.finished \in Nat

(* What an image of unknown size has past the end of a device: zero spans  *)
(* there are skipped unseen, since only a write meets the end.             *)
PastDevice(i) == job.kind = "device" /\ job.offset + i >= job.cap

(* Success means the image is there: every cell that carries data is on    *)
(* the destination at its shifted place; every other cell reads zero with  *)
(* ZeroMode::Zero, and holds zero or what it held before with Skip, never  *)
(* a byte from somewhere else.  (dest.rs:43-54, run through the splitting  *)
(* into ranges, batches and spans, and through both threads.)              *)
ImageDelivered ==
  Ok /\ job.kind # "sink" =>
    \A i \in 0..(Lesser(FinalSize, job.srcLen) - 1) :
      LET found == dest.cells[job.offset + i]
      IN  IF Expected(i) # Zero THEN found = Expected(i)
          ELSE \/ found = Zero
               \/ found = Old /\ ~job.zeroMode /\ (~job.wipe \/ PastDevice(i))

(* Whatever happens, also on every error path, nothing outside the image's *)
(* extent changes but what wipe, zap or the final length of a file at      *)
(* offset zero is asked to remove; and nothing at all, not even what was   *)
(* to be cleared first, if the image is known not to fit.                  *)
OutsideUntouched ==
  LET extent == Greater(job.srcLen, IF SizeKnown THEN job.size ELSE 0)
      misfit == SizeKnown /\ job.kind = "device" /\ job.offset + job.size > job.cap
  IN  \A c \in 0..MaxOffset :
        \/ Untouched(c)
        \/ ~misfit /\ c >= job.offset /\ c < job.offset + extent
        \/ /\ ~misfit /\ dest.cells[c] = Zero
           /\ Cleared(c) \/ (job.kind = "file" /\ job.offset = 0)

(* An image that disagrees with a checksum it was to be verified against   *)
(* is never reported as copied, however the threads interleave.            *)
ChecksumsHonoured ==
  Ok /\ job.bmap /\ job.verify => \A r \in 1..RangeCount : Entry(r).sum # "bad"

(* Bmap::parse accepts ranges in any order, and the engine's accounting of *)
(* gaps is wrong for ranges that are not ascending and disjoint ("in       *)
(* ascending block order", bmap.rs:45).  No copy with such ranges succeeds *)
(* all the same: the source refuses to go back, a file as well as a stream. *)
OnlyAscendingSucceeds ==
  Ok /\ ByRanges => \A i, k \in 1..RangeCount : i < k => Entry(i).last < Entry(k).first

(* The statistics add up: with a plan of ranges the written, elided and    *)
(* zeroed cells are the image, counted once; when reading until the end,   *)
(* they are what was read.  Progress was told of everything read, which    *)
(* is the total it was promised.                                           *)
AccountingExact ==
  Ok =>
    /\ wr.written + wr.elided + wr.zeroed = IF ByRanges THEN job.size ELSE rd.read
    /\ prog.advanced = rd.read
    /\ ByRanges => prog.advanced = prog.total

(* What wipe or zap was asked to clear is clean when copy succeeds: both   *)
(* ends of a device, or all of it, hold zeroes or the image, never an old  *)
(* byte.                                                                   *)
ClearedIsClean ==
  Ok /\ job.kind = "device" => \A c \in 0..(job.cap - 1) : Cleared(c) => dest.cells[c] # Old

(* "Whatever happens, the progress reporter is told the run is over before *)
(* the error travels any further", copy.rs:219: a copy that has announced  *)
(* a total does not return without having said so, and says so only once   *)
(* and only when both threads are over, so nothing is counted afterwards.  *)
(* It never counts past the total either.  (FinishCalledOnce below is what *)
(* progress.rs asks for.)                                                  *)
EndReportedOnce ==
  /\ phase = "done" /\ prog.announced => prog.finished = 1
  /\ prog.finished > 0 => prog.finished = 1 /\ rd.at = "ended" /\ wr.at = "joined"
  /\ ByRanges /\ prog.announced => prog.advanced <= prog.total

(* A synced copy leaves nothing behind that is not durable, and on the way *)
(* the watermark bounds the data that a device has accepted but not yet    *)
(* been asked to make durable, by itself and one batch, as long as nothing *)
(* is zeroed explicitly.                                                   *)
UnsyncedDataBounded ==
  /\ Ok /\ job.sync => dest.dirty = 0
  /\ phase = "stream" /\ job.mark > 0 /\ ~job.zeroMode /\ ~job.wipe /\ job.zap = 0 =>
       dest.dirty < job.mark + BatchCells

(* A partial update of a longer file keeps its tail, on every path.  After *)
(* a copy that succeeded the file reaches to the end of the image, even    *)
(* when its last blocks were never written; at offset zero the file is the *)
(* image and ends there.                                                   *)
FileLengthExact ==
  job.kind = "file" =>
    /\ job.offset > 0 /\ ~job.wipe => dest.len >= job.len
    /\ Ok => dest.len >= job.offset + FinalSize
    /\ Ok /\ job.offset = 0 => dest.len = FinalSize

(* "Even a single non-zero byte carries its whole block": of a block that  *)
(* is mapped and holds data, every cell is written.                        *)
WholeBlocksWritten ==
  Ok /\ job.kind # "sink" =>
    \A i \in 0..(Lesser(FinalSize, job.srcLen) - 1) :
      Mapped(i) /\ (\E k \in job.data : Mapped(k) /\ k \div job.bs = i \div job.bs)
        => dest.cells[job.offset + i] = Content(i)

(* The operations the writer receives tile the image: each starts where    *)
(* the one before it ended, gaps included, so nothing is skipped, sent     *)
(* twice or reordered on the way between the threads.                      *)
OpsTileImage ==
  [][wr.at = "recv" /\ wr'.at = "work" => wr'.op.off = wr.op.off + wr.op.len]_vars

-----------------------------------------------------------------------------
(* Claims of the documentation that the code does not keep.                *)

(* "The destination is size-checked against the image before anything is   *)
(* written."  (README.md:385)                                              *)
SizeCheckedBeforeWriting ==
  job.kind = "device" /\ job.offset + job.srcLen > job.cap =>
    \A c \in 0..MaxOffset : Untouched(c)

(* "The operation has ended.  Called exactly once, including on failure."  *)
(* (progress.rs:22)                                                        *)
FinishCalledOnce == phase = "done" => prog.finished = 1

(* "A bmap that belongs to a different image is caught even if every       *)
(* individual checksum happened to pass."  (README.md:388-390)             *)
ForeignBmapCaught ==
  Ok /\ job.bmap => job.srcLen = job.size /\ \A i \in job.data : Mapped(i)

-----------------------------------------------------------------------------
(* The threads of the engine are those of Pipeline.                        *)

ReaderIn == IF rd.at = "next" THEN "plan" ELSE rd.at

ReturnedAs(r) == IF r \in {"none", "ok", "panic"} THEN r ELSE "err"

OutcomeOf ==
  IF wr.at # "joined" THEN "none"
  ELSE IF rd.ret = "panic" THEN "ReaderLost"
  ELSE IF wr.ret # "ok" THEN "writerErr"
  ELSE IF rd.ret # "ok" THEN "readerErr"
  ELSE "ok"

ChannelOf == [i \in 1..Len(chan) |-> chan[i].buf]

PoolOf == {pool[i] : i \in 1..Len(pool)}

CurrentOf == IF wr.at = "work" /\ CarriesBuffer(wr.op) THEN wr.op.buf ELSE NoBuffer

Threads == INSTANCE Pipeline WITH
  reader  <- ReaderIn,
  held    <- rd.buf,
  read    <- ReturnedAs(rd.ret),
  chan    <- ChannelOf,
  pool    <- PoolOf,
  writer  <- wr.at,
  cur     <- CurrentOf,
  wrote   <- ReturnedAs(wr.ret),
  outcome <- OutcomeOf

(* The engine implements Pipeline: what is proved there of the buffers,    *)
(* the channels and the teardown holds of every copy.                      *)
ThreadsImplemented == Threads!Spec

=============================================================================
