------------------------------ MODULE Pipeline ------------------------------
(***************************************************************************)
(* The two threads of copy.rs: run_pipeline spawns the reader (read_image) *)
(* and runs the writer (write_stream) on the calling thread.  They share   *)
(* two channels:                                                           *)
(*                                                                         *)
(*   chan  sync_channel(queue_depth), reader to writer, carrying batches   *)
(*         (which own a buffer) and unmapped gaps (which own none);        *)
(*   pool  an unbounded channel, writer to reader, seeded with queue_depth *)
(*         buffers, through which the writer returns them.                 *)
(*                                                                         *)
(* This module keeps every blocking operation, every exit and the order in *)
(* which the ends of the channels are dropped.  What the plan contains,    *)
(* and so when the reader stops, is left open here; CopyEngine fixes it    *)
(* and implements this specification.                                      *)
(***************************************************************************)
EXTENDS Naturals, Sequences, FiniteSets

CONSTANTS Buffers,   \* the buffers the pool is seeded with
          Gap,       \* a Payload::Unmapped in the channel
          NoBuffer   \* "owns no buffer"

(* queue_depth is opts.queue_depth.max(1): there is at least one buffer.   *)
ASSUME BuffersAssumption ==
  /\ IsFiniteSet(Buffers)
  /\ Buffers # {}

ASSUME SentinelAssumption ==
  /\ Gap \notin Buffers
  /\ NoBuffer \notin Buffers

(* Broken: a channel one slot shorter than the pool.                       *)
QueueDepth_Short == Cardinality(Buffers) - 1

QueueDepth == Cardinality(Buffers)

VARIABLES
  reader,   \* where the reader thread is
  held,     \* the buffer the reader owns, or NoBuffer
  read,     \* what read_image returned; "none" while the reader runs
  chan,     \* the operations in flight, oldest first
  pool,     \* the buffers waiting for the reader
  writer,   \* where the calling thread is
  cur,      \* the buffer of the operation the writer works on, or NoBuffer
  wrote,    \* what write_stream returned
  outcome,  \* what run_pipeline returned
  cut,      \* history: the reader met a channel the writer had closed
  dropped   \* history: an operation was thrown away unwritten

readerVars == <<reader, held, read>>
writerVars == <<writer, cur, wrote, outcome>>
vars == <<readerVars, chan, pool, writerVars, cut, dropped>>

-----------------------------------------------------------------------------

(* The reader sits in pool.recv ("await"), in tx.send with a batch         *)
(* ("send") or with a gap ("gap"), fills and classifies a buffer ("fill"), *)
(* or decides what the plan asks for next ("plan"; "range" right after a   *)
(* gap, since the plan has no two gaps in a row).                          *)
ReaderAt == {"plan", "range", "await", "fill", "send", "gap", "ended"}

ReaderRunning == reader # "ended"

(* write_stream still runs: a writer that left it no longer receives.      *)
Streaming == writer \in {"recv", "work", "sync"}

(* rx and pool_tx live until run_pipeline drops them, one after the other. *)
RxOpen == Streaming \/ writer = "closing"
PoolTxOpen == RxOpen \/ writer = "rxDropped"

InFlight == {chan[i] : i \in 1..Len(chan)}

Init ==
  /\ reader = "plan"
  /\ held = NoBuffer
  /\ read = "none"
  /\ chan = <<>>
  /\ pool = Buffers
  /\ writer = "recv"
  /\ cur = NoBuffer
  /\ wrote = "none"
  /\ outcome = "none"
  /\ cut = FALSE
  /\ dropped = FALSE

-----------------------------------------------------------------------------
(* The reader thread.                                                      *)

(* When read_image returns (or unwinds) its closure drops tx and pool_rx,  *)
(* and with pool_rx every buffer still waiting in the pool.                *)
ReaderEnds(r) ==
  /\ reader' = "ended"
  /\ read' = r
  /\ held' = NoBuffer
  /\ pool' = {}

(* The plan calls for another batch: the reader enters pool.recv.          *)
WantBuffer ==
  /\ reader \in {"plan", "range"}
  /\ reader' = "await"
  /\ UNCHANGED <<held, read, chan, pool, writerVars, cut, dropped>>

TakeBuffer ==
  /\ reader = "await"
  /\ \E b \in pool : held' = b /\ pool' = pool \ {b}
  /\ reader' = "fill"
  /\ UNCHANGED <<read, chan, writerVars, cut, dropped>>

(* pool.recv fails once the pool is empty and pool_tx is gone.             *)
PoolClosed ==
  /\ reader = "await"
  /\ pool = {}
  /\ ~PoolTxOpen
  /\ ReaderEnds("ok")
  /\ cut' = TRUE
  /\ UNCHANGED <<chan, writerVars, dropped>>

(* The buffer is filled and classified; the reader enters tx.send.         *)
FillBuffer ==
  /\ reader = "fill"
  /\ reader' = "send"
  /\ UNCHANGED <<held, read, chan, pool, writerVars, cut, dropped>>

SendBatch ==
  /\ reader = "send"
  /\ RxOpen
  /\ Len(chan) < QueueDepth
  /\ chan' = Append(chan, held)
  /\ held' = NoBuffer
  /\ reader' = "plan"
  /\ UNCHANGED <<read, pool, writerVars, cut, dropped>>

(* tx.send fails: the reader gives up and still returns Ok.                *)
SendBatchClosed ==
  /\ reader = "send"
  /\ ~RxOpen
  /\ ReaderEnds("ok")
  /\ cut' = TRUE
  /\ dropped' = TRUE
  /\ UNCHANGED <<chan, writerVars>>

(* The plan leaves blocks out: report_gap enters tx.send.                  *)
MeetGap ==
  /\ reader = "plan"
  /\ reader' = "gap"
  /\ UNCHANGED <<held, read, chan, pool, writerVars, cut, dropped>>

(* Broken: the channel has room for any number of gaps.                    *)
ReportGap_Unbounded ==
  /\ reader = "gap"
  /\ RxOpen
  /\ chan' = Append(chan, Gap)
  /\ reader' = "range"
  /\ UNCHANGED <<held, read, pool, writerVars, cut, dropped>>

ReportGap ==
  /\ reader = "gap"
  /\ RxOpen
  /\ Len(chan) < QueueDepth
  /\ chan' = Append(chan, Gap)
  /\ reader' = "range"
  /\ UNCHANGED <<held, read, pool, writerVars, cut, dropped>>

(* report_gap ignores a failed send and the reader carries on.             *)
ReportGapClosed ==
  /\ reader = "gap"
  /\ ~RxOpen
  /\ reader' = "range"
  /\ cut' = TRUE
  /\ dropped' = TRUE
  /\ UNCHANGED <<held, read, chan, pool, writerVars>>

(* The plan is exhausted or the image ends ("ok"); a read, a seek or a     *)
(* checksum fails ("err"); or the thread unwinds ("panic").                *)
ReaderReturns ==
  /\ reader \in {"plan", "range", "fill"}
  /\ \E r \in {"ok", "err", "panic"} : ReaderEnds(r)
  /\ UNCHANGED <<chan, writerVars, cut, dropped>>

Reader ==
  \/ WantBuffer
  \/ TakeBuffer
  \/ PoolClosed
  \/ FillBuffer
  \/ SendBatch
  \/ SendBatchClosed
  \/ MeetGap
  \/ ReportGap
  \/ ReportGapClosed
  \/ ReaderReturns

-----------------------------------------------------------------------------
(* The calling thread: write_stream, then the teardown in run_pipeline.    *)

Receive ==
  /\ writer = "recv"
  /\ chan # <<>>
  /\ chan' = Tail(chan)
  /\ cur' = IF Head(chan) = Gap THEN NoBuffer ELSE Head(chan)
  /\ writer' = "work"
  /\ UNCHANGED <<readerVars, pool, wrote, outcome, cut, dropped>>

(* Broken: the buffer is dropped with the operation instead of recycled.   *)
FinishOp_Leaks ==
  /\ writer = "work"
  /\ cur' = NoBuffer
  /\ writer' = "sync"
  /\ UNCHANGED <<readerVars, chan, pool, wrote, outcome, cut, dropped>>

(* The operation is written; a batch gives its buffer back, if the reader  *)
(* is still there to take it.                                              *)
FinishOp ==
  /\ writer = "work"
  /\ pool' = IF cur # NoBuffer /\ ReaderRunning THEN pool \cup {cur} ELSE pool
  /\ cur' = NoBuffer
  /\ writer' = "sync"
  /\ UNCHANGED <<readerVars, chan, wrote, outcome, cut, dropped>>

(* A write or a zeroing fails: write_stream returns, dropping the op.      *)
OpFails ==
  /\ writer = "work"
  /\ cur' = NoBuffer
  /\ writer' = "closing"
  /\ wrote' = "err"
  /\ dropped' = TRUE
  /\ UNCHANGED <<readerVars, chan, pool, outcome, cut>>

SyncOrNot ==
  /\ writer = "sync"
  /\ writer' = "recv"
  /\ UNCHANGED <<readerVars, chan, pool, cur, wrote, outcome, cut, dropped>>

SyncFails ==
  /\ writer = "sync"
  /\ writer' = "closing"
  /\ wrote' = "err"
  /\ UNCHANGED <<readerVars, chan, pool, cur, outcome, cut, dropped>>

(* Broken: leaves the loop as soon as the channel is empty.                *)
StreamEnds_Eager ==
  /\ writer = "recv"
  /\ chan = <<>>
  /\ writer' = "closing"
  /\ wrote' = "ok"
  /\ UNCHANGED <<readerVars, chan, pool, cur, outcome, cut, dropped>>

(* rx.recv fails once the channel is empty and the reader dropped tx.      *)
StreamEnds ==
  /\ writer = "recv"
  /\ chan = <<>>
  /\ ~ReaderRunning
  /\ writer' = "closing"
  /\ wrote' = "ok"
  /\ UNCHANGED <<readerVars, chan, pool, cur, outcome, cut, dropped>>

DropRx ==
  /\ writer = "closing"
  /\ writer' = "rxDropped"
  /\ chan' = <<>>
  /\ dropped' = (dropped \/ chan # <<>>)
  /\ UNCHANGED <<readerVars, pool, cur, wrote, outcome, cut>>

(* Broken: joins the reader while this thread still holds pool_tx.         *)
DropPoolTx_Late ==
  /\ writer = "rxDropped"
  /\ ~ReaderRunning
  /\ writer' = "joining"
  /\ UNCHANGED <<readerVars, chan, pool, cur, wrote, outcome, cut, dropped>>

DropPoolTx ==
  /\ writer = "rxDropped"
  /\ writer' = "joining"
  /\ UNCHANGED <<readerVars, chan, pool, cur, wrote, outcome, cut, dropped>>

(* Broken: reports the reader's result before looking at the writer's.     *)
Join_ReaderFirst ==
  /\ writer = "joining"
  /\ ~ReaderRunning
  /\ writer' = "joined"
  /\ outcome' = IF read = "panic" THEN "ReaderLost" ELSE read
  /\ UNCHANGED <<readerVars, chan, pool, cur, wrote, cut, dropped>>

(* A panic wins, then the writer's error, then the reader's.               *)
Join ==
  /\ writer = "joining"
  /\ ~ReaderRunning
  /\ writer' = "joined"
  /\ outcome' = IF read = "panic" THEN "ReaderLost"
                ELSE IF wrote = "err" THEN "writerErr"
                ELSE IF read = "err" THEN "readerErr"
                ELSE "ok"
  /\ UNCHANGED <<readerVars, chan, pool, cur, wrote, cut, dropped>>

Writer ==
  \/ Receive
  \/ FinishOp
  \/ OpFails
  \/ SyncOrNot
  \/ SyncFails
  \/ StreamEnds
  \/ DropRx
  \/ DropPoolTx
  \/ Join

-----------------------------------------------------------------------------

(* run_pipeline has returned: nothing is left to do.                       *)
Returned == writer = "joined" /\ UNCHANGED vars

Next == Reader \/ Writer \/ Returned

Spec == Init /\ [][Next]_vars

(* Both are operating system threads, and every call they make (a read, a  *)
(* write, an fsync) returns: neither stops for ever where it could go on.  *)
Fairness == WF_vars(Reader) /\ WF_vars(Writer)

FairSpec == Spec /\ Fairness

-----------------------------------------------------------------------------

TypeOK ==
  /\ reader \in ReaderAt
  /\ held \in Buffers \cup {NoBuffer}
  /\ read \in {"none", "ok", "err", "panic"}
  /\ chan \in Seq(Buffers \cup {Gap})
  /\ Len(chan) <= QueueDepth
  /\ pool \in SUBSET Buffers
  /\ writer \in {"recv", "work", "sync", "closing", "rxDropped", "joining", "joined"}
  /\ cur \in Buffers \cup {NoBuffer}
  /\ wrote \in {"none", "ok", "err"}
  /\ outcome \in {"none", "ok", "writerErr", "readerErr", "ReaderLost"}
  /\ cut \in BOOLEAN
  /\ dropped \in BOOLEAN

(* No buffer ever leaks while both threads work: each one waits in the     *)
(* pool, is being filled, is in flight, or is being written.  This is what *)
(* the fixed memory bound of the engine and its progress rest on.          *)
BuffersConserved ==
  ReaderRunning /\ Streaming =>
    \A b \in Buffers : b \in pool \/ b = held \/ b \in InFlight \/ b = cur

(* The two threads never wait for each other: the reader for a buffer of   *)
(* an empty pool, and the writer for an operation of an empty channel.     *)
NoMutualWait ==
  ~ /\ reader = "await" /\ pool = {}
    /\ writer = "recv" /\ chan = <<>>

(* The pool, not the channel, is what throttles the reader: a batch can    *)
(* find the channel full only if some of the slots hold gaps, which come   *)
(* without a buffer.                                                       *)
FullOnlyWithGaps ==
  reader = "send" /\ Len(chan) = QueueDepth => Gap \in InFlight

(* A reader cut short returns Ok with a partial tally.  Success of the     *)
(* whole is reported only if that did not happen and no operation was      *)
(* thrown away by the teardown.                                            *)
OkMeansComplete ==
  outcome = "ok" => read = "ok" /\ ~cut /\ ~dropped

(* A failed write is never masked: neither by the Ok of the reader it cut  *)
(* short, nor by an error the reader met meanwhile.  Only a reader that    *)
(* panicked takes precedence.                                              *)
WriterErrorWins ==
  writer = "joined" /\ wrote = "err" => outcome \in {"writerErr", "ReaderLost"}

(* "Dropping both ends unblocks a reader that is waiting on a full channel *)
(* or on an empty buffer pool, so the join below cannot hang."             *)
JoinReturns == writer = "closing" ~> writer = "joined"

-----------------------------------------------------------------------------
(* The inductive invariant behind these properties.                        *)

(* Each thread owns a buffer exactly where its code holds one.             *)
Owned ==
  /\ held # NoBuffer <=> reader \in {"fill", "send"}
  /\ cur # NoBuffer => writer = "work"
  /\ reader = "ended" => pool = {}

(* No buffer is in two places.                                             *)
Once ==
  /\ held \notin pool
  /\ cur \notin pool
  /\ held = cur => held = NoBuffer
  /\ \A i \in 1..Len(chan) :
       chan[i] # Gap => chan[i] \notin pool /\ chan[i] # held /\ chan[i] # cur
  /\ \A i, k \in 1..Len(chan) : chan[i] = chan[k] /\ chan[i] # Gap => i = k

(* What the results say of how the threads ended.  A writer that succeeded *)
(* has outlived the reader and drained the channel; so what is cut short   *)
(* or thrown away later is the work of a writer that failed.               *)
Returns ==
  /\ read = "none" <=> ReaderRunning
  /\ wrote = "none" <=> Streaming
  /\ wrote = "ok" => ~ReaderRunning /\ chan = <<>>
  /\ cut \/ dropped => wrote = "err"
  /\ writer = "joined" => ~ReaderRunning
  /\ outcome = "none" <=> writer # "joined"
  /\ outcome = "ok" => wrote = "ok" /\ read = "ok"

IInv ==
  /\ TypeOK
  /\ Owned
  /\ Once
  /\ Returns
  /\ BuffersConserved
  /\ WriterErrorWins

=============================================================================
