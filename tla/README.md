# Verifying thindd

TLA+ models of `thindd`, a tool that copies disk images onto devices and writes
only the parts that carry data. The models are translated from the Rust source
(`crates/thindd-core`, the library, and `crates/thindd`, the command), checked
with TLC on small instances. Each invariant, and each other safety property, that a
passing run checks is also proved with TLAPS, for all values of the constants: what a copy
that succeeds has delivered, what it leaves alone, what it counts and reports, and that its
threads implement an abstract pipeline that cannot block itself; that the map of an image is
exact and is accepted when it is read back; what a bmap file that is damaged or only half
written comes to; and what commands promise each other about the devices they share. Only
that everything ends, which is liveness, is left to TLC. Paths below are relative
to `crates/thindd-core/src` unless they say otherwise; `run.rs` is the command's.

## The system

A copy has a *source* (a file that can seek, or a stream), a *destination* (a
regular file, a device that reports a capacity, or a sink like `/dev/null`) and
perhaps a *bmap* that lists the ranges of blocks to copy with their checksums.

| Component | State | Operations | What is hard |
|---|---|---|---|
| pipeline threads, `copy.rs` | two channels, the buffers, each thread's position | recv and send, buffer recycling, teardown, join | every interleaving of work, failure and teardown; mutual waiting; masked errors |
| copy engine, `copy.rs` | plan, tallies, position in image and destination | check, clear, size, plan, read, classify, write, sync, final size | partial blocks, gaps, errors part of the way through, unknown sizes, order of sizing |
| destination, `dest.rs` | kind, capacity, length, contents, whether `fallocate` works | `ensure_fits`, `write_all_at`, `zero_range`, `wipe`, `zap`, `grow_to`, `set_len`, `sync`, `open` | overlapping ends, the fallback of zeroing, what is durable, what is open at all |
| image source, `source.rs`, `decompress.rs` | position, the kernel's file offset, the bytes that were sniffed | `open_auto`, `from_reader_auto`, `skip_to`, `read_full` | the position and the file offset are two variables; first bytes that arrive in pieces; images that change |
| zero detection, `zero.rs` | none | `classify_blocks`, `is_zero` | partial last block, runs across block boundaries |
| block ranges, `range.rs` | none | block and byte conversions, merging | rounding outwards, touching ranges |
| bmap file, `bmap.rs`, `checksum.rs` | the document on disk | `render`, `parse`, the self digest, candidate names | a document that contains its own digest; files that are damaged, or only half written; lists of ranges that are accepted although they are out of order |
| hole detection, `filemap.rs` | the kernel's file offset | `data_byte_ranges`, `candidate_ranges` | a file system that stops answering half-way |
| bmap creation, `create.rs` | open range, running hash | `scan`, `create_streaming`, `RangeBuilder` | an image that shrinks meanwhile |
| read-back check, `copy.rs` | position | `verify` | short destinations, progress on failure |
| device tuning, `sysfs.rs` | values to restore, the kernel's knobs | `apply`, drop | several processes on one disk, a killed process |
| progress hook, `progress.rs` | what the reporter was told | `set_total`, `advance`, `finish` | exactly one `finish`, also on failure |
| commands, `run.rs` | the order of open, tune, copy, verify; the bmap file that is written | `cmd_copy`, `cmd_create`, `cmd_info` | what is dropped on each way out; standard input is read once; kills |

`copy` runs on the calling thread: it checks and clears the destination, gives a
file its length and builds a plan. `run_pipeline` then spawns the reader
(`read_image`), which takes buffers from a pool, fills and classifies them and
sends them through a bounded channel; the calling thread (`write_stream`) writes
or skips their spans and gives the buffers back. When the writer leaves its loop
both channel ends are dropped, the reader is joined and the two results become
one. The caller then compares the number of mapped blocks, sets the final length
and syncs.

`create` makes a bmap in a single thread. `data_byte_ranges` asks the kernel, with
`lseek`, which parts of a file have storage behind them; the blocks they touch are
the candidates, and `scan` reads them, batch by batch, through the same source as
`copy` does, classifies each batch and lets `RangeBuilder` grow the ranges and their
hashes. A stream is read to its end instead. Nothing keeps others from changing the
file between any two of these calls. `cmd_create` then renders the map and writes it in
place.

`cmd_copy` opens image, bmap and destination (with `O_EXCL` if a stat of the path saw a
block device), tunes the knobs of the destination's disk, copies, perhaps opens the
image again and reads everything back; the knobs are restored by a guard that is
dropped on each way out, before the destination is closed. Several commands on one
machine meet at the kernel's claims on the devices, and at the knobs.

What makes each part correct: the pipeline always returns, and says Ok only if
everything arrived; the engine delivers the image, touches nothing else, and
clears, sizes, counts and syncs as its options say; the destination is long enough
and never shortened by an update; block arithmetic loses no byte and overlaps
nowhere; hole detection misses no data and leaves the offset where the reader
expects it; a created map is exact and its checksums are those of the image;
a map that was damaged or torn is refused, and one that is accepted can be followed;
an image is read from its first byte; read-back and copy agree on what was written;
nothing in use is opened; the knobs of a disk are put back.

## The modules

| Module | What it is |
|---|---|
| `Pipeline` | The abstract specification of the threads: both channels, every blocking call, every exit, the teardown. Which batches there are, and so when the reader ends, is open. |
| `Pipeline_proofs` | Its inductive invariant and its safety properties, proved. |
| `Blocks` | `zero.rs` and `range.rs` as functions: the walk over a buffer and the arithmetic of byte and block ranges. |
| `Destination` | The operations of `dest.rs` as operators on a destination record; no state of its own. Extends `Blocks`. |
| `CopyEngine` | A whole call of `copy`, with what the threads carry. Extends `Destination`. |
| `CopyProperties` | What a copy promises, and the refinement mapping from `CopyEngine` to `Pipeline`. |
| `CopyEngine_proofs` | What success of a copy rests on, that the order of ranges matters, that the operations tile the image, and that `CopyEngine` implements `Pipeline`, proved. |
| `CopyDestination_proofs` | The types of a copy, what its operations carry, and what becomes of the destination around the image, proved. Extends `CopyEngine_proofs` and `Blocks_proofs`. |
| `CopyDelivery_proofs` | That the image is delivered, the tallies and reports about it, and what the comparison then says, proved. Extends `CopyDestination_proofs` and `ReadBack`. |
| `ReadBack` | `copy --verify`: `verify` after the copy it checks. Extends `CopyProperties`. |
| `Filemap` | `filemap.rs`, one `lseek` at a time, with the file, its offset and those who change it. Extends `Blocks`. |
| `CreateBmap` | A whole call of `create`. Extends `Filemap`. |
| `BmapFile` | The bmap as a document: `render`, `parse`, names. Functions, no state. Extends `Blocks`. |
| `Blocks_proofs` | Theorems about the operators of `Blocks` and `BmapFile` for inputs of any size, and the induction they need. |
| `CreateProperties` | What a call of `create` promises. Extends `CreateBmap` and `BmapFile`. |
| `CreateCommand` | `cmd_create`: `create` and the file it writes, with kills. Extends `CreateProperties`. |
| `Create_proofs` | That `create` reads where it believes to, that its map is exact, misses no data that survives, and is accepted; that half a map is refused; that `cmd_create` runs `create` as specified. Proved. Extends `CreateCommand` and `Blocks_proofs`. |
| `Opening` | How an image is opened, sniffed and perhaps decoded. Functions, no state. |
| `PureFunctions` | What is promised of `Blocks`, `BmapFile` and `Opening`, and a state machine that grows their inputs. |
| `PureFunctions_proofs` | These promises for inputs of any size, proved. Extends `Blocks_proofs`. |
| `Command` | Any number of `copy` commands over shared devices: claims, knobs, kills, mounts, paths that change. |
| `Command_proofs` | Its inductive invariant and its two safety properties, proved. |
| `MCPipeline`, `MCCopy`, `MCFunctions`, `MCCreate`, `MCCommand` | Their instances for TLC. |

Operators whose names end in `_Something` after another's name, and whose comment
begins with *Broken*, are not part of the specifications. They are plausible
mistakes, kept to show that each property notices one.

### Pipeline

`reader` is the position of the reader: deciding what the plan wants next
(`plan`, `range`), in `pool.recv` (`await`), filling a buffer (`fill`), in
`tx.send` with a batch (`send`) or with a gap (`gap`), or returned (`ended`).
`writer` is the position of the calling thread: in `rx.recv` (`recv`), dealing
with an operation (`work`), at the watermark (`sync`), out of the loop with both
ends alive (`closing`), after `drop(rx)` (`rxDropped`), after `drop(pool_tx)` in
`join` (`joining`), and after it (`joined`). `held` and `cur` are the buffers the
threads own, `chan` and `pool` those in between. `cut` and `dropped` are history
variables: the reader met a closed channel; an operation was thrown away.

Each blocking call is an action that is enabled when the call can return, with
one action for each way it returns: `SendBatch` and `SendBatchClosed`,
`TakeBuffer` and `PoolClosed`, `Receive` and `StreamEnds`. The pool is a set here,
since the order of interchangeable buffers means nothing.

### Destination and CopyEngine

Sizes are counted in cells; a block and a batch are a number of cells each, not
necessarily a multiple of one another, as in the code. Cell *i* of the image holds
zero or the payload *i + 1*, and every cell of the destination starts as `Old`, so
that what is lost, misplaced, left or overwritten can be told apart by looking at
the destination.

A *job* is one call of `copy` with everything that does not change during it:
options, the source's kind, its announced size and its real length, the ranges and
whether the image agrees with their checksums, the destination as found. The set
`Jobs` is a constant, and each behaviour starts by choosing one. `Faults` names the
calls that may fail at any moment: reads and seeks, writes (after any part of a
span), syncs, the calls outside the pipeline (a failing wipe or zap leaves any
part of its work done), or a panic of the reader. A destination that is full
always fails.

`phase` is the position in `copy`; `rd` and `wr` are the two threads, with the same
positions as in `Pipeline` (and `next` between two batches of a range); the
operations carry their offset and spans. The steps of `copy` before the pipeline
are `Check`, `Clear`, `SizeAndPlan`, those after it `Finish`, `Resize`,
`FinalSync`, and `MainFails` any failure among them. A batch is classified with
`Classify` of `Blocks`.

Abstracted: the bytes themselves, hash values (a range's checksum is `good`, `bad`
or absent), the length of one `read` or `write` system call, the percentages and
times of the statistics. `resolve_block_size` has accepted the block size. Ranges
end inside the image and are not empty, which `Bmap::parse` and
`candidate_ranges` both ensure; their order is not assumed.

### Blocks

`ClassifyBlocks` folds over the blocks of a buffer as the loop of `zero.rs` does,
and `Classify` puts the fast path for a buffer of zeroes in front of it.
`CoalesceByteRanges` and `ByteRangesToBlocks` fold over sorted lists of ranges. The
module has no state. `PureFunctions` grows every input, cell by cell and range by range,
and compares the results with definitions by sets, so that a wrong rounding or a
lost byte shows as a difference of sets.

### Filemap and CreateBmap

`file` is the image as it is at the moment (its length, the cells with storage, and
those among them that are not zero), `size` its length when it was opened, which the
code keeps. `kpos` is the offset of the descriptor, `pos` the position `SeekSource`
believes in: two variables in the program too, since `data_byte_ranges` moves the
first behind the back of the second. `look` holds the local variables of
`data_byte_ranges`; each of its calls of `lseek` is a step, so that the file may
change between any two of them. The `host` of a file says what may happen to it: the
file system may `refuse` any question (EINVAL and its like), also after it has answered
others, `contradict` itself (a hole where it has just found data), or fail (`io`); others may `shrink` it, `append`
to it or `punch` holes into it; a `read` may fail.

`phase` is the position in `create`: `start`, in the lookup, looking for the next
candidate (`seek`), reading it (`read`), reading a `stream`, `done`. `Start`,
`LookedUp` and `Proceed` are `create_from` up to the scan, `Seek`, `Read`,
`CandidateEnds` and `ScanEnds` the scan, `ReadStream` and `StreamEnds` the loop over
a stream. `builder` is the `RangeBuilder`, whose running hash is the sequence of the
cells that were fed to it: two hashes are equal exactly if the same cells went in, in
the same order. `prog` is what the progress hook was told, `seen` (history) which
cells were read.

Abstracted: a file is only appended to if it was not shortened before, and what is
appended lies past the length it was opened with, for `create` never looks there; a
stream ends once. The search for a default block size, which is always valid, is left
out.

### ReadBack

`back` holds everything `verify` and its caller know. When `copy` has returned Ok,
`Reopen` opens the image again: it may be longer or shorter by then, or have other
contents, and the medium may have lost all that was written (`Decay` says which of
these may happen). `BatchSame`, `BatchDiffers`, `BatchShort` and `CompareEnds` are one
turn of the loop each, `ReopenFails` and `CompareFails` the errors. A stream is opened
again from its beginning, except standard input, which goes on where the copy stopped:
`start`. `Page` is the 4096 bytes below which `verify` does not take a batch.

### BmapFile, Opening

A bmap document is a record of what `parse` looks for: `cut` says whether its end is
missing, the other fields what it says. A digest is represented by what was digested,
with the digest itself blanked out as `render` and `verify_self_digest` do, so that
two digests are equal exactly if kind and document are. `ParseAnswer` has the checks of
`parse` in their order, `Parsed` the map that is returned, and a name is the sequence of
its parts between dots.

In `Opening` what is opened is a sequence of reads, each the bytes that one `read`
would return, so that a head of four bytes may come in up to four pieces. Sniffing and
sizing move the descriptor; `Rewound` is the `lseek` that follows each. The result is
a record of what an `ImageSource` is made of, and of the bytes it, or its decoder, is
going to see.

### CreateCommand

`output` is the document at the output path. `std::fs::write` empties the file, then
writes: `OpenOutput`, `WriteOutput` and `OutputWritten` leave nothing, any part (a
document without its end), all but what follows the last tag, and the whole. `Kill`
may come at any of these moments, `OutputFails` at any of them too.

### Command

`pc` is where each command is: preparing, at the stat, at the open, looking for the
knobs (`find`), reading and writing one (`read`, `write`), in the copy, in the
comparison, dropping its guard (`restore`), closing. `knobs` belongs to the disks and
outlives the commands; `saved` is the `restore` list of each. A partition shares the
knobs of its disk, as `sysfs_base` finds them (sysfs.rs:130). The kernel's rule of
claims is `Claimed`: a whole disk and its partitions exclude each other, two partitions
do not. `Mount` claims like a command, `Rename` gives a path to another node at any
time. `misled`, `shared` and `lost` are history: the path changed between stat and
open; two commands had a disk open at a time; old values were never read, not written
back, or died with their command. A panic is a kill: the release profile aborts
(Cargo.toml:77).

## What is checked

### Runs that pass

| Run | Bounds | Shows |
|---|---|---|
| `pipeline` | 3 buffers; 2 438 states | `NoMutualWait`, `FullOnlyWithGaps`, `OkMeansComplete`, `WriterErrorWins`; the inductive invariant `IInv`, which contains the types, the channel's bound and `BuffersConserved`; and `JoinReturns`: the join cannot hang |
| `copy` | bmaps, scans, streams, destinations of all kinds, read-backs; 411 549 states | The image arrives: `ImageDelivered`, `ChecksumsHonoured`, `OnlyAscendingSucceeds`, `AccountingExact`, `WholeBlocksWritten`, `EndReportedOnce`. Nothing else changes: `ClearedIsClean`, `OutsideUntouched`, `UnsyncedDataBounded`, `FileLengthExact`. The read-back tells the truth: `ReadBackSound`, `ReadBackConfirms`. The engine implements `Pipeline`: `ThreadsImplemented`; `OpsTileImage`; `CopyReturns` |
| `functions` | buffers of up to 8 cells, 3 ranges up to 7, blocks of 1 to 4; 21 maps, two damages each; names of 4 parts; 5 bytes in any pieces; 35 400 states | `SpansAreMaximalRuns`, `BlocksRoundOutward`, `DamageNoticed`, `AcceptedIsUsable`, `MapFoundAgain`, `OpenedFromStart` |
| `create` | every pattern of holes and data in 5 cells with every option, and 4 images with all interference and all failures at any step; 575 230 states | `MapExact`, `SumsMatchImage`, `MapAccepted`, `SurvivingDataMapped`, `PositionAgrees`, `ReadOnce`, `TornMapRefused`, `CreateReturns` |
| `command` | 2 commands, a disk with 2 partitions; 918 048 states | `ClaimRespected`, `KnobsPutBack`, and their inductive invariant `IInv` |

Bounds. Three buffers in `Pipeline` are one in each of the places a buffer can be
at once (reader, channel, writer) and allow a channel that holds batches and gaps;
the proofs remove the bound. An image of five cells in blocks of two has two whole
blocks and a partial one, the fewest with a first, a middle and a last block; lists
of up to three ranges over them give every arrangement of gaps before, between and
after ranges, and of touching ranges; `copy` also takes lists that are
disordered or overlap, images shorter and longer than announced, and sources that
seek and that do not. Batches of two and of four cells put one and two blocks into
a batch. Two buffers let both threads work at the same time. The destinations are
devices that are smaller than, as large as and larger than what is written, with
and without an offset, files shorter and longer than the image, watermarks of none,
one block, and between one and two, and zap spans that leave a middle, meet, and
overlap. `MaxOffset` (8 cells) stands for the largest 64-bit offset and is reached
by `Check`'s overflow. In `functions` a buffer of eight cells has four blocks of two, so
a run of every kind lies before, between and after others, and block sizes that are
no powers of two come for free; in `create` blocks of one, two and four cells and
batches that are smaller than a block, no multiple of it and larger than it are
combined with all the images. `MaxLen` (5) bounds what is appended to. The images that
others are busy with are only given to the calls with the usual block size. `PureFunctions`
damages any one field of a rendered document, or cuts off its end, seals the result with
a new digest as another tool would, and damages it once more: two rounds reach each
check of `parse` with a digest that is right and with one that is not. Names of four
parts have two extensions on a dotted stem, a leading dot, and every place a `gz` can
stand. Five bytes are a head of four and one that must not be lost. The comparison
reads batches of 3 and 4 cells over 5, so there is a partial one. Two commands are
enough for each of the two to be first and last, on a partition and its disk and on two
partitions, one of whose knobs was tuned before; the proofs remove the bound.

`ImageDelivered` and `ReadBackConfirms` except the cells of a zero span behind the end of
a device that a stream of unknown size runs into (`PastDevice`, below).
`WholeBlocksWritten` is checked in `copy` for batches that are whole numbers
of blocks, because it fails for others (below); `UnsyncedDataBounded` bounds data,
not zeroes that are written explicitly, which the code does not count either.
The properties that `data_byte_ranges` can spoil by giving up midway, with the
offset left behind (below), except that case: `GaveUpMidway` is a lookup that has no
ranges to return although it has found data, or is past the start of the file.
`EndReportedOnce` speaks of copies that have announced a total, because the others may
return without a `finish` (below). `DamageNoticed` excepts
versions below 1.3, which have no digest, `OpenedFromStart` named pipes opened with
`--decompress none`, which are taken for files of no bytes, `MapFoundAgain` a stale
bmap under the more specific name, which is found first (bmap.rs:412). `ClaimRespected`
excepts commands that were forced or misled, `KnobsPutBack` disks that were shared or
whose old values were lost.

Deadlock is checked in all of them: returning is the only way to stop.

### Runs that show a disagreement

Each of these checks one sentence of the documentation or the tests, and ends in a
counterexample that the code has too.

| Run | Sentence | What happens |
|---|---|---|
| `stream_too_long` | README.md:385, the destination is size-checked before anything is written | not when the image is a stream without a bmap: its size is unknown until it has been written |
| `odd_batch` | README.md:250 and end_to_end.rs:584, one byte carries its whole block | not when `--bs` is no multiple of the block size: `run_pipeline` does not round it as `create.rs` does |
| `foreign_bmap` | README.md:388, the block count catches a bmap of another image | both numbers come from the bmap; the comparison cannot fail |
| `offset_kept` | filemap.rs:77, the file offset is restored before returning | not by the returns that give up: the reader, `create` or `copy`, then starts at that offset and takes it for the start of the image |
| `finish_skipped` | progress.rs:22, `finish` is called exactly once, including on failure | a copy that is refused or fails before its pipeline starts (the size check, wipe or zap, sizing, the plan) returns before it |
| `knobs_left` | sysfs.rs:17, the original values are put back on drop | not when two unforced commands on two partitions of a disk overlap: the second one saves, and puts back, what the first has set |
| `verify_stdin` | README.md:391, `--verify` compares the destination against the image | standard input has been consumed: an empty image is compared, found identical, and reported as verified |

Seen while reading and not given runs of their own: explicit zeroes are not counted
towards the watermark (copy.rs:68 and README.md:396 speak of written bytes); a mapped
block of zeroes is skipped although README.md:262 and dest.rs:47 say that mapped blocks
are written, so a used device keeps what it had there; a terminal or socket that gives
more after it had ended makes `create_streaming` go on in the middle of a block, where
create.rs:199 says it is always aligned; an image that is truncated while it is read until
its end is copied with success, at the size it had when it was opened, and one that grows
makes `elided_percent` (copy.rs:139) underflow; `create` and `verify` return without
`finish` when a read fails, after they have announced a total (create.rs:110 and :140,
copy.rs:633; the same sentence as `finish_skipped`); a destination that ends early is
reported as a mismatch where it ends (copy.rs:641), although README.md:394 promises the
offset of the first difference; `skip_to` does not retry a read that was interrupted
(source.rs:225); the default name for a map drops `.gz` also with `--decompress none`,
where the map is one of the compressed bytes; lowering the version of a bmap below 1.3
turns its digests off; a stream of unknown size that is longer than the device and ends in
zeroes is copied with success, also with `--wipe`, since only a write meets the end of the
device (copy.rs:180).

### Fairness

`FairSpec` asks for weak fairness of each thread as a whole. Both are operating
system threads that are scheduled independently, and every call they make returns
(a read, a write or an fsync that blocks for ever is not modelled). Nothing is
asked of a particular action, and nothing at all of failures: `JoinReturns` and
`CopyReturns` hold whether calls fail or not. For `create` the one thread is asked to
go on (`CreateFrom`), then to write its output (`Writing`), and nothing of those who
change the file, who may do so at every step or never, nor of the kill. The comparison
is asked to go on once copy has returned (`Verify`). No liveness is claimed for
`Command`, whose steps are each one call.

## What is proved

`Pipeline_proofs` holds for any set of buffers that is finite and not empty
(`queue_depth` is at least one, copy.rs:266) and sentinels that are no buffers.

* `InvariantHolds`: `Spec => []IInv`.
* From it: `TypeCorrect`, `NoBufferLost`, `NeverMutualWait`, `SuccessIsComplete`,
  `RootCauseWins` and `OnlyGapsFillChannel`.

The properties are not inductive. That the writer's success means something, for
instance, rests on its having seen a closed and empty channel, and on nobody
sending afterwards. `IInv` adds three parts to them. `Owned` ties the buffer of
each thread to its position. `Once` says that no buffer is in two places. `Returns`
says what the results mean: a writer that returned Ok has outlived the reader and
drained the channel, so the operations lost and the reader cut short afterwards
can only be due to a writer that failed. Each of the twenty actions is shown to
preserve each part that it touches; two lemmas say what sending and receiving do
to the channel.

`NeverMutualWait` then follows because a buffer that exists is in none of the four
places left to it, and `OnlyGapsFillChannel` by the pigeonhole principle: with the
reader holding one of *n* buffers, *n* slots full of batches would need *n*
different ones among the other *n - 1*.

`CopyEngine_proofs` holds for any set of jobs whose ranges are not
empty and end inside the image (`JobsAssumption`; their order is free), any finite pool
that is not empty, and failures anywhere:

* `BadChecksumNeverSucceeds`: `Spec => []ChecksumsHonoured`.
* `DisorderNeverSucceeds`: `Spec => []OnlyAscendingSucceeds`.
* `ImageIsTiled`: `Spec => OpsTileImage`.
* `EngineImplementsPipeline`: `Spec => ThreadsImplemented`.

The first rests on `SuccessInv`. The difficulty is that a reader that is cut short returns
Ok with part of its plan undone: `OkIsEarned` says that it is only cut short once the
writer has left its loop, and that a writer that returned Ok has seen the reader end
uncut, so that two Oks mean a finished plan; `RangesClosed` that every range passed was
checked; `OkIsPassedOn` that copy's Ok is both of theirs. For the second, `OrderInv`
follows the reader: inside a range the next batch starts at the position of the source
(`InPlace`), which never goes back (`NeverBack`), so the ranges that were entered ascend
(`Ascending`). For the third, `TileInv` says that the operations in flight are linked end
to start (`Linked`), from the one the writer has to the one the reader is about to send
(`Frontier`). A range out of order would not start there, but the source refuses it first.

The refinement needs to know that no buffer is in two places in the engine either, since
its pool is a sequence and the pool of `Pipeline` a set: `OwnerInv` ties buffers and
results to the positions of the threads and keeps each buffer in one place. Then every
action of the reader and of the writer is shown to be one of `Pipeline`, except those that
go on to the next range or span, which it does not see, as it sees nothing of what `copy`
does before and after. What is proved of `Pipeline` thus holds of every copy. Fairness,
and with it `JoinReturns` of the engine, is not part of the theorem.

`CopyDestination_proofs` and `CopyDelivery_proofs` go on under the same assumptions, and
with any largest offset:

* `EngineInvHolds`: `Spec => []EngineInv`; with it `CopyTypeCorrect`, `OutsideStaysUntouched`,
  `FileKeepsItsTail` and `ClearedStaysClean`.
* `DeliveryInvHolds`: `Spec => []DeliveryInv`; with it `OkDeliversImage`, `BlocksAreWhole`,
  `TalliesAddUp`, `AnnouncedRunsEndOnce` and `UnsyncedStaysBounded`.

Both are about operations on their way from one thread to the other, and so rest on
`OpsInv`: each operation that exists is `Sound`, its spans cut it without a gap, a span that
will be skipped holds no mapped data, and one that will be written was read from the cells
it says. It is established where the reader classifies a batch, by `ClassifyReturnsRuns`,
and needs that a reader with whole batches stops at the start of a block (`Aligned`), for
`classify_blocks` counts blocks from the start of its buffer. `DestInv` follows the
destination: a cell outside the image changes only to zero, and only where that was asked
for (`Kept`); what was cleared does not become old again.

`DeliveryInv` divides the destination at the point the writer has reached. Before it, each
cell is as the image wants it (`Delivered`); behind it, as it was or cleared (`Ahead`); and
the three tallies add up to the distance (`Tallied`). `Ended` says that a writer and a
reader that both came to their end met there, so that after Ok the point is the end of the
image. That the order of ranges matters shows here, too: delivery is only claimed of plans
that ascend, and `DisorderNeverSucceeds` closes the gap. Progress is followed operation by
operation (`ProgressInv`), since what the writer reports was counted by the reader. The
watermark needs the spans of the operation at hand: `write_ops` looks at it only between
operations, which is where the slack of one batch in `UnsyncedDataBounded` comes from.

The comparison is proved about in the same module, for any later image, any loss of the
medium and any size of batch: `BackInvHolds`, `VerdictIsSound` (`BackSpec => []ReadBackSound`)
and `MismatchHasACause` (`BackSpec => []ReadBackConfirms`). `ReadBackSound` speaks of
the end of the comparison; `InStep` says in between that every cell before the current
offset has been compared, that copy is over, so nothing it has written changes under the
comparison, and that the offset has not passed the end of the image. The last batch is
where it is decided: nothing left to read means that the whole image was covered, and a
batch that comes back short has the end of the destination as its difference.
`ReadBackConfirms` joins this to `OkDeliversImage`.

`Blocks_proofs` is about operators, whatever they are given. Folds are recursive functions
on the subsets of a finite set, and the library's theorems of induction cannot be used,
because they take a predicate as a parameter. `Induction` is proved here for subsets of
`Nat` instead, from the least element of a set, and `FoldExists` from it: a fold goes up
through any finite set. So what the loops compute can be said of every input:

* `ClassifyReturnsRuns`: the spans cut the buffer, alternate, begin at blocks, and are zero
  exactly if the blocks in them are.
* `CoalesceKeepsBytes`, `BlocksCoverBytes`: the same bytes, and exactly the blocks they
  touch, with a gap between any two ranges.
* `DigestCoversDocument`: two documents that `parse` accepts and that record the same
  digest are the same, unless their versions or types turn digests off.
* `RenderedIsParsed`: a map that has its numbers right is accepted when it is read back,
  and is the same map.

`Create_proofs` holds for any set of images no longer than `MaxLen`, any calls, and whatever
the file system and others do:

* `ReadsWhereBelieved`: `Spec => []PositionAgrees`. Whenever `create` reads, the
  position that `SeekSource` keeps is the descriptor's, so a cell is taken for the
  one it is. `skip_to` depends on it, because it does not seek to where it believes
  to be.
* `CreateInvHolds`: `Spec => []CreateInv`; with it `CreateTypeCorrect`, `EachCellReadOnce`,
  `SurvivorsAreMapped`, `MapIsExact`, `SumsAreOfImage` and `CreatedMapAccepted`.
* `HalfAMapIsNoMap`: `CommandSpec => []TornMapRefused`.
* `CommandRunsCreate`: `CommandSpec => Spec`, so all of this holds of `cmd_create`, too.

The first is the property `offset_kept` is about, with the lookups excepted that give up
after they have moved the offset, on a refusal or a contradiction; the proof shows that
there is no other way to break it. By itself it is not inductive: it speaks of the reads,
and what decides it happens in the lookup before. `PositionInv` says in addition that
before the first question, and until it is answered, the offset is still zero (so a
refusal is harmless), that an answer with ranges has rewound it, and that a lookup that
gives up with nothing found and the data at zero has not moved it: before the hole is
asked for, the offset is where the data was found, and a hole that contradicts it is no
later. Each of the seven steps of the lookup and each step of the scan preserves it.

`CreateInv` adds what the map rests on. `StageInv` says what each phase may take for granted
of the lookup; `CandsInv` where the position is among the candidates. `ScanInv` is about the
builder half-way: every planned cell was read, is still to be read, or is gone
(`NothingMissed`); data that was read and is still data is in a block of the builder
(`DataKept`), and if nobody changed the file nothing else is (`BuiltExactly`); a range that
is open ends exactly where the next block begins (`BuilderAt`), which is what makes runs grow
across batches, and its hash is of all its cells so far (`BuiltSums`). The last two need that
a batch which does not end at a block is the last one of its candidate. `MapInv` keeps all of
this for the map that is returned. The candidates come from `BlocksCoverBytes`, the spans from
`ClassifyReturnsRuns`, and that the map is accepted from `RenderedIsParsed`.

For `HalfAMapIsNoMap`: the digest of a rendered map is one of the whole document, and `parse`
computes it from what it has got, so a document without its end is refused whatever the map
says. `OutputInv` ties what is at the output path to the position in `cmd_create`; that the
map is not changed any more while it is written needs `MapStays`.

`PureFunctions_proofs` holds for any longest buffer, list, name and input, any block sizes
that are not zero, any maps whose numbers are natural, and any damages, as long as a damaged
digest is as good as none (digests do not collide):

* `SpansAreRuns`, `RangesRoundOutward`, `OutputIsFoundAgain`, `DamageIsNoticed`,
  `AcceptedMapsAreUsable`, `ImagesAreOpenedFromStart`: one for each property of the run
  `functions`.

`InputsInv` says that the inputs are what the theorems of `Blocks_proofs` ask for, `DocsInv`
that a document keeps its fields, and carries the digest of what it was when it was sealed or
none. `AcceptedMapsAreUsable` needs that the blocks of a list are no more than `Covered` adds
up, `ImagesAreOpenedFromStart` that the head `read_head` collects is the beginning of the
bytes after every read, however short.

`Command_proofs` holds for any number of commands, disks, partitions, paths and values
of knobs, with kills, mounts and changing paths at any time; it assumes that a whole
disk is its own disk, and that `None` is no value.

* `CommandInvariant`: `Spec => []IInv`.
* `NothingInUseIsOpened`: `Spec => []ClaimRespected`.
* `KnobsOutliveNoCommand`: `Spec => []KnobsPutBack`.

Neither property is inductive. `ClaimRespected` speaks of commands that were not
misled, the kernel of those that asked for a claim; `ClaimsApart` joins the two: such a
command has the flag set if and only if the path names a device, and claims that stand
never overlap. `KnobsPutBack` speaks of disks nobody has open, and what decides it is
what happened while somebody had. `OldValuesKept` says it in between: a disk that is
not shared has one command, and each of its knobs is either untouched or has its old
value in that command's list. This needs `StepsInOrder`: which device, knob and values
a command holds at each of its steps, so that the list is empty when it closes. One
lemma per conjunct, each with a step per action.

Only model-checked: that the join, a copy with its comparison and the creation of a map
return (`JoinReturns`, `CopyReturns`, `CreateReturns`), which is liveness under fairness and
out of the provers' reach; and the seven disagreements, which are counterexamples.

## What is left

In order of worth: the map that `CreateBmap` makes given to `CopyEngine`, which must
deliver the image it was made of (`MapIsExact`, `AcceptedMapsAreUsable` and
`OkDeliversImage` are the three parts of that argument, each proved by itself); `build_plan`
over `Filemap`, to show what a copy, and not only `create`, does with an offset that was left
behind.

Not modelled, and why: the syntax of XML (formatting around the fields), hash functions
and the gzip decoder (computation inside one call, from libraries; that the decoder is
given the file from its first byte is checked, and that it reads ahead on standard input
is not), argument parsing and terminal output (`main.rs`, `cli.rs`, `output.rs`,
`progress.rs` of the command: no state that another part depends on), error types, page
cache advice (no effect on contents), other platforms than Linux, continuous integration
and release scripts.
