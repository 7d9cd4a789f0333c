----------------------------- MODULE CreateBmap -----------------------------
(***************************************************************************)
(* create.rs: one call of create_from, which makes the block map of an     *)
(* image.  A file is asked where its data is (module Filemap) and read     *)
(* there; a stream is read to its end.  Others may change the file         *)
(* meanwhile.                                                              *)
(*                                                                         *)
(* A hash is the sequence of cells that was fed to it.  `file` and `kpos`  *)
(* of Filemap also stand for what a stream will yield and has yielded.     *)
(***************************************************************************)
EXTENDS Filemap

CONSTANT Calls  \* the calls of create, see CallsAssumption

Unknown == -1

(* stream    the source cannot seek;  sums  checksums are wanted           *)
(* holes, zeros   detect.uses_holes() and detect.uses_zeros()              *)
(* bs, batch the block size and batch_bytes, in cells                      *)
ASSUME CallsAssumption ==
  \A k \in Calls : /\ {k.stream, k.holes, k.zeros, k.sums} \subseteq BOOLEAN
                   /\ k.bs \in Nat /\ k.batch \in Nat \ {0}

VARIABLES
  call,     \* the call: chosen at the start, never changed
  phase,    \* "start" "lookup" "seek" "read" "stream" "done"
  result,   \* "none", "ok" or the error
  pos,      \* the position the source believes to be at
  cands,    \* the candidates that are left, the current one first
  offset,   \* where the next batch is in the image
  builder,  \* the RangeBuilder
  prog,     \* what Progress was told
  map,      \* the Bmap, once there is one
  seen      \* history: the cells of the image that were read

createVars == <<call, phase, result, pos, cands, offset, builder, prog, map, seen>>
vars == <<fileVars, createVars>>

NoMap == [size |-> 0, blocks |-> 0, mapped |-> 0, ranges |-> <<>>]

(* open: at most one range, the one being built.                           *)
NoRanges == [open |-> <<>>, ranges |-> <<>>]

Init ==
  /\ call \in Calls
  /\ \E f \in Images : OpenFile(f)
  /\ phase = "start"
  /\ result = "none"
  /\ pos = 0
  /\ cands = <<>>
  /\ offset = 0
  /\ builder = NoRanges
  /\ prog = [announced |-> FALSE, total |-> Unknown, advanced |-> 0, finished |-> 0]
  /\ map = NoMap
  /\ seen = {}

Return(r) == phase' = "done" /\ result' = r

Content(c) == IF c \in file.data THEN c + 1 ELSE Zero

-----------------------------------------------------------------------------
(* RangeBuilder.                                                           *)

Close(b) == [open |-> <<>>, ranges |-> b.ranges \o b.open]

Fed(cells) == IF call.sums THEN cells ELSE <<>>

(* Broken: the running hash is started anew by each batch.                 *)
Extend_HashAnew(b, first, cells) ==
  LET last == first + Greater(1, CeilDiv(Len(cells), call.bs)) - 1
  IN  IF b.open # <<>> /\ b.open[1].last + 1 = first
      THEN [b EXCEPT !.open[1].last = last, !.open[1].sum = Fed(cells)]
      ELSE [Close(b) EXCEPT
              !.open = <<[first |-> first, last |-> last, sum |-> Fed(cells)]>>]

(* Broken: each batch is a range of its own.                               *)
Extend_Never(b, first, cells) ==
  LET last == first + Greater(1, CeilDiv(Len(cells), call.bs)) - 1
  IN  [Close(b) EXCEPT !.open = <<[first |-> first, last |-> last, sum |-> Fed(cells)]>>]

(* Data that starts at block `first` goes on with the open range, or opens *)
(* one.                                                                    *)
Extend(b, first, cells) ==
  LET last == first + Greater(1, CeilDiv(Len(cells), call.bs)) - 1
  IN  IF b.open # <<>> /\ b.open[1].last + 1 = first
      THEN [b EXCEPT !.open[1].last = last, !.open[1].sum = @ \o Fed(cells)]
      ELSE [Close(b) EXCEPT
              !.open = <<[first |-> first, last |-> last, sum |-> Fed(cells)]>>]

(* consume_spans, after classify, of a batch that starts at `base`.        *)
Consume(b, cells, base) ==
  FoldLeft(LAMBDA x, s :
             IF s.zero THEN Close(x)
             ELSE Extend(x, (base + s.offset) \div call.bs,
                         SubSeq(cells, s.offset + 1, s.offset + s.len)),
           b, Classify(cells, call.bs, call.zeros))

-----------------------------------------------------------------------------

(* Broken: the batch is not rounded down to whole blocks.                  *)
BatchLen_Raw == Greater(call.batch, call.bs)

BatchLen == (Greater(call.batch, call.bs) \div call.bs) * call.bs

(* resolve_block_size of a block size that was given.                      *)
BlockSizeAccepted == \E k \in 0..call.bs : 2^k = call.bs

RangeStart(r) == r.first * call.bs

RangeEnd(r) == Lesser((r.last + 1) * call.bs, size)

(* candidate_bytes                                                         *)
CandidateCells(ranges) ==
  FoldLeft(LAMBDA n, r : n + Greater(0, RangeEnd(r) - RangeStart(r)), 0, ranges)

ScanNeeded == call.zeros \/ call.sums

Bare(r) == [first |-> r.first, last |-> r.last, sum |-> <<>>]

Assemble(cells, ranges) ==
  map' = [size |-> cells, blocks |-> CeilDiv(cells, call.bs), ranges |-> ranges,
          mapped |-> FoldLeft(LAMBDA n, r : n + r.last - r.first + 1, 0, ranges)]

(* The candidates are known: they are announced and scanned, or they are   *)
(* the map already.                                                        *)
Proceed(ranges) ==
  IF ScanNeeded
  THEN /\ prog' = [prog EXCEPT !.announced = TRUE, !.total = CandidateCells(ranges)]
       /\ cands' = ranges
       /\ phase' = "seek"
       /\ UNCHANGED <<result, map>>
  ELSE /\ prog' = [prog EXCEPT !.announced = TRUE, !.total = 0, !.finished = @ + 1]
       /\ Assemble(size, [i \in 1..Len(ranges) |-> Bare(ranges[i])])
       /\ Return("ok")
       /\ UNCHANGED cands

(* create_from up to the candidates, or to the loop over a stream.         *)
Start ==
  /\ phase = "start"
  /\ IF ~call.stream /\ size = 0
     THEN Return("Empty") /\ UNCHANGED <<cands, prog, map>>
     ELSE IF ~BlockSizeAccepted
     THEN Return("InvalidBlockSize") /\ UNCHANGED <<cands, prog, map>>
     ELSE IF call.stream
     THEN /\ phase' = "stream"
          /\ prog' = [prog EXCEPT !.announced = TRUE]
          /\ UNCHANGED <<result, cands, map>>
     ELSE IF call.holes
     THEN phase' = "lookup" /\ UNCHANGED <<result, cands, prog, map>>
     ELSE Proceed(CandidateRanges(FALSE, call.bs))
  /\ UNCHANGED <<fileVars, call, pos, offset, builder, seen>>

LookUp ==
  /\ phase = "lookup"
  /\ DataByteRanges
  /\ UNCHANGED createVars

LookedUp ==
  /\ phase = "lookup"
  /\ look.at = "answered"
  /\ IF look.answer = "io" THEN Return("Io") /\ UNCHANGED <<cands, prog, map>>
     ELSE Proceed(CandidateRanges(TRUE, call.bs))
  /\ UNCHANGED <<fileVars, call, pos, offset, builder, seen>>

-----------------------------------------------------------------------------
(* scan                                                                    *)

(* skip_to: the descriptor is moved only if pos is not already there.      *)
SkipTo(start) ==
  /\ kpos' = IF start # pos THEN start ELSE kpos
  /\ pos' = start

(* The next candidate, unless it is empty.                                 *)
Seek ==
  /\ phase = "seek"
  /\ cands # <<>>
  /\ LET start == RangeStart(Head(cands))
     IN  IF RangeEnd(Head(cands)) <= start
         THEN cands' = Tail(cands) /\ UNCHANGED <<kpos, pos, offset, phase, result>>
         ELSE IF start < pos
         THEN Return("NotSeekable") /\ UNCHANGED <<kpos, pos, offset, cands>>
         ELSE /\ SkipTo(start)
              /\ offset' = start
              /\ phase' = "read"
              /\ UNCHANGED <<cands, result>>
  /\ UNCHANGED <<file, size, look, changed, call, builder, prog, map, seen>>

(* A batch of n cells, read from where the descriptor is, taken for cells  *)
(* of the image from `offset` on.                                          *)
TakeBatch(n) ==
  /\ builder' = Consume(builder, [i \in 1..n |-> Content(kpos + i - 1)], offset)
  /\ kpos' = kpos + n
  /\ pos' = pos + n
  /\ offset' = offset + n
  /\ prog' = [prog EXCEPT !.advanced = @ + n]
  /\ seen' = seen \cup (kpos..(kpos + n - 1))

(* read_full stops short only where the file ends now.                     *)
Available(want) == Lesser(want, Greater(0, file.len - kpos))

(* Broken: always reads a whole batch.                                     *)
CandidateWant_Batch == IF offset < RangeEnd(Head(cands)) THEN BatchLen ELSE 0

CandidateWant == Lesser(RangeEnd(Head(cands)) - offset, BatchLen)

Read ==
  /\ phase = "read"
  /\ CandidateWant > 0
  /\ Available(CandidateWant) > 0
  /\ TakeBatch(Available(CandidateWant))
  /\ UNCHANGED <<file, size, look, changed, call, phase, result, cands, map>>

(* The candidate was read, or the image ends before it does.               *)
CandidateEnds ==
  /\ phase = "read"
  /\ CandidateWant = 0 \/ Available(CandidateWant) = 0
  /\ builder' = Close(builder)
  /\ cands' = Tail(cands)
  /\ phase' = "seek"
  /\ UNCHANGED <<fileVars, call, result, pos, offset, prog, map, seen>>

ScanEnds ==
  /\ phase = "seek"
  /\ cands = <<>>
  /\ prog' = [prog EXCEPT !.finished = @ + 1]
  /\ Assemble(size, Close(builder).ranges)
  /\ Return("ok")
  /\ UNCHANGED <<fileVars, call, pos, cands, offset, builder, seen>>

ReadFails ==
  /\ "read" \in file.host
  /\ phase \in {"read", "stream"} \/ (phase = "seek" /\ cands # <<>>)
  /\ Return("Io")
  /\ UNCHANGED <<fileVars, call, pos, cands, offset, builder, prog, map, seen>>

-----------------------------------------------------------------------------
(* create_streaming                                                        *)

ReadStream ==
  /\ phase = "stream"
  /\ Available(BatchLen) > 0
  /\ TakeBatch(Available(BatchLen))
  /\ UNCHANGED <<file, size, look, changed, call, phase, result, cands, map>>

StreamEnds ==
  /\ phase = "stream"
  /\ Available(BatchLen) = 0
  /\ prog' = [prog EXCEPT !.finished = @ + 1]
  /\ IF offset = 0 THEN Return("Empty") /\ UNCHANGED map
     ELSE Assemble(offset, Close(builder).ranges) /\ Return("ok")
  /\ UNCHANGED <<fileVars, call, pos, cands, offset, builder, seen>>

-----------------------------------------------------------------------------

Create ==
  \/ Start \/ LookUp \/ LookedUp
  \/ Seek \/ Read \/ CandidateEnds \/ ScanEnds \/ ReadFails
  \/ ReadStream \/ StreamEnds

(* A file can be changed while it is read; a stream that has ended has     *)
(* nothing more to give.                                                   *)
Others ==
  /\ phase # "done"
  /\ ~call.stream
  /\ Meddle
  /\ UNCHANGED createVars

Returned == phase = "done" /\ UNCHANGED vars

Next == Create \/ Others \/ Returned

Spec == Init /\ [][Next]_vars

FairSpec == Spec /\ WF_vars(Create)

=============================================================================
