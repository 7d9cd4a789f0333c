-------------------------- MODULE CreateProperties --------------------------
(***************************************************************************)
(* What a call of create promises, stated over CreateBmap.                 *)
(***************************************************************************)
EXTENDS CreateBmap, BmapFile

Ok == result = "ok"

(* The lookup gave up after it had moved the descriptor, which nobody puts *)
(* back: see OffsetRestored.  It has moved it if it knew of data behind    *)
(* the first cell, or of the end of some data.                             *)
GaveUpMidway == look.answer = "unknown" /\ (look.start > 0 \/ look.found # <<>>)

RangeCells(r) == (r.first * call.bs)..(Lesser((r.last + 1) * call.bs, map.size) - 1)
MappedBlocks == UNION {map.ranges[i].first..map.ranges[i].last : i \in 1..Len(map.ranges)}
BlocksOf(cells) == {c \div call.bs : c \in cells}

-----------------------------------------------------------------------------

TypeOK ==
  /\ LookTypeOK
  /\ phase \in {"start", "lookup", "seek", "read", "stream", "done"}
  /\ result \in {"none", "ok", "Empty", "InvalidBlockSize", "Io"}
  /\ (phase = "done") <=> (result # "none")
  /\ {pos, offset} \subseteq 0..MaxLen
  /\ Len(builder.open) <= 1
  /\ prog.finished \in 0..1
  /\ seen \subseteq 0..(MaxLen - 1)

(* The map of an image that nobody touched is exact, however it was found: *)
(* with zero detection, the blocks that are not zero, whatever the holes;  *)
(* with holes alone, those that storage backs; otherwise, or if the file   *)
(* system has no hole information, all of them.  (create.rs:3-10; a stream *)
(* and a file with the same bytes give the same map.)                      *)
MapExact ==
  Ok /\ ~changed /\ ~GaveUpMidway =>
    /\ map.size = file.len
    /\ MappedBlocks = IF call.zeros THEN BlocksOf(file.data)
                      ELSE IF look.answer = "ranges" THEN BlocksOf(file.extents)
                      ELSE BlocksOf(0..(file.len - 1))

(* The checksum of a range is the hash of its bytes, all of them, in their *)
(* order and once, however they were cut into batches and spans: copy and  *)
(* verify will hash the same.  (create.rs:289-346)                         *)
SumsMatchImage ==
  Ok /\ ~changed /\ ~GaveUpMidway /\ ScanNeeded =>
    \A i \in 1..Len(map.ranges) :
      LET r == map.ranges[i]
          first == r.first * call.bs
      IN  r.sum = IF call.sums
                  THEN [k \in 1..Cardinality(RangeCells(r)) |-> Content(first + k - 1)]
                  ELSE <<>>

(* The Bmap that create returns.  It has a kind, the default one, even if  *)
(* no checksums were wanted.                                               *)
AsBmap == [size |-> map.size, bs |-> call.bs, blocks |-> map.blocks, mapped |-> map.mapped,
           kind |-> DefaultKind, ranges |-> map.ranges]

(* A map that create has made, also of an image that was changed while it  *)
(* was read, is accepted by parse once it has been rendered, and is the    *)
(* same map then; and its ranges are what copy relies on and parse does    *)
(* not check: ascending, with an unmapped block between any two ("in       *)
(* ascending block order", bmap.rs:45).                                    *)
MapAccepted ==
  Ok /\ ~GaveUpMidway =>
    /\ ParseAnswer(Render(AsBmap)) = "ok"
    /\ Parsed(Render(AsBmap)) = AsBmap
    /\ map.mapped = Cardinality(MappedBlocks)
    /\ \A i \in 1..(Len(map.ranges) - 1) : map.ranges[i].last + 1 < map.ranges[i + 1].first

(* Data that was in the image all along is mapped, although others punched *)
(* holes into the file or cut it off while it was looked up and read.      *)
SurvivingDataMapped ==
  Ok /\ ~GaveUpMidway => \A c \in file.data : c < map.size => c \div call.bs \in MappedBlocks

(* The position that skip_to and read_full keep is the descriptor's, when  *)
(* cells are read: a lookup, which moves the descriptor behind the         *)
(* source's back, has put it back unless it gave up.  (source.rs:33)       *)
PositionAgrees == phase \in {"read", "stream"} /\ ~GaveUpMidway => pos = kpos

(* Every cell is read at most once and none outside the candidates ("holes *)
(* are never read at all", create.rs:5; "read exactly once", create.rs:290). *)
(* Progress is told of exactly these, never more than the total that was   *)
(* announced, and all of it for an image that was not changed; and when    *)
(* there is a map, once that it is done.                                   *)
ReadOnce ==
  /\ Ok => prog.finished = 1
  /\ ~GaveUpMidway =>
       /\ prog.advanced = Cardinality(seen)
       /\ look.answer = "ranges" =>
            BlocksOf(seen) \subseteq BlocksOf({c \in 0..(size - 1) : InRange(c)})
       /\ prog.total # Unknown => /\ prog.advanced <= prog.total
                                  /\ Ok /\ ~changed => prog.advanced = prog.total

(* "The file offset is restored to the start of the file before            *)
(* returning", filemap.rs:77, unless with an error.                        *)
OffsetRestored ==
  phase = "lookup" /\ look.answer \in {"ranges", "unknown"} => kpos = 0

=============================================================================
