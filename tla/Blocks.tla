------------------------------- MODULE Blocks -------------------------------
(***************************************************************************)
(* zero.rs and range.rs: cutting cells into blocks and ranges.  A cell is  *)
(* the unit in which the model counts and holds Zero or something else; a  *)
(* block is bs cells, the last one perhaps fewer.                          *)
(***************************************************************************)
EXTENDS Integers, Sequences, SequencesExt

Zero == 0

Lesser(a, b) == IF a < b THEN a ELSE b
Greater(a, b) == IF a < b THEN b ELSE a

CeilDiv(a, b) == (a + b - 1) \div b

-----------------------------------------------------------------------------
(* zero.rs                                                                 *)

(* Broken: the last cell is not looked at.                                 *)
IsZero_ShortByOne(cells, from, to) == \A c \in (from + 1)..(to - 1) : cells[c] = Zero

(* is_zero of the cells from..(to - 1), counted from zero.                 *)
IsZero(cells, from, to) == \A c \in (from + 1)..to : cells[c] = Zero

(* Broken: a run goes on whatever the next block holds.                    *)
AddBlock_Blind(spans, from, to, zero) ==
  IF spans # <<>> THEN [spans EXCEPT ![Len(spans)].len = @ + to - from]
  ELSE <<[offset |-> from, len |-> to - from, zero |-> zero]>>

(* A block goes on with the last run or starts one.                        *)
AddBlock(spans, from, to, zero) ==
  IF spans # <<>> /\ Last(spans).zero = zero
  THEN [spans EXCEPT ![Len(spans)].len = @ + to - from]
  ELSE Append(spans, [offset |-> from, len |-> to - from, zero |-> zero])

(* classify_blocks: a buffer of zeroes is seen at once, another is walked  *)
(* block by block.                                                         *)
ClassifyBlocks(cells, bs) ==
  LET n == Len(cells)
      add(spans, b) == LET to == Lesser(b * bs, n)
                           from == (b - 1) * bs
                       IN  AddBlock(spans, from, to, IsZero(cells, from, to))
  IN  IF cells = <<>> THEN <<>>
      ELSE IF IsZero(cells, 0, n) THEN <<[offset |-> 0, len |-> n, zero |-> TRUE]>>
      ELSE FoldLeft(add, <<>>, [b \in 1..CeilDiv(n, bs) |-> b])

(* classify of copy.rs and create.rs: one span of data when zero detection *)
(* is off.                                                                 *)
Classify(cells, bs, zeros) ==
  IF zeros THEN ClassifyBlocks(cells, bs)
  ELSE IF cells = <<>> THEN <<>>
  ELSE <<[offset |-> 0, len |-> Len(cells), zero |-> FALSE]>>

-----------------------------------------------------------------------------
(* range.rs: byte ranges are [start, end), block ranges [first, last].     *)

MergeBytes(out, r) ==
  IF out # <<>> /\ r.start <= Last(out).end
  THEN [out EXCEPT ![Len(out)].end = Greater(@, r.end)]
  ELSE Append(out, r)

(* coalesce_byte_ranges, of ranges sorted by their starts.                 *)
CoalesceByteRanges(ranges) == FoldLeft(MergeBytes, <<>>, ranges)

(* Broken: the end is taken for the last byte.                             *)
LastBlock_EndInclusive(r, bs) == r.end \div bs

LastBlock(r, bs) == (r.end - 1) \div bs

(* Broken: two ranges that share a block both have it.                     *)
MergeBlocks_Apart(out, first, last) == Append(out, [first |-> first, last |-> last])

MergeBlocks(out, first, last) ==
  IF out # <<>> /\ first <= Last(out).last + 1
  THEN [out EXCEPT ![Len(out)].last = Greater(@, last)]
  ELSE Append(out, [first |-> first, last |-> last])

(* byte_ranges_to_blocks: rounds outwards and joins what then touches.     *)
ByteRangesToBlocks(ranges, bs) ==
  FoldLeft(LAMBDA out, r : IF r.end <= r.start THEN out
                           ELSE MergeBlocks(out, r.start \div bs, LastBlock(r, bs)),
           <<>>, ranges)

=============================================================================
