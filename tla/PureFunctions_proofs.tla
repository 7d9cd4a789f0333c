------------------------ MODULE PureFunctions_proofs ------------------------
(***************************************************************************)
(* Proofs about the functions that keep no state, for inputs of every      *)
(* size: what PureFunctions states of the inputs that TLC goes through     *)
(* holds of all of them.                                                   *)
(***************************************************************************)
EXTENDS PureFunctions, Blocks_proofs

-----------------------------------------------------------------------------
(* Buffers, ranges and names.                                              *)

InputsInv ==
  /\ cells \in Seq({Zero, 1})
  /\ ranges \in Seq(ByteRange) /\ SortedBytes(ranges)
  /\ name \in Seq(Parts)
  /\ reads \in Seq(Seq(Byte))

LEMMA InputsInit == Init => InputsInv
<1> SUFFICES ASSUME Init PROVE InputsInv
  OBVIOUS
<1>1. \A S : <<>> \in Seq(S) /\ Len(<<>>) = 0
  BY EmptySeq
<1> QED
  BY <1>1 DEF Init, InputsInv, SortedBytes

LEMMA AddRangeSorted ==
  ASSUME NEW rs \in Seq(ByteRange), SortedBytes(rs), NEW r \in ByteRange, r.start <= r.end,
         \A i \in 1..Len(rs) : rs[i].start <= r.start
  PROVE  SortedBytes(Append(rs, r))
<1> DEFINE out == Append(rs, r)
           n == Len(rs)
<1>1. /\ n \in Nat /\ Len(out) = n + 1 /\ out[n + 1] = r
      /\ \A i \in 1..n : out[i] = rs[i]
  BY AppendProperties, LenProperties
<1>2. r.start \in Nat
  BY DEF ByteRange
<1> HIDE DEF out, n
<1>3. \A i \in 1..(n + 1) : i \in 1..n \/ i = n + 1
  BY <1>1
<1> QED
  BY <1>1, <1>2, <1>3 DEF SortedBytes, out, n

LEMMA InputsStep == InputsInv /\ [Next]_vars => InputsInv'
<1> SUFFICES ASSUME InputsInv, [Next]_vars PROVE InputsInv'
  OBVIOUS
<1> USE DEF InputsInv
<1>1. CASE AddCell
  BY <1>1, AppendProperties DEF AddCell
<1>2. CASE AddRange
  <2>1. PICK s \in 0..MaxEnd, e \in 0..MaxEnd :
          /\ s <= e /\ \A i \in 1..Len(ranges) : ranges[i].start <= s
          /\ ranges' = Append(ranges, [start |-> s, end |-> e])
    BY <1>2 DEF AddRange
  <2>2. [start |-> s, end |-> e] \in ByteRange
    BY MaxEndAssumption DEF ByteRange
  <2>3. ranges' \in Seq(ByteRange)
    BY <2>1, <2>2, AppendProperties
  <2>4. SortedBytes(ranges)'
    BY <2>1, <2>2, AddRangeSorted DEF SortedBytes
  <2> QED
    BY <1>2, <2>3, <2>4 DEF AddRange
<1>3. CASE RenderDoc \/ DamageDoc \/ SealDoc
  BY <1>3 DEF RenderDoc, DamageDoc, SealDoc, SortedBytes
<1>4. CASE AddPart
  <2>1. PICK part \in Parts : name' = Append(name, part)
    BY <1>4 DEF AddPart
  <2> QED
    BY ZenonT(40), <1>4, <2>1, AppendProperties DEF AddPart, SortedBytes
<1>5. CASE AddByte
  <2>1. PICK b \in Byte : \/ reads' = Append(reads, <<b>>)
                          \/ reads # <<>> /\ reads' = Append(Front(reads), Append(Last(reads), b))
    BY <1>5 DEF AddByte
  <2>2. CASE reads' = Append(reads, <<b>>)
    <3>1. <<b>> \in Seq(Byte)
      OBVIOUS
    <3> QED
      BY <1>5, <2>2, <3>1, AppendProperties DEF AddByte, SortedBytes
  <2>3. CASE reads # <<>> /\ reads' = Append(Front(reads), Append(Last(reads), b))
    <3>1. Front(reads) \in Seq(Seq(Byte)) /\ Last(reads) \in Seq(Byte)
      <4>1. Len(reads) \in Nat \ {0}
        BY <2>3, EmptySeq, LenProperties
      <4>2. Last(reads) = reads[Len(reads)] /\ reads[Len(reads)] \in Seq(Byte)
        BY <4>1, ElementOfSeq DEF Last
      <4>3. 1 \in 1..Len(reads) /\ Len(reads) - 1 \in 0..Len(reads)
        BY <4>1
      <4>4. SubSeq(reads, 1, Len(reads) - 1) \in Seq(Seq(Byte))
        BY <4>3, SubSeqProperties
      <4> QED
        BY <4>2, <4>4 DEF Front
    <3>2. Append(Last(reads), b) \in Seq(Byte)
      BY <3>1, AppendProperties
    <3> QED
      BY <1>5, <2>3, <3>1, <3>2, AppendProperties DEF AddByte, SortedBytes
  <2> QED
    BY <2>1, <2>2, <2>3
<1>6. CASE Full \/ UNCHANGED vars
  BY <1>6 DEF Full, vars, SortedBytes
<1> QED
  BY <1>1, <1>2, <1>3, <1>4, <1>5, <1>6 DEF Next

LEMMA InputsHold == Spec => []InputsInv
  BY InputsInit, InputsStep, PTL DEF Spec

-----------------------------------------------------------------------------
(* Spans.                                                                  *)

(* A block of the buffer is zero if the cells that lie in it are.          *)
LEMMA ZeroBlocks ==
  ASSUME NEW S, NEW buf \in Seq(S), NEW bs \in Nat \ {0}, NEW c \in Nat, c < Len(buf),
         NEW b \in Nat, InBlock(c, b, bs)
  PROVE  BlockZero(buf, bs, b)
           <=> \A k \in 1..Len(buf) : BlockOf(k - 1, bs) = BlockOf(c, bs) => buf[k] = Zero
<1> DEFINE n == Len(buf)
           lo == b * bs
           hi == (b + 1) * bs
           to == Lesser(hi, n)
<1>1. n \in Nat /\ lo \in Nat /\ hi \in Nat
  BY LenProperties
<1>2. BlockOf(c, bs) = b
  BY DEF BlockOf, InBlock
<1>3. \A k \in 1..n : BlockOf(k - 1, bs) = b <=> lo <= k - 1 /\ k - 1 < hi
  <2> SUFFICES ASSUME NEW k \in 1..n PROVE BlockOf(k - 1, bs) = b <=> lo <= k - 1 /\ k - 1 < hi
    OBVIOUS
  <2>1. k - 1 \in Nat
    BY <1>1
  <2> QED
    BY <2>1, InBlockFacts DEF BlockOf, InBlock
<1> HIDE DEF lo, hi, n
<1>4. \A k : k \in (lo + 1)..to <=> k \in 1..n /\ lo <= k - 1 /\ k - 1 < hi
  BY <1>1 DEF Lesser
<1>5. BlockZero(buf, bs, b) <=> \A k \in (lo + 1)..to : buf[k] = Zero
  BY DEF BlockZero, IsZero, lo, hi, n
<1>6. BlockZero(buf, bs, b) <=> \A k \in 1..n : BlockOf(k - 1, bs) = b => buf[k] = Zero
  BY <1>3, <1>4, <1>5
<1> QED
  BY <1>2, <1>6 DEF n

LEMMA ModOfMultiple ==
  ASSUME NEW bs \in Nat \ {0}, NEW b \in Nat
  PROVE  (b * bs) % bs = 0
OBVIOUS

(* classify_blocks returns the maximal runs, for every buffer and every    *)
(* size of blocks; the fast path and the walk give the same. (zero.rs:51)  *)
THEOREM SpansAreRuns == Spec => []SpansAreMaximalRuns
<1>1. ASSUME InputsInv PROVE SpansAreMaximalRuns
  <2> DEFINE n == Len(cells)
             Spans(bs) == ClassifyBlocks(cells, bs)
             end(spans, i) == spans[i].offset + spans[i].len
             blockIsZero(c, bs) ==
               \A k \in 1..n : BlockOf(k - 1, bs) = BlockOf(c, bs) => cells[k] = Zero
             Ends(spans) == cells # <<>> => /\ spans # <<>> /\ Head(spans).offset = 0
                                            /\ end(spans, Len(spans)) = n
             Follows(spans, i, bs) ==
               /\ spans[i].len > 0
               /\ spans[i].offset % bs = 0
               /\ i > 1 => spans[i].offset = end(spans, i - 1) /\ spans[i].zero # spans[i - 1].zero
             Tells(spans, i, bs) ==
               \A c \in spans[i].offset..(end(spans, i) - 1) : spans[i].zero <=> blockIsZero(c, bs)
  <2>1. cells \in Seq({Zero, 1}) /\ n \in Nat /\ (cells # <<>> => n # 0)
    BY <1>1, LenProperties, EmptySeq DEF InputsInv
  <2>2. ASSUME NEW bs \in BlockSizes, NEW spans, spans = Spans(bs)
        PROVE  Ends(spans) /\ \A i \in 1..Len(spans) : Follows(spans, i, bs) /\ Tells(spans, i, bs)
    <3>1. bs \in Nat \ {0}
      BY BlockSizesAssumption
    <3>2. Runs(spans, cells, bs)
      BY <2>1, <2>2, <3>1, ClassifyReturnsRuns
    <3> HIDE DEF Spans
    <3>3. Cuts(spans, n) /\ Alternate(spans, bs) /\ \A i \in 1..Len(spans) : Says(spans[i], cells, bs)
      BY <3>2 DEF Runs
    <3>4. /\ Len(spans) \in Nat
          /\ \A i \in 1..Len(spans) :
               /\ spans[i].offset \in Nat /\ spans[i].len \in Nat \ {0}
               /\ spans[i].zero \in BOOLEAN /\ SpanEnd(spans[i]) \in Nat
      BY <2>1, <3>3, CutsFacts
    <3>5. /\ \A i \in 1..Len(spans) : /\ spans[i].offset = IF i = 1 THEN 0 ELSE SpanEnd(spans[i - 1])
                                      /\ SpanEnd(spans[i]) <= n
          /\ n = IF Len(spans) = 0 THEN 0 ELSE SpanEnd(spans[Len(spans)])
      BY <3>3 DEF Cuts
    <3>6. ASSUME cells # <<>>
          PROVE  spans # <<>> /\ Head(spans).offset = 0 /\ end(spans, Len(spans)) = n
      <4>1. Len(spans) # 0
        BY <2>1, <3>5, <3>6
      <4>2. spans # <<>> /\ 1 \in 1..Len(spans) /\ Head(spans) = spans[1]
        <5>1. spans # <<>>
          BY <4>1, EmptySeq
        <5>2. spans \in Seq(SpanType)
          BY <3>3 DEF Cuts
        <5> QED
          BY <3>4, <4>1, <5>1, <5>2
      <4> QED
        BY <3>5, <4>1, <4>2 DEF SpanEnd
    <3>7. ASSUME NEW i \in 1..Len(spans)
          PROVE  Follows(spans, i, bs)
      <4>1. PICK b \in Nat : spans[i].offset = b * bs
        BY <3>3 DEF Alternate
      <4>2. spans[i].offset % bs = 0
        BY <3>1, <4>1, ModOfMultiple
      <4>3. i > 1 => i # 1
        OBVIOUS
      <4> QED
        BY <3>3, <3>4, <3>5, <4>2, <4>3 DEF SpanEnd, Alternate
    <3>8. ASSUME NEW i \in 1..Len(spans), NEW c \in spans[i].offset..(end(spans, i) - 1)
          PROVE  spans[i].zero <=> blockIsZero(c, bs)
      <4>1. c \in Nat /\ spans[i].offset <= c /\ c < SpanEnd(spans[i]) /\ c < n
        BY <2>1, <3>4, <3>5 DEF SpanEnd
      <4>2. PICK b \in Nat : InBlock(c, b, bs) /\ b * bs <= c /\ c < (b + 1) * bs
        BY <3>1, <4>1, InBlockFacts
      <4>3. spans[i].zero = BlockZero(cells, bs, b)
        BY <3>3, <4>1, <4>2 DEF Says
      <4>4. BlockZero(cells, bs, b) <=> blockIsZero(c, bs)
        BY <2>1, <3>1, <4>1, <4>2, ZeroBlocks
      <4> QED
        BY <4>3, <4>4
    <3> QED
      BY <3>6, <3>7, <3>8
  <2>3. \A bs \in BlockSizes :
          Ends(Spans(bs)) /\ \A i \in 1..Len(Spans(bs)) : Follows(Spans(bs), i, bs) /\ Tells(Spans(bs), i, bs)
    <3> HIDE DEF Ends, Follows, Tells, Spans
    <3> QED
      BY <2>2
  <2> QED
    BY <2>3, ZenonT(40) DEF SpansAreMaximalRuns
<1> QED
  BY <1>1, InputsHold, PTL

-----------------------------------------------------------------------------
(* Ranges.                                                                 *)

LEMMA TouchedBytes ==
  ASSUME NEW rs \in Seq(ByteRange)
  PROVE  /\ Touched(rs) \subseteq Nat
         /\ \A c \in Nat : c \in Touched(rs) <=> InBytes(rs, c)
<1>1. \A i \in 1..Len(rs) : rs[i].start \in Nat /\ rs[i].end \in Nat
  <2>1. \A i \in 1..Len(rs) : rs[i] \in ByteRange
    BY ElementOfSeq
  <2> QED
    BY <2>1 DEF ByteRange
<1>2. \A i \in 1..Len(rs) : \A c : c \in rs[i].start..(rs[i].end - 1)
                                     <=> c \in Nat /\ Spanned(rs[i], c)
  <2> SUFFICES ASSUME NEW i \in 1..Len(rs), NEW c
               PROVE  c \in rs[i].start..(rs[i].end - 1) <=> c \in Nat /\ Spanned(rs[i], c)
    OBVIOUS
  <2> DEFINE a == rs[i].start
             e == rs[i].end
  <2>1. a \in Nat /\ e \in Nat
    BY <1>1
  <2> HIDE DEF a, e
  <2>2. c \in a..(e - 1) <=> c \in Nat /\ a <= c /\ c < e
    BY <2>1
  <2> QED
    BY <2>2 DEF a, e, Spanned
<1> QED
  BY <1>2 DEF Touched, InBytes

LEMMA BlockSetFacts ==
  ASSUME NEW rs, NEW n, n = Len(rs),
         \A i \in 1..n : rs[i].first \in Nat /\ rs[i].last \in Nat
  PROVE  /\ BlockSet(rs) \subseteq Nat
         /\ \A b \in Nat : b \in BlockSet(rs) <=> InBlocks(rs, b)
<1>1. \A i \in 1..n : \A b : b \in rs[i].first..rs[i].last <=> b \in Nat /\ InRangeOf(rs[i], b)
  <2> SUFFICES ASSUME NEW i \in 1..n, NEW b
               PROVE  b \in rs[i].first..rs[i].last <=> b \in Nat /\ InRangeOf(rs[i], b)
    OBVIOUS
  <2> DEFINE a == rs[i].first
             e == rs[i].last
  <2>1. a \in Nat /\ e \in Nat
    OBVIOUS
  <2> HIDE DEF a, e
  <2>2. b \in a..e <=> b \in Nat /\ a <= b /\ b <= e
    BY <2>1
  <2> QED
    BY <2>2 DEF a, e, InRangeOf
<1> QED
  BY <1>1 DEF BlockSet, InBlocks

(* The blocks of a set of cells.                                           *)
LEMMA RoundedSet ==
  ASSUME NEW rs \in Seq(ByteRange), SortedBytes(rs), NEW bs \in Nat \ {0},
         NEW out, out = ByteRangesToBlocks(rs, bs)
  PROVE  /\ BlockSet(out) = {BlockOf(c, bs) : c \in Touched(rs)}
         /\ \A i \in 1..Len(out) : out[i].first <= out[i].last
         /\ \A i \in 1..(Len(out) - 1) : out[i].last + 1 < out[i + 1].first
<1>1. /\ out \in Seq(BlockRange) /\ Apart(out)
      /\ \A b \in Nat : InBlocks(out, b) <=> \E c \in Nat : InBytes(rs, c) /\ InBlock(c, b, bs)
  BY BlocksCoverBytes
<1>2. Len(out) \in Nat /\ \A i \in 1..Len(out) : out[i].first \in Nat /\ out[i].last \in Nat
  <2>1. \A i \in 1..Len(out) : out[i] \in BlockRange
    BY <1>1, ElementOfSeq
  <2> QED
    BY <1>1, <2>1, LenProperties DEF BlockRange
<1>3. BlockSet(out) \subseteq Nat /\ \A b \in Nat : b \in BlockSet(out) <=> InBlocks(out, b)
  BY <1>2, BlockSetFacts
<1>4. Touched(rs) \subseteq Nat /\ \A c \in Nat : c \in Touched(rs) <=> InBytes(rs, c)
  BY TouchedBytes
<1>5. \A c \in Nat : BlockOf(c, bs) \in Nat /\ \A b : InBlock(c, b, bs) <=> b = BlockOf(c, bs)
  BY DivMod DEF BlockOf, InBlock
<1>6. BlockSet(out) = {BlockOf(c, bs) : c \in Touched(rs)}
  BY <1>1, <1>3, <1>4, <1>5
<1>7. \A i \in 1..(Len(out) - 1) : i \in 1..Len(out) /\ i + 1 \in 1..Len(out) /\ i < i + 1
  BY <1>2
<1> QED
  BY <1>1, <1>6, <1>7 DEF Apart

(* byte_ranges_to_blocks returns exactly the blocks that the ranges touch, *)
(* and coalesce_byte_ranges the shortest list with the same bytes, for     *)
(* every sorted list and every size of blocks. (range.rs:85-125)           *)
THEOREM RangesRoundOutward == Spec => []BlocksRoundOutward
<1>1. ASSUME InputsInv PROVE BlocksRoundOutward
  <2> DEFINE out == CoalesceByteRanges(ranges)
  <2>1. ranges \in Seq(ByteRange) /\ SortedBytes(ranges)
    BY <1>1 DEF InputsInv
  <2>2. /\ out \in Seq(ByteRange) /\ SortedBytes(out) /\ ByteGaps(out)
        /\ \A c \in Nat : InBytes(out, c) <=> InBytes(ranges, c)
    BY <2>1, CoalesceKeepsBytes
  <2> HIDE DEF out
  <2>3. Touched(out) = Touched(ranges)
    <3>1. Touched(out) \subseteq Nat /\ \A c \in Nat : c \in Touched(out) <=> InBytes(out, c)
      BY <2>2, TouchedBytes
    <3>2. Touched(ranges) \subseteq Nat /\ \A c \in Nat : c \in Touched(ranges) <=> InBytes(ranges, c)
      BY <2>1, TouchedBytes
    <3> QED
      BY <2>2, <3>1, <3>2
  <2>4. \A i \in 1..(Len(out) - 1) : out[i].end < out[i + 1].start
    <3>1. Len(out) \in Nat
      BY <2>2, LenProperties
    <3>2. \A i \in 1..(Len(out) - 1) : i \in 1..Len(out) /\ i + 1 \in 1..Len(out) /\ i < i + 1
      BY <3>1
    <3> QED
      BY <2>2, <3>2 DEF ByteGaps
  <2>5. CoalescedIsMinimal
    BY <2>3, <2>4 DEF CoalescedIsMinimal, out
  <2> DEFINE Rounds(blocks, bs) ==
               /\ BlockSet(blocks) = {BlockOf(c, bs) : c \in Touched(ranges)}
               /\ \A i \in 1..Len(blocks) : blocks[i].first <= blocks[i].last
               /\ \A i \in 1..(Len(blocks) - 1) : blocks[i].last + 1 < blocks[i + 1].first
  <2>6. ASSUME NEW bs \in BlockSizes, NEW input \in {ranges, out}
        PROVE  Rounds(ByteRangesToBlocks(input, bs), bs)
    <3>1. bs \in Nat \ {0}
      BY BlockSizesAssumption
    <3>2. input \in Seq(ByteRange) /\ SortedBytes(input) /\ Touched(input) = Touched(ranges)
      BY <2>1, <2>2, <2>3
    <3> DEFINE blocks == ByteRangesToBlocks(input, bs)
    <3>3. blocks = ByteRangesToBlocks(input, bs)
      OBVIOUS
    <3> HIDE DEF blocks
    <3>4. /\ BlockSet(blocks) = {BlockOf(c, bs) : c \in Touched(input)}
          /\ \A i \in 1..Len(blocks) : blocks[i].first <= blocks[i].last
          /\ \A i \in 1..(Len(blocks) - 1) : blocks[i].last + 1 < blocks[i + 1].first
      BY <3>1, <3>2, <3>3, RoundedSet
    <3>5. Rounds(blocks, bs)
      BY <3>2, <3>4
    <3> HIDE DEF Rounds
    <3> QED
      BY <3>3, <3>5
  <2>7. \A bs \in BlockSizes, input \in {ranges, out} : Rounds(ByteRangesToBlocks(input, bs), bs)
    <3> HIDE DEF Rounds
    <3> QED
      BY <2>6
  <2> QED
    BY <2>5, <2>7, Zenon DEF BlocksRoundOutward, out
<1> QED
  BY <1>1, InputsHold, PTL

-----------------------------------------------------------------------------
(* Names.                                                                  *)

LEMMA OneAndOne ==
  ASSUME NEW S, NEW p \in S, NEW q \in S
  PROVE  <<p>> \o <<q>> = <<p, q>>
<1>1. <<p>> \in Seq(S) /\ <<q>> \in Seq(S) /\ Len(<<p>>) = 1 /\ Len(<<q>>) = 1
      /\ <<p>>[1] = p /\ <<q>>[1] = q
  OBVIOUS
<1>2. <<p, q>> \in Seq(S) /\ Len(<<p, q>>) = 2 /\ <<p, q>>[1] = p /\ <<p, q>>[2] = q
  OBVIOUS
<1> DEFINE a == <<p>>
           b == <<q>>
           c == <<p, q>>
<1> HIDE DEF a, b, c
<1>3. /\ a \in Seq(S) /\ b \in Seq(S) /\ c \in Seq(S) /\ Len(a) = 1 /\ Len(b) = 1 /\ Len(c) = 2
      /\ a[1] = p /\ b[1] = q /\ c[1] = p /\ c[2] = q
  BY <1>1, <1>2 DEF a, b, c
<1>4. /\ a \o b \in Seq(S) /\ Len(a \o b) = 2
      /\ (a \o b)[1] = p /\ (a \o b)[2] = q
  BY SMTT(30), <1>3, ConcatProperties
<1>5. \A i \in 1..Len(a \o b) : (a \o b)[i] = c[i]
  BY <1>3, <1>4
<1>6. a \o b = c
  BY <1>3, <1>4, <1>5, SeqEqual
<1> QED
  BY <1>6 DEF a, b, c

LEMMA CandidatesOf ==
  ASSUME NEW image, NEW list, list = BmapCandidates(image)
  PROVE  /\ list[1] = DefaultBmapPath(image)
         /\ CompressedName(image) => DOMAIN list = 1..2 /\ Last(list) = list[2]
                                     /\ list[2] = DefaultBmapPath(Front(image))
         /\ ~CompressedName(image) => DOMAIN list = 1..1 /\ Last(list) = list[1]
<1> DEFINE p == DefaultBmapPath(image)
           q == DefaultBmapPath(Front(image))
<1>1. CASE CompressedName(image)
  <2>1. list = <<p>> \o <<q>>
    BY <1>1, Zenon DEF BmapCandidates
  <2> HIDE DEF p, q
  <2>2. p \in {p, q} /\ q \in {p, q}
    OBVIOUS
  <2>3. list = <<p, q>>
    BY <2>1, <2>2, OneAndOne
  <2> QED
    BY <1>1, <2>3 DEF p, q, Last
<1>2. CASE ~CompressedName(image)
  <2>1. list = <<p>> \o <<>>
    BY <1>2, Zenon DEF BmapCandidates
  <2> HIDE DEF p, q
  <2>2. <<p>> \o <<>> = <<p>>
    OBVIOUS
  <2>3. list = <<p>>
    BY <2>1, <2>2
  <2> QED
    BY <1>2, <2>3 DEF p, q, Last
<1> QED
  BY <1>1, <1>2

(* resolve_bmap takes the only candidate that is there.                    *)
LEMMA FirstIsThere ==
  ASSUME NEW image, NEW list, list = BmapCandidates(image), NEW n \in {1, 2}, DOMAIN list = 1..n
  PROVE  Discovered(image, {list[1]}) = {list[1]}
<1> DEFINE Taken == {i \in DOMAIN list : /\ list[i] \in {list[1]}
                                          /\ \A j \in 1..(i - 1) : list[j] \notin {list[1]}}
<1>1. Discovered(image, {list[1]}) = {list[i] : i \in Taken}
  BY Zenon DEF Discovered
<1>2. 1 \in Taken
  OBVIOUS
<1>3. \A i \in Taken : list[i] = list[1]
  OBVIOUS
<1> HIDE DEF Taken
<1> QED
  BY <1>1, <1>2, <1>3

LEMMA SecondIsThere ==
  ASSUME NEW image, NEW list, list = BmapCandidates(image), DOMAIN list = 1..2, list[1] # list[2]
  PROVE  Discovered(image, {list[2]}) = {list[2]}
<1> DEFINE Taken == {i \in DOMAIN list : /\ list[i] \in {list[2]}
                                          /\ \A j \in 1..(i - 1) : list[j] \notin {list[2]}}
<1>1. Discovered(image, {list[2]}) = {list[i] : i \in Taken}
  BY Zenon DEF Discovered
<1>2. 2 \in Taken
  OBVIOUS
<1>3. \A i \in Taken : list[i] = list[2]
  OBVIOUS
<1> HIDE DEF Taken
<1> QED
  BY <1>1, <1>2, <1>3

(* "That name is also the one `copy` looks for when handed either file",   *)
(* for every name. (run.rs:163)                                            *)
THEOREM OutputIsFoundAgain == Spec => []MapFoundAgain
<1>1. ASSUME InputsInv PROVE MapFoundAgain
  <2> SUFFICES ASSUME name # <<>>,
                      NEW image \in {name} \cup (IF CompressedName(name) THEN {Front(name)} ELSE {})
               PROVE  Discovered(image, {DefaultOutputPath(name)}) = {DefaultOutputPath(name)}
    BY DEF MapFoundAgain
  <2> DEFINE list == BmapCandidates(name)
             output == DefaultOutputPath(name)
             other == BmapCandidates(Front(name))
  <2>1. output = Last(list)
    BY DEF DefaultOutputPath
  <2>2. CASE CompressedName(name) /\ image = name
    <3>1. DOMAIN list = 1..2 /\ output = list[2] /\ list[1] = DefaultBmapPath(name)
          /\ list[2] = DefaultBmapPath(Front(name))
      BY <2>1, <2>2, CandidatesOf
    <3>2. list[1] # list[2]
      <4>1. Len(name) \in Nat \ {0} /\ Len(Front(name)) = Len(name) - 1 /\ Front(name) \in Seq(Parts)
        <5>1. name \in Seq(Parts) /\ Len(name) \in Nat \ {0}
          BY <1>1, EmptySeq, LenProperties DEF InputsInv
        <5>2. 1 \in Int /\ Len(name) - 1 \in Int /\ \A i \in 1..(Len(name) - 1) : name[i] \in Parts
          BY <5>1, ElementOfSeq
        <5>3. SubSeq(name, 1, Len(name) - 1) \in Seq(Parts)
              /\ Len(SubSeq(name, 1, Len(name) - 1)) = IF 1 <= Len(name) - 1 THEN Len(name) - 1 - 1 + 1 ELSE 0
          BY <5>2, SubSeqProperties
        <5> DEFINE n == Len(name)
                   front == SubSeq(name, 1, Len(name) - 1)
        <5>4. Len(front) = n - 1
          <6>1. n \in Nat \ {0} /\ Len(front) = IF 1 <= n - 1 THEN n - 1 - 1 + 1 ELSE 0
            BY <5>1, <5>3
          <6> HIDE DEF n, front
          <6> QED
            BY <6>1
        <5> QED
          BY <5>1, <5>3, <5>4 DEF Front
      <4> DEFINE front == Front(name)
                 T == Parts \cup {"bmap"}
      <4>2. front \in Seq(T) /\ name \in Seq(T) /\ Len(front) = Len(name) - 1 /\ Len(name) \in Nat
        BY <1>1, <4>1 DEF InputsInv
      <4> HIDE DEF front
      <4>3. Len(Append(front, "bmap")) # Len(Append(name, "bmap"))
        BY <4>2, AppendProperties
      <4> QED
        BY <3>1, <4>3 DEF DefaultBmapPath, front
    <3> HIDE DEF list, output
    <3>3. list = BmapCandidates(name)
      BY DEF list
    <3>5. Discovered(name, {list[2]}) = {list[2]}
      BY <3>1, <3>2, <3>3, SecondIsThere
    <3> QED
      BY <2>2, <3>1, <3>5 DEF output
  <2>3. CASE ~CompressedName(name) /\ image = name
    <3>1. DOMAIN list = 1..1 /\ output = list[1]
      BY <2>1, <2>3, CandidatesOf
    <3> HIDE DEF list, output
    <3>2. list = BmapCandidates(name) /\ 1 \in {1, 2}
      BY DEF list
    <3>3. Discovered(name, {list[1]}) = {list[1]}
      BY <3>1, <3>2, FirstIsThere
    <3> QED
      BY <2>3, <3>1, <3>3 DEF output
  <2>4. CASE CompressedName(name) /\ image = Front(name)
    <3>1. output = DefaultBmapPath(Front(name)) /\ other[1] = DefaultBmapPath(Front(name))
      BY <2>1, <2>4, CandidatesOf
    <3>2. PICK n \in {1, 2} : DOMAIN other = 1..n
      BY CandidatesOf
    <3> HIDE DEF other, output
    <3>3. other = BmapCandidates(Front(name))
      BY DEF other
    <3>4. Discovered(Front(name), {other[1]}) = {other[1]}
      BY <3>2, <3>3, FirstIsThere
    <3> QED
      BY <2>4, <3>1, <3>4 DEF output
  <2> QED
    BY <2>2, <2>3, <2>4
<1> QED
  BY <1>1, InputsHold, PTL

-----------------------------------------------------------------------------
(* Documents.                                                              *)

Fields ==
  {"cut", "version", "size", "bs", "blocks", "mapped", "type", "digest", "ranges", "attr"}

Numbers == Nat \cup {Missing}

IsDoc(d) ==
  /\ d = [f \in Fields |-> d[f]]
  /\ d.size \in Numbers /\ d.bs \in Numbers /\ d.blocks \in Numbers /\ d.mapped \in Numbers
  /\ d.ranges \in Seq(ListedRange)

(* Its digest is its own, if it has one.                                   *)
SealedDoc(d) == d.digest \in {NoDigest, Digest(DigestElement(d), Kind(d), d)}

DocInv ==
  step # "none" => /\ IsDoc(doc) /\ IsDoc(whole) /\ SealedDoc(whole)
                   /\ doc.digest \in {NoDigest, whole.digest}

DocStep ==
  /\ step \in {"none", "rendered", "damaged", "sealed", "damaged again"}
  /\ step \in {"rendered", "sealed"} => doc = whole

DocsInv == DocInv /\ DocStep

LEMMA RenderedDoc ==
  ASSUME NEW m \in Maps, NEW d, d = Render(m)
  PROVE  IsDoc(d) /\ SealedDoc(d)
<1>1. /\ m.size \in Nat /\ m.bs \in Nat \ {0} /\ m.blocks \in Nat /\ m.mapped \in Nat
      /\ m.ranges \in Seq(ListedRange) /\ m.kind \in ChecksumKinds \cup {"none"}
  BY MapsAssumption
<1>2. /\ d.size = m.size /\ d.bs = m.bs /\ d.blocks = m.blocks /\ d.mapped = m.mapped
      /\ d.ranges = m.ranges /\ d.version = FormatVersion /\ d.type = RenderedKind(m)
      /\ d = [f \in Fields |-> d[f]]
  BY DEF Render, Fields
<1>3. d.digest = Digest("BmapFileChecksum", RenderedKind(m), d)
  BY DEF Render, Digest
<1>4. DigestElement(d) = "BmapFileChecksum" /\ Kind(d) = RenderedKind(m)
  BY <1>2 DEF DigestElement, Kind, NamesKind, Major, FormatVersion
<1> QED
  BY <1>1, <1>2, <1>3, <1>4 DEF IsDoc, SealedDoc, Numbers

LEMMA DamagedDoc ==
  ASSUME NEW d, IsDoc(d), NEW x \in Damages, NEW out, out = [d EXCEPT ![x.field] = x.value]
  PROVE  IsDoc(out) /\ out.digest \in {NoDigest, d.digest}
<1>1. DOMAIN d = Fields /\ out = [f \in Fields |-> IF f = x.field THEN x.value ELSE d[f]]
  BY DEF IsDoc
<1>2. \A f \in Fields : out[f] = IF f = x.field THEN x.value ELSE d[f]
  BY <1>1
<1>3. {"size", "bs", "blocks", "mapped", "ranges", "digest"} \subseteq Fields
  BY DEF Fields
<1>4. /\ x.field \in {"size", "bs", "blocks", "mapped"} => x.value \in Numbers
      /\ x.field = "ranges" => x.value \in Seq(ListedRange)
      /\ x.field = "digest" => x.value = NoDigest
  BY DamagesAssumption DEF Numbers
<1>5. out = [f \in Fields |-> out[f]]
  BY <1>1
<1> QED
  BY <1>2, <1>3, <1>4, <1>5 DEF IsDoc

LEMMA NewlySealed ==
  ASSUME NEW d, IsDoc(d), NEW out,
         out = IF Kind(d) = "none" THEN [d EXCEPT !.digest = NoDigest]
               ELSE [d EXCEPT !.digest = Digest(DigestElement(d), Kind(d), d)]
  PROVE  IsDoc(out) /\ SealedDoc(out)
<1>1. DOMAIN d = Fields /\ \A f \in Fields : f # "digest" => out[f] = d[f]
  BY DEF IsDoc
<1>2. out = [f \in Fields |-> out[f]]
  BY <1>1 DEF IsDoc
<1>3. IsDoc(out)
  BY <1>1, <1>2 DEF IsDoc, Fields
<1>4. out.version = d.version /\ out.type = d.type
  BY <1>1 DEF Fields
<1>5. Kind(out) = Kind(d) /\ DigestElement(out) = DigestElement(d)
  BY <1>4 DEF Kind, DigestElement, NamesKind, Major, Minor
<1>6. [out EXCEPT !.digest = NoDigest] = [d EXCEPT !.digest = NoDigest]
  BY <1>1, <1>2 DEF IsDoc
<1>7. \A e, k : Digest(e, k, out) = Digest(e, k, d)
  BY <1>6 DEF Digest
<1>8. out.digest \in {NoDigest, Digest(DigestElement(d), Kind(d), d)}
  BY <1>1 DEF Fields
<1> QED
  BY <1>3, <1>5, <1>7, <1>8 DEF SealedDoc

LEMMA DocsInit == Init => DocsInv
  BY DEF Init, DocsInv, DocInv, DocStep

LEMMA DocsStep == DocsInv /\ [Next]_vars => DocsInv'
<1> SUFFICES ASSUME DocsInv, [Next]_vars PROVE DocsInv'
  OBVIOUS
<1>1. CASE RenderDoc
  <2>1. PICK m \in Maps : doc' = Render(m) /\ whole' = Render(m)
    BY <1>1 DEF RenderDoc
  <2>2. IsDoc(doc') /\ SealedDoc(doc')
    BY <2>1, RenderedDoc
  <2> QED
    BY <1>1, <2>1, <2>2 DEF RenderDoc, DocsInv, DocInv, DocStep
<1>2. CASE DamageDoc
  <2>1. PICK x \in Damages : doc' = [doc EXCEPT ![x.field] = x.value]
    BY <1>2 DEF DamageDoc
  <2>2. doc = whole /\ IsDoc(doc) /\ SealedDoc(whole) /\ whole' = whole
        /\ step' \in {"damaged", "damaged again"}
    BY <1>2 DEF DamageDoc, DocsInv, DocInv, DocStep
  <2>3. IsDoc(doc') /\ doc'.digest \in {NoDigest, doc.digest}
    BY <2>1, <2>2, DamagedDoc
  <2> QED
    BY <2>2, <2>3 DEF DocsInv, DocInv, DocStep
<1>3. CASE SealDoc
  <2>1. IsDoc(doc)
    BY <1>3 DEF SealDoc, DocsInv, DocInv
  <2>2. doc' = IF Kind(doc) = "none" THEN [doc EXCEPT !.digest = NoDigest]
               ELSE [doc EXCEPT !.digest = Digest(DigestElement(doc), Kind(doc), doc)]
    BY <1>3 DEF SealDoc
  <2>3. IsDoc(doc') /\ SealedDoc(doc')
    BY <2>1, <2>2, NewlySealed
  <2> QED
    BY <1>3, <2>3 DEF SealDoc, DocsInv, DocInv, DocStep
<1>4. CASE AddCell \/ AddRange \/ AddPart \/ AddByte \/ Full \/ UNCHANGED vars
  <2>1. UNCHANGED <<doc, whole, step>>
    BY <1>4 DEF AddCell, AddRange, AddPart, AddByte, Full, vars
  <2> QED
    BY <2>1 DEF DocsInv, DocInv, DocStep
<1> QED
  BY <1>1, <1>2, <1>3, <1>4 DEF Next

LEMMA DocsHold == Spec => []DocsInv
  BY DocsInit, DocsStep, PTL DEF Spec

(* A bmap file that was changed in one place since its digest was made, or *)
(* lost its end, is refused, for every map and every damage that leaves    *)
(* the digests on. (bmap.rs:86, 297-331)                                   *)
THEOREM DamageIsNoticed == Spec => []DamageNoticed
<1>1. ASSUME DocsInv PROVE DamageNoticed
  <2> SUFFICES ASSUME step # "none", ParseAnswer(doc) = "ok", Kind(doc) # "none" PROVE doc = whole
    BY DEF DamageNoticed
  <2>1. IsDoc(doc) /\ IsDoc(whole) /\ SealedDoc(whole) /\ doc.digest \in {NoDigest, whole.digest}
    BY <1>1 DEF DocsInv, DocInv
  <2>2. doc.digest = Digest(DigestElement(doc), Kind(doc), doc)
    BY AcceptedIsSealed
  <2>3. doc.digest # NoDigest
    <3>1. doc.digest.element \in {"BmapFileChecksum", "BmapFileSHA1"}
      BY <2>2 DEF Digest, DigestElement
    <3> QED
      BY <3>1 DEF NoDigest
  <2>4. doc.digest = whole.digest /\ whole.digest = Digest(DigestElement(whole), Kind(whole), whole)
    BY <2>1, <2>3 DEF SealedDoc
  <2>5. doc.digest.of = [doc EXCEPT !.digest = NoDigest]
        /\ whole.digest.of = [whole EXCEPT !.digest = NoDigest]
    <3>1. Digest(DigestElement(doc), Kind(doc), doc).of = [doc EXCEPT !.digest = NoDigest]
      BY DEF Digest
    <3>2. Digest(DigestElement(whole), Kind(whole), whole).of = [whole EXCEPT !.digest = NoDigest]
      BY DEF Digest
    <3> QED
      BY <2>2, <2>4, <3>1, <3>2
  <2>6. [doc EXCEPT !.digest = NoDigest] = [whole EXCEPT !.digest = NoDigest]
    BY <2>4, <2>5
  <2>7. \A f \in Fields : doc[f] = whole[f]
    <3> SUFFICES ASSUME NEW f \in Fields PROVE doc[f] = whole[f]
      OBVIOUS
    <3>1. CASE f = "digest"
      BY <2>4, <3>1
    <3>2. CASE f # "digest"
      <4>1. [doc EXCEPT !.digest = NoDigest][f] = doc[f] /\ [whole EXCEPT !.digest = NoDigest][f] = whole[f]
        BY <2>1, <3>2 DEF IsDoc
      <4> QED
        BY <2>6, <4>1
    <3> QED
      BY <3>1, <3>2
  <2> QED
    BY <2>1, <2>7 DEF IsDoc
<1> QED
  BY <1>1, DocsHold, PTL

(* The blocks of a list are no more than Covered adds up, since those that *)
(* two ranges share are added twice.                                       *)
BlocksUpto(rs, k) == UNION {rs[i].first..rs[i].last : i \in 1..k}

AtMost(s, n) == IsFiniteSet(s) /\ n \in Nat /\ Cardinality(s) <= n

LEMMA CoveredBounds ==
  ASSUME NEW rs \in Seq(SumRange), \A i \in 1..Len(rs) : rs[i].first <= rs[i].last
  PROVE  AtMost(BlockSet(rs), Covered(rs))
<1> DEFINE m == Len(rs)
<1>1. PICK f : SumSteps(f, rs, Covered(rs)) /\ \A k \in Nat : k < Len(rs) => f[k + 1] = f[k] + rs[k + 1].last - rs[k + 1].first + 1
  BY CoveredSteps
<1>2. m \in Nat /\ f[0] = 0 /\ f[m] = Covered(rs)
  BY <1>1, LenProperties DEF SumSteps
<1>3. \A i \in 1..m : rs[i].first \in Nat /\ rs[i].last \in Nat
  <2>1. \A i \in 1..m : rs[i] \in SumRange
    BY ElementOfSeq
  <2> QED
    BY <2>1 DEF SumRange
<1> DEFINE Good == {k \in Nat : k <= m => AtMost(BlocksUpto(rs, k), f[k])}
<1>4. 0 \in Good
  <2>1. BlocksUpto(rs, 0) = {}
    BY DEF BlocksUpto
  <2>2. AtMost({}, 0)
    BY FS_EmptySet DEF AtMost
  <2> QED
    BY <1>2, <2>1, <2>2
<1>5. ASSUME NEW k \in Nat, k \in Good
      PROVE  k + 1 \in Good
  <2> SUFFICES ASSUME k + 1 <= m PROVE AtMost(BlocksUpto(rs, k + 1), f[k + 1])
    OBVIOUS
  <2> DEFINE S == BlocksUpto(rs, k)
             a == rs[k + 1].first
             e == rs[k + 1].last
             T == a..e
  <2>1. AtMost(S, f[k])
    BY <1>2, <1>5
  <2>2. a \in Nat /\ e \in Nat /\ a <= e /\ f[k + 1] = f[k] + e - a + 1
    <3>1. k + 1 \in 1..m /\ k < m
      BY <1>2
    <3> QED
      BY <1>1, <1>3, <3>1
  <2>3. BlocksUpto(rs, k + 1) = S \cup T
    <3>1. \A i : i \in 1..(k + 1) <=> i \in 1..k \/ i = k + 1
      OBVIOUS
    <3> QED
      BY <3>1 DEF BlocksUpto
  <2> HIDE DEF S, a, e
  <2>4. IsFiniteSet(T) /\ Cardinality(T) = e - a + 1
    <3>1. a \in Int /\ e \in Int
      BY <2>2
    <3>2. IsFiniteSet(T) /\ Cardinality(T) = IF a > e THEN 0 ELSE e - a + 1
      BY <3>1, FS_Interval
    <3> QED
      BY <2>2, <3>2
  <2> HIDE DEF T, Good
  <2>5. /\ IsFiniteSet(S \cup T)
        /\ Cardinality(S \cup T) = Cardinality(S) + Cardinality(T) - Cardinality(S \cap T)
    BY <2>1, <2>4, FS_Union DEF AtMost
  <2>6. Cardinality(S \cap T) \in Nat /\ Cardinality(S) \in Nat
    BY <2>1, FS_Subset, FS_CardinalityType, FS_Intersection DEF AtMost
  <2>7. Cardinality(S \cup T) <= f[k + 1] /\ f[k + 1] \in Nat
    <3>1. f[k] \in Nat /\ Cardinality(S) <= f[k]
      BY <2>1 DEF AtMost
    <3> QED
      BY <2>2, <2>4, <2>5, <2>6, <3>1
  <2> QED
    BY <2>3, <2>5, <2>7 DEF AtMost
<1> HIDE DEF Good
<1>6. m \in Good
  BY <1>2, <1>4, <1>5, Induction
<1>7. BlockSet(rs) = BlocksUpto(rs, m)
  BY DEF BlockSet, BlocksUpto
<1> QED
  BY <1>2, <1>6, <1>7 DEF Good

(* What parse makes of the ranges.                                         *)
LEMMA ParsedRanges ==
  ASSUME NEW d, IsDoc(d), NEW rs, rs = Parsed(d).ranges
  PROVE  /\ Len(rs) = Len(d.ranges) /\ Len(rs) \in Nat
         /\ \A i \in 1..Len(rs) : /\ rs[i].first = d.ranges[i].first /\ rs[i].last = d.ranges[i].last
                                  /\ rs[i].first \in Nat /\ rs[i].last \in Nat
<1> DEFINE n == Len(d.ranges)
<1>1. n \in Nat /\ \A i \in 1..n : d.ranges[i] \in ListedRange
  BY LenProperties, ElementOfSeq DEF IsDoc
<1> HIDE DEF n
<1>2. rs = [i \in 1..n |-> IF d.attr = RangeAttr(d) THEN d.ranges[i]
                           ELSE [d.ranges[i] EXCEPT !.sum = <<>>]]
  BY DEF Parsed, n
<1>3. \A i \in 1..n : rs[i] = IF d.attr = RangeAttr(d) THEN d.ranges[i]
                              ELSE [d.ranges[i] EXCEPT !.sum = <<>>]
  BY <1>2
<1>4. \A i \in 1..n : rs[i].first = d.ranges[i].first /\ rs[i].last = d.ranges[i].last
  BY <1>1, <1>3 DEF ListedRange
<1>5. Len(rs) = n
  BY <1>1, <1>2
<1> QED
  BY <1>1, <1>4, <1>5 DEF ListedRange, n

(* Whatever a bmap file says, a map that parse returns is one that copy    *)
(* can follow. (bmap.rs:131-190)                                           *)
THEOREM AcceptedMapsAreUsable == Spec => []AcceptedIsUsable
<1>1. ASSUME DocsInv PROVE AcceptedIsUsable
  <2> SUFFICES ASSUME step # "none", ParseAnswer(doc) = "ok"
               PROVE  LET m == Parsed(doc)
                      IN  /\ m.bs > 0 /\ m.size > (m.blocks - 1) * m.bs
                          /\ \A i \in 1..Len(m.ranges) : /\ m.ranges[i].first <= m.ranges[i].last
                                                         /\ m.ranges[i].last * m.bs < m.size
                          /\ Cardinality(BlockSet(m.ranges)) <= m.mapped
                          /\ m.kind = "none" \/ m.kind \in ChecksumKinds
    BY DEF AcceptedIsUsable
  <2>1. IsDoc(doc)
    BY <1>1 DEF DocsInv, DocInv
  <2>2. /\ ~NumbersMissing(doc) /\ doc.bs # 0 /\ doc.blocks = CeilDiv(doc.size, doc.bs)
        /\ RangesFit(doc) /\ (NamesKind(doc) => doc.type \in ChecksumKinds)
    BY DEF ParseAnswer
  <2>3. doc.bs \in Nat \ {0} /\ doc.size \in Nat /\ doc.blocks \in Nat /\ doc.mapped \in Nat
    BY <2>1, <2>2 DEF IsDoc, Numbers, NumbersMissing
  <2> DEFINE m == Parsed(doc)
             rs == m.ranges
             size == doc.size
             bs == doc.bs
             blocks == doc.blocks
  <2>4. m.size = size /\ m.bs = bs /\ m.blocks = blocks /\ m.mapped = doc.mapped /\ m.kind = Kind(doc)
    BY DEF Parsed
  <2>5. \A k \in Nat : k < blocks => k * bs < size
    BY <2>2, <2>3, CeilFacts
  <2>6. size > (blocks - 1) * bs
    <3>1. bs \in Nat \ {0} /\ size \in Nat /\ blocks \in Nat
      BY <2>3
    <3> HIDE DEF bs, size, blocks
    <3>2. CASE blocks = 0
      BY <3>1, <3>2
    <3>3. CASE blocks # 0
      <4>1. blocks - 1 \in Nat /\ blocks - 1 < blocks
        BY <3>1, <3>3
      <4>2. (blocks - 1) * bs < size /\ (blocks - 1) * bs \in Nat
        BY <2>5, <3>1, <4>1
      <4> QED
        BY <3>1, <4>2
    <3> QED
      BY <3>2, <3>3
  <2>7. /\ Len(rs) = Len(doc.ranges) /\ Len(rs) \in Nat
        /\ \A i \in 1..Len(rs) : /\ rs[i].first = doc.ranges[i].first /\ rs[i].last = doc.ranges[i].last
                                 /\ rs[i].first \in Nat /\ rs[i].last \in Nat
    BY <2>1, ParsedRanges
  <2>8. \A i \in 1..Len(rs) : rs[i].first <= rs[i].last /\ rs[i].last * bs < size
    <3>1. \A i \in 1..Len(rs) : rs[i].first <= rs[i].last /\ rs[i].last < blocks /\ rs[i].last \in Nat
      BY <2>2, <2>7 DEF RangesFit
    <3> HIDE DEF rs, bs, size, blocks
    <3> QED
      BY <2>5, <3>1
  <2>9. Cardinality(BlockSet(rs)) <= doc.mapped
    <3>1. doc.ranges \in Seq(SumRange) /\ \A i \in 1..Len(doc.ranges) : doc.ranges[i].first <= doc.ranges[i].last
      BY <2>1, <2>2 DEF IsDoc, ListedRange, SumRange, RangesFit
    <3>2. AtMost(BlockSet(doc.ranges), Covered(doc.ranges))
      BY <3>1, CoveredBounds
    <3>3. BlockSet(rs) = BlockSet(doc.ranges)
      <4> HIDE DEF rs
      <4> QED
        BY <2>7 DEF BlockSet
    <3> QED
      BY <2>2, <3>2, <3>3 DEF AtMost, RangesFit
  <2>10. Kind(doc) = "none" \/ Kind(doc) \in ChecksumKinds
    BY <2>2 DEF Kind, ChecksumKinds
  <2>11. m.bs > 0
    BY <2>3, <2>4
  <2> HIDE DEF m
  <2>12. /\ m.bs > 0 /\ m.size > (m.blocks - 1) * m.bs
         /\ \A i \in 1..Len(m.ranges) : m.ranges[i].first <= m.ranges[i].last
                                        /\ m.ranges[i].last * m.bs < m.size
         /\ Cardinality(BlockSet(m.ranges)) <= m.mapped
         /\ m.kind = "none" \/ m.kind \in ChecksumKinds
    <3>1. size > (blocks - 1) * bs => m.size > (m.blocks - 1) * m.bs
      BY <2>4
    <3> QED
      BY <2>4, <2>6, <2>8, <2>9, <2>10, <2>11, <3>1
  <2> QED
    BY <2>12, Zenon DEF m
<1> QED
  BY <1>1, DocsHold, PTL

-----------------------------------------------------------------------------
(* Reads.                                                                  *)

Reads == Seq(Seq(Byte))

(* The bytes are those of one read after another.                          *)
BytesUpto(f, rs) ==
  /\ f[0] = <<>> /\ f[Len(rs)] = Bytes(rs)
  /\ \A k \in Nat : k < Len(rs) => f[k + 1] = f[k] \o rs[k + 1]

LEMMA ByteSteps ==
  ASSUME NEW rs \in Reads
  PROVE  \E f : BytesUpto(f, rs)
<1> DEFINE V == Seq(Byte)
           m == Len(rs)
           grow == [i \in 1..m |-> [v \in V |-> v \o rs[i]]]
           Flat(it, i) == IF i = 1 THEN rs[i] ELSE it[i - 1] \o rs[i]
           flatten == CHOOSE it : it = [i \in 1..m |-> Flat(it, i)]
<1>1. m \in Nat /\ \A i \in 1..m : rs[i] \in V
  BY LenProperties, ElementOfSeq DEF Reads
<1>2. StepsIn(grow, 1..m, V) /\ <<>> \in V
  <2>1. \A i \in 1..m, v \in V : v \o rs[i] \in V
    BY <1>1, ConcatProperties
  <2> QED
    BY <2>1, EmptySeq DEF StepsIn
<1>3. \A i \in 1..m, v \in V : grow[i][v] = v \o rs[i]
  OBVIOUS
<1>4. \A v \in V : <<>> \o v = v
  BY ConcatEmptySeq
<1>5. \E it : it = [i \in 1..m |-> Flat(it, i)]
  <2>1. PICK it : FoldsUp(it, m, V, <<>>, grow)
    <3> HIDE DEF V, grow, m
    <3> QED
      BY <1>1, <1>2, FoldOver
  <2> DEFINE g == [i \in 1..m |-> it[1..i]]
  <2> HIDE DEF V, grow, m
  <2>2. ASSUME NEW i \in 1..m
        PROVE  g[i] = Flat(g, i)
    <3>1. i - 1 \in Nat /\ i - 1 < m /\ (i - 1) + 1 = i
      BY <1>1
    <3>2. /\ 1..i \in SUBSET (1..m) /\ 1..i # {} /\ Max(1..i) = i
          /\ (1..i) \ {i} = 1..(i - 1)
      BY <1>1, <3>1, PrefixFacts
    <3>3. it[1..(i - 1)] \in V /\ it[1..i] = grow[i][it[1..(i - 1)]]
      BY <2>1, <3>2 DEF FoldsUp
    <3>4. it[1..i] = it[1..(i - 1)] \o rs[i]
      BY <1>3, <3>3
    <3>5. CASE i = 1
      <4>1. 1..(i - 1) = {}
        BY <3>5
      <4>2. it[1..(i - 1)] = <<>>
        BY <2>1, <4>1 DEF FoldsUp
      <4> QED
        BY <1>1, <1>4, <3>4, <3>5, <4>2
    <3>6. CASE i # 1
      <4>1. i - 1 \in 1..m
        BY <1>1, <3>6
      <4> QED
        BY <3>4, <3>6, <4>1
    <3> QED
      BY <3>5, <3>6
  <2>3. g = [i \in 1..m |-> Flat(g, i)]
    <3> HIDE DEF Flat
    <3>1. g = [i \in 1..m |-> g[i]]
      OBVIOUS
    <3> QED
      BY <2>2, <3>1
  <2> QED
    BY <2>3
<1>6. flatten = [i \in 1..m |-> Flat(flatten, i)]
  <2> HIDE DEF Flat, m
  <2> QED
    BY <1>5
<1>7. m # 0 => Bytes(rs) = flatten[m]
  BY DEF Bytes, FlattenSeq
<1>8. m = 0 => Bytes(rs) = <<>>
  <2>1. m = 0 => rs = <<>>
    BY EmptySeq DEF Reads
  <2> QED
    BY <2>1 DEF Bytes, FlattenSeq
<1> HIDE DEF flatten, m
<1> DEFINE f == [k \in 0..m |-> IF k = 0 THEN <<>> ELSE flatten[k]]
<1>9. f[0] = <<>> /\ f[m] = Bytes(rs)
  BY <1>1, <1>7, <1>8
<1>10. ASSUME NEW k \in Nat, k < m
       PROVE  f[k + 1] = f[k] \o rs[k + 1]
  <2>1. k \in 0..m /\ k + 1 \in 1..m /\ k + 1 \in 0..m /\ (k + 1) - 1 = k
    BY <1>1, <1>10
  <2>2. f[k + 1] = flatten[k + 1] /\ flatten[k + 1] = Flat(flatten, k + 1)
    <3>1. \A i \in 1..m : flatten[i] = Flat(flatten, i)
      <4> HIDE DEF Flat
      <4> QED
        BY <1>6
    <3> QED
      BY <1>1, <1>10, <2>1, <3>1
  <2>3. CASE k = 0
    <3>1. flatten[k + 1] = rs[k + 1] /\ f[k] = <<>>
      BY <2>1, <2>2, <2>3
    <3> QED
      BY <1>1, <1>4, <2>1, <2>2, <3>1
  <2>4. CASE k # 0
    <3>1. f[k] = flatten[k] /\ k + 1 # 1
      BY <2>1, <2>4
    <3> HIDE DEF f
    <3> QED
      BY <2>1, <2>2, <3>1
  <2> QED
    BY <2>3, <2>4
<1> QED
  BY <1>9, <1>10 DEF m, BytesUpto

(* read_head takes from each read what is still missing.                   *)
Missed(head, r) ==
  SubSeq(r, 1, IF Len(r) < SniffLen - Len(head) THEN Len(r) ELSE SniffLen - Len(head))

HeadUpto(h, rs) ==
  /\ h[0] = <<>> /\ h[Len(rs)] = ReadHead(rs)
  /\ \A k \in Nat : k < Len(rs) => h[k + 1] = h[k] \o Missed(h[k], rs[k + 1])

LEMMA MissedType ==
  ASSUME NEW head \in Seq(Byte), NEW r \in Seq(Byte)
  PROVE  Missed(head, r) \in Seq(Byte)
<1> DEFINE n == IF Len(r) < SniffLen - Len(head) THEN Len(r) ELSE SniffLen - Len(head)
<1>1. n \in Int /\ n <= Len(r)
  BY LenProperties DEF SniffLen
<1>2. \A i \in 1..n : r[i] \in Byte
  BY <1>1, ElementOfSeq, LenProperties
<1> HIDE DEF n
<1>3. SubSeq(r, 1, n) \in Seq(Byte)
  BY <1>1, <1>2, SubSeqProperties
<1> QED
  BY <1>3 DEF Missed, n

LEMMA HeadSteps ==
  ASSUME NEW rs \in Reads
  PROVE  \E h : HeadUpto(h, rs)
<1> DEFINE V == Seq(Byte)
           m == Len(rs)
           grow == [i \in 1..m |-> [v \in V |-> v \o Missed(v, rs[i])]]
           Value(it, s) == IF s = {} THEN <<>>
                           ELSE it[s \ {Max(s)}] \o Missed(it[s \ {Max(s)}], rs[Max(s)])
           fold == CHOOSE it : it = [s \in SUBSET DOMAIN rs |-> Value(it, s)]
<1>1. m \in Nat /\ DOMAIN rs = 1..m /\ \A i \in 1..m : rs[i] \in V
  BY LenProperties, ElementOfSeq DEF Reads
<1>2. \A i \in 1..m, v \in V : v \o Missed(v, rs[i]) \in V
  BY <1>1, MissedType, ConcatProperties
<1>3. StepsIn(grow, 1..m, V) /\ <<>> \in V
  BY <1>2, EmptySeq DEF StepsIn
<1>4. \A i \in 1..m, v \in V : grow[i][v] = v \o Missed(v, rs[i])
  OBVIOUS
<1>5. \E it : it = [s \in SUBSET DOMAIN rs |-> Value(it, s)]
  <2> HIDE DEF V, grow, m
  <2>1. PICK it : FoldsUp(it, m, V, <<>>, grow)
    BY <1>1, <1>3, FoldOver
  <2>2. \A s \in SUBSET (1..m) : it[s] = Value(it, s)
    BY <1>4, <2>1 DEF FoldsUp
  <2>3. it = [s \in SUBSET DOMAIN rs |-> Value(it, s)]
    <3> HIDE DEF Value
    <3> QED
      BY <1>1, <2>1, <2>2 DEF FoldsUp
  <2> QED
    BY <2>3
<1>6. fold = [s \in SUBSET (1..m) |-> Value(fold, s)]
  <2> HIDE DEF Value, m
  <2> QED
    BY <1>1, <1>5
<1>7. ReadHead(rs) = fold[1..m]
  BY <1>1 DEF ReadHead, FoldLeft, MapThenFoldSet, Missed
<1> HIDE DEF fold, m
<1>8. fold[1..0] = <<>>
  BY <1>6
<1>9. ASSUME NEW k \in Nat, k < m
      PROVE  fold[1..(k + 1)] = fold[1..k] \o Missed(fold[1..k], rs[k + 1])
  <2>1. fold[1..(k + 1)] = Value(fold, 1..(k + 1))
    <3> HIDE DEF Value
    <3> QED
      BY <1>1, <1>6, <1>9, PrefixFacts
  <2> QED
    BY <1>1, <1>9, <2>1, PrefixFacts
<1> DEFINE h == [k \in 0..m |-> fold[1..k]]
<1>10. h[0] = <<>> /\ h[m] = ReadHead(rs)
  BY <1>1, <1>7, <1>8
<1>11. ASSUME NEW k \in Nat, k < m
       PROVE  h[k + 1] = h[k] \o Missed(h[k], rs[k + 1])
  <2>1. k \in 0..m /\ k + 1 \in 0..m
    BY <1>1, <1>11
  <2> QED
    BY <1>9, <1>11, <2>1
<1> QED
  BY <1>10, <1>11 DEF m, HeadUpto

(* However the bytes arrive, the head is the first of them.                *)
Beginning(s) == SubSeq(s, 1, Lesser(SniffLen, Len(s)))

LEMMA BeginningFacts ==
  ASSUME NEW s \in Seq(Byte)
  PROVE  /\ Beginning(s) \in Seq(Byte)
         /\ Len(Beginning(s)) = Lesser(SniffLen, Len(s))
         /\ Len(Beginning(s)) \in Nat /\ Len(Beginning(s)) <= Len(s)
         /\ \A i \in 1..Len(Beginning(s)) : Beginning(s)[i] = s[i]
<1> DEFINE n == Lesser(SniffLen, Len(s))
<1>1. n \in Nat /\ n <= Len(s) /\ Len(s) \in Nat
  BY LenProperties DEF Lesser, SniffLen
<1> HIDE DEF n
<1>2. \A i \in 1..n : s[i] \in Byte
  BY <1>1, ElementOfSeq
<1>3. /\ SubSeq(s, 1, n) \in Seq(Byte)
      /\ Len(SubSeq(s, 1, n)) = IF 1 <= n THEN n - 1 + 1 ELSE 0
      /\ \A i \in 1..(n - 1 + 1) : SubSeq(s, 1, n)[i] = s[1 + i - 1]
  BY <1>1, <1>2, SubSeqProperties
<1>4. Len(SubSeq(s, 1, n)) = n /\ \A i \in 1..n : SubSeq(s, 1, n)[i] = s[i]
  BY <1>1, <1>3
<1> QED
  BY <1>1, <1>3, <1>4 DEF Beginning, n

LEMMA MissedLength ==
  ASSUME NEW p \in Nat, NEW q \in Nat
  PROVE  LET a == Lesser(SniffLen, p)
             n == IF q < SniffLen - a THEN q ELSE SniffLen - a
         IN  /\ a \in Nat /\ a <= p /\ n \in Nat /\ n <= q
             /\ a + n = Lesser(SniffLen, p + q) /\ a + n <= p + q
             /\ n > 0 => a = p
  BY DEF Lesser, SniffLen

LEMMA BeginningGrows ==
  ASSUME NEW s \in Seq(Byte), NEW r \in Seq(Byte)
  PROVE  Beginning(s) \o Missed(Beginning(s), r) = Beginning(s \o r)
<1> DEFINE a == Beginning(s)
           b == Missed(a, r)
           n == IF Len(r) < SniffLen - Len(a) THEN Len(r) ELSE SniffLen - Len(a)
           t == s \o r
           c == Beginning(t)
<1>1. /\ a \in Seq(Byte) /\ Len(s) \in Nat /\ Len(a) = Lesser(SniffLen, Len(s))
      /\ \A i \in 1..Len(a) : a[i] = s[i]
  BY BeginningFacts, LenProperties
<1>2. /\ t \in Seq(Byte) /\ Len(r) \in Nat /\ Len(t) = Len(s) + Len(r)
      /\ \A i \in 1..(Len(s) + Len(r)) : t[i] = IF i <= Len(s) THEN s[i] ELSE r[i - Len(s)]
  BY ConcatProperties, LenProperties
<1> HIDE DEF t
<1>3. /\ c \in Seq(Byte) /\ Len(c) = Lesser(SniffLen, Len(t))
      /\ \A i \in 1..Len(c) : c[i] = t[i]
  BY <1>2, BeginningFacts
<1> HIDE DEF a, c
<1>4. /\ Len(a) <= Len(s) /\ n \in Nat /\ n <= Len(r)
      /\ Len(a) + n = Lesser(SniffLen, Len(s) + Len(r)) /\ Len(a) + n <= Len(s) + Len(r)
      /\ n > 0 => Len(a) = Len(s)
  BY <1>1, <1>2, MissedLength
<1>5. b \in Seq(Byte) /\ Len(b) = n /\ \A i \in 1..n : b[i] = r[i]
  <2> HIDE DEF n
  <2>1. \A i \in 1..n : r[i] \in Byte
    BY <1>2, <1>4, ElementOfSeq
  <2>2. /\ SubSeq(r, 1, n) \in Seq(Byte)
        /\ Len(SubSeq(r, 1, n)) = IF 1 <= n THEN n - 1 + 1 ELSE 0
        /\ \A i \in 1..(n - 1 + 1) : SubSeq(r, 1, n)[i] = r[1 + i - 1]
    BY <1>4, <2>1, SubSeqProperties
  <2>3. Len(SubSeq(r, 1, n)) = n /\ \A i \in 1..n : SubSeq(r, 1, n)[i] = r[i]
    BY <1>4, <2>2
  <2>4. b = SubSeq(r, 1, n)
    BY DEF Missed, n
  <2> HIDE DEF b
  <2> QED
    BY <2>2, <2>3, <2>4
<1> HIDE DEF b
<1>6. /\ a \o b \in Seq(Byte) /\ Len(a \o b) = Len(a) + Len(b)
      /\ \A i \in 1..(Len(a) + Len(b)) : (a \o b)[i] = IF i <= Len(a) THEN a[i] ELSE b[i - Len(a)]
  BY <1>1, <1>5, ConcatProperties
<1> DEFINE d == a \o b
<1>7. Len(d) = Len(c) /\ Len(d) = Len(a) + n
  <2>1. Len(d) = Len(a) + n /\ Len(c) = Lesser(SniffLen, Len(s) + Len(r))
    BY <1>2, <1>3, <1>5, <1>6
  <2> QED
    BY <1>4, <2>1
<1>8. ASSUME NEW i \in 1..Len(d)
      PROVE  d[i] = c[i]
  <2>1. i \in Nat /\ i >= 1 /\ i <= Len(a) + n /\ Len(a) + n <= Len(s) + Len(r)
    <3> HIDE DEF d, n
    <3> QED
      BY <1>1, <1>2, <1>4, <1>7
  <2>2. c[i] = t[i] /\ d[i] = IF i <= Len(a) THEN a[i] ELSE b[i - Len(a)]
    BY <1>3, <1>5, <1>6, <1>7
  <2>3. CASE i <= Len(a)
    <3>1. i <= Len(s) /\ i \in 1..Len(a) /\ i \in 1..(Len(s) + Len(r))
      BY <1>1, <1>2, <1>4, <2>1, <2>3
    <3> QED
      BY <1>1, <1>2, <2>2, <2>3, <3>1
  <2>4. CASE ~(i <= Len(a))
    <3> HIDE DEF n
    <3>1. n > 0
      BY <1>1, <1>4, <2>1, <2>4
    <3>2. Len(a) = Len(s)
      BY <1>4, <3>1
    <3>3. i - Len(a) \in 1..n /\ i \in 1..(Len(s) + Len(r))
      BY <1>1, <1>2, <1>4, <2>1, <2>4, <3>2
    <3> QED
      BY <1>2, <1>5, <2>2, <2>4, <3>2, <3>3
  <2> QED
    BY <2>3, <2>4
<1>9. d = c
  <2> HIDE DEF d
  <2> QED
    BY <1>3, <1>6, <1>7, <1>8, SeqEqual DEF d
<1> QED
  BY <1>9 DEF a, b, c, t

BeganWith(head, bytes) == bytes \in Seq(Byte) /\ head = Beginning(bytes)

LEMMA HeadIsBeginning ==
  ASSUME NEW rs \in Reads
  PROVE  BeganWith(ReadHead(rs), Bytes(rs))
<1> DEFINE m == Len(rs)
<1>1. m \in Nat /\ \A i \in 1..m : rs[i] \in Seq(Byte)
  BY LenProperties, ElementOfSeq DEF Reads
<1>2. PICK f : BytesUpto(f, rs)
  BY ByteSteps
<1>3. PICK h : HeadUpto(h, rs)
  BY HeadSteps
<1>4. /\ f[0] = <<>> /\ f[m] = Bytes(rs) /\ h[0] = <<>> /\ h[m] = ReadHead(rs)
      /\ \A k \in Nat : k < m => /\ f[k + 1] = f[k] \o rs[k + 1]
                                 /\ h[k + 1] = h[k] \o Missed(h[k], rs[k + 1])
  BY <1>2, <1>3 DEF BytesUpto, HeadUpto
<1> HIDE DEF m
<1> DEFINE Good == {k \in Nat : k <= m => BeganWith(h[k], f[k])}
<1>5. 0 \in Good
  <2>1. <<>> \in Seq(Byte) /\ Len(<<>>) = 0
    BY EmptySeq
  <2>2. Len(Beginning(<<>>)) = 0 /\ Beginning(<<>>) \in Seq(Byte)
    <3>1. Len(Beginning(<<>>)) = Lesser(SniffLen, Len(<<>>)) /\ Beginning(<<>>) \in Seq(Byte)
      BY <2>1, BeginningFacts
    <3>2. Lesser(SniffLen, 0) = 0
      BY DEF Lesser, SniffLen
    <3> QED
      BY <2>1, <3>1, <3>2
  <2>3. Beginning(<<>>) = <<>>
    BY <2>2, EmptySeq
  <2> QED
    BY <1>4, <2>1, <2>3 DEF BeganWith
<1>6. ASSUME NEW k \in Nat, k \in Good
      PROVE  k + 1 \in Good
  <2>1. SUFFICES ASSUME k + 1 <= m PROVE BeganWith(h[k + 1], f[k + 1])
    OBVIOUS
  <2>2. k < m /\ k + 1 \in 1..m
    BY <1>1, <2>1
  <2>3. BeganWith(h[k], f[k])
    BY <1>1, <1>6, <2>2
  <2>4. rs[k + 1] \in Seq(Byte) /\ f[k] \in Seq(Byte)
    BY <1>1, <2>2, <2>3 DEF BeganWith
  <2>5. h[k] \o Missed(h[k], rs[k + 1]) = Beginning(f[k] \o rs[k + 1])
    BY <2>3, <2>4, BeginningGrows DEF BeganWith
  <2>6. f[k] \o rs[k + 1] \in Seq(Byte)
    BY <2>4, ConcatProperties
  <2> QED
    BY <1>4, <2>2, <2>5, <2>6 DEF BeganWith
<1>7. m \in Good
  <2> HIDE DEF Good
  <2> QED
    BY <1>1, <1>5, <1>6, Induction
<1> QED
  BY <1>1, <1>4, <1>7

(* The head says what the bytes do, and with the rest of them it is them.  *)
LEMMA SniffedFromStart ==
  ASSUME NEW s \in Seq(Byte)
  PROVE  /\ Sniff(Beginning(s)) = IF IsPrefix(Magic, s) THEN "gzip" ELSE "none"
         /\ Beginning(s) \o SubSeq(s, Len(Beginning(s)) + 1, Len(s)) = s
<1> DEFINE a == Beginning(s)
           n == Lesser(SniffLen, Len(s))
<1>1. /\ a \in Seq(Byte) /\ Len(s) \in Nat /\ Len(a) = n /\ n \in Nat /\ n <= Len(s)
      /\ \A i \in 1..n : a[i] = s[i]
  BY BeginningFacts, LenProperties
<1>2. Len(Magic) = 3
  BY DEF Magic
<1>3. Len(a) >= 3 <=> Len(s) >= 3
  BY <1>1 DEF Lesser, SniffLen
<1>4. a = SubSeq(s, 1, n)
  BY DEF Beginning
<1> HIDE DEF a, n
<1>5. ASSUME Len(s) >= 3
      PROVE  SubSeq(a, 1, 3) = SubSeq(s, 1, 3)
  <2>1. 3 <= n
    BY <1>1, <1>3, <1>5
  <2>2. \A i \in 1..3 : a[i] = s[i] /\ a[i] \in Byte /\ s[i] \in Byte
    BY <1>1, <1>5, <2>1, ElementOfSeq
  <2>3. /\ SubSeq(a, 1, 3) \in Seq(Byte)
        /\ Len(SubSeq(a, 1, 3)) = IF 1 <= 3 THEN 3 - 1 + 1 ELSE 0
        /\ \A i \in 1..(3 - 1 + 1) : SubSeq(a, 1, 3)[i] = a[1 + i - 1]
    BY <2>2, SubSeqProperties
  <2>4. /\ SubSeq(s, 1, 3) \in Seq(Byte)
        /\ Len(SubSeq(s, 1, 3)) = IF 1 <= 3 THEN 3 - 1 + 1 ELSE 0
        /\ \A i \in 1..(3 - 1 + 1) : SubSeq(s, 1, 3)[i] = s[1 + i - 1]
    BY <2>2, SubSeqProperties
  <2>5. /\ Len(SubSeq(a, 1, 3)) = Len(SubSeq(s, 1, 3))
        /\ \A i \in 1..Len(SubSeq(a, 1, 3)) : SubSeq(a, 1, 3)[i] = SubSeq(s, 1, 3)[i]
    BY <2>2, <2>3, <2>4
  <2> QED
    BY <2>3, <2>4, <2>5, SeqEqual
<1>6. IsPrefix(Magic, a) <=> IsPrefix(Magic, s)
  BY <1>1, <1>2, <1>3, <1>5 DEF IsPrefix
<1>7. IsPrefix(Magic, s) => Len(a) >= 3
  BY <1>1, <1>2, <1>3 DEF IsPrefix
<1>8. Sniff(a) = IF IsPrefix(Magic, s) THEN "gzip" ELSE "none"
  BY <1>6, <1>7 DEF Sniff
<1>9. a \o SubSeq(s, Len(a) + 1, Len(s)) = s
  <2>1. 1 \in 1..(Len(s) + 1) /\ n \in (1 - 1)..Len(s) /\ Len(s) \in n..Len(s)
    BY <1>1
  <2>2. SubSeq(s, 1, n) \o SubSeq(s, n + 1, Len(s)) = SubSeq(s, 1, Len(s))
    BY <2>1, ConcatAdjacentSubSeq
  <2>3. SubSeq(s, 1, Len(s)) = s
    BY SubSeqFull
  <2> QED
    BY <1>1, <1>4, <2>2, <2>3
<1> QED
  BY <1>8, <1>9 DEF a

(* What is opened as an image is read or decoded from its first byte,      *)
(* however its bytes arrive and whatever was read to sniff them, by path   *)
(* and as standard input alike (source.rs:127).                            *)
THEOREM ImagesAreOpenedFromStart == Spec => []OpenedFromStart
<1>1. InputsInv => OpenedFromStart
  <2> SUFFICES ASSUME InputsInv PROVE OpenedFromStart
    OBVIOUS
  <2> DEFINE s == Bytes(reads)
             head == ReadHead(reads)
             Packed(mode) == mode = "gzip" \/ (mode = "auto" /\ IsPrefix(Magic, Bytes(reads)))
             Opened(mode) == {FromReaderAuto(reads, mode)}
                             \cup {OpenAuto(k, reads, mode) : k \in {"file", "block"}}
             Right(mode, x) == /\ x.from = Bytes(reads)
                               /\ x.compression = IF Packed(mode) THEN "gzip" ELSE "none"
                               /\ ~x.stream => x.size = Len(Bytes(reads))
  <2>1. reads \in Reads
    BY DEF InputsInv, Reads
  <2>2. s \in Seq(Byte) /\ head = Beginning(s)
    BY <2>1, HeadIsBeginning DEF BeganWith
  <2>3. /\ Sniff(head) = IF IsPrefix(Magic, s) THEN "gzip" ELSE "none"
        /\ head \o After(reads, Len(head)) = s
    BY <2>2, SniffedFromStart DEF After
  <2>4. After(reads, 0) = s
    BY <2>2, SubSeqFull DEF After
  <2> HIDE DEF s, head
  <2>5. ASSUME NEW mode \in {"auto", "never", "gzip"}
        PROVE  /\ Resolve(mode, head) = IF Packed(mode) THEN "gzip" ELSE "none"
               /\ Resolve(mode, <<>>) = "none" \/ mode # "never"
    BY <2>3 DEF Resolve, s
  <2>6. ASSUME NEW mode \in {"auto", "never", "gzip"}
        PROVE  Right(mode, FromReaderAuto(reads, mode))
    <3>1. CASE mode = "never"
      BY <3>1 DEF FromReaderAuto
    <3>2. CASE mode # "never"
      <4>1. FromReaderAuto(reads, mode)
              = [stream |-> TRUE, compression |-> Resolve(mode, head), from |-> s]
        BY <2>3, <3>2 DEF FromReaderAuto, head
      <4> QED
        BY <2>5, <4>1 DEF s
    <3> QED
      BY <3>1, <3>2
  <2>7. ASSUME NEW mode \in {"auto", "never", "gzip"}, NEW k \in {"file", "block"}
        PROVE  Right(mode, OpenAuto(k, reads, mode))
    <3> DEFINE c == IF Packed(mode) THEN "gzip" ELSE "none"
    <3>1. Resolve(mode, IF mode = "never" THEN <<>> ELSE ReadHead(reads)) = c
      <4>1. CASE mode = "never"
        BY <4>1 DEF Resolve
      <4>2. CASE mode # "never"
        BY <2>5, <4>2 DEF head
      <4> QED
        BY <4>1, <4>2
    <3>2. k # "pipe"
      OBVIOUS
    <3> HIDE DEF Packed, c
    <3>3. OpenAuto(k, reads, mode)
            = IF c = "gzip"
              THEN [stream |-> TRUE, compression |-> c, from |-> s]
              ELSE [stream |-> FALSE, compression |-> c, from |-> s, size |-> Len(s)]
      BY <2>4, <3>1, <3>2 DEF OpenAuto, Rewound, s
    <3> QED
      BY <3>3 DEF s, c
  <2>8. \A mode \in {"auto", "never", "gzip"} : \A x \in Opened(mode) : Right(mode, x)
    <3> HIDE DEF Right
    <3> QED
      BY <2>6, <2>7
  <2> QED
    BY <2>8, Zenon DEF OpenedFromStart
<1> QED
  BY <1>1, InputsHold, PTL

=============================================================================
