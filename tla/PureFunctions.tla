--------------------------- MODULE PureFunctions ---------------------------
(***************************************************************************)
(* The functions that keep no state.  The inputs of Blocks are grown one   *)
(* cell or one range at a time, and what it computes compared with a       *)
(* definition by sets of cells and blocks; bmap files are rendered, then   *)
(* damaged, sealed with a digest again as another tool would, and damaged  *)
(* once more; names are grown part by part.                                *)
(***************************************************************************)
EXTENDS BmapFile, Opening, FiniteSets

CONSTANTS MaxCells,   \* the longest buffer
          MaxRanges,  \* the longest list of ranges
          MaxEnd,     \* the largest end of a range
          BlockSizes,
          Maps,       \* the maps that are rendered
          Damages,    \* what may become of a field: records [field, value]
          Parts,      \* the parts of names
          MaxParts,
          Byte,       \* the bytes of what is opened
          MaxBytes

ASSUME MaxEndAssumption == MaxEnd \in Nat

ASSUME BlockSizesAssumption == BlockSizes \subseteq Nat \ {0}

(* The numbers of a Bmap are u64, and so are those parse reads.            *)
ListedRange == [first : Nat, last : Nat, sum : Seq(Nat)]

ASSUME MapsAssumption ==
  \A m \in Maps :
    m \in [size : Nat, bs : Nat \ {0}, blocks : Nat, mapped : Nat,
          kind : ChecksumKinds \cup {"none"}, ranges : Seq(ListedRange)]

(* A field becomes something parse can tell apart; and digests do not      *)
(* collide, so a damaged one is as good as none.                           *)
ASSUME DamagesAssumption ==
  \A d \in Damages :
    /\ d.field \in {"size", "bs", "blocks", "mapped"} => d.value \in Nat \cup {Missing}
    /\ d.field = "ranges" => d.value \in Seq(ListedRange)
    /\ d.field = "digest" => d.value = NoDigest

VARIABLES
  cells, ranges,  \* inputs of Blocks
  doc, whole,     \* a document, and what it was when it was last sealed
  step,           \* what was done to it
  name,           \* of an image
  reads           \* what is opened as one

vars == <<cells, ranges, doc, whole, step, name, reads>>

Init ==
  /\ cells = <<>> /\ ranges = <<>> /\ name = <<>> /\ reads = <<>>
  /\ doc = <<>> /\ whole = <<>> /\ step = "none"

AddCell ==
  /\ ranges = <<>> /\ step = "none" /\ name = <<>> /\ reads = <<>>
  /\ Len(cells) < MaxCells
  /\ \E x \in {Zero, 1} : cells' = Append(cells, x)
  /\ UNCHANGED <<ranges, doc, whole, step, name, reads>>

(* Ranges come sorted by their starts; an empty one may be among them.     *)
AddRange ==
  /\ cells = <<>> /\ step = "none" /\ name = <<>> /\ reads = <<>>
  /\ Len(ranges) < MaxRanges
  /\ \E s, e \in 0..MaxEnd :
       /\ s <= e
       /\ \A i \in 1..Len(ranges) : ranges[i].start <= s
       /\ ranges' = Append(ranges, [start |-> s, end |-> e])
  /\ UNCHANGED <<cells, doc, whole, step, name, reads>>

RenderDoc ==
  /\ cells = <<>> /\ ranges = <<>> /\ step = "none" /\ name = <<>> /\ reads = <<>>
  /\ \E m \in Maps : doc' = Render(m) /\ whole' = Render(m)
  /\ step' = "rendered"
  /\ UNCHANGED <<cells, ranges, name, reads>>

DamageDoc ==
  /\ step \in {"rendered", "sealed"}
  /\ \E d \in Damages : doc' = [doc EXCEPT ![d.field] = d.value]
  /\ step' = IF step = "rendered" THEN "damaged" ELSE "damaged again"
  /\ UNCHANGED <<cells, ranges, whole, name, reads>>

SealDoc ==
  /\ step = "damaged" /\ doc.version # <<>>
  /\ doc' = IF Kind(doc) = "none" THEN [doc EXCEPT !.digest = NoDigest]
            ELSE [doc EXCEPT !.digest = Digest(DigestElement(doc), Kind(doc), doc)]
  /\ whole' = doc'
  /\ step' = "sealed"
  /\ UNCHANGED <<cells, ranges, name, reads>>

AddPart ==
  /\ cells = <<>> /\ ranges = <<>> /\ step = "none" /\ reads = <<>>
  /\ Len(name) < MaxParts
  /\ \E part \in Parts : (part # "" \/ name = <<>>) /\ name' = Append(name, part)
  /\ UNCHANGED <<cells, ranges, doc, whole, step, reads>>

(* The next byte comes with the last read, or with one of its own.         *)
AddByte ==
  /\ cells = <<>> /\ ranges = <<>> /\ step = "none" /\ name = <<>>
  /\ Len(Bytes(reads)) < MaxBytes
  /\ \E b \in Byte :
       \/ reads' = Append(reads, <<b>>)
       \/ reads # <<>> /\ reads' = Append(Front(reads), Append(Last(reads), b))
  /\ UNCHANGED <<cells, ranges, doc, whole, step, name>>

Full ==
  /\ \/ Len(cells) = MaxCells \/ Len(ranges) = MaxRanges \/ Len(name) = MaxParts
     \/ Len(Bytes(reads)) = MaxBytes
     \/ step \in {"damaged", "damaged again"}
  /\ UNCHANGED vars

Next == AddCell \/ AddRange \/ RenderDoc \/ DamageDoc \/ SealDoc \/ AddPart \/ AddByte \/ Full

Spec == Init /\ [][Next]_vars

-----------------------------------------------------------------------------

Touched(rs) == UNION {rs[i].start..(rs[i].end - 1) : i \in 1..Len(rs)}
BlockSet(rs) == UNION {rs[i].first..rs[i].last : i \in 1..Len(rs)}
BlockOf(c, bs) == c \div bs

(* classify_blocks returns the maximal runs (zero.rs:51): the spans follow *)
(* each other from the start of the buffer to its end, begin at blocks and *)
(* alternate, and a cell lies in a zero span exactly if its whole block,   *)
(* as far as the buffer has it, is zero.  The fast path and the walk give  *)
(* the same.                                                               *)
SpansAreMaximalRuns ==
  \A bs \in BlockSizes :
    LET spans == ClassifyBlocks(cells, bs)
        n == Len(cells)
        end(i) == spans[i].offset + spans[i].len
        blockIsZero(c) ==
          \A k \in 1..n : BlockOf(k - 1, bs) = BlockOf(c, bs) => cells[k] = Zero
    IN  /\ cells # <<>> => spans # <<>> /\ Head(spans).offset = 0 /\ end(Len(spans)) = n
        /\ \A i \in 1..Len(spans) :
             /\ spans[i].len > 0
             /\ spans[i].offset % bs = 0
             /\ i > 1 => spans[i].offset = end(i - 1) /\ spans[i].zero # spans[i - 1].zero
             /\ \A c \in spans[i].offset..(end(i) - 1) : spans[i].zero <=> blockIsZero(c)

(* coalesce_byte_ranges drops and adds no byte, and leaves a gap between   *)
(* any two ranges of its result, in ascending order (range.rs:85): no list *)
(* with the same bytes is shorter.                                         *)
CoalescedIsMinimal ==
  LET out == CoalesceByteRanges(ranges)
  IN  /\ Touched(out) = Touched(ranges)
      /\ \A i \in 1..(Len(out) - 1) : out[i].end < out[i + 1].start

(* byte_ranges_to_blocks returns exactly the blocks the ranges touch, as   *)
(* ranges that ascend with an unmapped block between any two, whether the  *)
(* bytes were coalesced before or not (range.rs:107); coalescing them      *)
(* first is minimal as well.                                               *)
BlocksRoundOutward ==
  /\ CoalescedIsMinimal
  /\ \A bs \in BlockSizes, input \in {ranges, CoalesceByteRanges(ranges)} :
       LET out == ByteRangesToBlocks(input, bs)
       IN  /\ BlockSet(out) = {BlockOf(c, bs) : c \in Touched(ranges)}
           /\ \A i \in 1..Len(out) : out[i].first <= out[i].last
           /\ \A i \in 1..(Len(out) - 1) : out[i].last + 1 < out[i + 1].first

(* A bmap file that was changed in one place since its digest was made, or *)
(* lost its end, is refused, whatever the place; unless the version is now *)
(* one that has no digests (bmap.rs:86).                                   *)
DamageNoticed ==
  step # "none" /\ ParseAnswer(doc) = "ok" /\ Kind(doc) # "none" => doc = whole

(* Whatever a bmap file says, a map that parse returns is one that copy    *)
(* can follow: what CopyEngine assumes of its ranges.  (bmap.rs:131-190)   *)
AcceptedIsUsable ==
  step # "none" /\ ParseAnswer(doc) = "ok" =>
    LET m == Parsed(doc)
    IN  /\ m.bs > 0 /\ m.size > (m.blocks - 1) * m.bs
        /\ \A i \in 1..Len(m.ranges) : /\ m.ranges[i].first <= m.ranges[i].last
                                       /\ m.ranges[i].last * m.bs < m.size
        /\ Cardinality(BlockSet(m.ranges)) <= m.mapped
        /\ m.kind = "none" \/ m.kind \in ChecksumKinds

(* "That name is also the one `copy` looks for when handed either file"    *)
(* (run.rs:163): what create writes without -o, for an image or its        *)
(* compressed form, is found by a copy of either, unless a file with a     *)
(* more specific name is in the way.                                       *)
MapFoundAgain ==
  name # <<>> =>
    LET output == DefaultOutputPath(name)
    IN  \A image \in {name} \cup (IF CompressedName(name) THEN {Front(name)} ELSE {}) :
          Discovered(image, {output}) = {output}

(* Whatever is opened as an image, and however its bytes arrive, what is   *)
(* read or decoded is all of it from its first byte, in each mode; it is   *)
(* decoded exactly if that was forced, or begins with the magic bytes of   *)
(* gzip and that was not forbidden, by path as well as by standard input.  *)
(* (source.rs:127, decompress.rs:8)                                        *)
OpenedFromStart ==
  \A mode \in {"auto", "never", "gzip"} :
    LET opened == {FromReaderAuto(reads, mode)}
                  \cup {OpenAuto(k, reads, mode) : k \in {"file", "block"}}
        packed == mode = "gzip" \/ (mode = "auto" /\ IsPrefix(Magic, Bytes(reads)))
    IN  \A s \in opened : /\ s.from = Bytes(reads)
                          /\ s.compression = IF packed THEN "gzip" ELSE "none"
                          /\ ~s.stream => s.size = Len(Bytes(reads))

=============================================================================
