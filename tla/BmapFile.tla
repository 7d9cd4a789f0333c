------------------------------ MODULE BmapFile ------------------------------
(***************************************************************************)
(* bmap.rs and checksum.rs: the block map as a file.  A document is a      *)
(* record of what Bmap::parse looks for in the text; layout and comments   *)
(* are left out, but they are covered by the digest, as everything is.     *)
(*                                                                         *)
(*   cut       how much of its end is missing: 0 nothing, 1 what comes     *)
(*             after the last tag, 2 more, so that it is no document       *)
(*   version   <<major, minor>>, or <<>> if it cannot be read              *)
(*   size, bs, blocks, mapped   the four numbers                           *)
(*   type      ChecksumType, "none" if it is not there                     *)
(*   digest    what the document records as its own digest                 *)
(*   ranges    [first, last, sum]: a sum of <<>> is no attribute           *)
(*   attr      the name of that attribute                                  *)
(*                                                                         *)
(* A digest is what it was computed from, so two are equal only if the     *)
(* kinds and the documents are.                                            *)
(***************************************************************************)
EXTENDS Blocks

Missing == -1  \* a number that is not there, or not a number

ChecksumKinds == {"sha1", "sha256", "sha512"}

(* ChecksumKind::default, and BMAP_FORMAT_VERSION.                         *)
DefaultKind == "sha256"
FormatVersion == <<2, 0>>

(* element: which element holds it.  hex_len tells the kinds apart.        *)
NoDigest == [element |-> "none", kind |-> "none", of |-> <<>>]

Digest(element, kind, doc) ==
  [element |-> element, kind |-> kind, of |-> [doc EXCEPT !.digest = NoDigest]]

-----------------------------------------------------------------------------
(* Bmap::render: always a document of the newest version, with a digest    *)
(* of the default kind for a map that has no kind.                         *)

RenderedKind(map) == IF map.kind = "none" THEN DefaultKind ELSE map.kind

Render(map) ==
  LET body == [cut |-> 0, version |-> FormatVersion, size |-> map.size, bs |-> map.bs,
               blocks |-> map.blocks, mapped |-> map.mapped, type |-> RenderedKind(map),
               digest |-> NoDigest, ranges |-> map.ranges, attr |-> "chksum"]
  IN  [body EXCEPT !.digest = Digest("BmapFileChecksum", body.type, body)]

-----------------------------------------------------------------------------
(* Bmap::parse.                                                            *)

Major(doc) == doc.version[1]
Minor(doc) == doc.version[2]

NamesKind(doc) == Major(doc) > 1 \/ (Major(doc) = 1 /\ Minor(doc) >= 4)

(* Version 1.3 is all sha1; what is older has no digests.                  *)
Kind(doc) ==
  IF NamesKind(doc) THEN doc.type ELSE IF doc.version = <<1, 3>> THEN "sha1" ELSE "none"

DigestElement(doc) == IF NamesKind(doc) THEN "BmapFileChecksum" ELSE "BmapFileSHA1"

NumbersMissing(doc) == Missing \in {doc.size, doc.bs, doc.blocks, doc.mapped}

(* Broken: a document without an own digest is taken as it is.             *)
SelfDigest_Optional(doc) ==
  IF Kind(doc) = "none" \/ doc.digest.element # DigestElement(doc) THEN "ok"
  ELSE IF doc.digest.kind # Kind(doc) THEN "BmapParse"
  ELSE IF doc.digest # Digest(DigestElement(doc), Kind(doc), doc) THEN "BmapChecksum"
  ELSE "ok"

(* verify_self_digest: a digest of another kind has another length.        *)
SelfDigest(doc) ==
  IF Kind(doc) = "none" THEN "ok"
  ELSE IF doc.digest.element # DigestElement(doc) \/ doc.digest.kind # Kind(doc) THEN "BmapParse"
  ELSE IF doc.digest # Digest(DigestElement(doc), Kind(doc), doc) THEN "BmapChecksum"
  ELSE "ok"

Covered(ranges) == FoldLeft(LAMBDA n, r : n + r.last - r.first + 1, 0, ranges)

(* Broken: a range may end one block past the image.                       *)
RangesFit_OffByOne(doc) ==
  /\ \A i \in 1..Len(doc.ranges) :
       doc.ranges[i].first <= doc.ranges[i].last /\ doc.ranges[i].last <= doc.blocks
  /\ Covered(doc.ranges) = doc.mapped

RangesFit(doc) ==
  /\ \A i \in 1..Len(doc.ranges) :
       doc.ranges[i].first <= doc.ranges[i].last /\ doc.ranges[i].last < doc.blocks
  /\ Covered(doc.ranges) = doc.mapped

(* What parse answers: "ok" or the error.                                  *)
ParseAnswer(doc) ==
  IF doc.cut = 2 \/ doc.version = <<>> THEN "BmapParse"
  ELSE IF Major(doc) > FormatVersion[1] THEN "UnsupportedBmapVersion"
  ELSE IF NumbersMissing(doc) \/ doc.bs = 0 THEN "BmapParse"
  ELSE IF doc.blocks # CeilDiv(doc.size, doc.bs) THEN "BmapParse"
  ELSE IF NamesKind(doc) /\ doc.type = "none" THEN "BmapParse"
  ELSE IF NamesKind(doc) /\ doc.type \notin ChecksumKinds THEN "UnsupportedChecksum"
  ELSE IF SelfDigest(doc) # "ok" THEN SelfDigest(doc)
  ELSE IF ~RangesFit(doc) THEN "BmapParse"
  ELSE "ok"

RangeAttr(doc) == IF doc.version = <<1, 3>> THEN "sha1" ELSE "chksum"

(* The Bmap of a document that is accepted.                                *)
Parsed(doc) ==
  [size |-> doc.size, bs |-> doc.bs, blocks |-> doc.blocks, mapped |-> doc.mapped,
   kind |-> Kind(doc),
   ranges |-> [i \in 1..Len(doc.ranges) |->
                 IF doc.attr = RangeAttr(doc) THEN doc.ranges[i]
                 ELSE [doc.ranges[i] EXCEPT !.sum = <<>>]]]

-----------------------------------------------------------------------------
(* The names of bmap files.  A name is the sequence of its parts between   *)
(* dots, so ".gz" is <<"", "gz">>.                                         *)

DefaultBmapPath(image) == Append(image, "bmap")

(* A leading dot does not begin an extension.                              *)
HasExtension(name) == Len(name) > 1 /\ (Head(name) = "" => Len(name) > 2)

CompressedName(name) == HasExtension(name) /\ Last(name) \in {"gz", "gzip"}

BmapCandidates(image) ==
  <<DefaultBmapPath(image)>>
  \o (IF CompressedName(image) THEN <<DefaultBmapPath(Front(image))>> ELSE <<>>)

(* Broken: the name next to the compressed image.                          *)
DefaultOutputPath_Head(image) == Head(BmapCandidates(image))

(* Where create writes when it is not told.                                *)
DefaultOutputPath(image) == Last(BmapCandidates(image))

(* resolve_bmap without --bmap and --no-bmap: the first candidate that is  *)
(* one of `files`, at most one.                                            *)
Discovered(image, files) ==
  {BmapCandidates(image)[i] : i \in
     {k \in DOMAIN BmapCandidates(image) :
        /\ BmapCandidates(image)[k] \in files
        /\ \A j \in 1..(k - 1) : BmapCandidates(image)[j] \notin files}}

=============================================================================
