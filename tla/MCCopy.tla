------------------------------- MODULE MCCopy -------------------------------
(***************************************************************************)
(* Calls of copy for TLC.  Images have up to five cells in blocks of two,  *)
(* so the last block is partial; two buffers; offsets end at MaxOffset.    *)
(***************************************************************************)
EXTENDS ReadBack

Base ==
  [bmap |-> FALSE, stream |-> FALSE, holes |-> FALSE, zeros |-> TRUE, zeroMode |-> FALSE,
   verify |-> TRUE, sync |-> TRUE, wipe |-> FALSE, zap |-> 0, bs |-> 2, batch |-> 2,
   ranges |-> <<>>, size |-> 5, srcLen |-> 5, data |-> {0, 3}, mark |-> 3, offset |-> 0,
   kind |-> "device", cap |-> 6, len |-> 0, readBack |-> FALSE, stdin |-> FALSE]

R(first, last, sum) == [first |-> first, last |-> last, sum |-> sum]

(* Ascending, disjoint ranges over three blocks, touching ones included.   *)
RangeLists(s) ==
  {<<>>, <<R(0, 0, s)>>, <<R(1, 1, s)>>, <<R(2, 2, s)>>, <<R(0, 2, s)>>,
   <<R(0, 0, s), R(2, 2, s)>>, <<R(0, 1, "none"), R(2, 2, s)>>,
   <<R(0, 0, s), R(1, 1, "good"), R(2, 2, "none")>>}

(* Bmap::parse checks each range and the sum of their lengths, not their   *)
(* order: these lists pass it too.                                         *)
Disordered ==
  {<<R(2, 2, "good"), R(0, 0, "good")>>, <<R(0, 1, "good"), R(1, 2, "good")>>,
   <<R(2, 2, "none"), R(2, 2, "none")>>, <<R(1, 2, "none"), R(0, 2, "none")>>}

(* Copies with a bmap: every list of ranges, checksums that agree and that *)
(* do not, both zero modes, one block to a batch and two, an image in a    *)
(* file and one in a stream, also one that is shorter or longer than the   *)
(* bmap says.                                                              *)
BmapJobs ==
  {[Base EXCEPT !.bmap = TRUE, !.ranges = rs, !.data = d, !.zeroMode = z, !.stream = st,
                !.verify = v, !.batch = b] :
     rs \in RangeLists("good") \cup RangeLists("bad"), d \in {{0, 3}, {3, 4}},
     z \in BOOLEAN, st \in BOOLEAN, v \in BOOLEAN, b \in {2, 4}}
  \cup
  {[Base EXCEPT !.bmap = TRUE, !.ranges = rs, !.data = {1}, !.srcLen = n, !.zeroMode = z,
                !.stream = st] :
     rs \in RangeLists("good") \cup Disordered, n \in {3, 5, 7}, z \in BOOLEAN,
     st \in BOOLEAN}

(* Copies without one: a file whose holes are found, a file read through,  *)
(* a stream; one batch per block and two; zero detection on and off; an    *)
(* image that was truncated or extended after it was opened.               *)
ScanJobs ==
  {[Base EXCEPT !.holes = TRUE, !.ranges = rs, !.data = d, !.zeroMode = z, !.batch = b,
                !.zeros = zs] :
     rs \in {<<R(0, 2, "none")>>, <<R(0, 0, "none"), R(2, 2, "none")>>},
     d \in {{0}, {1, 4}, {0, 1, 4}}, z \in BOOLEAN, b \in {1, 4}, zs \in BOOLEAN}
  \cup
  {[Base EXCEPT !.stream = st, !.data = d, !.zeroMode = z, !.batch = b, !.zeros = zs] :
     st \in BOOLEAN, d \in {{}, {3}, {1, 4}}, z \in BOOLEAN, b \in {2, 4}, zs \in BOOLEAN}
  \cup
  {[Base EXCEPT !.stream = st, !.data = {0, 2}, !.size = n, !.srcLen = 4, !.kind = k] :
     st \in BOOLEAN, n \in {3, 5}, k \in {"device", "file"}}

ImageJobs == BmapJobs \cup ScanJobs

(* Destinations: devices with room, without, and at an offset; files that  *)
(* are longer or shorter than the image; a sink; cleared or not; every     *)
(* watermark; a stream whose trailing zeroes do not fit.                   *)
DestJobs ==
  {[Base EXCEPT !.bmap = TRUE, !.ranges = <<R(0, 0, "none"), R(1, 1, "none")>>,
                !.data = {1, 2}, !.zeroMode = z, !.mark = m, !.offset = o,
                !.cap = c, !.wipe = (w = 9), !.zap = w % 9] :
     z \in BOOLEAN, m \in {0, 2, 3}, o \in {0, 1}, c \in {4, 5, 7}, w \in {0, 2, 4, 9}}
  \cup
  {[Base EXCEPT !.stream = st, !.size = 3, !.srcLen = 3, !.data = {0}, !.zeroMode = z,
                !.offset = o, !.kind = "file", !.len = l, !.wipe = w, !.zap = IF w THEN 0 ELSE 2] :
     st \in BOOLEAN, z \in BOOLEAN, o \in {0, 2}, l \in {0, 2, 4, 7}, w \in BOOLEAN}
  \cup
  {[Base EXCEPT !.kind = "sink", !.zeroMode = z, !.wipe = w] : z \in BOOLEAN, w \in BOOLEAN}
  \cup
  {[Base EXCEPT !.offset = 4, !.stream = TRUE, !.srcLen = 3, !.cap = c, !.data = {0}] :
     c \in {5, 6, 7}}
  \cup
  {[Base EXCEPT !.stream = TRUE, !.cap = 4, !.data = {0}, !.wipe = w] : w \in BOOLEAN}
  \cup
  {[Base EXCEPT !.offset = 4, !.size = 6, !.srcLen = 4, !.bmap = TRUE, !.data = {}]}

(* A mixture, with gaps before, between and after the ranges and checksums *)
(* that fail: for the threads of a copy, and for its liveness.             *)
ThreadJobs ==
  {[Base EXCEPT !.bmap = TRUE, !.ranges = rs, !.data = {0, 3}, !.zeroMode = z, !.stream = st] :
     rs \in RangeLists("bad"), z \in BOOLEAN, st \in BOOLEAN}
  \cup {[Base EXCEPT !.stream = st, !.wipe = TRUE] : st \in BOOLEAN}

(* Copies that are read back: from a file, a compressed file and standard  *)
(* input; with both zero modes; with a map of another image; to a device   *)
(* and to a file, at offsets; to a sink.                                   *)
VerifyJobs ==
  {[Base EXCEPT !.readBack = TRUE, !.stream = st, !.zeroMode = z, !.offset = o, !.kind = k,
                !.len = 7, !.batch = b, !.data = d] :
     st \in BOOLEAN, z \in BOOLEAN, o \in {0, 1}, k \in {"device", "file"}, b \in {2, 4},
     d \in {{0, 3}, {4}}}
  \cup
  {[Base EXCEPT !.readBack = TRUE, !.bmap = TRUE, !.ranges = rs, !.stream = st, !.stdin = si,
                !.wipe = w, !.data = {0, 3}] :
     rs \in {<<R(0, 1, "good")>>, <<R(0, 0, "none"), R(1, 1, "good")>>, <<R(0, 0, "none")>>},
     st \in {TRUE}, si \in BOOLEAN, w \in BOOLEAN}
  \cup {[Base EXCEPT !.readBack = TRUE, !.kind = "sink"],
        [Base EXCEPT !.readBack = TRUE, !.stream = TRUE, !.cap = 4, !.data = {0}, !.wipe = TRUE]}

CopyJobs == ImageJobs \cup DestJobs \cup ThreadJobs \cup VerifyJobs

-----------------------------------------------------------------------------
(* The calls that show what the documentation gets wrong, one each.        *)

StreamTooLong == {[Base EXCEPT !.stream = TRUE, !.cap = 4]}

OddBatch == {[Base EXCEPT !.batch = 3, !.data = {3}]}

ForeignBmap ==
  {[Base EXCEPT !.bmap = TRUE, !.ranges = <<R(0, 0, "none")>>, !.data = {0, 3}]}

TooLarge == {[Base EXCEPT !.cap = 4]}

FromStdin == {[Base EXCEPT !.stream = TRUE, !.stdin = TRUE, !.readBack = TRUE]}

=============================================================================
