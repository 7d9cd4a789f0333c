------------------------------ MODULE Filemap ------------------------------
(***************************************************************************)
(* filemap.rs: finding the parts of a file that are backed by data with    *)
(* lseek, while others may be changing the file.                           *)
(*                                                                         *)
(* lseek moves the file offset that later reads start from; the module     *)
(* keeps it beside what data_byte_ranges knows.                            *)
(***************************************************************************)
EXTENDS Blocks, FiniteSets

CONSTANTS Images,   \* the files that may be opened, records like file below
          MaxLen    \* how long a file may grow

ASSUME MaxLenAssumption == MaxLen \in Nat

(* len      the length of the file                                         *)
(* extents  the cells backed by storage                                    *)
(* data     those that are not zero                                        *)
(* host     what may happen to it: the file system may "refuse" a lookup,  *)
(*          "contradict" itself, or fail with another error ("io"); others *)
(*          may "shrink" the file, "append" to what was there when it was  *)
(*          opened, or "punch" holes; a "read" of it may fail              *)
ASSUME ImagesAssumption ==
  \A f \in Images : /\ f \in [len : Nat, extents : SUBSET Nat, data : SUBSET Nat, host : SUBSET STRING]
                    /\ f.len <= MaxLen
                    /\ f.data \subseteq f.extents /\ f.extents \subseteq 0..(f.len - 1)

VARIABLES
  file,     \* the file as it is now
  size,     \* its length when it was opened, the image_size
  kpos,     \* the offset of the descriptor, which the kernel keeps
  look,     \* data_byte_ranges, see InitLook
  changed   \* history: somebody meddled with the file

fileVars == <<file, size, kpos, look, changed>>

(* at: the next call of lseek: "data", "hole" or "rewind"; or "answered".  *)
(* cursor, start, found: the local variables.  answer: "ranges" (found),   *)
(* "unknown" (Ok(None)), "io", or "none" yet.                              *)
InitLook == [at |-> "data", cursor |-> 0, start |-> 0, found |-> <<>>, answer |-> "none"]

Answered(answer) == [look EXCEPT !.at = "answered", !.answer = answer]

OpenFile(f) ==
  /\ file = f
  /\ size = f.len
  /\ kpos = 0
  /\ look = InitLook
  /\ changed = FALSE

-----------------------------------------------------------------------------
(* The kernel: where lseek finds data or a hole at or after c.  The end of *)
(* the file is a hole; past the end, or with no data left, it says ENXIO.  *)

DataFrom(c) == {d \in file.extents : d >= c}
HoleFrom(c) == {h \in 0..file.len : h >= c /\ h \notin file.extents}

Least(S) == {x \in S : \A y \in S : x <= y}

-----------------------------------------------------------------------------
(* data_byte_ranges.  Its loop ends at image_size, or when there is no     *)
(* data left, or none before image_size; then it rewinds.                  *)

AfterRange(cursor) == IF cursor < size THEN "data" ELSE "rewind"

NoMoreData ==
  /\ look.at = "data"
  /\ look.cursor >= file.len \/ DataFrom(look.cursor) = {}
  /\ look' = [look EXCEPT !.at = "rewind"]
  /\ UNCHANGED kpos

FindData ==
  /\ look.at = "data"
  /\ look.cursor < file.len
  /\ \E start \in Least(DataFrom(look.cursor)) :
       /\ kpos' = start
       /\ look' = IF start >= size THEN [look EXCEPT !.at = "rewind"]
                  ELSE [look EXCEPT !.at = "hole", !.start = start]

(* Broken: asks again when an answer makes no progress.                    *)
FoundRange_Retries(end) ==
  LET stop == Lesser(end, size)
  IN  IF stop <= look.start THEN [look EXCEPT !.at = "data"]
      ELSE [look EXCEPT !.at = AfterRange(stop), !.cursor = stop,
                        !.found = Append(@, [start |-> look.start, end |-> stop])]

(* The data that starts at look.start ends at `end`, clamped to the image; *)
(* a range without bytes means that hole information cannot be had.        *)
FoundRange(end) ==
  LET stop == Lesser(end, size)
  IN  IF stop <= look.start THEN Answered("unknown")
      ELSE [look EXCEPT !.at = AfterRange(stop), !.cursor = stop,
                        !.found = Append(@, [start |-> look.start, end |-> stop])]

FindHole ==
  /\ look.at = "hole"
  /\ look.start < file.len
  /\ \E hole \in Least(HoleFrom(look.start))
                 \cup (IF "contradict" \in file.host THEN {look.start} ELSE {}) :
       kpos' = hole /\ look' = FoundRange(hole)

(* The file was cut off before look.start: ENXIO, data up to image_size.   *)
FindHolePastEnd ==
  /\ look.at = "hole"
  /\ look.start >= file.len
  /\ look' = FoundRange(size)
  /\ UNCHANGED kpos

(* EINVAL, ENOSYS or EOPNOTSUPP, to any question, also after others were   *)
(* answered: no hole information, and no rewind.                           *)
Refused ==
  /\ "refuse" \in file.host
  /\ look.at \in {"data", "hole"}
  /\ look' = Answered("unknown")
  /\ UNCHANGED kpos

LookupFails ==
  /\ "io" \in file.host
  /\ look.at \in {"data", "hole", "rewind"}
  /\ look' = Answered("io")
  /\ UNCHANGED kpos

(* Broken: leaves the descriptor where the last lookup put it.             *)
Rewind_Skipped ==
  /\ look.at = "rewind"
  /\ UNCHANGED kpos
  /\ look' = [Answered("ranges") EXCEPT !.found = CoalesceByteRanges(look.found)]

Rewind ==
  /\ look.at = "rewind"
  /\ kpos' = 0
  /\ look' = [Answered("ranges") EXCEPT !.found = CoalesceByteRanges(look.found)]

DataByteRanges ==
  /\ \/ NoMoreData \/ FindData \/ FindHole \/ FindHolePastEnd
     \/ Refused \/ LookupFails \/ Rewind
  /\ UNCHANGED <<file, size, changed>>

(* candidate_ranges, when the lookup did not fail and holes were asked for *)
(* or not: every block if nothing is known.                                *)
CandidateRanges(useHoles, bs) ==
  IF useHoles /\ look.answer = "ranges" THEN ByteRangesToBlocks(look.found, bs)
  ELSE <<[first |-> 0, last |-> CeilDiv(size, bs) - 1]>>

-----------------------------------------------------------------------------
(* Others.                                                                 *)

Shrink ==
  /\ "shrink" \in file.host
  /\ \E n \in 0..(file.len - 1) :
       file' = [file EXCEPT !.len = n, !.extents = @ \cap (0..(n - 1)),
                            !.data = @ \cap (0..(n - 1))]

Lengthen ==
  /\ "append" \in file.host
  /\ file.len >= size /\ file.len < MaxLen
  /\ file' = [file EXCEPT !.len = @ + 1, !.extents = @ \cup {file.len},
                          !.data = @ \cup {file.len}]

Punch ==
  /\ "punch" \in file.host
  /\ \E c \in file.extents :
       file' = [file EXCEPT !.extents = @ \ {c}, !.data = @ \ {c}]

Meddle ==
  /\ Shrink \/ Lengthen \/ Punch
  /\ changed' = TRUE
  /\ UNCHANGED <<size, kpos, look>>

-----------------------------------------------------------------------------

InRange(c) == \E i \in 1..Len(look.found) : look.found[i].start <= c /\ c < look.found[i].end

LookTypeOK ==
  /\ look.at \in {"data", "hole", "rewind", "answered"}
  /\ look.answer \in {"none", "ranges", "unknown", "io"}
  /\ (look.at = "answered") <=> (look.answer # "none")
  /\ {look.cursor, look.start} \subseteq 0..size
  /\ kpos \in 0..MaxLen

=============================================================================
