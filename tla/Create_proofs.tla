--------------------------- MODULE Create_proofs ---------------------------
(***************************************************************************)
(* Proofs about `bmap create`, for any file, call and interference.        *)
(*                                                                         *)
(* It reads where it believes to read, unless a lookup gave up after it    *)
(* had moved the descriptor; it reads what is to be read, each cell once;  *)
(* and the map it returns has the blocks and the sums it should have, and  *)
(* is accepted when it is parsed.  CreateInv is what holds throughout.     *)
(*                                                                         *)
(* The digest of a bmap file covers all of it, so a map that create was    *)
(* still writing, or was killed over, is never taken for a map, whatever   *)
(* file was there before.                                                  *)
(***************************************************************************)
EXTENDS CreateCommand, Blocks_proofs

-----------------------------------------------------------------------------
(* Positions.  A lookup that is under way may have moved the descriptor;   *)
(* it is back when ranges are returned, has not moved yet before the very  *)
(* first call is answered, and is at the start of the data it has just     *)
(* found before the call for the hole behind it is.                        *)

FileSet == [len : Nat, extents : SUBSET Nat, data : SUBSET Nat, host : SUBSET STRING]

LookSet ==
  [at : {"data", "hole", "rewind"}, cursor : Nat, start : Nat,
   found : Seq([start : Nat, end : Nat]), answer : {"none"}]

Untried == look.at = "data" /\ look.found = <<>>

Looking ==
  /\ look \in LookSet
  /\ Untried => kpos = 0 /\ look.start = 0
  /\ look.at = "hole" => look.start < size /\ kpos = look.start

LookedAt ==
  /\ look.at = "answered"
  /\ look.answer \in {"ranges", "unknown", "io"}
  /\ look.start \in Nat
  /\ look.answer = "ranges" => kpos = 0
  /\ look.answer = "unknown" /\ look.start = 0 /\ look.found = <<>> => kpos = 0

PositionInv ==
  /\ file \in FileSet
  /\ size \in Nat
  /\ phase = "start" => Looking /\ Untried /\ pos = 0
  /\ phase = "lookup" => (Looking \/ LookedAt) /\ pos = 0
  /\ phase \in {"seek", "read", "stream"} /\ ~GaveUpMidway => pos = kpos

LEMMA InvInit == Init => PositionInv
  BY ImagesAssumption, EmptySeq
  DEF Init, OpenFile, InitLook, PositionInv, FileSet, LookSet, Looking, Untried

(* What FoundRange makes of an end that lies in the file.                  *)
LEMMA FoundRangeCases ==
  ASSUME Looking, look.at = "hole", size \in Nat, NEW end \in Nat
  PROVE  \/ FoundRange(end) \in LookSet /\ FoundRange(end).at \in {"data", "rewind"}
            /\ FoundRange(end).found # <<>>
         \/ /\ FoundRange(end).at = "answered" /\ FoundRange(end).answer = "unknown"
            /\ FoundRange(end).start = look.start
            /\ end <= look.start
<1> DEFINE stop == Lesser(end, size)
           r == [start |-> look.start, end |-> stop]
<1>1. stop \in Nat /\ (stop = end \/ stop = size)
  BY DEF Lesser
<1>2. CASE stop <= look.start
  <2>1. FoundRange(end) = Answered("unknown")
    BY <1>2 DEF FoundRange
  <2>2. end <= look.start
    BY <1>1, <1>2 DEF Looking, LookSet
  <2> QED
    BY <2>1, <2>2 DEF Answered, Looking, LookSet
<1>3. CASE ~(stop <= look.start)
  <2>1. FoundRange(end) = [look EXCEPT !.at = AfterRange(stop), !.cursor = stop,
                                       !.found = Append(look.found, r)]
    BY <1>3 DEF FoundRange
  <2>2. look.found \in Seq([start : Nat, end : Nat]) /\ r \in [start : Nat, end : Nat]
    BY <1>1 DEF Looking, LookSet
  <2>3. /\ Append(look.found, r) \in Seq([start : Nat, end : Nat])
        /\ Append(look.found, r) # <<>>
    BY SMTT(30), <2>2, AppendProperties, EmptySeq
  <2>4. AfterRange(stop) \in {"data", "rewind"}
    BY DEF AfterRange
  <2> QED
    BY <1>1, <2>1, <2>3, <2>4 DEF Looking, LookSet
<1> QED
  BY <1>2, <1>3

-----------------------------------------------------------------------------
(* A step of the lookup.                                                   *)

LEMMA LookupStep ==
  ASSUME file \in FileSet, size \in Nat, Looking, DataByteRanges
  PROVE  (Looking \/ LookedAt)' /\ file' \in FileSet /\ size' \in Nat
<1>1. file' = file /\ size' = size
  BY DEF DataByteRanges
<1>2. CASE NoMoreData
  BY <1>1, <1>2 DEF NoMoreData, Looking, LookSet, Untried
<1>3. CASE FindData
  <2>1. PICK start \in Least(DataFrom(look.cursor)) :
          /\ kpos' = start
          /\ look' = IF start >= size THEN [look EXCEPT !.at = "rewind"]
                     ELSE [look EXCEPT !.at = "hole", !.start = start]
    BY <1>3 DEF FindData
  <2>2. start \in Nat
    BY DEF Least, DataFrom, FileSet
  <2>3. CASE start >= size
    BY <1>1, <2>1, <2>3 DEF Looking, LookSet, Untried
  <2>4. CASE ~(start >= size)
    <3>1. look' = [look EXCEPT !.at = "hole", !.start = start] /\ kpos' = start
      BY <2>1, <2>4
    <3>2. look' \in LookSet /\ look'.at = "hole" /\ look'.start < size /\ kpos' = look'.start
      <4>1. start < size
        BY <2>2, <2>4
      <4>2. look \in LookSet
        BY DEF Looking
      <4> QED
        BY <2>2, <3>1, <4>1, <4>2 DEF LookSet
    <3> QED
      BY <1>1, <3>2 DEF Looking, Untried
  <2> QED
    BY <2>3, <2>4
<1>4. CASE FindHole
  <2>1. PICK hole \in Least(HoleFrom(look.start))
                      \cup (IF "contradict" \in file.host THEN {look.start} ELSE {}) :
          kpos' = hole /\ look' = FoundRange(hole)
    BY <1>4 DEF FindHole
  <2>2. look.at = "hole"
    BY <1>4 DEF FindHole
  <2>3. hole \in Nat
    BY DEF Least, HoleFrom, FileSet, Looking, LookSet
  <2>4. CASE /\ FoundRange(hole) \in LookSet /\ FoundRange(hole).at \in {"data", "rewind"}
             /\ FoundRange(hole).found # <<>>
    BY <1>1, <2>1, <2>4 DEF Looking, Untried
  <2>5. CASE /\ FoundRange(hole).at = "answered" /\ FoundRange(hole).answer = "unknown"
             /\ FoundRange(hole).start = look.start
             /\ hole <= look.start
    <3>1. look.start = 0 => hole = 0
      BY <2>3, <2>5
    <3> QED
      BY <1>1, <2>1, <2>5, <3>1 DEF LookedAt, Looking, LookSet
  <2> QED
    BY <2>2, <2>3, <2>4, <2>5, FoundRangeCases
<1>5. CASE FindHolePastEnd
  <2>1. look.at = "hole" /\ look' = FoundRange(size)
    BY <1>5 DEF FindHolePastEnd
  <2>2. ~(size <= look.start)
    BY <2>1 DEF Looking, LookSet
  <2>3. /\ FoundRange(size) \in LookSet /\ FoundRange(size).at \in {"data", "rewind"}
        /\ FoundRange(size).found # <<>>
    BY <2>1, <2>2, FoundRangeCases
  <2> QED
    BY <1>1, <2>1, <2>3 DEF Looking, Untried
<1>6. CASE Refused
  BY <1>1, <1>6 DEF Refused, Answered, LookedAt, Looking, LookSet, Untried
<1>7. CASE LookupFails
  BY <1>1, <1>7 DEF LookupFails, Answered, LookedAt, Looking, LookSet
<1>8. CASE Rewind
  BY <1>1, <1>8 DEF Rewind, Answered, LookedAt, Looking, LookSet
<1> QED
  BY <1>1, <1>2, <1>3, <1>4, <1>5, <1>6, <1>7, <1>8 DEF DataByteRanges

(* Whatever others do, it is still a file, and they do nothing else.       *)
LEMMA MeddleStep ==
  ASSUME file \in FileSet, Meddle
  PROVE  file' \in FileSet /\ UNCHANGED <<size, kpos, look>>
<1>1. Shrink => file' \in FileSet
  <2> SUFFICES ASSUME NEW n \in 0..(file.len - 1),
                      file' = [file EXCEPT !.len = n, !.extents = @ \cap (0..(n - 1)),
                                           !.data = @ \cap (0..(n - 1))]
               PROVE  file' \in FileSet
    BY DEF Shrink
  <2>1. n \in Nat /\ file.extents \cap (0..(n - 1)) \in SUBSET Nat
        /\ file.data \cap (0..(n - 1)) \in SUBSET Nat
    BY DEF FileSet
  <2> QED
    BY <2>1 DEF FileSet
<1>2. Lengthen => file' \in FileSet
  <2> SUFFICES ASSUME file' = [file EXCEPT !.len = @ + 1, !.extents = @ \cup {file.len},
                                           !.data = @ \cup {file.len}]
               PROVE  file' \in FileSet
    BY DEF Lengthen
  <2>1. file.len + 1 \in Nat /\ file.extents \cup {file.len} \in SUBSET Nat
        /\ file.data \cup {file.len} \in SUBSET Nat
    BY DEF FileSet
  <2> QED
    BY <2>1 DEF FileSet
<1>3. Punch => file' \in FileSet
  <2> SUFFICES ASSUME NEW c \in file.extents,
                      file' = [file EXCEPT !.extents = @ \ {c}, !.data = @ \ {c}]
               PROVE  file' \in FileSet
    BY DEF Punch
  <2> QED
    BY DEF FileSet
<1> QED
  BY <1>1, <1>2, <1>3 DEF Meddle

-----------------------------------------------------------------------------
(* The steps of create.                                                    *)

(* Once the candidates are known, the phase is "seek" or "done".           *)
LEMMA ProceedPhase ==
  ASSUME NEW ranges, Proceed(ranges)
  PROVE  phase' \in {"seek", "done"}
  BY DEF Proceed, Return

LEMMA StartStep == PositionInv /\ Start => PositionInv'
<1> SUFFICES ASSUME PositionInv, Start PROVE PositionInv'
  OBVIOUS
<1>1. UNCHANGED <<file, size, kpos, look, pos>>
  BY DEF Start, fileVars
<1>2. Looking /\ Untried /\ pos = 0 /\ kpos = 0
  BY DEF Start, PositionInv, Looking
<1>3. phase' \in {"done", "stream", "lookup", "seek"}
  BY ProceedPhase DEF Start, Return
<1> QED
  BY <1>1, <1>2, <1>3 DEF PositionInv, Looking, LookedAt, Untried, GaveUpMidway

LEMMA LookUpStep == PositionInv /\ LookUp => PositionInv'
<1> SUFFICES ASSUME PositionInv, LookUp PROVE PositionInv'
  OBVIOUS
<1>1. phase = "lookup" /\ phase' = "lookup" /\ pos = 0 /\ pos' = 0
  BY DEF LookUp, PositionInv, createVars
<1>2. Looking
  BY <1>1 DEF LookUp, PositionInv, DataByteRanges, LookedAt, NoMoreData, FindData,
              FindHole, FindHolePastEnd, Refused, LookupFails, Rewind
<1>3. (Looking \/ LookedAt)' /\ file' \in FileSet /\ size' \in Nat
  BY <1>2, LookupStep DEF LookUp, PositionInv
<1> QED
  BY <1>1, <1>3 DEF PositionInv

LEMMA LookedUpStep == PositionInv /\ LookedUp => PositionInv'
<1> SUFFICES ASSUME PositionInv, LookedUp PROVE PositionInv'
  OBVIOUS
<1>1. UNCHANGED <<file, size, kpos, look, pos>>
  BY DEF LookedUp, fileVars
<1>2. LookedAt /\ pos = 0
  BY DEF LookedUp, PositionInv, Looking, LookSet
<1>3. phase' = "done" \/ (phase' = "seek" /\ look.answer # "io")
  BY ProceedPhase DEF LookedUp, Return
<1>4. look.answer # "io" /\ ~GaveUpMidway => kpos = 0
  BY <1>2 DEF LookedAt, GaveUpMidway
<1> QED
  BY <1>1, <1>2, <1>3, <1>4 DEF PositionInv, GaveUpMidway

LEMMA SeekStep == PositionInv /\ Seek => PositionInv'
<1> SUFFICES ASSUME PositionInv, Seek PROVE PositionInv'
  OBVIOUS
<1>1. UNCHANGED <<file, size, look>> /\ phase = "seek" /\ phase' \in {"seek", "read", "done"}
  BY DEF Seek, Return
<1>2. ~GaveUpMidway => pos' = kpos'
  BY <1>1 DEF Seek, SkipTo, PositionInv
<1> QED
  BY <1>1, <1>2 DEF PositionInv, GaveUpMidway

(* A batch moves the descriptor and the position alike.                    *)
LEMMA BatchStep ==
  ASSUME PositionInv, phase \in {"read", "stream"}, NEW n, TakeBatch(n),
         UNCHANGED <<file, size, look, phase>>
  PROVE  PositionInv'
<1>1. ~GaveUpMidway => pos' = kpos'
  BY DEF TakeBatch, PositionInv
<1> QED
  BY <1>1 DEF PositionInv, GaveUpMidway

(* So does a step that moves neither and does not go back.                 *)
LEMMA OtherStep ==
  ASSUME PositionInv, phase \in {"seek", "read", "stream"},
         phase' \in {"seek", "read", "stream", "done"},
         UNCHANGED <<file, size, look, kpos, pos>>
  PROVE  PositionInv'
  BY DEF PositionInv, GaveUpMidway

LEMMA CreateStep == PositionInv /\ Create => PositionInv'
<1> SUFFICES ASSUME PositionInv, Create PROVE PositionInv'
  OBVIOUS
<1>1. CASE Start
  BY <1>1, StartStep
<1>2. CASE LookUp
  BY <1>2, LookUpStep
<1>3. CASE LookedUp
  BY <1>3, LookedUpStep
<1>4. CASE Seek
  BY <1>4, SeekStep
<1>5. CASE Read
  BY <1>5, BatchStep DEF Read
<1>6. CASE CandidateEnds
  BY <1>6, OtherStep DEF CandidateEnds, fileVars
<1>7. CASE ScanEnds
  BY <1>7, OtherStep DEF ScanEnds, Return, fileVars
<1>8. CASE ReadFails
  BY <1>8, OtherStep DEF ReadFails, Return, fileVars
<1>9. CASE ReadStream
  BY <1>9, BatchStep DEF ReadStream
<1>10. CASE StreamEnds
  BY <1>10, OtherStep DEF StreamEnds, Return, fileVars
<1> QED
  BY <1>1, <1>2, <1>3, <1>4, <1>5, <1>6, <1>7, <1>8, <1>9, <1>10 DEF Create

LEMMA OthersStep == PositionInv /\ Others => PositionInv'
<1> SUFFICES ASSUME PositionInv, Others PROVE PositionInv'
  OBVIOUS
<1>1. file' \in FileSet /\ UNCHANGED <<size, kpos, look>>
  BY MeddleStep DEF Others, PositionInv
<1>2. UNCHANGED <<phase, pos>>
  BY DEF Others, createVars
<1> QED
  BY <1>1, <1>2 DEF PositionInv, Looking, LookedAt, Untried, GaveUpMidway

LEMMA NextStep == PositionInv /\ [Next]_vars => PositionInv'
<1> SUFFICES ASSUME PositionInv, [Next]_vars PROVE PositionInv'
  OBVIOUS
<1>1. CASE Create
  BY <1>1, CreateStep
<1>2. CASE Others
  BY <1>2, OthersStep
<1>3. CASE UNCHANGED vars
  BY <1>3 DEF vars, fileVars, createVars, PositionInv, Looking, LookedAt, Untried, GaveUpMidway
<1> QED
  BY <1>1, <1>2, <1>3 DEF Next, Returned

(* For every file, call, lookup and interference: whenever create reads,   *)
(* the position that SeekSource keeps is the descriptor's, so every cell   *)
(* is read and hashed as the cell of the image that it is - unless         *)
(* data_byte_ranges gave up after it had found data (source.rs:33).        *)
THEOREM ReadsWhereBelieved == Spec => []PositionAgrees
<1>1. PositionInv => PositionAgrees
  BY DEF PositionInv, PositionAgrees
<1> QED
  BY <1>1, InvInit, NextStep, PTL DEF Spec

-----------------------------------------------------------------------------
(* What the lookup has found.                                              *)

FileOk ==
  /\ file \in FileSet /\ size \in Nat /\ changed \in BOOLEAN
  /\ file.len <= MaxLen /\ size <= MaxLen
  /\ file.data \subseteq file.extents
  /\ \A c \in file.extents : c < file.len
  /\ ~changed => file.len = size

(* Every cell with storage before `upto` was found; and as long as nobody  *)
(* meddled with the file, no other.                                        *)
FoundUpto(upto) ==
  /\ \A c \in file.extents : c < upto => InBytes(look.found, c)
  /\ ~changed => \A c \in Nat : InBytes(look.found, c) => c \in file.extents

FoundOk ==
  /\ look.cursor \in Nat /\ look.cursor <= size
  /\ look.start \in Nat /\ look.start <= size
  /\ look.found \in Seq(ByteRange) /\ SortedBytes(look.found)
  /\ \A i \in 1..Len(look.found) : look.found[i].end <= look.cursor

LookingOn ==
  /\ look \in LookSet /\ FoundOk
  /\ FoundUpto(look.cursor)
  /\ look.at = "hole" => /\ look.cursor <= look.start /\ look.start < size
                         /\ FoundUpto(look.start)
                         /\ ~changed => look.start \in file.extents
  /\ look.at = "rewind" => FoundUpto(size)

LookedUpOk ==
  /\ look.at = "answered" /\ look.answer \in {"ranges", "unknown", "io"}
  /\ look.cursor \in Nat /\ look.cursor <= size
  /\ look.start \in Nat /\ look.start <= size
  /\ look.answer = "ranges" =>
       /\ look.found \in Seq(ByteRange) /\ SortedBytes(look.found)
       /\ FoundUpto(size)
       /\ \A c \in Nat : InBytes(look.found, c) => c < size

(* What FoundRange makes of it.                                            *)
LEMMA RangeFound ==
  ASSUME FileOk, LookingOn, look.at = "hole", NEW end \in Nat,
         ~changed => \A c \in Nat : look.start <= c /\ c < end => c \in file.extents,
         file' = file, size' = size, changed' = changed, look' = FoundRange(end)
  PROVE  (LookingOn \/ LookedUpOk)'
<1> DEFINE stop == Lesser(end, size)
           r == [start |-> look.start, end |-> stop]
<1>1. /\ look \in LookSet /\ FoundOk /\ look.start \in Nat /\ look.cursor \in Nat /\ size \in Nat
      /\ look.cursor <= look.start /\ look.start < size /\ FoundUpto(look.start)
  BY DEF LookingOn, FoundOk, FileOk
<1>2. stop \in Nat /\ stop <= size /\ stop <= end /\ (stop = end \/ stop = size)
  BY <1>1 DEF Lesser
<1>3. CASE stop <= look.start
  <2>1. look' = Answered("unknown")
    BY <1>3 DEF FoundRange
  <2> QED
    BY <1>1, <2>1 DEF Answered, LookedUpOk, LookSet, FoundOk
<1>4. CASE ~(stop <= look.start)
  <2>1. look' = [look EXCEPT !.at = AfterRange(stop), !.cursor = stop,
                             !.found = Append(look.found, r)]
    BY <1>4 DEF FoundRange
  <2>2. r \in ByteRange /\ r.start = look.start /\ r.end = stop /\ r.start < r.end
    BY <1>1, <1>2, <1>4 DEF ByteRange
  <2>3. AfterRange(stop) = IF stop < size THEN "data" ELSE "rewind"
    BY DEF AfterRange
  <2> DEFINE n == Len(look.found)
             next == Append(look.found, r)
  <2> HIDE DEF r, stop
  <2>4. /\ look.found \in Seq(ByteRange) /\ n \in Nat
        /\ next \in Seq(ByteRange) /\ Len(next) = n + 1 /\ next[n + 1] = r
        /\ \A i \in 1..n : next[i] = look.found[i]
    BY <1>1, <2>2, AppendProperties, LenProperties DEF FoundOk
  <2>5. \A i : i \in 1..(n + 1) <=> i \in 1..n \/ i = n + 1
    BY <2>4
  <2>6. /\ look'.at = AfterRange(stop) /\ look'.cursor = stop /\ look'.found = next
        /\ look'.start = look.start /\ look' \in LookSet
    BY <1>1, <1>2, <2>1, <2>3, <2>4 DEF LookSet, ByteRange
  <2> HIDE DEF next
  <2>7. \A c \in Nat : InBytes(next, c) <=> InBytes(look.found, c) \/ (look.start <= c /\ c < stop)
    BY <2>2, <2>4, <2>5 DEF InBytes, Spanned
  <2>8. \A i \in 1..n : /\ look.found[i].start \in Nat /\ look.found[i].end \in Nat
                        /\ look.found[i].start <= look.found[i].end
                        /\ look.found[i].end <= look.start
    <3>1. \A i \in 1..n : look.found[i] \in ByteRange
      BY <2>4, ElementOfSeq
    <3>2. \A i \in 1..n : /\ look.found[i].start <= look.found[i].end
                          /\ look.found[i].end <= look.cursor
      BY <1>1 DEF FoundOk, SortedBytes
    <3> QED
      BY <1>1, <3>1, <3>2 DEF ByteRange
  <2>9. SortedBytes(next)
    <3> SUFFICES ASSUME NEW i \in 1..(n + 1)
                 PROVE  /\ next[i].start <= next[i].end
                        /\ \A k \in 1..(n + 1) : i <= k => next[i].start <= next[k].start
      BY <2>4 DEF SortedBytes
    <3>1. CASE i \in 1..n
      <4>1. \A k \in 1..n : i <= k => look.found[i].start <= look.found[k].start
        BY <1>1, <3>1 DEF FoundOk, SortedBytes
      <4>2. look.found[i].start <= look.start
        BY SMTT(30), <1>1, <2>8, <3>1
      <4> QED
        BY <2>2, <2>4, <2>5, <2>8, <3>1, <4>1, <4>2
    <3>2. CASE i = n + 1
      <4>1. \A k \in 1..(n + 1) : i <= k => k = n + 1
        BY <2>4, <3>2
      <4> QED
        BY SMTT(30), <1>1, <1>2, <2>2, <2>4, <3>2, <4>1
    <3> QED
      BY <2>5, <3>1, <3>2
  <2>10. FoundOk'
    <3>1. \A i \in 1..(n + 1) : next[i].end <= stop
      <4>1. \A i \in 1..n : look.found[i].end <= stop
        BY <1>1, <1>2, <1>4, <2>8
      <4> QED
        BY <1>2, <2>2, <2>4, <2>5, <4>1
    <3> QED
      BY <1>1, <1>2, <2>4, <2>6, <2>9, <3>1 DEF FoundOk
  <2>11. FoundUpto(look.cursor)'
    <3>1. \A c \in file.extents : c < stop => InBytes(next, c)
      <4>1. \A c \in file.extents : c \in Nat /\ (c < look.start => InBytes(look.found, c))
        BY <1>1 DEF FoundUpto, FileOk, FileSet
      <4> QED
        BY <1>1, <1>2, <2>7, <4>1
    <3>2. ~changed => \A c \in Nat : InBytes(next, c) => c \in file.extents
      BY <1>1, <1>2, <2>7 DEF FoundUpto
    <3> QED
      BY <2>6, <3>1, <3>2 DEF FoundUpto
  <2>12. look'.at = "rewind" => look'.cursor = size'
    BY <1>1, <1>2, <2>3, <2>6
  <2>14. look'.at = "rewind" => FoundUpto(size)'
    BY <2>11, <2>12 DEF FoundUpto
  <2>13. look'.at # "hole"
    BY <2>3, <2>6
  <2> QED
    BY <2>6, <2>10, <2>11, <2>13, <2>14 DEF LookingOn
<1> QED
  BY <1>3, <1>4

(* A step of the lookup misses no data, and invents none.                  *)
LEMMA LookupFinds ==
  ASSUME FileOk, LookingOn, DataByteRanges
  PROVE  /\ (LookingOn \/ LookedUpOk)' /\ FileOk'
         /\ kpos' = kpos \/ (kpos' \in Nat /\ kpos' <= MaxLen)
<1>1. UNCHANGED <<file, size, changed>>
  BY DEF DataByteRanges
<1>2. FileOk' /\ (\A c \in file.extents : c \in Nat /\ c < file.len) /\ file.len \in Nat
      /\ MaxLen \in Nat /\ file.len <= MaxLen /\ size \in Nat /\ size <= MaxLen
  BY <1>1, MaxLenAssumption DEF FileOk, FileSet
<1>3. look \in LookSet /\ FoundOk /\ FoundUpto(look.cursor)
      /\ look.cursor \in Nat /\ look.start \in Nat
  BY DEF LookingOn, FoundOk
<1>4. ASSUME \A c \in file.extents : look.cursor <= c => size <= c,
             look' = [look EXCEPT !.at = "rewind"]
      PROVE  LookingOn'
  <2>1. /\ look' \in LookSet /\ look'.at = "rewind" /\ look'.found = look.found
        /\ look'.cursor = look.cursor /\ look'.start = look.start
    BY <1>3, <1>4 DEF LookSet
  <2>2. FoundUpto(size)
    BY <1>2, <1>3, <1>4 DEF FoundUpto
  <2> QED
    BY <1>1, <1>3, <2>1, <2>2 DEF LookingOn, FoundOk, FoundUpto
<1>5. CASE NoMoreData
  <2>1. look' = [look EXCEPT !.at = "rewind"] /\ kpos' = kpos
    BY <1>5 DEF NoMoreData
  <2>2. \A c \in file.extents : look.cursor <= c => size <= c
    BY <1>2, <1>3, <1>5 DEF NoMoreData, DataFrom
  <2> QED
    BY <1>2, <1>4, <2>1, <2>2
<1>6. CASE FindData
  <2>1. PICK start \in Least(DataFrom(look.cursor)) :
          /\ kpos' = start
          /\ look' = IF start >= size THEN [look EXCEPT !.at = "rewind"]
                     ELSE [look EXCEPT !.at = "hole", !.start = start]
    BY <1>6 DEF FindData
  <2>2. /\ start \in Nat /\ start \in file.extents /\ start < file.len /\ look.cursor <= start
        /\ \A c \in file.extents : look.cursor <= c => start <= c
    BY <1>2, <1>3 DEF Least, DataFrom
  <2>3. kpos' \in Nat /\ kpos' <= MaxLen
    BY <1>2, <2>1, <2>2
  <2>4. CASE start >= size
    <3>1. \A c \in file.extents : look.cursor <= c => size <= c
      BY <1>2, <2>2, <2>4
    <3> QED
      BY <1>2, <1>4, <2>1, <2>3, <2>4, <3>1
  <2>5. CASE ~(start >= size)
    <3>1. look' = [look EXCEPT !.at = "hole", !.start = start]
      BY <2>1, <2>5
    <3>5. start < size
      BY <1>2, <2>2, <2>5
    <3>2. /\ look' \in LookSet /\ look'.at = "hole" /\ look'.found = look.found
          /\ look'.cursor = look.cursor /\ look'.start = start
      BY <1>3, <2>2, <3>1 DEF LookSet
    <3>3. FoundUpto(start)
      BY <1>2, <1>3, <2>2 DEF FoundUpto
    <3>4. LookingOn'
      BY <1>1, <1>2, <1>3, <2>2, <3>2, <3>3, <3>5 DEF LookingOn, FoundOk, FoundUpto
    <3> QED
      BY <1>2, <2>3, <3>4
  <2> QED
    BY <2>4, <2>5
<1>7. CASE FindHole
  <2>1. PICK hole \in Least(HoleFrom(look.start))
                      \cup (IF "contradict" \in file.host THEN {look.start} ELSE {}) :
          kpos' = hole /\ look' = FoundRange(hole)
    BY <1>7 DEF FindHole
  <2>2. look.at = "hole" /\ look.start < file.len
    BY <1>7 DEF FindHole
  <2>3. hole \in Nat /\ hole <= file.len
    BY <1>2, <1>3, <2>2 DEF Least, HoleFrom
  <2>4. \A c \in Nat : look.start <= c /\ c < hole => c \in file.extents
    <3>1. CASE hole = look.start
      BY <2>3, <3>1
    <3>2. CASE hole \in Least(HoleFrom(look.start))
      BY <1>2, <2>3, <3>2 DEF Least, HoleFrom
    <3> QED
      BY <3>1, <3>2
  <2>5. (LookingOn \/ LookedUpOk)'
    BY <1>1, <2>1, <2>2, <2>3, <2>4, RangeFound
  <2> QED
    BY <1>2, <2>1, <2>3, <2>5
<1>8. CASE FindHolePastEnd
  <2>1. look.at = "hole" /\ look.start >= file.len /\ look' = FoundRange(size) /\ kpos' = kpos
    BY <1>8 DEF FindHolePastEnd
  <2>2. ~changed => look.start \in file.extents
    BY <2>1 DEF LookingOn
  <2>3. changed
    BY <1>2, <1>3, <2>1, <2>2
  <2>4. (LookingOn \/ LookedUpOk)'
    BY <1>1, <1>2, <2>1, <2>3, RangeFound
  <2> QED
    BY <1>2, <2>1, <2>4
<1>9. CASE Refused
  <2>1. look' = Answered("unknown") /\ kpos' = kpos
    BY <1>9 DEF Refused
  <2> QED
    BY <1>1, <1>2, <1>3, <2>1 DEF Answered, LookedUpOk, LookSet, FoundOk
<1>10. CASE LookupFails
  <2>1. look' = Answered("io") /\ kpos' = kpos
    BY <1>10 DEF LookupFails
  <2> QED
    BY <1>1, <1>2, <1>3, <2>1 DEF Answered, LookedUpOk, LookSet, FoundOk
<1>11. CASE Rewind
  <2> DEFINE out == CoalesceByteRanges(look.found)
  <2>1. look.at = "rewind" /\ kpos' = 0
        /\ look' = [Answered("ranges") EXCEPT !.found = out]
    BY <1>11 DEF Rewind
  <2>2. /\ out \in Seq(ByteRange) /\ SortedBytes(out)
        /\ \A c \in Nat : InBytes(out, c) <=> InBytes(look.found, c)
    BY <1>3, CoalesceKeepsBytes DEF FoundOk
  <2> HIDE DEF out
  <2>3. /\ look'.at = "answered" /\ look'.answer = "ranges" /\ look'.found = out
        /\ look'.cursor = look.cursor /\ look'.start = look.start
    BY <1>3, <2>1 DEF Answered, LookSet
  <2>4. FoundUpto(size)'
    <3>1. FoundUpto(size)
      BY <2>1 DEF LookingOn
    <3> QED
      BY <1>1, <1>2, <2>2, <2>3, <3>1 DEF FoundUpto
  <2>5. \A c \in Nat : InBytes(out, c) => c < size
    <3> SUFFICES ASSUME NEW c \in Nat, InBytes(look.found, c) PROVE c < size
      BY <2>2
    <3>1. PICK i \in 1..Len(look.found) : Spanned(look.found[i], c)
      BY DEF InBytes
    <3>2. look.found[i] \in ByteRange
      BY <1>3, ElementOfSeq DEF FoundOk
    <3> QED
      BY <1>2, <1>3, <3>1, <3>2 DEF FoundOk, Spanned, ByteRange
  <2>6. LookedUpOk'
    BY <1>1, <1>3, <2>2, <2>3, <2>4, <2>5 DEF LookedUpOk, FoundOk
  <2> QED
    BY <1>2, <2>1, <2>6
<1> QED
  BY <1>5, <1>6, <1>7, <1>8, <1>9, <1>10, <1>11 DEF DataByteRanges

(* Others take cells away from the image, and add none.                    *)
LEMMA MeddleTakesAway ==
  ASSUME FileOk, Meddle
  PROVE  /\ FileOk' /\ changed'
         /\ \A c \in file'.extents : c < size => c \in file.extents
         /\ \A c \in file'.data : c < size => c \in file.data
         /\ file'.len < size => file.len < size \/ file'.len < file.len
         /\ file.len < size => file'.len <= file.len
<1>1. /\ file \in FileSet /\ size \in Nat /\ MaxLen \in Nat /\ file.len \in Nat
      /\ file.len <= MaxLen /\ size <= MaxLen /\ UNCHANGED size /\ changed' = TRUE
      /\ file.data \subseteq file.extents /\ \A c \in file.extents : c \in Nat /\ c < file.len
  BY MaxLenAssumption DEF FileOk, FileSet, Meddle
<1>2. file' \in FileSet
  BY <1>1, MeddleStep
<1>3. CASE Shrink
  <2>1. PICK n \in 0..(file.len - 1) :
          file' = [file EXCEPT !.len = n, !.extents = @ \cap (0..(n - 1)),
                               !.data = @ \cap (0..(n - 1))]
    BY <1>3 DEF Shrink
  <2>2. /\ file'.len = n /\ file'.extents = file.extents \cap (0..(n - 1))
        /\ file'.data = file.data \cap (0..(n - 1))
    BY <1>1, <2>1 DEF FileSet
  <2> QED
    BY <1>1, <1>2, <2>2 DEF FileOk
<1>4. CASE Lengthen
  <2>1. /\ file.len >= size /\ file.len < MaxLen
        /\ file' = [file EXCEPT !.len = @ + 1, !.extents = @ \cup {file.len},
                                !.data = @ \cup {file.len}]
    BY <1>4 DEF Lengthen
  <2>2. /\ file'.len = file.len + 1 /\ file'.extents = file.extents \cup {file.len}
        /\ file'.data = file.data \cup {file.len}
    BY <1>1, <2>1 DEF FileSet
  <2> QED
    BY <1>1, <1>2, <2>1, <2>2 DEF FileOk
<1>5. CASE Punch
  <2>1. PICK d \in file.extents : file' = [file EXCEPT !.extents = @ \ {d}, !.data = @ \ {d}]
    BY <1>5 DEF Punch
  <2>2. /\ file'.len = file.len /\ file'.extents = file.extents \ {d}
        /\ file'.data = file.data \ {d}
    BY <1>1, <2>1 DEF FileSet
  <2> QED
    BY <1>1, <1>2, <2>2 DEF FileOk
<1> QED
  BY <1>3, <1>4, <1>5 DEF Meddle

LEMMA MeddleWhileLooking ==
  ASSUME FileOk, Meddle
  PROVE  /\ LookingOn => LookingOn'
         /\ LookedUpOk => LookedUpOk'
<1>1. /\ UNCHANGED <<size, look>> /\ changed' = TRUE /\ size \in Nat
      /\ \A c \in file'.extents : c < size => c \in file.extents
      /\ \A c \in file'.extents : c \in Nat
  BY MeddleTakesAway DEF Meddle, FileOk, FileSet
<1>2. ASSUME NEW upto \in Nat, upto <= size, FoundUpto(upto)
      PROVE  /\ \A c \in file'.extents : c < upto => InBytes(look.found, c)
  BY <1>1, <1>2 DEF FoundUpto
<1>3. ASSUME LookingOn PROVE LookingOn'
  <2>1. FoundOk' /\ look.cursor \in Nat /\ look.cursor <= size /\ look.start \in Nat
    BY <1>1, <1>3 DEF LookingOn, FoundOk
  <2>2. FoundUpto(look.cursor)'
    BY <1>1, <1>2, <1>3, <2>1 DEF LookingOn, FoundUpto
  <2>3. look.at = "hole" => FoundUpto(look.start)'
    BY <1>1, <1>2, <1>3, <2>1 DEF LookingOn, FoundUpto
  <2>4. look.at = "rewind" => FoundUpto(size)'
    BY <1>1, <1>2, <1>3, <2>1 DEF LookingOn, FoundUpto
  <2> QED
    BY <1>1, <1>3, <2>1, <2>2, <2>3, <2>4 DEF LookingOn
<1>4. ASSUME LookedUpOk PROVE LookedUpOk'
  <2>1. look.answer = "ranges" => FoundUpto(size)'
    BY <1>1, <1>2, <1>4 DEF LookedUpOk, FoundUpto
  <2> QED
    BY <1>1, <1>4, <2>1 DEF LookedUpOk
<1> QED
  BY <1>3, <1>4

-----------------------------------------------------------------------------
(* The RangeBuilder.                                                       *)

Builders == {b \in [open : Seq(SumRange), ranges : Seq(SumRange)] : Len(b.open) <= 1}

AllRanges(b) == b.ranges \o b.open

CallOk ==
  /\ call.bs \in Nat \ {0} /\ call.batch \in Nat \ {0}
  /\ {call.stream, call.holes, call.zeros, call.sums} \subseteq BOOLEAN

LEMMA BuilderFacts ==
  ASSUME NEW b \in Builders
  PROVE  /\ b.open \in Seq(SumRange) /\ b.ranges \in Seq(SumRange)
         /\ AllRanges(b) \in Seq(SumRange)
         /\ b.open = <<>> => AllRanges(b) = b.ranges
         /\ b.open # <<>> => /\ Len(b.open) = 1 /\ b.open[1] \in SumRange
                             /\ Len(AllRanges(b)) = Len(b.ranges) + 1
                             /\ AllRanges(b)[Len(AllRanges(b))] = b.open[1]
                             /\ \A i \in 1..Len(b.ranges) : AllRanges(b)[i] = b.ranges[i]
<1>1. b.open \in Seq(SumRange) /\ b.ranges \in Seq(SumRange) /\ Len(b.open) <= 1
  BY DEF Builders
<1>2. CASE b.open = <<>>
  BY <1>1, <1>2, ConcatEmptySeq DEF AllRanges
<1>3. CASE b.open # <<>>
  <2> DEFINE o == b.open
  <2>0. o \in Seq(SumRange) /\ o # <<>> /\ Len(o) <= 1
    BY <1>1, <1>3
  <2> DEFINE n == Len(o)
  <2> HIDE DEF o
  <2>9. n \in Nat \ {0} /\ n <= 1
    BY <2>0, EmptySeq
  <2>8. n = 1
    <3> HIDE DEF n
    <3> QED
      BY <2>9
  <2>1. Len(b.open) = 1
    BY <2>8 DEF o, n
  <2>2. b.open[1] \in SumRange
    BY <1>1, <2>1, ElementOfSeq
  <2>3. Len(b.ranges) \in Nat
    BY <1>1, LenProperties
  <2> DEFINE s == b.ranges
             t == b.open
  <2> HIDE DEF s, t
  <2>4. /\ s \o t \in Seq(SumRange) /\ Len(s \o t) = Len(s) + Len(t)
        /\ \A i \in 1..(Len(s) + Len(t)) : (s \o t)[i] = IF i <= Len(s) THEN s[i] ELSE t[i - Len(s)]
    BY <1>1, ConcatProperties DEF s, t
  <2> DEFINE m == Len(s)
  <2>5. m \in Nat /\ Len(t) = 1
    BY <2>1, <2>3 DEF s, t
  <2> HIDE DEF m
  <2>6. Len(s \o t) = m + 1 /\ \A i \in 1..(m + 1) : (s \o t)[i] = IF i <= m THEN s[i] ELSE t[i - m]
    BY <2>4, <2>5 DEF m
  <2>7. (s \o t)[m + 1] = t[1] /\ \A i \in 1..m : (s \o t)[i] = s[i]
    BY <2>5, <2>6
  <2> QED
    BY <1>1, <1>3, <2>1, <2>2, <2>4, <2>5, <2>6, <2>7 DEF AllRanges, s, t, m
<1> QED
  BY <1>2, <1>3

LEMMA CloseFacts ==
  ASSUME NEW b \in Builders
  PROVE  /\ Close(b) \in Builders /\ Close(b).open = <<>>
         /\ Close(b).ranges = AllRanges(b) /\ AllRanges(Close(b)) = AllRanges(b)
<1>1. Close(b).open = <<>> /\ Close(b).ranges = AllRanges(b)
  BY DEF Close, AllRanges
<1>2. AllRanges(b) \in Seq(SumRange) /\ <<>> \in Seq(SumRange) /\ Len(<<>>) = 0
  BY BuilderFacts, EmptySeq
<1>3. Close(b) \in Builders
  BY <1>2 DEF Close, AllRanges, Builders
<1> QED
  BY <1>1, <1>3, BuilderFacts

(* A list of one range.                                                    *)
LEMMA OneRange ==
  ASSUME NEW r \in SumRange
  PROVE  <<r>> \in Seq(SumRange) /\ Len(<<r>>) = 1 /\ <<r>>[1] = r
  OBVIOUS

LEMMA OneIsSome ==
  ASSUME NEW S, NEW s \in Seq(S), Len(s) = 1
  PROVE  s # <<>>
  OBVIOUS

(* The builder with another open range.                                    *)
LEMMA Opened ==
  ASSUME NEW b \in Builders, NEW o \in Seq(SumRange), Len(o) = 1,
         NEW out, out = [b EXCEPT !.open = o]
  PROVE  out \in Builders /\ out.open = o /\ out.ranges = b.ranges
<1>1. b \in [open : Seq(SumRange), ranges : Seq(SumRange)]
  BY DEF Builders
<1>2. out \in [open : Seq(SumRange), ranges : Seq(SumRange)] /\ out.open = o /\ out.ranges = b.ranges
  BY <1>1
<1>3. Len(out.open) <= 1
  BY <1>2
<1> QED
  BY <1>2, <1>3 DEF Builders

LEMMA FedFacts ==
  ASSUME NEW seg \in Seq(Nat)
  PROVE  Fed(seg) \in Seq(Nat)
  BY EmptySeq DEF Fed

LEMMA Longer ==
  ASSUME NEW o \in SumRange, NEW last \in Nat, NEW sum \in Seq(Nat)
  PROVE  [[o EXCEPT !.last = last] EXCEPT !.sum = sum]
         = [first |-> o.first, last |-> last, sum |-> sum]
<1> DEFINE field(n) == IF n = "sum" THEN sum ELSE IF n = "last" THEN last ELSE o.first
<1>1. [[o EXCEPT !.last = last] EXCEPT !.sum = sum] = [n \in {"first", "last", "sum"} |-> field(n)]
  BY DEF SumRange
<1>2. [first |-> o.first, last |-> last, sum |-> sum] = [n \in {"first", "last", "sum"} |-> field(n)]
  OBVIOUS
<1> QED
  BY <1>1, <1>2

Grown(b, last, more) == [b EXCEPT !.open[1].last = last, !.open[1].sum = @ \o more]

LEMMA LongerOpen ==
  ASSUME NEW b \in Builders, Len(b.open) = 1, NEW last \in Nat, NEW more \in Seq(Nat)
  PROVE  Grown(b, last, more)
         = [b EXCEPT !.open = [b.open EXCEPT ![1] =
              [first |-> b.open[1].first, last |-> last, sum |-> b.open[1].sum \o more]]]
<1> DEFINE o == b.open[1]
<1>1. b \in [open : Seq(SumRange), ranges : Seq(SumRange)]
  BY DEF Builders
<1>2. DOMAIN b.open = 1..1 /\ o \in SumRange
  BY <1>1, LenProperties, ElementOfSeq
<1>3. Grown(b, last, more)
      = [b EXCEPT !.open = [b.open EXCEPT ![1] =
           [[b.open[1] EXCEPT !.last = last] EXCEPT !.sum = b.open[1].sum \o more]]]
  BY <1>1, <1>2 DEF Grown
<1>4. o.sum \o more \in Seq(Nat)
  BY <1>2, ConcatProperties DEF SumRange
<1>5. [[o EXCEPT !.last = last] EXCEPT !.sum = o.sum \o more]
      = [first |-> o.first, last |-> last, sum |-> o.sum \o more]
  BY <1>2, <1>4, Longer
<1> QED
  BY <1>3, <1>5

(* The last block of data that begins at block f.                          *)
LastOf(f, seg) == f + CeilDiv(Len(seg), call.bs) - 1

(* What extend makes of the builder: the open range goes on, or another is *)
(* opened.                                                                 *)
Extended(b, f, seg, out) ==
  /\ LastOf(f, seg) \in Nat /\ f <= LastOf(f, seg)
  /\ out \in Builders /\ out.open # <<>>
  /\ b.open # <<>> /\ b.open[1].last + 1 = f
     => /\ out.ranges = b.ranges
        /\ out.open[1] = [first |-> b.open[1].first, last |-> LastOf(f, seg),
                          sum |-> b.open[1].sum \o Fed(seg)]
  /\ ~(b.open # <<>> /\ b.open[1].last + 1 = f)
     => /\ out.ranges = AllRanges(b)
        /\ out.open[1] = [first |-> f, last |-> LastOf(f, seg), sum |-> Fed(seg)]

(* RangeBuilder::extend.                                                   *)
LEMMA ExtendShape ==
  ASSUME CallOk, NEW b \in Builders, NEW f \in Nat, NEW seg \in Seq(Nat), seg # <<>>,
         NEW out, out = Extend(b, f, seg)
  PROVE  Extended(b, f, seg, out)
<1> DEFINE last == LastOf(f, seg)
<1>1. Len(seg) \in Nat \ {0} /\ call.bs \in Nat \ {0}
  BY EmptySeq DEF CallOk
<1>2. CeilDiv(Len(seg), call.bs) \in Nat \ {0}
  <2>1. CeilDiv(Len(seg), call.bs) # 0
    <3>1. 0 * call.bs = 0
      BY <1>1
    <3>2. Len(seg) <= CeilDiv(Len(seg), call.bs) * call.bs
      BY <1>1, CeilFacts
    <3> QED
      BY <1>1, <3>1, <3>2
  <2> QED
    BY <1>1, <2>1, CeilFacts
<1> DEFINE top == f + Greater(1, CeilDiv(Len(seg), call.bs)) - 1
           more == Fed(seg)
<1>3. last \in Nat /\ f <= last /\ top = last
  BY <1>2 DEF Greater, LastOf
<1> HIDE DEF last
<1>4. more \in Seq(Nat)
  BY FedFacts
<1>5. CASE b.open # <<>> /\ b.open[1].last + 1 = f
  <2> DEFINE o == b.open[1]
             r == [first |-> o.first, last |-> last, sum |-> o.sum \o more]
  <2>2. o \in SumRange /\ Len(b.open) = 1 /\ b.open \in Seq(SumRange) /\ b.ranges \in Seq(SumRange)
    BY <1>5, BuilderFacts
  <2>1. out = Grown(b, last, more)
    <3>1. out = Grown(b, top, Fed(seg))
      BY <1>5, Zenon DEF Extend, Grown
    <3> QED
      BY <1>3, <3>1
  <2> HIDE DEF more, top
  <2>3. o.sum \o more \in Seq(Nat)
    BY <1>4, <2>2, ConcatProperties DEF SumRange
  <2>4. r \in SumRange
    BY <1>3, <2>2, <2>3 DEF SumRange
  <2>5. out = [b EXCEPT !.open = [b.open EXCEPT ![1] = r]]
    <3>1. b \in Builders /\ Len(b.open) = 1 /\ last \in Nat /\ more \in Seq(Nat)
      BY <1>3, <1>4, <2>2
    <3> QED
      BY <2>1, <3>1, LongerOpen
  <2> HIDE DEF r
  <2>6. /\ [b.open EXCEPT ![1] = r] \in Seq(SumRange)
        /\ Len([b.open EXCEPT ![1] = r]) = 1
        /\ [b.open EXCEPT ![1] = r][1] = r
    BY <2>2, <2>4, ExceptSeq
  <2> DEFINE opened == [b.open EXCEPT ![1] = r]
  <2> HIDE DEF opened
  <2>7. opened \in Seq(SumRange) /\ Len(opened) = 1 /\ opened[1] = r /\ out = [b EXCEPT !.open = opened]
    BY <2>5, <2>6 DEF opened
  <2>8. opened # <<>>
    BY <2>7, OneIsSome
  <2>9. out.open = opened /\ out.ranges = b.ranges /\ out \in Builders
    BY <2>7, Opened
  <2> QED
    BY <1>3, <1>5, <2>7, <2>8, <2>9 DEF r, more, last, Extended
<1>6. CASE ~(b.open # <<>> /\ b.open[1].last + 1 = f)
  <2> DEFINE r == [first |-> f, last |-> last, sum |-> more]
  <2>1. out = [Close(b) EXCEPT !.open = <<[first |-> f, last |-> top, sum |-> Fed(seg)]>>]
    BY <1>6, Zenon DEF Extend
  <2>2. out = [Close(b) EXCEPT !.open = <<r>>]
    BY <1>3, <2>1
  <2>3. r \in SumRange
    BY <1>3, <1>4 DEF SumRange
  <2> HIDE DEF r
  <2>4. <<r>> \in Seq(SumRange) /\ Len(<<r>>) = 1 /\ <<r>>[1] = r
    BY <2>3, OneRange
  <2> DEFINE opened == <<r>>
  <2> HIDE DEF opened
  <2>5. opened \in Seq(SumRange) /\ Len(opened) = 1 /\ opened[1] = r /\ opened # <<>>
        /\ out = [Close(b) EXCEPT !.open = opened]
    BY <2>2, <2>4, EmptySeq DEF opened
  <2>6. Close(b) \in Builders /\ Close(b).ranges = AllRanges(b)
    BY CloseFacts
  <2> DEFINE closed == Close(b)
  <2> HIDE DEF closed
  <2>8. closed \in Builders /\ out = [closed EXCEPT !.open = opened]
    BY <2>5, <2>6 DEF closed
  <2>9. out.open = opened /\ out.ranges = closed.ranges /\ out \in Builders
    <3>1. opened \in Seq(SumRange) /\ Len(opened) = 1
      BY <2>5
    <3>2. closed \in Builders
      BY <2>8
    <3>3. out = [closed EXCEPT !.open = opened]
      BY <2>8
    <3>4. \A c \in Builders : \A o \in Seq(SumRange) : \A d :
            Len(o) = 1 /\ d = [c EXCEPT !.open = o]
            => d \in Builders /\ d.open = o /\ d.ranges = c.ranges
      BY Opened
    <3> QED
      BY <3>1, <3>2, <3>3, <3>4
  <2>7. out.open = opened /\ out.ranges = AllRanges(b) /\ out \in Builders
    BY <2>6, <2>9 DEF closed
  <2> QED
    BY <1>3, <1>6, <2>5, <2>7 DEF r, more, last, Extended
<1> QED
  BY <1>5, <1>6

(* Everything before block `next` was consumed; a range that ends there is *)
(* still open.                                                             *)
BuilderAt(b, next) ==
  /\ b \in Builders
  /\ Apart(AllRanges(b))
  /\ b.open = <<>> => \A i \in 1..Len(AllRanges(b)) : AllRanges(b)[i].last + 1 < next
  /\ b.open # <<>> => b.open[1].last + 1 = next

(* Lists of ranges of which the second ends later, or has one range more.  *)
LEMMA LastGrows ==
  ASSUME NEW R \in Seq(SumRange), Apart(R), NEW T \in Seq(SumRange), NEW n \in Nat \ {0},
         Len(R) = n, Len(T) = n, \A i \in 1..(n - 1) : T[i] = R[i],
         T[n].first = R[n].first, NEW f \in Nat, f = R[n].last + 1, f <= T[n].last
  PROVE  /\ Apart(T)
         /\ \A x \in Nat : InBlocks(T, x) <=> InBlocks(R, x) \/ (f <= x /\ x <= T[n].last)
<1>1. \A i \in 1..n : /\ R[i].first \in Nat /\ R[i].last \in Nat /\ R[i].first <= R[i].last
                      /\ T[i].first \in Nat /\ T[i].last \in Nat
  <2>1. \A i \in 1..n : R[i] \in SumRange /\ T[i] \in SumRange
    BY ElementOfSeq
  <2>2. \A i \in 1..n : R[i].first <= R[i].last
    BY DEF Apart
  <2> QED
    BY <2>1, <2>2 DEF SumRange
<1>2. \A i \in 1..n : i = n \/ i \in 1..(n - 1)
  OBVIOUS
<1>3. n \in 1..n
  OBVIOUS
<1>4. Apart(T)
  <2> SUFFICES ASSUME NEW i \in 1..n
               PROVE  /\ T[i].first <= T[i].last
                      /\ \A k \in 1..n : i < k => T[i].last + 1 < T[k].first
    BY DEF Apart
  <2>1. CASE i = n
    BY <1>1, <1>3, <2>1
  <2>2. CASE i \in 1..(n - 1)
    <3>1. \A k \in 1..n : i < k => R[i].last + 1 < R[k].first
      BY DEF Apart
    <3>2. \A k \in 1..n : T[k].first = R[k].first
      BY <1>2
    <3> QED
      BY <1>1, <2>2, <3>1, <3>2
  <2> QED
    BY <1>2, <2>1, <2>2
<1>5. ASSUME NEW x \in Nat
      PROVE  InBlocks(T, x) <=> InBlocks(R, x) \/ (f <= x /\ x <= T[n].last)
  <2>1. InRangeOf(T[n], x) <=> InRangeOf(R[n], x) \/ (f <= x /\ x <= T[n].last)
    BY <1>1, <1>3 DEF InRangeOf
  <2>2. InBlocks(T, x) <=> InRangeOf(T[n], x) \/ \E i \in 1..(n - 1) : InRangeOf(R[i], x)
    BY <1>2, <1>3 DEF InBlocks
  <2>3. InBlocks(R, x) <=> InRangeOf(R[n], x) \/ \E i \in 1..(n - 1) : InRangeOf(R[i], x)
    BY <1>2, <1>3 DEF InBlocks
  <2> QED
    BY <2>1, <2>2, <2>3
<1> QED
  BY <1>4, <1>5

LEMMA OneMore ==
  ASSUME NEW R \in Seq(SumRange), Apart(R), NEW T \in Seq(SumRange), NEW n \in Nat,
         Len(R) = n, Len(T) = n + 1, \A i \in 1..n : T[i] = R[i],
         NEW f \in Nat, T[n + 1].first = f, f <= T[n + 1].last,
         \A i \in 1..n : R[i].last + 1 < f
  PROVE  /\ Apart(T)
         /\ \A x \in Nat : InBlocks(T, x) <=> InBlocks(R, x) \/ (f <= x /\ x <= T[n + 1].last)
<1>1. \A i \in 1..(n + 1) : i = n + 1 \/ i \in 1..n
  OBVIOUS
<1>2. Apart(T)
  <2> SUFFICES ASSUME NEW i \in 1..(n + 1)
               PROVE  /\ T[i].first <= T[i].last
                      /\ \A k \in 1..(n + 1) : i < k => T[i].last + 1 < T[k].first
    BY DEF Apart
  <2>1. CASE i = n + 1
    BY <2>1
  <2>2. CASE i \in 1..n
    <3>1. R[i].first <= R[i].last /\ \A k \in 1..n : i < k => R[i].last + 1 < R[k].first
      BY <2>2 DEF Apart
    <3> QED
      BY <1>1, <2>2, <3>1
  <2> QED
    BY <1>1, <2>1, <2>2
<1>3. ASSUME NEW x \in Nat
      PROVE  InBlocks(T, x) <=> InBlocks(R, x) \/ (f <= x /\ x <= T[n + 1].last)
  <2>1. n + 1 \in 1..(n + 1) /\ \A i \in 1..n : i \in 1..(n + 1)
    OBVIOUS
  <2> QED
    BY <1>1, <2>1 DEF InBlocks, InRangeOf
<1> QED
  BY <1>2, <1>3

LEMMA CeilPositive ==
  ASSUME NEW n \in Nat \ {0}, NEW bs \in Nat \ {0}
  PROVE  CeilDiv(n, bs) \in Nat \ {0}
<1>1. 0 * bs = 0 /\ n <= CeilDiv(n, bs) * bs /\ CeilDiv(n, bs) \in Nat
  BY CeilFacts
<1> QED
  BY <1>1

(* Data of the next blocks.                                                *)
LEMMA ExtendOn ==
  ASSUME CallOk, NEW f \in Nat, NEW b, BuilderAt(b, f), NEW seg \in Seq(Nat), seg # <<>>,
         NEW next, next = f + CeilDiv(Len(seg), call.bs), NEW out, out = Extend(b, f, seg)
  PROVE  /\ next \in Nat /\ f < next /\ BuilderAt(out, next)
         /\ \A x \in Nat : InBlocks(AllRanges(out), x)
                           <=> InBlocks(AllRanges(b), x) \/ (f <= x /\ x < next)
<1> DEFINE last == f + CeilDiv(Len(seg), call.bs) - 1
           R == AllRanges(b)
           T == AllRanges(out)
           n == Len(R)
<1>1. Len(seg) \in Nat \ {0} /\ CeilDiv(Len(seg), call.bs) \in Nat \ {0}
  BY EmptySeq, CeilPositive DEF CallOk
<1>2. next \in Nat /\ f < next /\ last = next - 1 /\ last \in Nat /\ f <= last
  BY <1>1
<1>3. b \in Builders
  BY DEF BuilderAt
<1>4. /\ out \in Builders /\ out.open # <<>>
      /\ b.open # <<>> /\ b.open[1].last + 1 = f
         => /\ out.ranges = b.ranges
            /\ out.open[1] = [first |-> b.open[1].first, last |-> last,
                              sum |-> b.open[1].sum \o Fed(seg)]
      /\ ~(b.open # <<>> /\ b.open[1].last + 1 = f)
         => /\ out.ranges = AllRanges(b)
            /\ out.open[1] = [first |-> f, last |-> last, sum |-> Fed(seg)]
  <2>1. last = LastOf(f, seg)
    BY DEF LastOf
  <2> HIDE DEF last
  <2> QED
    <3>1. Extended(b, f, seg, out)
      BY <1>3, ExtendShape
    <3> QED
      BY <2>1, <3>1 DEF Extended
<1> HIDE DEF last
<1>5. /\ R \in Seq(SumRange) /\ T \in Seq(SumRange) /\ n \in Nat
      /\ Len(T) = Len(out.ranges) + 1 /\ T[Len(T)] = out.open[1]
      /\ \A i \in 1..Len(out.ranges) : T[i] = out.ranges[i]
  BY <1>3, <1>4, BuilderFacts, LenProperties
<1>6. out.open[1].last = last
  BY <1>4
<1>7. Apart(T) /\ \A x \in Nat : InBlocks(T, x) <=> InBlocks(R, x) \/ (f <= x /\ x <= last)
  <2>1. CASE b.open # <<>>
    <3>1. b.open[1].last + 1 = f
      BY <2>1 DEF BuilderAt
    <3>2. out.ranges = b.ranges /\ out.open[1].first = b.open[1].first
      BY <1>4, <2>1, <3>1
    <3>3. /\ n = Len(b.ranges) + 1 /\ R[n] = b.open[1] /\ Len(b.ranges) \in Nat
          /\ \A i \in 1..Len(b.ranges) : R[i] = b.ranges[i]
      BY <1>3, <2>1, BuilderFacts, LenProperties
    <3> HIDE DEF R, T, n
    <3>4. n \in Nat \ {0} /\ Len(b.ranges) = n - 1
      BY <3>3
    <3>5. Len(T) = n /\ T[n].first = R[n].first /\ T[n].last = last /\ f = R[n].last + 1
          /\ \A i \in 1..(n - 1) : T[i] = R[i]
      BY SMTT(30), <1>5, <1>6, <3>1, <3>2, <3>3, <3>4
    <3>6. Apart(R) /\ Len(R) = n
      BY DEF BuilderAt, R, n
    <3>7. R \in Seq(SumRange) /\ T \in Seq(SumRange) /\ f <= T[n].last
      BY <1>2, <1>5, <3>5
    <3>8. Apart(T) /\ \A x \in Nat : InBlocks(T, x) <=> InBlocks(R, x) \/ (f <= x /\ x <= T[n].last)
      BY SMTT(30), <3>4, <3>5, <3>6, <3>7, LastGrows
    <3> QED
      BY <3>5, <3>8
  <2>2. CASE b.open = <<>>
    <3>1. out.ranges = R /\ out.open[1].first = f
      BY <1>4, <2>2
    <3>2. Apart(R) /\ \A i \in 1..n : R[i].last + 1 < f
      BY <2>2 DEF BuilderAt
    <3>3. Len(R) = n
      OBVIOUS
    <3> HIDE DEF R, T, n
    <3>4. Len(T) = n + 1 /\ T[n + 1].first = f /\ T[n + 1].last = last
          /\ \A i \in 1..n : T[i] = R[i]
      BY <1>5, <1>6, <3>1, <3>3
    <3>5. R \in Seq(SumRange) /\ T \in Seq(SumRange) /\ n \in Nat /\ f <= T[n + 1].last
      BY <1>2, <1>5, <3>4
    <3>6. Apart(T) /\ \A x \in Nat : InBlocks(T, x) <=> InBlocks(R, x) \/ (f <= x /\ x <= T[n + 1].last)
      BY <3>2, <3>3, <3>4, <3>5, OneMore
    <3> QED
      BY <3>4, <3>6
  <2> QED
    BY <2>1, <2>2
<1>8. BuilderAt(out, next)
  BY <1>2, <1>4, <1>6, <1>7 DEF BuilderAt
<1> QED
  BY <1>2, <1>7, <1>8

-----------------------------------------------------------------------------
(* Checksums.                                                              *)

(* The cells of the image from `from` to `to` - 1.                         *)
CellsOf(from, to) == [k \in 1..(to - from) |-> Content(from + k - 1)]

Summed(r, end) ==
  r.sum = IF call.sums THEN CellsOf(r.first * call.bs, Lesser((r.last + 1) * call.bs, end))
          ELSE <<>>

AllSummed(b, end) == \A i \in 1..Len(AllRanges(b)) : Summed(AllRanges(b)[i], end)

Even(n) == \E k \in Nat : n = k * call.bs

(* Where data may stop: between two blocks or at the end.                  *)
StopsAt(e, end) == e <= end /\ (Even(e) \/ e = end)

LEMMA CellsType ==
  ASSUME NEW from \in Nat, NEW to \in Nat, from <= to
  PROVE  /\ CellsOf(from, to) \in Seq(Nat)
         /\ Len(CellsOf(from, to)) = to - from
         /\ \A k \in 1..(to - from) : CellsOf(from, to)[k] = Content(from + k - 1)
<1>1. to - from \in Nat /\ \A k \in 1..(to - from) : Content(from + k - 1) \in Nat
  BY DEF Content, Zero
<1> QED
  BY <1>1 DEF CellsOf

LEMMA CellsJoin ==
  ASSUME NEW a \in Nat, NEW m \in Nat, NEW e \in Nat, a <= m, m <= e
  PROVE  CellsOf(a, m) \o CellsOf(m, e) = CellsOf(a, e)
<1> DEFINE s == CellsOf(a, m)
           t == CellsOf(m, e)
           u == CellsOf(a, e)
<1>1. /\ s \in Seq(Nat) /\ Len(s) = m - a /\ \A k \in 1..(m - a) : s[k] = Content(a + k - 1)
      /\ t \in Seq(Nat) /\ Len(t) = e - m /\ \A k \in 1..(e - m) : t[k] = Content(m + k - 1)
      /\ u \in Seq(Nat) /\ Len(u) = e - a /\ \A k \in 1..(e - a) : u[k] = Content(a + k - 1)
  <2>1. s \in Seq(Nat) /\ Len(s) = m - a /\ \A k \in 1..(m - a) : s[k] = Content(a + k - 1)
    BY CellsType
  <2>2. t \in Seq(Nat) /\ Len(t) = e - m /\ \A k \in 1..(e - m) : t[k] = Content(m + k - 1)
    BY CellsType
  <2>3. a <= e
    OBVIOUS
  <2>4. u \in Seq(Nat) /\ Len(u) = e - a /\ \A k \in 1..(e - a) : u[k] = Content(a + k - 1)
    BY <2>3, CellsType
  <2> QED
    BY <2>1, <2>2, <2>4
<1> HIDE DEF s, t, u
<1>2. /\ s \o t \in Seq(Nat) /\ Len(s \o t) = Len(s) + Len(t)
      /\ \A i \in 1..(Len(s) + Len(t)) : (s \o t)[i] = IF i <= Len(s) THEN s[i] ELSE t[i - Len(s)]
  BY <1>1, ConcatProperties
<1>3. Len(s \o t) = e - a
  BY <1>1, <1>2
<1>4. ASSUME NEW i \in 1..(e - a)
      PROVE  (s \o t)[i] = u[i]
  <2>0. u[i] = Content(a + i - 1) /\ i \in 1..(Len(s) + Len(t))
    BY <1>1
  <2>1. CASE i <= m - a
    <3>1. i \in 1..(m - a)
      BY <2>1
    <3> QED
      BY <1>1, <1>2, <2>0, <2>1, <3>1
  <2>2. CASE ~(i <= m - a)
    <3>1. i - (m - a) \in 1..(e - m) /\ m + (i - (m - a)) - 1 = a + i - 1
      BY <2>2
    <3>2. t[i - (m - a)] = Content(m + (i - (m - a)) - 1)
      BY <1>1, <3>1
    <3>3. (s \o t)[i] = t[i - (m - a)]
      BY <1>1, <1>2, <2>0, <2>2
    <3> QED
      BY <2>0, <3>1, <3>2, <3>3
  <2> QED
    BY <2>1, <2>2
<1>5. s \o t = u
  BY <1>1, <1>2, <1>3, <1>4, SeqEqual
<1> QED
  BY <1>5 DEF s, t, u

(* n cells from block f on end at e, and `next` is the block after them.   *)
Covers(f, n, next, e, bs) == next = f + CeilDiv(n, bs) /\ e = f * bs + n

LEMMA NextBlock ==
  ASSUME NEW bs \in Nat \ {0}, NEW f \in Nat, NEW n \in Nat \ {0},
         NEW next, NEW e, Covers(f, n, next, e, bs)
  PROVE  /\ next \in Nat /\ e \in Nat /\ f * bs \in Nat /\ next * bs \in Nat /\ e <= next * bs
         /\ \A k \in Nat : k * bs < e => k < next
         /\ \A k \in Nat : k < next => k * bs < e
         /\ \A k \in Nat : e = k * bs => next = k
<1>0. next = f + CeilDiv(n, bs) /\ e = f * bs + n
  BY DEF Covers
<1> DEFINE q == CeilDiv(n, bs)
<1>1. q \in Nat \ {0} /\ n <= q * bs /\ \A k \in Nat : k < q => k * bs < n
  BY CeilFacts, CeilPositive
<1> HIDE DEF q
<1>2. next = f + q
  BY <1>0 DEF q
<1>3. next \in Nat /\ next * bs = f * bs + q * bs /\ f * bs \in Nat /\ q * bs \in Nat
  BY <1>1, <1>2
<1>4. e \in Nat /\ e <= next * bs /\ e = f * bs + n
  BY <1>0, <1>1, <1>3
<1>5. ASSUME NEW k \in Nat, k * bs < e
      PROVE  k < next
  <2>1. SUFFICES ASSUME next <= k PROVE FALSE
    BY <1>3
  <2>2. next * bs <= k * bs /\ k * bs \in Nat
    <3>1. next = k \/ next < k
      BY <1>3, <2>1
    <3>2. next < k => (next + 1) * bs <= k * bs /\ (next + 1) * bs = next * bs + bs
      BY <1>3, Multiples
    <3> QED
      BY <1>3, <3>1, <3>2
  <2> QED
    BY <1>3, <1>4, <1>5, <2>2
<1>6. ASSUME NEW k \in Nat, k < next
      PROVE  k * bs < e
  <2>1. CASE k < f
    <3>1. (k + 1) * bs <= f * bs /\ (k + 1) * bs = k * bs + bs /\ k * bs \in Nat
      BY <2>1, Multiples
    <3> QED
      BY <1>3, <1>4, <3>1
  <2>2. CASE ~(k < f)
    <3> DEFINE d == k - f
    <3>1. d \in Nat /\ d < q /\ k = f + d
      BY <1>1, <1>2, <1>6, <2>2
    <3> HIDE DEF d
    <3>2. k * bs = f * bs + d * bs /\ d * bs < n /\ d * bs \in Nat
      BY <1>1, <3>1
    <3> QED
      BY <1>3, <1>4, <3>2
  <2> QED
    BY <2>1, <2>2
<1>7. ASSUME NEW k \in Nat, e = k * bs
      PROVE  next = k
  <2>1. ~(k < next)
    BY <1>4, <1>6, <1>7
  <2>2. ~(next < k)
    <3> SUFFICES ASSUME next < k PROVE FALSE
      OBVIOUS
    <3>1. (next + 1) * bs <= k * bs /\ (next + 1) * bs = next * bs + bs
      BY <1>3, Multiples
    <3> QED
      BY <1>3, <1>4, <1>7, <3>1
  <2> QED
    BY <1>3, <2>1, <2>2
<1> QED
  BY <1>3, <1>4, <1>5, <1>6, <1>7

(* The first cell of block f.                                              *)
StartOf(f, a) == a = f * call.bs

(* Sums stay right when the data of the next blocks is taken in.           *)
LEMMA SumsOn ==
  ASSUME CallOk, NEW f \in Nat, NEW b, BuilderAt(b, f), NEW n \in Nat \ {0},
         NEW a, StartOf(f, a), NEW e, e = a + n, NEW end \in Nat, StopsAt(e, end),
         AllSummed(b, end), NEW seg, seg = CellsOf(a, e), NEW out, out = Extend(b, f, seg)
  PROVE  AllSummed(out, end)
<1> DEFINE bs == call.bs
           last == f + CeilDiv(Len(seg), bs) - 1
           next == f + CeilDiv(n, bs)
<1>0. a \in Nat
  BY DEF CallOk, StartOf
<1>1. bs \in Nat \ {0} /\ a \in Nat /\ e \in Nat /\ e = a + n /\ a < e /\ e <= end
  BY <1>0 DEF CallOk, StopsAt
<1>2. seg \in Seq(Nat) /\ Len(seg) = n /\ seg # <<>>
  <2>2. seg \in Seq(Nat) /\ Len(seg) = e - a
    BY <1>1, CellsType
  <2>3. Len(seg) = n
    BY <1>1, <2>2
  <2>4. Len(<<>>) = 0
    BY EmptySeq
  <2>5. seg # <<>>
    BY <2>3, <2>4
  <2> QED
    BY <2>2, <2>3, <2>5
<1>3. next \in Nat /\ next * bs \in Nat /\ e <= next * bs /\ last + 1 = next
      /\ \A k \in Nat : e = k * bs => next = k
  <2>1. next \in Nat /\ next * bs \in Nat /\ e <= next * bs /\ \A k \in Nat : e = k * bs => next = k
    <3>1. bs \in Nat \ {0} /\ Covers(f, n, next, e, bs)
      BY <1>1 DEF StartOf, Covers
    <3> HIDE DEF bs, next
    <3> QED
      BY <3>1, NextBlock
  <2>2. last = next - 1
    <3>1. CeilDiv(n, bs) \in Nat
      BY <1>1, CeilFacts
    <3>2. last = f + CeilDiv(n, bs) - 1
      BY <1>2
    <3> QED
      BY <3>1, <3>2
  <2> HIDE DEF next, last
  <2> QED
    BY <2>1, <2>2
<1> HIDE DEF next
<1>4. Lesser(next * bs, end) = e
  <2>1. CASE e = end
    <3> DEFINE stop == next * bs
    <3>1. stop \in Nat /\ e <= stop
      BY <1>3
    <3> HIDE DEF stop
    <3>2. Lesser(stop, end) = e
      BY <1>1, <2>1, <3>1 DEF Lesser
    <3> QED
      BY <3>2 DEF stop
  <2>2. CASE Even(e)
    BY <1>1, <1>3, <2>2 DEF Lesser, Even
  <2> QED
    BY <2>1, <2>2 DEF StopsAt
<1>5. b \in Builders
  BY DEF BuilderAt
<1>6. /\ out \in Builders /\ out.open # <<>>
      /\ b.open # <<>> /\ b.open[1].last + 1 = f
         => /\ out.ranges = b.ranges
            /\ out.open[1] = [first |-> b.open[1].first, last |-> last,
                              sum |-> b.open[1].sum \o Fed(seg)]
      /\ ~(b.open # <<>> /\ b.open[1].last + 1 = f)
         => /\ out.ranges = AllRanges(b)
            /\ out.open[1] = [first |-> f, last |-> last, sum |-> Fed(seg)]
  <2>1. seg \in Seq(Nat) /\ seg # <<>>
    BY <1>2
  <2> QED
    <3>1. last = LastOf(f, seg)
      BY DEF LastOf
    <3> HIDE DEF last, bs
    <3> QED
      <4>1. Extended(b, f, seg, out)
        BY <1>5, <2>1, ExtendShape
      <4> QED
        BY <3>1, <4>1 DEF Extended
<1> HIDE DEF last
<1>7. /\ Len(AllRanges(out)) = Len(out.ranges) + 1
      /\ AllRanges(out)[Len(AllRanges(out))] = out.open[1]
      /\ \A i \in 1..Len(out.ranges) : AllRanges(out)[i] = out.ranges[i]
      /\ Len(out.ranges) \in Nat
  BY <1>6, BuilderFacts, LenProperties
<1>8. Summed(out.open[1], end) /\ \A i \in 1..Len(out.ranges) : Summed(out.ranges[i], end)
  <2>1. CASE b.open # <<>>
    <3> DEFINE o == b.open[1]
               m == Len(b.ranges)
    <3>1. o.last + 1 = f
      BY <2>1 DEF BuilderAt
    <3>2. /\ out.ranges = b.ranges /\ out.open[1].first = o.first /\ out.open[1].last = last
          /\ out.open[1].sum = o.sum \o Fed(seg)
      <4>1. out.ranges = b.ranges
            /\ out.open[1] = [first |-> o.first, last |-> last, sum |-> o.sum \o Fed(seg)]
        BY <1>6, <2>1, <3>1
      <4> HIDE DEF o
      <4> DEFINE r == out.open[1]
      <4>2. r = [first |-> o.first, last |-> last, sum |-> o.sum \o Fed(seg)]
        BY <4>1
      <4> HIDE DEF r
      <4>3. r.first = o.first /\ r.last = last /\ r.sum = o.sum \o Fed(seg)
        BY <4>2
      <4> QED
        BY <4>1, <4>3 DEF r
    <3>3. /\ o \in SumRange /\ Len(AllRanges(b)) = m + 1 /\ AllRanges(b)[m + 1] = o /\ m \in Nat
          /\ \A i \in 1..m : AllRanges(b)[i] = b.ranges[i]
      <4>1. b.ranges \in Seq(SumRange)
        BY <1>5, BuilderFacts
      <4> QED
        BY <1>5, <2>1, <4>1, BuilderFacts, LenProperties
    <3> HIDE DEF o, m
    <3>4. Summed(o, end) /\ \A i \in 1..m : Summed(b.ranges[i], end)
      BY <3>3 DEF AllSummed
    <3>5. o.first \in Nat /\ o.last \in Nat /\ o.first <= o.last
      <4>1. Apart(AllRanges(b)) /\ m + 1 \in 1..Len(AllRanges(b))
        BY <3>3 DEF BuilderAt
      <4> QED
        BY <3>3, <4>1 DEF Apart, SumRange
    <3>6. o.first * bs \in Nat /\ o.first * bs <= a
      <4>1. o.first < f
        BY <3>1, <3>5
      <4> QED
        BY <1>1, <3>5, <4>1, Multiples DEF StartOf
    <3>7. (o.last + 1) * bs = a /\ Lesser((o.last + 1) * bs, end) = a
      <4>1. (o.last + 1) * bs = a
        BY <3>1 DEF StartOf
      <4> QED
        BY <1>1, <4>1 DEF Lesser
    <3>8. CASE call.sums
      <4>1. o.sum = CellsOf(o.first * bs, a) /\ Fed(seg) = CellsOf(a, e)
        BY <3>4, <3>7, <3>8 DEF Summed, Fed
      <4> DEFINE c == o.first * bs
      <4>3. c \in Nat /\ c <= a
        BY <3>6
      <4>4. CellsOf(c, a) \o CellsOf(a, e) = CellsOf(c, e)
        <5> HIDE DEF c
        <5>1. a \in Nat /\ e \in Nat /\ a <= e
          BY <1>1
        <5> QED
          BY <4>3, <5>1, CellsJoin
      <4>2. out.open[1].sum = CellsOf(o.first * bs, e)
        BY <3>2, <4>1, <4>4
      <4> QED
        BY <1>3, <1>4, <3>2, <3>4, <3>8, <4>2 DEF Summed, m
    <3>9. CASE ~call.sums
      <4>1. o.sum = <<>> /\ Fed(seg) = <<>> /\ <<>> \o <<>> = <<>>
        BY <3>4, <3>9, EmptySeq, ConcatEmptySeq DEF Summed, Fed
      <4> QED
        BY <3>2, <3>4, <3>9, <4>1 DEF Summed, m
    <3> QED
      BY <3>8, <3>9 DEF CallOk
  <2>2. CASE b.open = <<>>
    <3>1. /\ out.ranges = AllRanges(b) /\ out.open[1].first = f /\ out.open[1].last = last
          /\ out.open[1].sum = Fed(seg)
      BY <1>6, <2>2
    <3>2. Summed(out.open[1], end)
      <4>1. CASE call.sums
        BY <1>3, <1>4, <3>1, <4>1 DEF Summed, Fed, StartOf
      <4>2. CASE ~call.sums
        BY <3>1, <4>2 DEF Summed, Fed
      <4> QED
        BY <4>1, <4>2
    <3> QED
      BY <3>1, <3>2 DEF AllSummed
  <2> QED
    BY <2>1, <2>2
<1> DEFINE m == Len(out.ranges)
<1>9. m \in Nat /\ \A i \in 1..(m + 1) : i = m + 1 \/ i \in 1..m
  BY <1>7
<1> QED
  BY <1>7, <1>8, <1>9 DEF AllSummed

-----------------------------------------------------------------------------
(* The spans of a batch.                                                   *)

(* Nothing the builder holds reaches beyond where it is.                   *)
LEMMA NothingBeyond ==
  ASSUME NEW f \in Nat, NEW b, BuilderAt(b, f)
  PROVE  \A i \in 1..Len(AllRanges(b)) : AllRanges(b)[i].last + 1 <= f
<1> DEFINE R == AllRanges(b)
           n == Len(R)
<1>1. b \in Builders /\ Apart(R)
  BY DEF BuilderAt
<1>2. R \in Seq(SumRange) /\ n \in Nat
  BY <1>1, BuilderFacts, LenProperties
<1>3. \A i \in 1..n : R[i].first \in Nat /\ R[i].last \in Nat /\ R[i].first <= R[i].last
  <2>1. \A i \in 1..n : R[i] \in SumRange
    BY <1>2, ElementOfSeq
  <2> QED
    BY <1>1, <2>1 DEF Apart, SumRange
<1>4. CASE b.open = <<>>
  BY <1>3, <1>4 DEF BuilderAt
<1>5. CASE b.open # <<>>
  <2>1. R[n] = b.open[1] /\ b.open[1].last + 1 = f
    BY <1>1, <1>5, BuilderFacts DEF BuilderAt
  <2> SUFFICES ASSUME NEW i \in 1..n PROVE R[i].last + 1 <= f
    OBVIOUS
  <2>2. n \in 1..n
    BY <1>2
  <2>3. i # n => R[i].last + 1 < R[n].first
    BY <1>1, <1>2, <2>2 DEF Apart
  <2> HIDE DEF R, n
  <2> QED
    BY <1>3, <2>1, <2>2, <2>3
<1> QED
  BY <1>4, <1>5

LEMMA ClosedAt ==
  ASSUME NEW f \in Nat, NEW b, BuilderAt(b, f), NEW g \in Nat, f < g
  PROVE  BuilderAt(Close(b), g) /\ AllRanges(Close(b)) = AllRanges(b)
<1>1. b \in Builders /\ Apart(AllRanges(b))
  BY DEF BuilderAt
<1>2. /\ Close(b) \in Builders /\ Close(b).open = <<>>
      /\ AllRanges(Close(b)) = AllRanges(b)
  BY <1>1, CloseFacts
<1>3. ASSUME NEW i \in 1..Len(AllRanges(b))
      PROVE  AllRanges(b)[i].last + 1 < g
  <2>1. AllRanges(b)[i] \in SumRange
    BY <1>1, BuilderFacts, ElementOfSeq
  <2>2. AllRanges(b)[i].last \in Nat
    BY <2>1 DEF SumRange
  <2>3. AllRanges(b)[i].last + 1 <= f
    BY NothingBeyond
  <2> QED
    BY <2>2, <2>3
<1> QED
  BY <1>1, <1>2, <1>3 DEF BuilderAt

LEMMA CeilShift ==
  ASSUME NEW bs \in Nat \ {0}, NEW f \in Nat, NEW n \in Nat \ {0},
         NEW next, NEW e, Covers(f, n, next, e, bs)
  PROVE  CeilDiv(e, bs) = next
<1>1. /\ next \in Nat /\ e \in Nat /\ next * bs \in Nat /\ e <= next * bs
      /\ \A k \in Nat : k < next => k * bs < e
  BY NextBlock
<1> DEFINE c == CeilDiv(e, bs)
<1>2. /\ c \in Nat /\ e <= c * bs /\ \A k \in Nat : k < c => k * bs < e
  BY <1>1, CeilFacts
<1> HIDE DEF c
<1>3. ~(c < next) /\ ~(next < c)
  <2>1. c * bs \in Nat
    BY <1>2
  <2> QED
    BY <1>1, <1>2, <2>1
<1>4. c = next
  BY <1>1, <1>2, <1>3
<1> QED
  BY <1>4 DEF c

(* What consume_spans does with one span.                                  *)
Taken(x, s, cells, base) ==
  IF s.zero THEN Close(x)
  ELSE Extend(x, (base + s.offset) \div call.bs, SubSeq(cells, s.offset + 1, s.offset + s.len))

LEMMA SpanCells ==
  ASSUME NEW cells \in Seq(Nat), NEW n \in Nat, n = Len(cells), NEW s \in SpanType, SpanEnd(s) <= n
  PROVE  /\ SubSeq(cells, s.offset + 1, s.offset + s.len) \in Seq(Nat)
         /\ Len(SubSeq(cells, s.offset + 1, s.offset + s.len)) = s.len
         /\ \A i \in 1..s.len : SubSeq(cells, s.offset + 1, s.offset + s.len)[i] = cells[s.offset + i]
         /\ SubSeq(cells, s.offset + 1, s.offset + s.len) # <<>>
<1> DEFINE from == s.offset + 1
           to == s.offset + s.len
           seg == SubSeq(cells, from, to)
<1>1. s.offset \in Nat /\ s.len \in Nat \ {0} /\ from \in Int /\ to \in Int /\ to <= n
      /\ from <= to /\ to - from + 1 = s.len /\ \A i \in 1..s.len : from + i - 1 = s.offset + i
  <2>1. s.offset \in Nat /\ s.len \in Nat \ {0} /\ to <= n
    BY DEF SpanType, SpanEnd
  <2> DEFINE o == s.offset
             l == s.len
  <2>2. o \in Nat /\ l \in Nat \ {0} /\ from = o + 1 /\ to = o + l
    BY <2>1
  <2> HIDE DEF o, l
  <2>3. /\ from \in Int /\ to \in Int /\ from <= to /\ to - from + 1 = l
        /\ \A i \in 1..l : from + i - 1 = o + i
    <3> HIDE DEF from, to
    <3> QED
      BY <2>2
  <2> QED
    BY <2>1, <2>3 DEF o, l
<1>2. \A i \in from..to : i \in 1..Len(cells)
  BY <1>1
<1>3. \A i \in from..to : cells[i] \in Nat
  BY <1>2, ElementOfSeq
<1> HIDE DEF from, to
<1>4. seg \in Seq(Nat) /\ Len(seg) = (IF from <= to THEN to - from + 1 ELSE 0)
      /\ \A i \in 1..(to - from + 1) : seg[i] = cells[from + i - 1]
  BY <1>1, <1>3, SubSeqProperties
<1> HIDE DEF seg
<1>5. Len(seg) = s.len /\ \A i \in 1..s.len : seg[i] = cells[s.offset + i]
  BY <1>1, <1>4
<1>6. seg # <<>>
  <2>1. Len(<<>>) = 0
    BY EmptySeq
  <2> QED
    BY <1>1, <1>5, <2>1
<1> QED
  BY <1>4, <1>5, <1>6 DEF seg, from, to

LEMMA TakenType ==
  ASSUME CallOk, NEW cells \in Seq(Nat), NEW s \in SpanType, SpanEnd(s) <= Len(cells),
         NEW x \in Builders, NEW base \in Nat
  PROVE  Taken(x, s, cells, base) \in Builders
<1>1. CASE s.zero
  BY <1>1, CloseFacts DEF Taken
<1>2. CASE ~s.zero
  <2> DEFINE seg == SubSeq(cells, s.offset + 1, s.offset + s.len)
             f == (base + s.offset) \div call.bs
  <2>1. seg \in Seq(Nat) /\ seg # <<>>
    BY SpanCells, LenProperties
  <2>2. f \in Nat
    BY SMTT(30), DivMod DEF SpanType, CallOk
  <2>3. Taken(x, s, cells, base) = Extend(x, f, seg)
    BY <1>2 DEF Taken
  <2> HIDE DEF seg, f
  <2>4. Extended(x, f, seg, Extend(x, f, seg))
    BY <2>1, <2>2, ExtendShape
  <2> QED
    BY <2>3, <2>4 DEF Extended
<1> QED
  BY <1>1, <1>2

(* consume_spans takes one span after the other.                           *)
ConsumedBy(f, b, spans, cells, base) ==
  /\ f[0] = b /\ f[Len(spans)] = Consume(b, cells, base)
  /\ \A k \in Nat : k <= Len(spans) => f[k] \in Builders
  /\ \A k \in Nat : k < Len(spans) => f[k + 1] = Taken(f[k], spans[k + 1], cells, base)

LEMMA ConsumeSteps ==
  ASSUME CallOk, NEW b \in Builders, NEW cells \in Seq(Nat), NEW base \in Nat,
         NEW spans, spans = Classify(cells, call.bs, call.zeros)
  PROVE  \E f : ConsumedBy(f, b, spans, cells, base)
<1> DEFINE V == Builders
           m == Len(spans)
           op(x, s) == Taken(x, s, cells, base)
           step == [i \in 1..m |-> [v \in V |-> op(v, spans[i])]]
           Value(it, s) == IF s = {} THEN b ELSE op(it[s \ {Max(s)}], spans[Max(s)])
           fold == CHOOSE it : it = [s \in SUBSET DOMAIN spans |-> Value(it, s)]
<1>0. Cuts(spans, Len(cells)) /\ Len(cells) \in Nat
  BY Classified, LenProperties DEF CallOk
<1>1. m \in Nat /\ DOMAIN spans = 1..m
  BY <1>0, LenProperties DEF Cuts
<1>2. ASSUME NEW i \in 1..m, NEW v \in V
      PROVE  op(v, spans[i]) \in V
  <2>1. spans[i] \in SpanType /\ SpanEnd(spans[i]) <= Len(cells)
    BY <1>0, CutsFacts DEF Cuts
  <2> HIDE DEF m
  <2> QED
    BY <2>1, TakenType
<1>3. StepsIn(step, 1..m, V) /\ b \in V
  BY <1>2 DEF StepsIn
<1>4. \A i \in 1..m, v \in V : step[i][v] = op(v, spans[i])
  OBVIOUS
<1>5. \E it : it = [s \in SUBSET DOMAIN spans |-> Value(it, s)]
  <2> HIDE DEF V, step, m, op
  <2>1. PICK it : FoldsUp(it, m, V, b, step)
    BY <1>1, <1>3, FoldOver
  <2>2. \A s \in SUBSET (1..m) : it[s] = Value(it, s)
    BY <1>4, <2>1 DEF FoldsUp
  <2>3. it = [s \in SUBSET DOMAIN spans |-> Value(it, s)]
    <3> HIDE DEF Value
    <3> QED
      BY <1>1, <2>1, <2>2 DEF FoldsUp
  <2> QED
    BY <2>3
<1>6. fold = [s \in SUBSET (1..m) |-> Value(fold, s)]
  <2> HIDE DEF Value, m
  <2> QED
    BY <1>1, <1>5
<1>7. Consume(b, cells, base) = fold[1..m]
  BY <1>1, Zenon DEF Consume, Taken, FoldLeft, MapThenFoldSet
<1> HIDE DEF fold, m, op
<1>8. fold[1..0] = b
  BY <1>6
<1>9. ASSUME NEW k \in Nat, k < m
      PROVE  fold[1..(k + 1)] = op(fold[1..k], spans[k + 1])
  <2>1. fold[1..(k + 1)] = Value(fold, 1..(k + 1))
    <3> HIDE DEF Value
    <3> QED
      BY <1>1, <1>6, <1>9, PrefixFacts
  <2> QED
    BY <1>1, <1>9, <2>1, PrefixFacts
<1> DEFINE f == [k \in 0..m |-> fold[1..k]]
<1>10. f[0] = b /\ f[m] = Consume(b, cells, base)
  BY <1>1, <1>7, <1>8
<1>11. ASSUME NEW k \in Nat, k < m
       PROVE  f[k + 1] = Taken(f[k], spans[k + 1], cells, base)
  <2>1. k \in 0..m /\ k + 1 \in 0..m
    BY <1>1, <1>11
  <2>2. f[k + 1] = op(f[k], spans[k + 1])
    BY <1>9, <1>11, <2>1
  <2> QED
    BY <2>2 DEF op
<1> DEFINE Typed == {k \in Nat : k <= m => f[k] \in Builders}
<1>12. ASSUME NEW k \in Nat, k \in Typed
       PROVE  k + 1 \in Typed
  <2> SUFFICES ASSUME k + 1 <= m PROVE f[k + 1] \in Builders
    OBVIOUS
  <2>1. k < m /\ k + 1 \in 1..m /\ f[k] \in Builders
    BY <1>1, <1>12
  <2>2. f[k + 1] = op(f[k], spans[k + 1])
    BY <1>11, <2>1 DEF op
  <2> HIDE DEF f
  <2> QED
    BY <1>2, <2>1, <2>2
<1>13. 0 \in Typed
  BY <1>10
<1> HIDE DEF Typed
<1>14. \A k \in Nat : k \in Typed
  BY <1>12, <1>13, Induction
<1> QED
  BY <1>10, <1>11, <1>14 DEF m, Typed, ConsumedBy

(* Where the first k spans end.                                            *)
EndOf(spans, k) == IF k = 0 THEN 0 ELSE SpanEnd(spans[k])

(* A cell between a and e lies in block y.                                 *)
Reached(a, e, y) == \E c \in Nat : a <= c /\ c < e /\ InBlock(c, y, call.bs)

LEMMA ReachedBlocks ==
  ASSUME CallOk, NEW f \in Nat, NEW n \in Nat \ {0}, NEW next, NEW a, StartOf(f, a),
         NEW e, e = a + n, Covers(f, n, next, e, call.bs), NEW y \in Nat
  PROVE  Reached(a, e, y) <=> f <= y /\ y < next
<1> DEFINE bs == call.bs
<1>1. /\ bs \in Nat \ {0} /\ next \in Nat /\ e \in Nat /\ a \in Nat /\ a = f * bs
      /\ \A k \in Nat : k * bs < e => k < next
      /\ \A k \in Nat : k < next => k * bs < e
  <2>1. bs \in Nat \ {0} /\ a = f * bs
    BY DEF CallOk, StartOf
  <2>2. /\ next \in Nat /\ e \in Nat /\ f * bs \in Nat
        /\ \A k \in Nat : k * bs < e => k < next
        /\ \A k \in Nat : k < next => k * bs < e
    BY <2>1, NextBlock
  <2> QED
    BY <2>1, <2>2
<1>2. InBlock(a, f, bs)
  BY <1>1, BlockStart
<1>3. ASSUME Reached(a, e, y) PROVE f <= y /\ y < next
  <2>1. PICK c \in Nat : a <= c /\ c < e /\ InBlock(c, y, bs)
    BY <1>3 DEF Reached
  <2>2. f <= y
    BY <1>1, <1>2, <2>1, BlocksAscend
  <2>3. y * bs <= c
    BY <1>1, <2>1, InBlockFacts
  <2>4. y * bs \in Nat
    BY <1>1
  <2>5. y * bs < e
    BY <1>1, <2>1, <2>3, <2>4
  <2> QED
    BY <1>1, <2>2, <2>5
<1>4. ASSUME f <= y, y < next PROVE Reached(a, e, y)
  <2>1. y * bs \in Nat /\ InBlock(y * bs, y, bs) /\ y * bs < e
    BY <1>1, <1>4, BlockStart
  <2>2. f * bs <= y * bs
    <3>1. f = y \/ f < y
      BY <1>4
    <3>2. f < y => (f + 1) * bs <= y * bs /\ (f + 1) * bs = f * bs + bs /\ f * bs \in Nat
      BY <1>1, Multiples
    <3> QED
      BY <1>1, <2>1, <3>1, <3>2
  <2> QED
    BY <1>1, <2>1, <2>2 DEF Reached
<1> QED
  BY <1>3, <1>4

(* The builder after the first k spans of a batch.                         *)
TakenTo(x, b, spans, k, j, base, stop, end) ==
  /\ BuilderAt(x, j + CeilDiv(EndOf(spans, k), call.bs))
  /\ \A y \in Nat : InBlocks(AllRanges(x), y)
       <=> \/ InBlocks(AllRanges(b), y)
           \/ \E i \in 1..k : /\ ~spans[i].zero
                             /\ Reached(base + spans[i].offset, base + SpanEnd(spans[i]), y)
  /\ AllSummed(b, end) /\ StopsAt(stop, end) => AllSummed(x, end)

LEMMA CeilOfMultiple ==
  ASSUME NEW bs \in Nat \ {0}, NEW q \in Nat, NEW a, a = q * bs
  PROVE  CeilDiv(a, bs) = q
<1> DEFINE c == CeilDiv(a, bs)
<1>1. a \in Nat
  OBVIOUS
<1>2. c \in Nat /\ a <= c * bs /\ \A k \in Nat : k < c => k * bs < a
  BY <1>1, CeilFacts
<1> HIDE DEF c
<1>3. ~(q < c)
  BY <1>1, <1>2
<1>4. ~(c < q)
  <2>1. c < q => (c + 1) * bs <= q * bs /\ (c + 1) * bs = c * bs + bs /\ c * bs \in Nat
    BY <1>2, Multiples
  <2> QED
    BY <1>1, <1>2, <2>1
<1>5. c = q
  BY <1>2, <1>3, <1>4
<1> QED
  BY <1>5 DEF c

Times(x, q, bs) == x = q * bs
Some(n) == n \in Nat \ {0}

(* A span of a batch begins at a block of the image.                       *)
LEMMA SpanArith ==
  ASSUME NEW bs \in Nat \ {0}, NEW j \in Nat, NEW base, Times(base, j, bs),
         NEW q \in Nat, NEW o, Times(o, q, bs), NEW len, Some(len)
  PROVE  /\ base + o = (j + q) * bs /\ InBlock(base + o, j + q, bs) /\ base + o \in Nat
         /\ CeilDiv(o, bs) = q
         /\ j + CeilDiv(o + len, bs) = j + q + CeilDiv(len, bs)
         /\ CeilDiv(len, bs) \in Nat \ {0}
<1>1. base = j * bs /\ o = q * bs /\ len \in Nat \ {0}
  BY DEF Times, Some
<1>2. base + o = (j + q) * bs /\ j + q \in Nat
  BY <1>1
<1> DEFINE f == j + q
           nx == q + CeilDiv(len, bs)
           e == o + len
<1>3. f * bs \in Nat /\ InBlock(f * bs, f, bs)
  <2> HIDE DEF f
  <2>1. f \in Nat
    BY <1>2 DEF f
  <2> QED
    BY <2>1, BlockStart
<1>4. CeilDiv(o, bs) = q
  BY <1>1, CeilOfMultiple
<1>5. CeilDiv(len, bs) \in Nat \ {0}
  BY <1>1, CeilPositive
<1>6. Covers(q, len, nx, e, bs)
  BY <1>1 DEF Covers
<1>7. CeilDiv(e, bs) = nx
  <2> HIDE DEF nx, e
  <2> QED
    BY <1>1, <1>6, CeilShift
<1> DEFINE c == CeilDiv(len, bs)
<1>8. j + CeilDiv(o + len, bs) = j + q + c
  <2>1. CeilDiv(o + len, bs) = q + c /\ c \in Nat
    BY <1>5, <1>7
  <2> HIDE DEF c
  <2> QED
    BY <2>1
<1> QED
  BY <1>2, <1>3, <1>4, <1>5, <1>8

(* A batch of n cells from block j on.                                     *)
Batch(cells, spans, n, j, base) ==
  /\ n \in Nat /\ j \in Nat /\ base \in Nat /\ StartOf(j, base)
  /\ cells = CellsOf(base, base + n)
  /\ spans = Classify(cells, call.bs, call.zeros)

(* They are the cells of the image from base on.                           *)
AreCells(cells, n, base) == \A i \in 1..n : cells[i] = Content(base + i - 1)

LEMMA BatchFacts ==
  ASSUME CallOk, NEW cells, NEW spans, NEW n \in Nat, NEW j \in Nat, NEW base \in Nat, Batch(cells, spans, n, j, base)
  PROVE  /\ cells \in Seq(Nat) /\ Len(cells) = n /\ AreCells(cells, n, base)
         /\ Cuts(spans, n) /\ Len(spans) \in Nat
         /\ call.zeros => Runs(spans, cells, call.bs)
         /\ ~call.zeros => \A i \in 1..Len(spans) : ~spans[i].zero
<1>1. /\ n \in Nat /\ j \in Nat /\ base \in Nat /\ cells = CellsOf(base, base + n)
      /\ spans = Classify(cells, call.bs, call.zeros)
      /\ call.bs \in Nat \ {0} /\ call.zeros \in BOOLEAN
  BY DEF Batch, CallOk
<1> DEFINE stop == base + n
<1>2. stop \in Nat /\ base <= stop /\ stop - base = n /\ cells = CellsOf(base, stop)
  BY <1>1
<1> HIDE DEF stop
<1>3. cells \in Seq(Nat) /\ Len(cells) = n /\ AreCells(cells, n, base)
  <2>1. \A to \in Nat : base <= to =>
          /\ CellsOf(base, to) \in Seq(Nat) /\ Len(CellsOf(base, to)) = to - base
          /\ \A k \in 1..(to - base) : CellsOf(base, to)[k] = Content(base + k - 1)
    BY CellsType
  <2>2. /\ cells \in Seq(Nat) /\ Len(cells) = stop - base
        /\ \A k \in 1..(stop - base) : cells[k] = Content(base + k - 1)
    BY <1>2, <2>1
  <2>3. cells \in Seq(Nat) /\ Len(cells) = n
    BY <1>2, <2>2
  <2>4. \A k \in 1..n : cells[k] = Content(base + k - 1)
    BY <1>2, <2>2
  <2> QED
    BY <2>3, <2>4 DEF AreCells
<1>4. /\ Cuts(spans, n)
      /\ call.zeros => Runs(spans, cells, call.bs)
      /\ ~call.zeros => \A i \in 1..Len(spans) : ~spans[i].zero
  BY <1>1, <1>3, Classified
<1> QED
  BY <1>1, <1>3, <1>4, CutsFacts

(* Every span begins at a block.                                           *)
LEMMA SpansBegin ==
  ASSUME CallOk, NEW cells, NEW spans, NEW n \in Nat, NEW j \in Nat, NEW base \in Nat, Batch(cells, spans, n, j, base),
         NEW i \in 1..Len(spans)
  PROVE  Even(spans[i].offset)
<1>1. /\ cells \in Seq(Nat) /\ Len(cells) = n /\ Cuts(spans, n)
      /\ call.zeros => Runs(spans, cells, call.bs)
  BY BatchFacts
<1>2. CASE call.zeros
  BY <1>1, <1>2 DEF Runs, Alternate, Even
<1>3. CASE ~call.zeros
  <2>1. spans = Classify(cells, call.bs, call.zeros)
    BY DEF Batch
  <2>2. CASE cells = <<>>
    <3>1. spans = <<>> /\ Len(<<>>) = 0
      BY <1>3, <2>1, <2>2, EmptySeq, Zenon DEF Classify
    <3> QED
      BY <3>1
  <2>3. CASE cells # <<>>
    <3> DEFINE span == [offset |-> 0, len |-> Len(cells), zero |-> FALSE]
    <3>1. spans = <<span>>
      BY <1>3, <2>1, <2>3, Zenon DEF Classify
    <3>2. Len(spans) = 1 /\ spans[1] = span /\ span.offset = 0
      BY <3>1
    <3> HIDE DEF span
    <3>3. spans[i].offset = 0
      BY <3>2
    <3>4. 0 = 0 * call.bs
      BY DEF CallOk
    <3> QED
      BY <3>3, <3>4 DEF Even
  <2> QED
    BY <2>2, <2>3
<1> QED
  BY <1>2, <1>3 DEF CallOk

(* Where span k + 1 lies: it begins at block q of the batch, and ends      *)
(* where the batch does or the next span begins.                           *)
LEMMA SpanPlace ==
  ASSUME CallOk, NEW cells, NEW spans, NEW n \in Nat, NEW j \in Nat, NEW base \in Nat, Batch(cells, spans, n, j, base),
         NEW k \in Nat, k < Len(spans)
  PROVE  /\ spans[k + 1] \in SpanType /\ SpanEnd(spans[k + 1]) <= n
         /\ spans[k + 1].offset = EndOf(spans, k)
         /\ EndOf(spans, k + 1) = SpanEnd(spans[k + 1])
         /\ \E q \in Nat : spans[k + 1].offset = q * call.bs
         /\ SpanEnd(spans[k + 1]) = n \/ Even(SpanEnd(spans[k + 1]))
<1> DEFINE m == Len(spans)
<1>1. m \in Nat /\ Cuts(spans, n)
  BY BatchFacts
<1>2. k + 1 \in 1..m
  BY <1>1
<1>3. spans[k + 1] \in SpanType
  BY <1>1, <1>2, CutsFacts
<1>4. /\ SpanEnd(spans[k + 1]) <= n
      /\ spans[k + 1].offset = IF k + 1 = 1 THEN 0 ELSE SpanEnd(spans[k + 1 - 1])
  BY <1>1, <1>2 DEF Cuts
<1>5. spans[k + 1].offset = EndOf(spans, k)
  BY <1>4 DEF EndOf
<1>6. EndOf(spans, k + 1) = SpanEnd(spans[k + 1])
  BY DEF EndOf
<1>7. Even(spans[k + 1].offset)
  BY <1>2, SpansBegin
<1>8. SpanEnd(spans[k + 1]) = n \/ Even(SpanEnd(spans[k + 1]))
  <2>1. CASE k + 1 = m
    <3>1. m # 0 /\ n = SpanEnd(spans[m])
      BY <1>1, <2>1 DEF Cuts
    <3> QED
      BY <2>1, <3>1
  <2>2. CASE k + 1 # m
    <3>1. k + 2 \in 1..m
      BY <1>1, <1>2, <2>2
    <3>2. spans[k + 2].offset = SpanEnd(spans[k + 1])
      <4>1. spans[k + 2].offset = IF k + 2 = 1 THEN 0 ELSE SpanEnd(spans[k + 2 - 1])
        BY <1>1, <3>1 DEF Cuts
      <4>2. k + 2 - 1 = k + 1 /\ k + 2 # 1
        OBVIOUS
      <4> QED
        BY <4>1, <4>2
    <3> QED
      BY <3>1, <3>2, SpansBegin
  <2> QED
    BY <2>1, <2>2
<1> QED
  BY <1>3, <1>4, <1>5, <1>6, <1>7, <1>8 DEF Even

LEMMA SpanOn ==
  ASSUME CallOk, NEW cells, NEW spans, NEW n \in Nat, NEW j \in Nat, NEW base \in Nat, Batch(cells, spans, n, j, base),
         NEW k \in Nat, k < Len(spans), NEW end \in Nat, NEW stop \in Nat, stop = base + n,
         NEW b, NEW x, TakenTo(x, b, spans, k, j, base, stop, end),
         NEW out, out = Taken(x, spans[k + 1], cells, base)
  PROVE  TakenTo(out, b, spans, k + 1, j, base, stop, end)
<1> DEFINE s == spans[k + 1]
           e == SpanEnd(s)
           bs == call.bs
<1>0. cells \in Seq(Nat) /\ Len(cells) = n /\ AreCells(cells, n, base)
  BY BatchFacts
<1>1. n \in Nat /\ j \in Nat /\ base \in Nat /\ bs \in Nat \ {0}
  BY DEF CallOk
<1>2. /\ s \in SpanType /\ e <= n /\ s.offset = EndOf(spans, k) /\ EndOf(spans, k + 1) = e
      /\ \E q \in Nat : s.offset = q * bs
      /\ e = n \/ Even(e)
  BY SpanPlace
<1>3. PICK q \in Nat : s.offset = q * bs
  BY <1>2
<1> DEFINE f == j + q
           next == f + CeilDiv(s.len, bs)
           a == base + s.offset
<1>4. s.len \in Nat \ {0} /\ s.offset \in Nat /\ s.zero \in BOOLEAN /\ e = s.offset + s.len /\ e \in Nat
  BY SMTT(30), <1>2 DEF SpanType, SpanEnd
<1>20. /\ a = f * bs /\ InBlock(a, f, bs) /\ a \in Nat
       /\ CeilDiv(s.offset, bs) = q
       /\ j + CeilDiv(s.offset + s.len, bs) = f + CeilDiv(s.len, bs)
       /\ CeilDiv(s.len, bs) \in Nat \ {0}
  <2> DEFINE o == s.offset
             l == s.len
  <2>1. Times(base, j, bs)
    BY DEF Batch, StartOf, Times
  <2>2. Times(o, q, bs) /\ Some(l)
    BY <1>3, <1>4 DEF Times, Some
  <2>3. bs \in Nat \ {0}
    BY <1>1
  <2> HIDE DEF o, l, bs
  <2>4. /\ base + o = (j + q) * bs /\ InBlock(base + o, j + q, bs) /\ base + o \in Nat
        /\ CeilDiv(o, bs) = q
        /\ j + CeilDiv(o + l, bs) = j + q + CeilDiv(l, bs)
        /\ CeilDiv(l, bs) \in Nat \ {0}
    BY <2>1, <2>2, <2>3, SpanArith
  <2> QED
    BY <2>4, Zenon DEF o, l
<1>5. f \in Nat /\ StartOf(f, a) /\ a \in Nat /\ a \div bs = f
  BY SMTT(30), <1>1, <1>20 DEF StartOf, InBlock
<1>6. CeilDiv(EndOf(spans, k), bs) = q
  BY <1>2, <1>20
<1>7. BuilderAt(x, f)
  BY <1>6 DEF TakenTo
<1>8. j + CeilDiv(EndOf(spans, k + 1), bs) = next /\ next \in Nat /\ f < next
  <2> DEFINE c == CeilDiv(s.len, bs)
  <2>1. c \in Nat \ {0} /\ f \in Nat /\ next = f + c
    BY <1>5, <1>20
  <2>2. j + CeilDiv(EndOf(spans, k + 1), bs) = next
    BY <1>2, <1>4, <1>20
  <2> HIDE DEF c, f, next
  <2>3. next \in Nat /\ f < next
    BY <2>1
  <2> QED
    BY <2>2, <2>3
<1>9. base + n \in Nat /\ a + s.len = base + e /\ a + s.len \in Nat /\ a + s.len <= stop
  <2> DEFINE o == s.offset
             l == s.len
             d == e
  <2>1. o \in Nat /\ l \in Nat /\ d = o + l /\ d <= n
    BY <1>2, <1>4
  <2> HIDE DEF o, l, d
  <2>2. base + n \in Nat /\ base + o + l = base + d /\ base + o + l \in Nat /\ base + o + l <= stop
    BY <1>1, <2>1
  <2> QED
    BY <2>2 DEF o, l, d
<1> DEFINE z == a + s.len
<1> HIDE DEF a, next, f
<1>10. ASSUME NEW y \in Nat
       PROVE  (\E i \in 1..(k + 1) : /\ ~spans[i].zero
                                     /\ Reached(base + spans[i].offset, base + SpanEnd(spans[i]), y))
              <=> \/ \E i \in 1..k : /\ ~spans[i].zero
                                     /\ Reached(base + spans[i].offset, base + SpanEnd(spans[i]), y)
                  \/ ~s.zero /\ Reached(a, z, y)
  <2> DEFINE P(i) == ~spans[i].zero /\ Reached(base + spans[i].offset, base + SpanEnd(spans[i]), y)
  <2>1. P(k + 1) <=> ~s.zero /\ Reached(a, z, y)
    BY <1>9 DEF a
  <2> HIDE DEF P
  <2>2. (\E i \in 1..(k + 1) : P(i)) <=> (\E i \in 1..k : P(i)) \/ P(k + 1)
    <3>1. \A i : i \in 1..(k + 1) <=> i \in 1..k \/ i = k + 1
      OBVIOUS
    <3> QED
      BY <3>1
  <2> QED
    BY <2>1, <2>2 DEF P
<1>11. CASE s.zero
  <2>1. out = Close(x)
    BY <1>11 DEF Taken
  <2>2. BuilderAt(out, next) /\ AllRanges(out) = AllRanges(x)
    BY <1>5, <1>7, <1>8, <2>1, ClosedAt
  <2> HIDE DEF s, e, z
  <2> QED
    BY <1>8, <1>10, <1>11, <2>2 DEF TakenTo, AllSummed
<1>12. CASE ~s.zero
  <2> DEFINE seg == SubSeq(cells, s.offset + 1, s.offset + s.len)
  <2>1. out = Extend(x, f, seg)
    BY <1>5, <1>12 DEF Taken, a
  <2>2. /\ seg \in Seq(Nat) /\ Len(seg) = s.len /\ seg # <<>>
        /\ \A i \in 1..s.len : seg[i] = cells[s.offset + i]
    BY <1>0, <1>2, SpanCells
  <2> HIDE DEF seg
  <2>3. seg = CellsOf(a, z)
    <3> DEFINE u == CellsOf(a, z)
    <3>1. z \in Nat /\ a <= z /\ z - a = s.len
      <4> DEFINE l == s.len
      <4>1. l \in Nat /\ a \in Nat /\ z = a + l
        BY <1>4, <1>5 DEF z
      <4> HIDE DEF l
      <4>2. z \in Nat /\ a <= z /\ z - a = l
        BY SMTT(30), <4>1
      <4> QED
        BY <4>2 DEF l
    <3>2. u \in Seq(Nat) /\ Len(u) = s.len /\ \A i \in 1..s.len : u[i] = Content(a + i - 1)
      BY ZenonT(40), <1>5, <3>1, CellsType
    <3> HIDE DEF u
    <3>3. ASSUME NEW i \in 1..s.len
          PROVE  seg[i] = u[i]
      <4> DEFINE o == s.offset
                 l == s.len
      <4>1. o \in Nat /\ l \in Nat /\ o + l <= n /\ a = base + o
        BY <1>2, <1>4 DEF a
      <4>2. i \in 1..l
        OBVIOUS
      <4> HIDE DEF o, l
      <4>3. o + i \in 1..n /\ base + (o + i) - 1 = a + i - 1
        BY <1>1, <4>1, <4>2
      <4>4. cells[o + i] = Content(base + (o + i) - 1)
        BY <1>0, <4>3 DEF AreCells
      <4>5. seg[i] = cells[o + i]
        BY <2>2 DEF o
      <4> QED
        BY <3>2, <4>3, <4>4, <4>5
    <3>4. seg = u
      BY <2>2, <3>2, <3>3, SeqEqual
    <3> QED
      BY <3>4 DEF u
  <2>4. next = f + CeilDiv(Len(seg), bs)
    BY <2>2 DEF next
  <2>5. /\ BuilderAt(out, next)
        /\ \A y \in Nat : InBlocks(AllRanges(out), y)
                          <=> InBlocks(AllRanges(x), y) \/ (f <= y /\ y < next)
    <3> HIDE DEF bs
    <3>1. /\ f \in Nat /\ BuilderAt(x, f) /\ seg \in Seq(Nat) /\ seg # <<>>
          /\ next = f + CeilDiv(Len(seg), call.bs) /\ out = Extend(x, f, seg)
      BY <1>5, <1>7, <2>1, <2>2, <2>4 DEF bs
    <3> QED
      BY SMTT(30), <3>1, ExtendOn
  <2>6. Covers(f, s.len, next, z, bs)
    BY <1>5 DEF Covers, StartOf, next
  <2>7. \A y \in Nat : Reached(a, z, y) <=> f <= y /\ y < next
    <3> DEFINE l == s.len
    <3>1. /\ z = a + l /\ l \in Nat \ {0} /\ f \in Nat /\ StartOf(f, a)
          /\ Covers(f, l, next, z, call.bs)
      BY <1>4, <1>5, <2>6 DEF z
    <3> HIDE DEF l
    <3> QED
      BY <3>1, ReachedBlocks
  <2>8. AllSummed(b, end) /\ StopsAt(stop, end) => AllSummed(out, end)
    <3> SUFFICES ASSUME AllSummed(b, end), StopsAt(stop, end) PROVE AllSummed(out, end)
      OBVIOUS
    <3>1. AllSummed(x, end)
      BY DEF TakenTo
    <3>2. StopsAt(z, end)
      <4>1. CASE e = n
        BY <1>9, <4>1
      <4>2. CASE Even(e)
        <5>1. PICK r \in Nat : e = r * bs
          BY <4>2 DEF Even
        <5>2. base = j * bs
          BY DEF Batch, StartOf
        <5>3. base + e = (j + r) * bs /\ j + r \in Nat
          <6> HIDE DEF bs
          <6>1. base = j * bs /\ bs \in Nat /\ e = r * bs
            BY <1>1, <5>1, <5>2 DEF bs
          <6> HIDE DEF e
          <6> QED
            BY <6>1
        <5>4. Even(z)
          BY <1>9, <5>3 DEF Even
        <5>5. z <= end
          <6>1. stop <= end /\ z <= stop /\ stop \in Nat /\ z \in Nat
            BY <1>1, <1>9 DEF StopsAt
          <6> HIDE DEF z
          <6> QED
            BY <6>1
        <5> QED
          BY <5>4, <5>5 DEF StopsAt
      <4> QED
        BY <1>2, <4>1, <4>2
    <3>3. z = a + s.len
      OBVIOUS
    <3> HIDE DEF z, s, e
    <3> QED
      BY <1>4, <1>5, <1>7, <2>1, <2>3, <3>1, <3>2, <3>3, SumsOn
  <2> HIDE DEF s, e, z
  <2>9. \A y \in Nat : InBlocks(AllRanges(out), y)
       <=> \/ InBlocks(AllRanges(b), y)
           \/ \E i \in 1..(k + 1) : /\ ~spans[i].zero
                             /\ Reached(base + spans[i].offset, base + SpanEnd(spans[i]), y)
    BY <1>10, <1>12, <2>5, <2>7 DEF TakenTo
  <2> QED
    BY <1>8, <2>5, <2>8, <2>9 DEF TakenTo
<1> QED
  BY <1>4, <1>11, <1>12

LEMMA BlockMoves ==
  ASSUME NEW bs \in Nat \ {0}, NEW j \in Nat, NEW base \in Nat, Times(base, j, bs),
         NEW x \in Nat, NEW y \in Nat, InBlock(x, y, bs)
  PROVE  InBlock(base + x, j + y, bs)
<1>1. base = j * bs
  BY DEF Times
<1>2. y * bs <= x /\ x < (y + 1) * bs
  BY InBlockFacts
<1> DEFINE f == j + y
           p == y * bs
           q == (y + 1) * bs
<1>3. f * bs = base + p /\ (f + 1) * bs = base + q /\ f \in Nat /\ p \in Nat /\ q \in Nat
  BY <1>1
<1> DEFINE u == f * bs
           v == (f + 1) * bs
           c == base + x
<1>4. u = base + p /\ v = base + q /\ p \in Nat /\ q \in Nat /\ p <= x /\ x < q
  BY <1>2, <1>3
<1> HIDE DEF u, v, p, q
<1>5. u <= c /\ c < v /\ c \in Nat
  BY <1>4
<1> HIDE DEF c, f
<1>6. InBlock(c, f, bs)
  BY <1>3, <1>5, InBlockFacts DEF u, v
<1> QED
  BY <1>6 DEF c, f

(* What of a batch becomes part of a range.                                *)
Marks(c) == call.zeros => c \in file.data

Marked(base, stop, y) ==
  \E c \in Nat : base <= c /\ c < stop /\ InBlock(c, y, call.bs) /\ Marks(c)

LEMMA MarkedSpans ==
  ASSUME CallOk, NEW cells, NEW spans, NEW n \in Nat, NEW j \in Nat, NEW base \in Nat,
         Batch(cells, spans, n, j, base), NEW stop \in Nat, stop = base + n, NEW y \in Nat
  PROVE  (\E i \in 1..Len(spans) : /\ ~spans[i].zero
                                   /\ Reached(base + spans[i].offset, base + SpanEnd(spans[i]), y))
         <=> Marked(base, stop, y)
<1> DEFINE bs == call.bs
           m == Len(spans)
<1>1. bs \in Nat \ {0} /\ Times(base, j, bs)
  BY DEF CallOk, Batch, StartOf, Times
<1>2. /\ cells \in Seq(Nat) /\ Len(cells) = n /\ AreCells(cells, n, base)
      /\ Cuts(spans, n) /\ m \in Nat
      /\ call.zeros => Runs(spans, cells, bs)
      /\ ~call.zeros => \A i \in 1..m : ~spans[i].zero
  BY BatchFacts
<1>3. \A i \in 1..m : /\ spans[i].offset \in Nat /\ SpanEnd(spans[i]) \in Nat /\ SpanEnd(spans[i]) <= n
  BY <1>2, CutsFacts DEF Cuts
<1>4. ASSUME NEW i \in 1..m, ~spans[i].zero,
             Reached(base + spans[i].offset, base + SpanEnd(spans[i]), y)
      PROVE  Marked(base, stop, y)
  <2>1. PICK c \in Nat : /\ base + spans[i].offset <= c /\ c < base + SpanEnd(spans[i])
                         /\ InBlock(c, y, bs)
    BY <1>4 DEF Reached
  <2> DEFINE o == spans[i].offset
             e == SpanEnd(spans[i])
             x == c - base
  <2>2. o \in Nat /\ e \in Nat /\ e <= n /\ base + o <= c /\ c < base + e
    BY <1>3, <2>1
  <2> HIDE DEF o, e
  <2>3. base <= c /\ c < stop /\ x \in Nat /\ o <= x /\ x < e /\ x < n /\ c = base + x
    BY <2>2
  <2> HIDE DEF x
  <2>4. CASE ~call.zeros
    BY <2>1, <2>3, <2>4 DEF Marked, Marks
  <2>5. CASE call.zeros
    <3>1. PICK b \in Nat : InBlock(x, b, bs)
      BY <1>1, <2>3, InBlockFacts
    <3>2. b * bs <= x /\ x < (b + 1) * bs
      BY <1>1, <2>3, <3>1, InBlockFacts
    <3>3. spans[i].zero = BlockZero(cells, bs, b)
      <4>1. Says(spans[i], cells, bs)
        BY <1>2, <2>5 DEF Runs
      <4> QED
        BY <2>3, <3>2, <4>1 DEF Says, o, e
    <3>4. ~IsZero(cells, b * bs, Lesser((b + 1) * bs, n))
      BY <1>2, <1>4, <3>3 DEF BlockZero
    <3>5. PICK d \in (b * bs + 1)..Lesser((b + 1) * bs, n) : cells[d] # Zero
      BY <3>4 DEF IsZero
    <3> DEFINE p == b * bs
               q == (b + 1) * bs
               t == d - 1
    <3>6. p \in Nat /\ q \in Nat
      BY SMTT(30), <1>1
    <3>7. d \in (p + 1)..Lesser(q, n)
      OBVIOUS
    <3> HIDE DEF p, q
    <3>8. d \in 1..n /\ t \in Nat /\ p <= t /\ t < q /\ t < n /\ base + d - 1 = base + t
      BY <3>6, <3>7 DEF Lesser
    <3>9. InBlock(t, b, bs)
      <4> HIDE DEF t
      <4> QED
        BY <1>1, <3>8, InBlockFacts DEF p, q
    <3>10. Content(base + t) # Zero
      BY <1>2, <3>5, <3>8 DEF AreCells
    <3> HIDE DEF t
    <3>11. InBlock(base + x, j + b, bs) /\ InBlock(base + t, j + b, bs)
      BY <1>1, <2>3, <3>1, <3>8, <3>9, BlockMoves
    <3>12. InBlock(base + t, y, bs)
      BY <2>1, <2>3, <3>11 DEF InBlock
    <3>13. base + t \in file.data
      BY <3>10 DEF Content
    <3>14. base + t \in Nat /\ base <= base + t /\ base + t < stop
      BY <3>8
    <3> QED
      BY <3>12, <3>13, <3>14 DEF Marked, Marks
  <2> QED
    BY <2>4, <2>5 DEF CallOk
<1>5. ASSUME Marked(base, stop, y)
      PROVE  \E i \in 1..m : /\ ~spans[i].zero
                             /\ Reached(base + spans[i].offset, base + SpanEnd(spans[i]), y)
  <2>1. PICK c \in Nat : base <= c /\ c < stop /\ InBlock(c, y, bs) /\ Marks(c)
    BY <1>5 DEF Marked
  <2> DEFINE x == c - base
  <2>2. x \in Nat /\ x < n /\ c = base + x /\ x + 1 \in 1..n /\ base + (x + 1) - 1 = c
    BY <2>1
  <2> HIDE DEF x
  <2>3. PICK i \in 1..m : spans[i].offset <= x /\ x < SpanEnd(spans[i])
    BY <1>2, <2>2, EveryCellInSpan
  <2>4. Reached(base + spans[i].offset, base + SpanEnd(spans[i]), y)
    <3> DEFINE o == spans[i].offset
               e == SpanEnd(spans[i])
    <3>1. o \in Nat /\ e \in Nat /\ o <= x /\ x < e
      BY <1>3, <2>3
    <3> HIDE DEF o, e
    <3>2. base + o <= c /\ c < base + e
      BY <2>2, <3>1
    <3>3. Reached(base + o, base + e, y)
      BY <2>1, <3>2 DEF Reached
    <3> QED
      BY <3>3 DEF o, e
  <2>5. ~spans[i].zero
    <3> SUFFICES ASSUME spans[i].zero PROVE FALSE
      OBVIOUS
    <3>1. call.zeros
      BY <1>2
    <3>2. Runs(spans, cells, bs)
      BY <1>2, <3>1
    <3>3. cells[x + 1] = Zero
      BY <1>1, <1>2, <2>2, <2>3, <3>2, ZeroSpanIsZero
    <3>4. cells[x + 1] = Content(c)
      BY <1>2, <2>2 DEF AreCells
    <3>5. c \in file.data
      BY <2>1, <3>1 DEF Marks
    <3> QED
      BY <3>3, <3>4, <3>5 DEF Content, Zero
  <2> QED
    BY <2>4, <2>5
<1> QED
  BY <1>4, <1>5

(* What consume_spans makes of a batch.                                    *)
(* What a batch from base to stop makes of a builder.                      *)
GoesOn(b, out, base, stop, end) ==
  /\ BuilderAt(out, CeilDiv(stop, call.bs))
  /\ \A y \in Nat : InBlocks(AllRanges(out), y)
                    <=> InBlocks(AllRanges(b), y) \/ Marked(base, stop, y)
  /\ AllSummed(b, end) /\ StopsAt(stop, end) => AllSummed(out, end)

(* What ConsumeSpans returns, for every batch that begins at a block.      *)
LEMMA ConsumeSpec ==
  ASSUME CallOk, NEW n \in Nat, NEW j \in Nat, NEW base \in Nat, StartOf(j, base),
         NEW b \in Builders, BuilderAt(b, j), NEW end \in Nat, NEW stop \in Nat, stop = base + n,
         NEW cells \in Seq(Nat), cells = CellsOf(base, stop),
         NEW out \in {Consume(b, cells, base)}
  PROVE  GoesOn(b, out, base, stop, end)
<1> DEFINE spans == Classify(cells, call.bs, call.zeros)
           m == Len(spans)
           bs == call.bs
<1>1. Batch(cells, spans, n, j, base)
  BY DEF Batch
<1>11. spans = Classify(cells, call.bs, call.zeros)
  OBVIOUS
<1> HIDE DEF spans
<1>2. cells \in Seq(Nat) /\ Cuts(spans, n) /\ m \in Nat
  BY <1>1, BatchFacts
<1>3. b \in Builders
  BY DEF BuilderAt
<1>5. PICK f : /\ f[0] = b /\ f[m] = out
               /\ \A k \in Nat : k < m => f[k + 1] = Taken(f[k], spans[k + 1], cells, base)
  <2>1. \E f : ConsumedBy(f, b, spans, cells, base)
    BY <1>2, <1>3, <1>11, ConsumeSteps
  <2> QED
    BY <2>1 DEF ConsumedBy
<1> DEFINE Good == {k \in Nat : k <= m => TakenTo(f[k], b, spans, k, j, base, stop, end)}
<1>6. 0 \in Good
  <2>1. CeilDiv(0, bs) = 0
    <3>1. bs \in Nat \ {0}
      BY DEF CallOk
    <3> HIDE DEF bs
    <3>2. 0 = 0 * bs /\ 0 \in Nat
      BY <3>1
    <3> QED
      BY <3>1, <3>2, CeilOfMultiple
  <2>2. j + CeilDiv(EndOf(spans, 0), bs) = j
    BY <2>1 DEF EndOf
  <2>3. TakenTo(b, b, spans, 0, j, base, stop, end)
    BY <2>2 DEF TakenTo
  <2> QED
    BY <1>5, <2>3
<1>7. ASSUME NEW k \in Nat, k \in Good
      PROVE  k + 1 \in Good
  <2> SUFFICES ASSUME k + 1 <= m PROVE TakenTo(f[k + 1], b, spans, k + 1, j, base, stop, end)
    OBVIOUS
  <2>1. k < m /\ TakenTo(f[k], b, spans, k, j, base, stop, end)
    BY <1>2, <1>7
  <2>2. f[k + 1] = Taken(f[k], spans[k + 1], cells, base)
    BY <1>5, <2>1
  <2> HIDE DEF Good
  <2> QED
    BY <1>1, <2>1, <2>2, SpanOn
<1>8. TakenTo(out, b, spans, m, j, base, stop, end)
  <2> HIDE DEF Good
  <2>1. m \in Good
    BY <1>2, <1>6, <1>7, Induction
  <2> QED
    BY <1>2, <1>5, <2>1 DEF Good
<1>9. j + CeilDiv(EndOf(spans, m), bs) = CeilDiv(stop, bs)
  <2>1. EndOf(spans, m) = n
    BY <1>2 DEF EndOf, Cuts
  <2>2. bs \in Nat \ {0}
    BY DEF CallOk
  <2> HIDE DEF bs
  <2>3. CASE n = 0
    <3>1. stop = j * bs
      BY <2>2, <2>3 DEF StartOf, bs
    <3>3. 0 = 0 * bs
      BY <2>2
    <3>4. CeilDiv(0, bs) = 0
      BY <2>2, <3>3, CeilOfMultiple
    <3>2. CeilDiv(stop, bs) = j
      BY <2>2, <3>1, CeilOfMultiple
    <3> QED
      BY <2>1, <2>3, <3>4, <3>2
  <2>4. CASE n # 0
    <3> DEFINE next == j + CeilDiv(n, bs)
    <3>1. Covers(j, n, next, stop, bs)
      BY <2>4 DEF Covers, StartOf, bs
    <3> HIDE DEF next
    <3>2. CeilDiv(stop, bs) = next
      BY <2>2, <2>4, <3>1, CeilShift
    <3> QED
      BY <2>1, <3>2 DEF next
  <2> QED
    BY <2>3, <2>4
<1>10. \A y \in Nat : (\E i \in 1..m : /\ ~spans[i].zero
                                      /\ Reached(base + spans[i].offset, base + SpanEnd(spans[i]), y))
                      <=> Marked(base, stop, y)
  BY <1>1, MarkedSpans
<1> QED
  BY <1>8, <1>9, <1>10 DEF TakenTo, GoesOn

-----------------------------------------------------------------------------
(* Counting.                                                               *)

(* Intervals that follow each other, and the sums of their lengths.        *)
Tally(m, lo, hi, sum) ==
  /\ sum[0] = 0
  /\ \A i \in 1..m : lo[i] \in Nat /\ hi[i] \in Nat /\ lo[i] <= hi[i]
  /\ \A i \in 1..m : sum[i] = sum[i - 1] + (hi[i] - lo[i])
  /\ \A i, k \in 1..m : i < k => hi[i] <= lo[k]

Joined(k, lo, hi) == {x \in Nat : \E i \in 1..k : lo[i] <= x /\ x < hi[i]}

Counted(k, lo, hi, sum) ==
  /\ IsFiniteSet(Joined(k, lo, hi)) /\ sum[k] = Cardinality(Joined(k, lo, hi))

LEMMA CountIntervals ==
  ASSUME NEW m \in Nat, NEW lo, NEW hi, NEW sum, Tally(m, lo, hi, sum)
  PROVE  Counted(m, lo, hi, sum)
<1> DEFINE Good == {k \in Nat : k <= m => Counted(k, lo, hi, sum)}
<1>1. 0 \in Good
  <2>1. Joined(0, lo, hi) = {}
    BY DEF Joined
  <2> QED
    BY <2>1, FS_EmptySet DEF Tally, Counted
<1>2. ASSUME NEW k \in Nat, k \in Good
      PROVE  k + 1 \in Good
  <2> SUFFICES ASSUME k + 1 <= m PROVE Counted(k + 1, lo, hi, sum)
    OBVIOUS
  <2> DEFINE S == Joined(k, lo, hi)
             a == lo[k + 1]
             e == hi[k + 1]
             T == a..(e - 1)
  <2>1. IsFiniteSet(S) /\ sum[k] = Cardinality(S)
    BY <1>2 DEF Counted
  <2>2. k + 1 \in 1..m /\ a \in Nat /\ e \in Nat /\ a <= e
    BY DEF Tally
  <2>3. sum[k + 1] = sum[k] + (e - a)
    <3>1. sum[k + 1] = sum[k + 1 - 1] + (hi[k + 1] - lo[k + 1])
      BY <2>2 DEF Tally
    <3>2. k + 1 - 1 = k
      OBVIOUS
    <3> QED
      BY <3>1, <3>2
  <2>4. \A i \in 1..k : hi[i] <= a
    <3>1. \A i \in 1..k : i \in 1..m /\ i < k + 1
      BY <2>2
    <3> QED
      BY <2>2, <3>1 DEF Tally
  <2>5. S \cap T = {}
    <3>1. \A i \in 1..k : hi[i] \in Nat
      BY <2>2 DEF Tally
    <3> HIDE DEF a, e
    <3> QED
      BY <2>2, <2>4, <3>1 DEF Joined
  <2>6. Joined(k + 1, lo, hi) = S \cup T
    <3>1. \A i : i \in 1..(k + 1) <=> i \in 1..k \/ i = k + 1
      OBVIOUS
    <3>2. \A x \in Nat : x \in T <=> a <= x /\ x < e
      <4> HIDE DEF a, e
      <4> QED
        BY <2>2
    <3>3. T \subseteq Nat
      BY <2>2
    <3> HIDE DEF T
    <3> QED
      BY <3>1, <3>2, <3>3 DEF Joined
  <2>7. IsFiniteSet(T) /\ Cardinality(T) = e - a
    <3> HIDE DEF a, e
    <3>1. IsFiniteSet(T) /\ Cardinality(T) = IF a > e - 1 THEN 0 ELSE e - 1 - a + 1
      BY <2>2, FS_Interval
    <3> QED
      BY <2>2, <3>1
  <2> HIDE DEF S, T
  <2>8. IsFiniteSet(S \cup T) /\ Cardinality(S \cup T) = Cardinality(S) + Cardinality(T) - Cardinality(S \cap T)
    BY <2>1, <2>7, FS_Union
  <2>9. Cardinality(S \cap T) = 0 /\ Cardinality(S) \in Nat
    BY <2>1, <2>5, FS_EmptySet, FS_CardinalityType
  <2>10. Cardinality(S \cup T) = sum[k + 1]
    <3> HIDE DEF a, e
    <3> QED
      BY <2>1, <2>2, <2>3, <2>7, <2>8, <2>9
  <2> QED
    BY <2>6, <2>8, <2>10 DEF Counted
<1> HIDE DEF Good
<1>3. m \in Good
  BY <1>1, <1>2, Induction
<1> QED
  BY <1>3 DEF Good

(* A range of blocks in the image.                                         *)
LEMMA RangePlace ==
  ASSUME CallOk, size \in Nat, NEW r \in BlockRange
  PROVE  /\ RangeStart(r) \in Nat /\ RangeEnd(r) \in Nat /\ RangeEnd(r) <= size
         /\ r.first \in Nat /\ r.last \in Nat
         /\ RangeEnd(r) = size \/ Even(RangeEnd(r))
<1>1. call.bs \in Nat /\ r.first \in Nat /\ r.last \in Nat
  BY DEF CallOk, BlockRange
<1> DEFINE e == (r.last + 1) * call.bs
           a == r.first * call.bs
<1>2. a \in Nat /\ e \in Nat /\ Even(e)
  BY <1>1 DEF Even
<1> HIDE DEF a, e
<1>3. RangeStart(r) = a /\ RangeEnd(r) = Lesser(e, size)
  BY DEF RangeStart, RangeEnd, a, e
<1> QED
  BY <1>1, <1>2, <1>3 DEF Lesser

(* candidate_bytes, likewise.                                              *)
LEMMA CandidateSteps ==
  ASSUME CallOk, size \in Nat, NEW rs \in Seq(BlockRange)
  PROVE  \E f : SumSteps(f, rs, CandidateCells(rs)) /\ \A k \in Nat : k < Len(rs) => f[k + 1] = f[k] + Greater(0, RangeEnd(rs[k + 1]) - RangeStart(rs[k + 1]))
<1> DEFINE V == Int
           m == Len(rs)
           op(n, r) == n + Greater(0, RangeEnd(r) - RangeStart(r))
           step == [i \in 1..m |-> [v \in V |-> op(v, rs[i])]]
           Value(it, s) == IF s = {} THEN 0 ELSE op(it[s \ {Max(s)}], rs[Max(s)])
           fold == CHOOSE it : it = [s \in SUBSET DOMAIN rs |-> Value(it, s)]
<1>1. m \in Nat /\ DOMAIN rs = 1..m
  BY LenProperties
<1>2. ASSUME NEW i \in 1..m, NEW v \in V
      PROVE  op(v, rs[i]) \in V
  <2>1. rs[i] \in BlockRange
    BY ElementOfSeq
  <2>2. RangeStart(rs[i]) \in Nat /\ RangeEnd(rs[i]) \in Nat
    BY <2>1, RangePlace
  <2>3. Greater(0, RangeEnd(rs[i]) - RangeStart(rs[i])) \in Int
    BY <2>2 DEF Greater
  <2> QED
    BY <2>3
<1>3. StepsIn(step, 1..m, V) /\ 0 \in V
  BY <1>2 DEF StepsIn
<1>4. \A i \in 1..m, v \in V : step[i][v] = op(v, rs[i])
  OBVIOUS
<1>5. \E it : it = [s \in SUBSET DOMAIN rs |-> Value(it, s)]
  <2> HIDE DEF V, step, m, op
  <2>1. PICK it : FoldsUp(it, m, V, 0, step)
    BY <1>1, <1>3, FoldOver
  <2>2. \A s \in SUBSET (1..m) : it[s] = Value(it, s)
    BY <1>4, <2>1 DEF FoldsUp
  <2>3. it = [s \in SUBSET DOMAIN rs |-> Value(it, s)]
    <3> HIDE DEF Value
    <3> QED
      BY <1>1, <2>1, <2>2 DEF FoldsUp
  <2> QED
    BY <2>3
<1>6. fold = [s \in SUBSET (1..m) |-> Value(fold, s)]
  <2> HIDE DEF Value, m
  <2> QED
    BY <1>1, <1>5
<1>7. CandidateCells(rs) = fold[1..m]
  BY <1>1, Zenon DEF CandidateCells, FoldLeft, MapThenFoldSet
<1> HIDE DEF fold, m, op
<1>8. fold[1..0] = 0
  BY <1>6
<1>9. ASSUME NEW k \in Nat, k < m
      PROVE  fold[1..(k + 1)] = op(fold[1..k], rs[k + 1])
  <2>1. fold[1..(k + 1)] = Value(fold, 1..(k + 1))
    <3> HIDE DEF Value
    <3> QED
      BY <1>1, <1>6, <1>9, PrefixFacts
  <2> QED
    BY <1>1, <1>9, <2>1, PrefixFacts
<1> DEFINE f == [k \in 0..m |-> fold[1..k]]
<1>10. f[0] = 0 /\ f[m] = CandidateCells(rs)
  BY <1>1, <1>7, <1>8
<1>11. ASSUME NEW k \in Nat, k < m
       PROVE  f[k + 1] = op(f[k], rs[k + 1])
  <2>1. k \in 0..m /\ k + 1 \in 0..m
    BY <1>1, <1>11
  <2> QED
    BY <1>9, <1>11, <2>1
<1> QED
  BY <1>10, <1>11 DEF m, op, SumSteps

(* What Covered adds up is how many blocks there are.                      *)
LEMMA CoveredCounts ==
  ASSUME NEW rs \in Seq(SumRange), Apart(rs), NEW blocks, blocks = {b \in Nat : InBlocks(rs, b)}
  PROVE  IsFiniteSet(blocks) /\ Covered(rs) = Cardinality(blocks)
<1> DEFINE m == Len(rs)
<1>1. m \in Nat /\ \A i \in 1..m : rs[i].first \in Nat /\ rs[i].last \in Nat
  <2>1. \A i \in 1..m : rs[i] \in SumRange
    BY ElementOfSeq
  <2> QED
    BY <2>1, LenProperties DEF SumRange
<1>2. PICK f : /\ SumSteps(f, rs, Covered(rs))
               /\ \A k \in Nat : k < m => f[k + 1] = f[k] + rs[k + 1].last - rs[k + 1].first + 1
  BY CoveredSteps
<1> DEFINE lo == [i \in 1..m |-> rs[i].first]
           hi == [i \in 1..m |-> rs[i].last + 1]
           Typed == {k \in Nat : k <= m => f[k] \in Int}
<1>3. 0 \in Typed
  BY <1>2 DEF SumSteps
<1>4. ASSUME NEW k \in Nat, k \in Typed
      PROVE  k + 1 \in Typed
  <2> SUFFICES ASSUME k + 1 <= m PROVE f[k + 1] \in Int
    OBVIOUS
  <2>1. k < m /\ k + 1 \in 1..m /\ f[k] \in Int
    BY <1>1, <1>4
  <2> QED
    BY SMTT(30), <1>1, <1>2, <2>1
<1>5. \A k \in Nat : k <= m => f[k] \in Int
  <2> HIDE DEF Typed
  <2>1. \A k \in Nat : k \in Typed
    BY <1>3, <1>4, Induction
  <2> QED
    BY <2>1 DEF Typed
<1>6. Tally(m, lo, hi, f)
  <2>1. \A i \in 1..m : lo[i] \in Nat /\ hi[i] \in Nat /\ lo[i] <= hi[i]
    BY <1>1 DEF Apart
  <2>2. ASSUME NEW i \in 1..m
        PROVE  f[i] = f[i - 1] + (hi[i] - lo[i])
    <3> DEFINE k == i - 1
    <3>1. k \in Nat /\ k < m /\ k + 1 = i
      BY <1>1
    <3> HIDE DEF k
    <3>2. f[k + 1] = f[k] + rs[k + 1].last - rs[k + 1].first + 1 /\ f[k] \in Int
      BY <1>1, <1>2, <1>5, <3>1
    <3>3. f[i] = f[k] + rs[i].last - rs[i].first + 1
      BY <3>1, <3>2
    <3>4. f[i] = f[k] + (hi[i] - lo[i])
      <4> DEFINE v == f[k]
                 a == rs[i].first
                 l == rs[i].last
      <4>1. v \in Int /\ a \in Nat /\ l \in Nat /\ f[i] = v + l - a + 1 /\ hi[i] = l + 1 /\ lo[i] = a
        BY <1>1, <3>2, <3>3
      <4> HIDE DEF v, a, l, lo, hi
      <4> QED
        BY <4>1 DEF v
    <3> QED
      BY <3>4 DEF k
  <2>3. \A i, k \in 1..m : i < k => hi[i] <= lo[k]
    BY <1>1 DEF Apart
  <2>4. f[0] = 0
    BY <1>2 DEF SumSteps
  <2> HIDE DEF lo, hi
  <2> QED
    BY <2>1, <2>2, <2>3, <2>4 DEF Tally
<1>7. Counted(m, lo, hi, f)
  <2> HIDE DEF lo, hi, m
  <2> QED
    BY <1>1, <1>6, CountIntervals
<1>8. Joined(m, lo, hi) = blocks
  <2>1. \A x \in Nat, i \in 1..m : lo[i] <= x /\ x < hi[i] <=> InRangeOf(rs[i], x)
    BY <1>1 DEF InRangeOf
  <2> HIDE DEF lo, hi
  <2> QED
    BY <2>1 DEF Joined, InBlocks
<1> QED
  BY <1>2, <1>7, <1>8 DEF Counted, SumSteps

(* The cells of a range are those of its blocks, in the image.             *)
InCells(r, c) == RangeStart(r) <= c /\ c < RangeEnd(r)

LEMMA CellsOfRange ==
  ASSUME CallOk, size \in Nat, NEW r \in BlockRange, NEW c \in Nat
  PROVE  InCells(r, c) <=> c < size /\ \E b \in Nat : InBlock(c, b, call.bs) /\ InRangeOf(r, b)
<1> DEFINE bs == call.bs
<1>1. bs \in Nat \ {0} /\ r.first \in Nat /\ r.last \in Nat
  BY DEF CallOk, BlockRange
<1>2. PICK b \in Nat : InBlock(c, b, bs)
  BY <1>1, InBlockFacts
<1>3. \A d \in Nat : InBlock(c, d, bs) <=> d = b
  BY <1>2 DEF InBlock
<1>4. b * bs <= c /\ c < (b + 1) * bs
  BY <1>1, <1>2, InBlockFacts
<1> DEFINE f == r.first
           l == r.last
<1>5. f \in Nat /\ l \in Nat
  BY <1>1
<1> HIDE DEF f, l, bs
<1>6. f * bs <= c <=> f <= b
  <2>1. f * bs \in Nat /\ InBlock(f * bs, f, bs)
    BY <1>1, <1>5, BlockStart
  <2>2. f * bs <= c => f <= b
    BY <1>1, <1>2, <1>5, <2>1, BlocksAscend
  <2>3. f <= b => f * bs <= b * bs /\ b * bs \in Nat
    <3>1. f < b => f * bs \in Nat /\ b * bs \in Nat /\ (f + 1) * bs = f * bs + bs /\ (f + 1) * bs <= b * bs
      BY <1>1, <1>5, Multiples
    <3>2. f = b => f * bs <= b * bs /\ b * bs \in Nat
      BY <2>1
    <3> QED
      BY <1>1, <1>5, <3>1, <3>2
  <2> QED
    BY <1>4, <2>1, <2>2, <2>3
<1>7. c < (l + 1) * bs <=> b <= l
  <2>1. (l + 1) * bs \in Nat /\ InBlock((l + 1) * bs, l + 1, bs)
    BY <1>1, <1>5, BlockStart
  <2>2. l + 1 <= b => (l + 1) * bs <= b * bs /\ b * bs \in Nat
    <3> DEFINE g == l + 1
    <3>1. g \in Nat /\ g * bs \in Nat
      BY <1>5, <2>1
    <3> HIDE DEF g
    <3>2. g < b => g * bs \in Nat /\ b * bs \in Nat /\ (g + 1) * bs = g * bs + bs /\ (g + 1) * bs <= b * bs
      BY <1>1, <3>1, Multiples
    <3>3. g = b => g * bs <= b * bs /\ b * bs \in Nat
      BY <3>1
    <3>4. g <= b => g * bs <= b * bs /\ b * bs \in Nat
      BY <1>1, <3>1, <3>2, <3>3
    <3> QED
      BY <3>4 DEF g
  <2>3. b <= l => (b + 1) * bs <= (l + 1) * bs /\ (b + 1) * bs \in Nat
    <3>1. b < l + 1 => (b + 1) * bs <= (l + 1) * bs
      <4> DEFINE g == l + 1
      <4>1. g \in Nat
        BY <1>5
      <4> HIDE DEF g
      <4>2. b < g => (b + 1) * bs <= g * bs
        BY <1>1, <4>1, Multiples
      <4> QED
        BY <4>2 DEF g
    <3> QED
      BY <1>1, <1>5, <3>1
  <2> DEFINE e == (l + 1) * bs
             d == (b + 1) * bs
             a == b * bs
  <2>4. /\ e \in Nat /\ c < d /\ a <= c
        /\ (l + 1 <= b => e <= a /\ a \in Nat) /\ (b <= l => d <= e /\ d \in Nat)
    BY <1>4, <2>1, <2>2, <2>3
  <2> HIDE DEF e, d, a
  <2>5. c < e <=> b <= l
    BY <1>5, <2>4
  <2> QED
    BY <2>5 DEF e
<1>8. InRangeOf(r, b) <=> f <= b /\ b <= l
  BY DEF InRangeOf, f, l
<1> DEFINE e == (l + 1) * bs
           a == f * bs
<1>9. RangeStart(r) = a /\ RangeEnd(r) = Lesser(e, size) /\ e \in Nat
  BY <1>1, <1>5 DEF RangeStart, RangeEnd, f, l, bs
<1>10. (a <= c <=> f <= b) /\ (c < e <=> b <= l)
  BY <1>6, <1>7
<1> HIDE DEF a, e
<1>11. c < RangeEnd(r) <=> c < e /\ c < size
  BY <1>9 DEF Lesser
<1>12. InCells(r, c) <=> c < size /\ InRangeOf(r, b)
  BY <1>8, <1>9, <1>10, <1>11 DEF InCells
<1> QED
  BY <1>3, <1>12 DEF bs

(* The cells of a list of ranges.                                          *)
LEMMA CellsOfRanges ==
  ASSUME CallOk, size \in Nat, NEW rs \in Seq(BlockRange), NEW c \in Nat
  PROVE  (\E i \in 1..Len(rs) : InCells(rs[i], c))
         <=> c < size /\ \E b \in Nat : InBlock(c, b, call.bs) /\ InBlocks(rs, b)
<1>1. \A i \in 1..Len(rs) : rs[i] \in BlockRange
  BY ElementOfSeq
<1>2. \A i \in 1..Len(rs) :
        InCells(rs[i], c) <=> c < size /\ \E b \in Nat : InBlock(c, b, call.bs) /\ InRangeOf(rs[i], b)
  BY <1>1, CellsOfRange
<1> QED
  BY <1>2 DEF InBlocks

(* A range ends before the next one begins.                                *)
LEMMA CellsApart ==
  ASSUME CallOk, size \in Nat, NEW r \in BlockRange, NEW s \in BlockRange, r.last < s.first
  PROVE  RangeEnd(r) <= RangeStart(s)
<1> DEFINE g == r.last + 1
           e == g * call.bs
           a == s.first * call.bs
<1>1. g \in Nat /\ s.first \in Nat /\ call.bs \in Nat /\ g <= s.first
  BY DEF BlockRange, CallOk
<1> HIDE DEF g
<1>2. e \in Nat /\ a \in Nat /\ e <= a
  <2>1. g < s.first => g * call.bs \in Nat /\ s.first * call.bs \in Nat
                       /\ (g + 1) * call.bs = g * call.bs + call.bs
                       /\ (g + 1) * call.bs <= s.first * call.bs
    BY <1>1, Multiples
  <2>2. g = s.first => e = a /\ e \in Nat
    BY <1>1
  <2> QED
    BY <1>1, <2>1, <2>2
<1>3. RangeEnd(r) = Lesser(e, size) /\ RangeStart(s) = a
  BY DEF RangeEnd, RangeStart, g
<1> HIDE DEF e, a
<1> QED
  BY <1>2, <1>3 DEF Lesser

(* What candidate_bytes adds up is how many cells there are to read.       *)
LEMMA CandidatesCount ==
  ASSUME CallOk, size \in Nat, NEW rs \in Seq(BlockRange), Apart(rs),
         \A i \in 1..Len(rs) : RangeStart(rs[i]) < RangeEnd(rs[i]),
         NEW cells,
         cells = {c \in Nat : c < size /\ \E b \in Nat : InBlock(c, b, call.bs) /\ InBlocks(rs, b)}
  PROVE  IsFiniteSet(cells) /\ CandidateCells(rs) = Cardinality(cells)
<1> DEFINE m == Len(rs)
<1>0. m \in Nat /\ \A i \in 1..m : rs[i] \in BlockRange
  BY ElementOfSeq, LenProperties
<1>1. \A i \in 1..m : /\ RangeStart(rs[i]) \in Nat /\ RangeEnd(rs[i]) \in Nat
                      /\ Greater(0, RangeEnd(rs[i]) - RangeStart(rs[i]))
                         = RangeEnd(rs[i]) - RangeStart(rs[i])
  <2>1. \A i \in 1..m : RangeStart(rs[i]) \in Nat /\ RangeEnd(rs[i]) \in Nat
    BY <1>0, RangePlace
  <2> QED
    BY <2>1 DEF Greater
<1>2. PICK f : /\ SumSteps(f, rs, CandidateCells(rs))
               /\ \A k \in Nat : k < m =>
                    f[k + 1] = f[k] + Greater(0, RangeEnd(rs[k + 1]) - RangeStart(rs[k + 1]))
  BY CandidateSteps
<1> DEFINE lo == [i \in 1..m |-> RangeStart(rs[i])]
           hi == [i \in 1..m |-> RangeEnd(rs[i])]
<1>6. Tally(m, lo, hi, f)
  <2>1. \A i \in 1..m : lo[i] \in Nat /\ hi[i] \in Nat /\ lo[i] <= hi[i]
    BY <1>1
  <2>2. ASSUME NEW i \in 1..m
        PROVE  f[i] = f[i - 1] + (hi[i] - lo[i])
    <3> DEFINE k == i - 1
    <3>1. k \in Nat /\ k < m /\ k + 1 = i
      BY <1>0
    <3> HIDE DEF k
    <3>2. f[k + 1] = f[k] + Greater(0, RangeEnd(rs[k + 1]) - RangeStart(rs[k + 1]))
      BY <1>2, <3>1
    <3>4. f[i] = f[k] + (hi[i] - lo[i])
      BY <1>1, <3>1, <3>2
    <3> QED
      BY <3>4 DEF k
  <2>3. ASSUME NEW i \in 1..m, NEW k \in 1..m, i < k
        PROVE  hi[i] <= lo[k]
    <3>1. rs[i].last + 1 < rs[k].first /\ rs[i] \in BlockRange /\ rs[k] \in BlockRange
      BY <1>0, <2>3 DEF Apart
    <3>2. rs[i].last < rs[k].first
      BY <3>1 DEF BlockRange
    <3> QED
      BY <3>1, <3>2, CellsApart
  <2>4. f[0] = 0
    BY <1>2 DEF SumSteps
  <2> HIDE DEF lo, hi
  <2> QED
    BY <2>1, <2>2, <2>3, <2>4 DEF Tally
<1>7. Counted(m, lo, hi, f)
  <2> HIDE DEF lo, hi, m
  <2> QED
    BY <1>0, <1>6, CountIntervals
<1>8. Joined(m, lo, hi) = cells
  <2>1. \A x \in Nat, i \in 1..m : lo[i] <= x /\ x < hi[i] <=> InCells(rs[i], x)
    BY DEF InCells
  <2>2. \A x \in Nat : (\E i \in 1..m : InCells(rs[i], x))
          <=> x < size /\ \E b \in Nat : InBlock(x, b, call.bs) /\ InBlocks(rs, b)
    BY CellsOfRanges
  <2> HIDE DEF lo, hi
  <2> QED
    BY <2>1, <2>2 DEF Joined
<1> QED
  BY <1>2, <1>7, <1>8 DEF Counted, SumSteps

-----------------------------------------------------------------------------
(* The plan of a scan.                                                     *)

(* The blocks that are to be looked at.                                    *)
Plan == CandidateRanges(call.holes, call.bs)

Planned(c) ==
  /\ c < size
  /\ call.stream \/ \E b \in Nat : InBlock(c, b, call.bs) /\ InBlocks(Plan, b)

(* The lookup is over, or was not wanted.                                  *)
Decided == look = InitLook \/ (call.holes /\ ~call.stream /\ CallOk /\ LookedUpOk)

PlanOk ==
  /\ Plan \in Seq(BlockRange) /\ Apart(Plan)
  /\ \A i \in 1..Len(Plan) : RangeStart(Plan[i]) < RangeEnd(Plan[i])

(* A plan of found ranges has the blocks in which something was found.     *)
LEMMA PlanOfFound ==
  ASSUME CallOk, FileOk, LookedUpOk, call.holes, look.answer = "ranges"
  PROVE  /\ PlanOk
         /\ \A b \in Nat : InBlocks(Plan, b)
                           <=> \E c \in Nat : InBytes(look.found, c) /\ InBlock(c, b, call.bs)
<1>1. /\ call.bs \in Nat \ {0} /\ size \in Nat
      /\ look.found \in Seq(ByteRange) /\ SortedBytes(look.found)
      /\ \A c \in Nat : InBytes(look.found, c) => c < size
  BY DEF CallOk, FileOk, LookedUpOk
<1>2. Plan = ByteRangesToBlocks(look.found, call.bs)
  BY DEF Plan, CandidateRanges
<1>3. /\ Plan \in Seq(BlockRange) /\ Apart(Plan)
      /\ \A b \in Nat : InBlocks(Plan, b)
                        <=> \E c \in Nat : InBytes(look.found, c) /\ InBlock(c, b, call.bs)
  BY <1>1, <1>2, BlocksCoverBytes
<1>4. ASSUME NEW i \in 1..Len(Plan)
      PROVE  RangeStart(Plan[i]) < RangeEnd(Plan[i])
  <2> DEFINE r == Plan[i]
             f == r.first
  <2>1. r \in BlockRange /\ f \in Nat /\ r.last \in Nat /\ f <= r.last
    <3>1. r \in BlockRange /\ f <= r.last
      BY <1>3, ElementOfSeq DEF Apart
    <3> QED
      BY <3>1 DEF BlockRange
  <2>2. InBlocks(Plan, f)
    BY <2>1 DEF InBlocks, InRangeOf
  <2>3. PICK c \in Nat : InBytes(look.found, c) /\ InBlock(c, f, call.bs)
    BY <1>3, <2>1, <2>2
  <2>4. InRangeOf(r, f) /\ c < size
    BY <1>1, <2>1, <2>3 DEF InRangeOf
  <2>5. InCells(r, c)
    <3> HIDE DEF r, f
    <3> QED
      BY <1>1, <2>1, <2>3, <2>4, CellsOfRange
  <2>6. RangeStart(r) \in Nat /\ RangeEnd(r) \in Nat
    <3> HIDE DEF r
    <3> QED
      BY <1>1, <2>1, RangePlace
  <2> QED
    BY <2>5, <2>6 DEF InCells
<1> QED
  BY <1>3, <1>4 DEF PlanOk

(* Without ranges the plan is the whole image.                             *)
LEMMA PlanOfAll ==
  ASSUME CallOk, FileOk, size # 0, ~(call.holes /\ look.answer = "ranges")
  PROVE  /\ PlanOk
         /\ \A c, b \in Nat : c < size /\ InBlock(c, b, call.bs) => InBlocks(Plan, b)
         /\ \A b \in Nat : InBlocks(Plan, b) => \E c \in Nat : c < size /\ InBlock(c, b, call.bs)
<1> DEFINE n == CeilDiv(size, call.bs)
           r == [first |-> 0, last |-> n - 1]
<1>1. call.bs \in Nat \ {0} /\ size \in Nat \ {0}
  BY DEF CallOk, FileOk
<1>2. n \in Nat \ {0} /\ size <= n * call.bs /\ \A k \in Nat : k < n => k * call.bs < size
  BY <1>1, CeilFacts, CeilPositive
<1>3. Plan = <<r>>
  BY DEF Plan, CandidateRanges
<1> HIDE DEF n
<1>4. r \in BlockRange /\ r.first = 0 /\ r.last = n - 1
  BY <1>2 DEF BlockRange
<1> HIDE DEF r
<1>5. Plan \in Seq(BlockRange) /\ Len(Plan) = 1 /\ Plan[1] = r
  BY <1>3, <1>4
<1>6. Apart(Plan)
  <2>1. \A i \in 1..Len(Plan) : i = 1
    BY <1>5
  <2>2. r.first <= r.last
    BY <1>2, <1>4
  <2> QED
    BY <1>5, <2>1, <2>2 DEF Apart
<1>7. RangeStart(r) < RangeEnd(r)
  <2>1. RangeStart(r) = 0 /\ (r.last + 1) * call.bs = n * call.bs
    BY <1>1, <1>2, <1>4 DEF RangeStart
  <2> DEFINE e == n * call.bs
  <2>2. e \in Nat /\ size <= e /\ RangeEnd(r) = Lesser(e, size)
    BY <1>1, <1>2, <2>1 DEF RangeEnd
  <2> HIDE DEF e
  <2> QED
    BY <1>1, <2>1, <2>2 DEF Lesser
<1>8. \A i \in 1..Len(Plan) : RangeStart(Plan[i]) < RangeEnd(Plan[i])
  <2>1. \A i \in 1..Len(Plan) : i = 1
    BY <1>5
  <2> QED
    BY <1>5, <1>7, <2>1
<1>9. ASSUME NEW c \in Nat, NEW b \in Nat, c < size, InBlock(c, b, call.bs)
      PROVE  InBlocks(Plan, b)
  <2>1. b * call.bs <= c /\ b * call.bs \in Nat
    <3>1. \A k \in Nat : InBlock(c, k, call.bs) <=> k * call.bs <= c /\ c < (k + 1) * call.bs
      BY <1>1, InBlockFacts
    <3>2. b * call.bs \in Nat
      BY <1>1
    <3> QED
      BY <1>9, <3>1, <3>2
  <2>2. b < n
    <3> SUFFICES ASSUME n <= b PROVE FALSE
      BY <1>2
    <3>1. n * call.bs <= b * call.bs /\ n * call.bs \in Nat
      <4>1. n < b => n * call.bs \in Nat /\ (n + 1) * call.bs = n * call.bs + call.bs
                     /\ (n + 1) * call.bs <= b * call.bs
        BY <1>1, <1>2, Multiples
      <4>2. n = b => n * call.bs <= b * call.bs /\ n * call.bs \in Nat
        BY <2>1
      <4> QED
        BY <1>1, <1>2, <2>1, <4>1, <4>2
    <3> QED
      BY <1>1, <1>2, <1>9, <2>1, <3>1
  <2>3. InRangeOf(r, b)
    BY <1>2, <1>4, <2>2 DEF InRangeOf
  <2>4. 1 \in 1..Len(Plan) /\ Plan[1] = r
    BY <1>5
  <2> QED
    BY <2>3, <2>4 DEF InBlocks
<1>10. ASSUME NEW b \in Nat, InBlocks(Plan, b)
       PROVE  \E c \in Nat : c < size /\ InBlock(c, b, call.bs)
  <2>1. InRangeOf(r, b)
    <3>1. \A i \in 1..Len(Plan) : i = 1
      BY <1>5
    <3> QED
      BY <1>5, <1>10, <3>1 DEF InBlocks
  <2>2. b < n
    BY <1>2, <1>4, <2>1 DEF InRangeOf
  <2>3. b * call.bs < size
    BY <1>2, <2>2
  <2>4. b * call.bs \in Nat /\ InBlock(b * call.bs, b, call.bs)
    BY <1>1, BlockStart
  <2> QED
    BY <2>3, <2>4
<1> QED
  BY <1>5, <1>6, <1>8, <1>9, <1>10 DEF PlanOk

LEMMA PlanHolds ==
  ASSUME CallOk, FileOk, size # 0, Decided
  PROVE  /\ PlanOk
         /\ \A c \in file.extents : c < size => Planned(c)
         /\ \A b \in Nat : InBlocks(Plan, b) => \E c \in Nat : c < size /\ InBlock(c, b, call.bs)
<1>1. call.bs \in Nat \ {0} /\ \A c \in file.extents : c \in Nat
  BY DEF CallOk, FileOk, FileSet
<1>2. CASE call.holes /\ look.answer = "ranges"
  <2>1. LookedUpOk
    BY <1>2 DEF Decided, InitLook
  <2>2. /\ PlanOk
        /\ \A b \in Nat : InBlocks(Plan, b)
                           <=> \E c \in Nat : InBytes(look.found, c) /\ InBlock(c, b, call.bs)
    BY <1>2, <2>1, PlanOfFound
  <2>3. FoundUpto(size)
    BY <1>2, <2>1 DEF LookedUpOk
  <2>4. ASSUME NEW c \in file.extents, c < size
        PROVE  Planned(c)
    <3>1. InBytes(look.found, c) /\ c \in Nat
      BY <1>1, <2>3, <2>4 DEF FoundUpto
    <3>2. PICK b \in Nat : InBlock(c, b, call.bs)
      BY <1>1, <3>1, InBlockFacts
    <3> QED
      BY <2>2, <2>4, <3>1, <3>2 DEF Planned
  <2>5. \A c \in Nat : InBytes(look.found, c) => c < size
    BY <1>2, <2>1 DEF LookedUpOk
  <2> QED
    BY <2>2, <2>4, <2>5
<1>3. CASE ~(call.holes /\ look.answer = "ranges")
  <2>1. /\ PlanOk
        /\ \A c, b \in Nat : c < size /\ InBlock(c, b, call.bs) => InBlocks(Plan, b)
        /\ \A b \in Nat : InBlocks(Plan, b) => \E c \in Nat : c < size /\ InBlock(c, b, call.bs)
    BY <1>3, PlanOfAll
  <2>2. ASSUME NEW c \in file.extents, c < size
        PROVE  Planned(c)
    <3>1. PICK b \in Nat : InBlock(c, b, call.bs)
      BY <1>1, InBlockFacts
    <3> QED
      BY <1>1, <2>1, <2>2, <3>1 DEF Planned
  <2> QED
    BY <2>1, <2>2
<1> QED
  BY <1>2, <1>3

(* The plan stays once the lookup is over.                                 *)
LEMMA PlanStays ==
  ASSUME UNCHANGED <<call, size, look>>
  PROVE  /\ Plan' = Plan /\ (PlanOk' <=> PlanOk) /\ (GaveUpMidway' <=> GaveUpMidway)
         /\ (ScanNeeded' <=> ScanNeeded) /\ (CallOk' <=> CallOk)
         /\ \A c : Planned(c)' <=> Planned(c)
         /\ \A r : RangeStart(r)' = RangeStart(r) /\ RangeEnd(r)' = RangeEnd(r)
<1>1. Plan' = Plan
  BY DEF Plan, CandidateRanges
<1>2. \A r : RangeStart(r)' = RangeStart(r) /\ RangeEnd(r)' = RangeEnd(r)
  BY DEF RangeStart, RangeEnd
<1>3. PlanOk' <=> PlanOk
  BY <1>1, <1>2 DEF PlanOk, RangeStart, RangeEnd
<1>4. \A c : Planned(c)' <=> Planned(c)
  BY <1>1 DEF Planned
<1> QED
  BY <1>1, <1>2, <1>3, <1>4 DEF GaveUpMidway, ScanNeeded, CallOk

-----------------------------------------------------------------------------
(* What holds throughout a call.                                           *)

Scanning == phase \in {"seek", "read", "stream"}

Fresh ==
  /\ seen = {} /\ builder = NoRanges /\ cands = <<>> /\ pos = 0
  /\ prog = [announced |-> FALSE, total |-> Unknown, advanced |-> 0, finished |-> 0]

ProgType == [announced : BOOLEAN, total : Int, advanced : Nat, finished : 0..1]

(* Types and bounds; and a call has a result exactly when it is over.      *)
BaseInv ==
  /\ FileOk /\ call \in Calls
  /\ phase \in {"start", "lookup", "seek", "read", "stream", "done"}
  /\ kpos \in Nat /\ kpos <= MaxLen /\ pos \in Nat /\ pos <= kpos /\ offset = pos
  /\ builder \in Builders /\ seen \in SUBSET (0..(MaxLen - 1)) /\ prog \in ProgType
  /\ phase # "done" => result = "none" /\ prog.finished = 0
  /\ phase = "done" => result \in {"ok", "Empty", "InvalidBlockSize", "Io"}
  /\ result = "ok" => prog.finished = 1

(* What each phase takes for granted of the lookup and of the call.        *)
StageInv ==
  /\ phase = "start" => look = InitLook /\ Fresh
  /\ phase = "lookup" => /\ LookingOn \/ LookedUpOk
                         /\ Fresh /\ call.holes /\ ~call.stream /\ CallOk /\ size # 0
  /\ phase \notin {"start", "lookup"} => Decided
  /\ phase \in {"seek", "read"} => ~call.stream /\ CallOk /\ ScanNeeded
  /\ phase = "stream" => call.stream /\ CallOk /\ cands = <<>>
  /\ call.stream => ~changed /\ prog.total = Unknown

(* What is still to be read lies in the plan, in order.                    *)
CandsOk ==
  /\ cands \in Seq(BlockRange) /\ Apart(cands)
  /\ \A i \in 1..Len(cands) : RangeStart(cands[i]) < RangeEnd(cands[i])
  /\ \A b \in Nat : InBlocks(cands, b) => InBlocks(Plan, b)

(* Where the position is among the candidates.                             *)
CandsInv ==
  /\ phase \in {"seek", "read"} => CandsOk
  /\ phase = "seek" => \A i \in 1..Len(cands) : pos <= RangeStart(cands[i])
  /\ phase = "read" => /\ cands # <<>>
                       /\ RangeStart(Head(cands)) <= pos /\ pos <= RangeEnd(Head(cands))

(* What was read is what was to be read, and counted.                      *)
TallyInv ==
  ~GaveUpMidway =>
  /\ prog.advanced = Cardinality(seen)
  /\ \A c \in seen : Planned(c)
  /\ prog.total # Unknown =>
       /\ ScanNeeded => prog.total = Cardinality({c \in Nat : Planned(c)})
       /\ ~ScanNeeded => prog.total = 0 /\ seen = {}

(* A cell that is still to be read.                                        *)
Pending(c) ==
  \/ phase = "stream" /\ pos <= c
  \/ phase = "seek" /\ \E i \in 1..Len(cands) : InCells(cands[i], c)
  \/ phase = "read" /\ \E i \in 1..Len(cands) : InCells(cands[i], c) /\ (i = 1 => pos <= c)

(* What was to be read was read, is still to be read, or is no longer      *)
(* there.                                                                  *)
NothingMissed == \A c \in Nat : Planned(c) => c \in seen \/ Pending(c) \/ file.len <= c

(* Data that was read, and is still data, lies in a block of the builder;  *)
(* if nobody changed the file, nothing else does.                          *)
DataKept ==
  \A c \in seen : c \in file.data =>
    \E b \in Nat : InBlock(c, b, call.bs) /\ InBlocks(AllRanges(builder), b)

BuiltExactly ==
  ~changed => \A b \in Nat : InBlocks(AllRanges(builder), b)
                             <=> \E c \in seen : InBlock(c, b, call.bs) /\ Marks(c)

BuiltSums == ~changed => AllSummed(builder, size)

(* The builder while it is filled: it has taken in what lies before the    *)
(* position, and the next block, or the next candidate, follows what it    *)
(* holds.  A batch that does not end at a block is the last one of its     *)
(* candidate.                                                              *)
ScanInv ==
  Scanning /\ ~GaveUpMidway =>
  /\ \A c \in seen : c < pos
  /\ NothingMissed /\ DataKept /\ BuiltExactly /\ BuiltSums
  /\ phase = "seek" => /\ builder.open = <<>>
                       /\ BuilderAt(builder, CeilDiv(size, call.bs) + 1)
                       /\ \A i \in 1..Len(cands) : BuilderAt(builder, cands[i].first)
  /\ phase \in {"read", "stream"} => BuilderAt(builder, CeilDiv(pos, call.bs))
  /\ phase = "read" => Even(pos) \/ pos = RangeEnd(Head(cands)) \/ (file.len <= pos /\ file.len < size)
  /\ phase = "stream" => pos <= size /\ (Even(pos) \/ pos = size)

(* The map of a call that returned ok.                                     *)
MapInv ==
  result = "ok" /\ ~GaveUpMidway =>
  /\ CallOk /\ map.size = size /\ map.blocks = CeilDiv(size, call.bs)
  /\ map.ranges \in Seq(SumRange) /\ Apart(map.ranges)
  /\ \A i \in 1..Len(map.ranges) : map.ranges[i].last < map.blocks
  /\ map.mapped = Covered(map.ranges)
  /\ ~changed => \A b \in Nat : InBlocks(map.ranges, b)
                                <=> \E c \in Nat : Planned(c) /\ InBlock(c, b, call.bs) /\ Marks(c)
  /\ \A c \in file.data : c < size =>
       \E b \in Nat : InBlock(c, b, call.bs) /\ InBlocks(map.ranges, b)
  /\ ScanNeeded /\ ~changed => \A i \in 1..Len(map.ranges) : Summed(map.ranges[i], size)
  /\ ~changed /\ prog.total # Unknown => prog.advanced = prog.total

CreateInv ==
  PositionInv /\ BaseInv /\ StageInv /\ CandsInv /\ TallyInv /\ ScanInv /\ MapInv

-----------------------------------------------------------------------------

(* At the start.                                                           *)
LEMMA NoRangesFacts ==
  /\ NoRanges \in Builders /\ NoRanges.open = <<>>
  /\ AllRanges(NoRanges) = <<>> /\ Len(AllRanges(NoRanges)) = 0
  /\ \A g : BuilderAt(NoRanges, g)
  /\ \A b : ~InBlocks(AllRanges(NoRanges), b)
  /\ \A e : AllSummed(NoRanges, e)
<1>1. <<>> \in Seq(SumRange) /\ Len(<<>>) = 0
  BY EmptySeq
<1>2. NoRanges \in Builders /\ NoRanges.open = <<>> /\ NoRanges.ranges = <<>>
  BY <1>1 DEF NoRanges, Builders
<1>3. AllRanges(NoRanges) = <<>>
  BY <1>1, <1>2, BuilderFacts
<1>4. Len(AllRanges(NoRanges)) = 0
  BY <1>1, <1>3
<1> QED
  BY <1>2, <1>3, <1>4 DEF BuilderAt, Apart, InBlocks, AllSummed

LEMMA CallFacts ==
  ASSUME call \in Calls
  PROVE  /\ call.bs \in Nat /\ call.batch \in Nat \ {0}
         /\ {call.stream, call.holes, call.zeros, call.sums} \subseteq BOOLEAN
         /\ BlockSizeAccepted => CallOk
<1>1. /\ call.bs \in Nat /\ call.batch \in Nat \ {0}
      /\ {call.stream, call.holes, call.zeros, call.sums} \subseteq BOOLEAN
  BY CallsAssumption
<1>2. BlockSizeAccepted => call.bs # 0
  <2> SUFFICES ASSUME NEW k \in 0..0, 2^k = 0 PROVE FALSE
    BY <1>1 DEF BlockSizeAccepted
  <2> QED
    OBVIOUS
<1> QED
  BY <1>1, <1>2 DEF CallOk

LEMMA CreateInit == Init => CreateInv
<1> SUFFICES ASSUME Init PROVE CreateInv
  OBVIOUS
<1>1. PositionInv
  BY InvInit
<1>2. PICK f \in Images : OpenFile(f)
  BY DEF Init
<1>3. f \in FileSet /\ f.len <= MaxLen /\ f.data \subseteq f.extents /\ f.extents \subseteq 0..(f.len - 1)
  BY ImagesAssumption DEF FileSet
<1>4. FileOk /\ look = InitLook /\ kpos = 0 /\ changed = FALSE
  <2>1. file = f /\ size = f.len /\ kpos = 0 /\ look = InitLook /\ changed = FALSE
    BY <1>2 DEF OpenFile
  <2>2. f.len \in Nat /\ \A c \in f.extents : c < f.len
    BY <1>3 DEF FileSet
  <2> QED
    BY <1>3, <2>1, <2>2 DEF FileOk
<1>5. /\ phase = "start" /\ Fresh /\ offset = pos /\ call \in Calls /\ result = "none"
  BY DEF Init, Fresh
<1>6. prog \in ProgType /\ prog.finished = 0 /\ prog.total = Unknown /\ prog.advanced = 0
  BY <1>5 DEF Fresh, ProgType, Unknown
<1>7. MaxLen \in Nat /\ Cardinality({}) = 0
  BY MaxLenAssumption, FS_EmptySet
<1>8. BaseInv
  BY <1>4, <1>5, <1>6, <1>7, NoRangesFacts DEF BaseInv, Fresh
<1>9. StageInv /\ CandsInv /\ ScanInv /\ MapInv
  BY <1>4, <1>5, <1>6 DEF StageInv, CandsInv, ScanInv, MapInv, Scanning
<1>10. TallyInv
  BY <1>5, <1>6, <1>7 DEF TallyInv, Fresh
<1> QED
  BY <1>1, <1>8, <1>9, <1>10 DEF CreateInv

LEMMA BlockInImage ==
  ASSUME NEW bs \in Nat \ {0}, NEW n \in Nat, NEW c \in Nat, c < n, NEW b \in Nat, InBlock(c, b, bs)
  PROVE  b < CeilDiv(n, bs)
<1> DEFINE q == CeilDiv(n, bs)
<1>1. q \in Nat /\ n <= q * bs
  BY CeilFacts
<1> HIDE DEF q
<1>2. b * bs <= c /\ b * bs \in Nat
  <2>1. \A k \in Nat : InBlock(c, k, bs) <=> k * bs <= c /\ c < (k + 1) * bs
    BY InBlockFacts
  <2>2. b * bs \in Nat
    OBVIOUS
  <2> QED
    BY <2>1, <2>2
<1>3. q * bs \in Nat /\ (q <= b => q * bs <= b * bs)
  <2>1. q < b => q * bs \in Nat /\ (q + 1) * bs = q * bs + bs /\ (q + 1) * bs <= b * bs
    BY <1>1, Multiples
  <2>2. q * bs \in Nat
    BY <1>1
  <2>3. q = b => q * bs <= b * bs
    BY <1>2
  <2> QED
    BY <1>1, <1>2, <2>1, <2>2, <2>3
<1> DEFINE u == q * bs
           v == b * bs
<1>4. u \in Nat /\ v \in Nat /\ n <= u /\ v <= c /\ (q <= b => u <= v)
  BY <1>1, <1>2, <1>3
<1> HIDE DEF u, v
<1>5. b < q
  BY <1>1, <1>4
<1> QED
  BY <1>5 DEF q

(* The map of a call that did not scan.                                    *)
LEMMA BareRanges ==
  ASSUME NEW rs \in Seq(BlockRange), Apart(rs), NEW out, out = [i \in 1..Len(rs) |-> Bare(rs[i])]
  PROVE  /\ out \in Seq(SumRange) /\ Len(out) = Len(rs) /\ Apart(out)
         /\ \A i \in 1..Len(rs) : out[i].first = rs[i].first /\ out[i].last = rs[i].last
         /\ \A b : InBlocks(out, b) <=> InBlocks(rs, b)
<1>1. Len(rs) \in Nat /\ \A i \in 1..Len(rs) : rs[i] \in BlockRange
  BY LenProperties, ElementOfSeq
<1>2. \A i \in 1..Len(rs) : Bare(rs[i]) \in SumRange
  BY <1>1, EmptySeq DEF Bare, BlockRange, SumRange
<1>3. out \in Seq(SumRange) /\ Len(out) = Len(rs)
  BY <1>1, <1>2
<1>4. \A i \in 1..Len(rs) : out[i].first = rs[i].first /\ out[i].last = rs[i].last
  BY DEF Bare
<1> QED
  BY <1>3, <1>4 DEF Apart, InBlocks, InRangeOf

(* What a step that leaves the file and the lookup alone leaves alone.     *)
LEMMA FileStays ==
  ASSUME UNCHANGED <<file, size, look, changed, call>>
  PROVE  /\ FileOk' <=> FileOk
         /\ Decided' <=> Decided
         /\ (LookingOn \/ LookedUpOk)' <=> (LookingOn \/ LookedUpOk)
<1>1. \A u : FoundUpto(u)' <=> FoundUpto(u)
  BY DEF FoundUpto
<1>2. FileOk' <=> FileOk
  BY DEF FileOk
<1>3. LookedUpOk' <=> LookedUpOk
  BY <1>1 DEF LookedUpOk, FoundUpto
<1>4. LookingOn' <=> LookingOn
  BY <1>1 DEF LookingOn, FoundOk, FoundUpto
<1> QED
  BY <1>2, <1>3, <1>4 DEF Decided, CallOk

(* Nor are the sums, as long as the ranges are the same.                   *)
LEMMA SumsStay ==
  ASSUME UNCHANGED <<file, size, changed, call>>, AllRanges(builder)' = AllRanges(builder)
  PROVE  BuiltSums => BuiltSums'
<1>1. \A c : Content(c)' = Content(c)
  BY DEF Content
<1>2. \A from, to : CellsOf(from, to)' = CellsOf(from, to)
  BY <1>1 DEF CellsOf
<1>3. \A r, end : Summed(r, end)' <=> Summed(r, end)
  BY <1>2 DEF Summed
<1>4. \A i : Summed(AllRanges(builder)[i], size)' <=> Summed(AllRanges(builder)[i], size)
  BY <1>3
<1> QED
  BY <1>4 DEF BuiltSums, AllSummed

(* The candidates are known.                                               *)
LEMMA ProceedScans ==
  ASSUME CreateInv, phase # "done", Fresh, Decided, CallOk, ~call.stream, size # 0, ScanNeeded,
         Proceed(Plan), UNCHANGED <<fileVars, call, pos, offset, builder, seen>>
  PROVE  BaseInv' /\ StageInv' /\ CandsInv' /\ TallyInv' /\ ScanInv' /\ MapInv'
<1>1. /\ prog' = [prog EXCEPT !.announced = TRUE, !.total = CandidateCells(Plan)]
      /\ cands' = Plan /\ phase' = "seek" /\ result' = result /\ map' = map
  BY DEF Proceed
<1>2. /\ UNCHANGED <<file, size, kpos, look, changed>>
      /\ UNCHANGED <<call, pos, offset, builder, seen>>
  BY DEF fileVars
<1>3. BaseInv /\ FileOk /\ PlanOk /\ size \in Nat
      /\ \A c \in file.extents : c < size => Planned(c)
  BY PlanHolds DEF CreateInv, BaseInv, FileOk
<1> DEFINE cells == {c \in Nat : c < size /\ \E b \in Nat : InBlock(c, b, call.bs) /\ InBlocks(Plan, b)}
<1>4. cells = {c \in Nat : Planned(c)}
  BY DEF Planned
<1>5. IsFiniteSet(cells) /\ CandidateCells(Plan) = Cardinality(cells)
  BY <1>3, CandidatesCount DEF PlanOk
<1> HIDE DEF cells
<1>6. Cardinality(cells) \in Nat
  BY <1>5, FS_CardinalityType
<1>7. /\ prog' = [announced |-> TRUE, total |-> Cardinality(cells), advanced |-> 0, finished |-> 0]
  BY <1>1, <1>5 DEF Fresh
<1>8. /\ Plan' = Plan /\ (PlanOk' <=> PlanOk) /\ (GaveUpMidway' <=> GaveUpMidway)
      /\ (ScanNeeded' <=> ScanNeeded) /\ (CallOk' <=> CallOk)
      /\ (\A c : Planned(c)' <=> Planned(c))
      /\ (\A r : RangeStart(r)' = RangeStart(r) /\ RangeEnd(r)' = RangeEnd(r))
  BY <1>2, PlanStays
<1>9. BaseInv'
  <2>1. prog' \in ProgType /\ prog'.finished = 0
    BY <1>6, <1>7 DEF ProgType
  <2>2. FileOk'
    BY <1>2, <1>3, FileStays
  <2> QED
    BY <1>1, <1>2, <1>3, <2>1, <2>2 DEF BaseInv
<1>10. StageInv'
  <2>1. Decided'
    BY <1>2, FileStays
  <2> QED
    BY <1>1, <1>2, <1>8, <2>1 DEF StageInv
<1>11. CandsInv'
  <2>1. CandsOk'
    BY <1>1, <1>3, <1>8 DEF CandsOk, PlanOk
  <2>2. \A i \in 1..Len(Plan) : 0 <= RangeStart(Plan[i])
    <3>1. \A i \in 1..Len(Plan) : Plan[i] \in BlockRange
      BY <1>3, ElementOfSeq DEF PlanOk
    <3>2. \A i \in 1..Len(Plan) : RangeStart(Plan[i]) \in Nat
      BY <1>3, <3>1, RangePlace
    <3> QED
      BY <3>2
  <2>3. pos' = 0
    BY <1>2 DEF Fresh
  <2> QED
    BY <1>1, <1>8, <2>1, <2>2, <2>3 DEF CandsInv
<1>12. TallyInv'
  <2>1. seen' = {} /\ Cardinality({}) = 0
    BY <1>2, FS_EmptySet DEF Fresh
  <2>2. cells = {c \in Nat : Planned(c)}'
    BY <1>4, <1>8
  <2>3. prog'.advanced = 0 /\ prog'.total = Cardinality(cells)
    BY <1>7
  <2> QED
    BY <1>8, <2>1, <2>2, <2>3 DEF TallyInv
<1>13. ScanInv'
  <2>1. builder' = NoRanges /\ seen' = {} /\ phase' = "seek" /\ cands' = Plan
    BY <1>1, <1>2 DEF Fresh
  <2>2. NothingMissed'
    <3> SUFFICES ASSUME NEW c \in Nat, Planned(c) PROVE Pending(c)'
      BY <1>8 DEF NothingMissed
    <3>1. c < size /\ \E b \in Nat : InBlock(c, b, call.bs) /\ InBlocks(Plan, b)
      BY DEF Planned
    <3>2. \E i \in 1..Len(Plan) : InCells(Plan[i], c)
      BY <1>3, <3>1, CellsOfRanges DEF PlanOk
    <3> QED
      BY <1>8, <2>1, <3>2 DEF Pending, InCells
  <2>3. DataKept' /\ BuiltExactly'
    BY <2>1, NoRangesFacts DEF DataKept, BuiltExactly
  <2>4. \A g : BuilderAt(builder, g)'
    BY <2>1, NoRangesFacts DEF BuilderAt
  <2>5. BuiltSums'
    BY <2>1, NoRangesFacts DEF BuiltSums, AllSummed
  <2>6. builder'.open = <<>>
    BY <2>1, NoRangesFacts
  <2>7. (BuilderAt(builder, CeilDiv(size, call.bs) + 1)
         /\ \A i \in 1..Len(cands) : BuilderAt(builder, cands[i].first))'
    BY <2>4
  <2> QED
    BY <2>1, <2>2, <2>3, <2>5, <2>6, <2>7 DEF ScanInv
<1>14. MapInv'
  BY <1>1, <1>3 DEF MapInv, BaseInv
<1> QED
  BY <1>9, <1>10, <1>11, <1>12, <1>13, <1>14

(* There is nothing to scan.                                               *)
LEMMA ProceedReturns ==
  ASSUME CreateInv, phase # "done", Fresh, Decided, CallOk, ~call.stream, size # 0, ~ScanNeeded,
         Proceed(Plan), UNCHANGED <<fileVars, call, pos, offset, builder, seen>>
  PROVE  BaseInv' /\ StageInv' /\ CandsInv' /\ TallyInv' /\ ScanInv' /\ MapInv'
<1> DEFINE out == [i \in 1..Len(Plan) |-> Bare(Plan[i])]
<1>1. /\ prog' = [prog EXCEPT !.announced = TRUE, !.total = 0, !.finished = prog.finished + 1]
      /\ Assemble(size, out)
      /\ phase' = "done" /\ result' = "ok" /\ cands' = cands
  BY DEF Proceed, Return
<1>2. /\ UNCHANGED <<file, size, kpos, look, changed>>
      /\ UNCHANGED <<call, pos, offset, builder, seen>>
  BY DEF fileVars
<1>3. /\ BaseInv /\ FileOk /\ PlanOk /\ size \in Nat /\ call.bs \in Nat \ {0}
      /\ \A c \in file.extents : c < size => Planned(c)
      /\ \A b \in Nat : InBlocks(Plan, b) => \E c \in Nat : c < size /\ InBlock(c, b, call.bs)
  BY PlanHolds DEF CreateInv, BaseInv, FileOk, CallOk
<1>4. /\ out \in Seq(SumRange) /\ Len(out) = Len(Plan) /\ Apart(out)
      /\ \A i \in 1..Len(Plan) : out[i].first = Plan[i].first /\ out[i].last = Plan[i].last
      /\ \A b : InBlocks(out, b) <=> InBlocks(Plan, b)
  BY <1>3, BareRanges DEF PlanOk
<1> HIDE DEF out
<1>5. /\ map'.size = size /\ map'.blocks = CeilDiv(size, call.bs) /\ map'.ranges = out
      /\ map'.mapped = Covered(out)
  BY <1>1 DEF Assemble, Covered
<1>6. prog' = [announced |-> TRUE, total |-> 0, advanced |-> 0, finished |-> 1]
  <2>1. prog = [announced |-> FALSE, total |-> Unknown, advanced |-> 0, finished |-> 0]
    BY DEF Fresh
  <2>2. prog.finished + 1 = 1
    BY <2>1
  <2>3. prog' = [prog EXCEPT !.announced = TRUE, !.total = 0, !.finished = 1]
    BY <1>1, <2>2
  <2> QED
    BY <2>1, <2>3
<1>7. /\ Plan' = Plan /\ (GaveUpMidway' <=> GaveUpMidway)
      /\ (ScanNeeded' <=> ScanNeeded) /\ (CallOk' <=> CallOk)
      /\ (\A c : Planned(c)' <=> Planned(c))
  BY <1>2, PlanStays
<1>8. BaseInv'
  <2>1. prog' \in ProgType
    BY <1>6 DEF ProgType
  <2>2. FileOk'
    BY <1>2, <1>3, FileStays
  <2> QED
    BY <1>1, <1>2, <1>3, <2>1, <2>2 DEF BaseInv
<1>9. StageInv'
  <2>1. Decided'
    BY <1>2, FileStays
  <2> QED
    BY <1>1, <2>1 DEF StageInv
<1>10. CandsInv' /\ ScanInv'
  BY <1>1 DEF CandsInv, ScanInv, Scanning
<1>11. TallyInv'
  <2>1. seen' = {} /\ Cardinality({}) = 0
    BY <1>2, FS_EmptySet DEF Fresh
  <2>2. prog'.advanced = 0 /\ prog'.total = 0
    BY <1>6
  <2> QED
    BY <1>7, <2>1, <2>2 DEF TallyInv
<1>12. MapInv'
  <2>1. \A c : Planned(c) <=> c < size /\ \E b \in Nat : InBlock(c, b, call.bs) /\ InBlocks(Plan, b)
    BY DEF Planned
  <2>2. \A b \in Nat : InBlocks(out, b)
                       <=> \E c \in Nat : Planned(c) /\ InBlock(c, b, call.bs)
    <3>1. \A c, a, b : InBlock(c, a, call.bs) /\ InBlock(c, b, call.bs) => a = b
      BY DEF InBlock
    <3> QED
      BY <1>3, <1>4, <2>1, <3>1
  <2>3. \A c : Marks(c)'
    BY <1>2 DEF Marks, ScanNeeded
  <2>4. \A i \in 1..Len(out) : out[i].last < CeilDiv(size, call.bs)
    <3> SUFFICES ASSUME NEW i \in 1..Len(out) PROVE out[i].last < CeilDiv(size, call.bs)
      OBVIOUS
    <3> DEFINE l == out[i].last
    <3>1. l \in Nat /\ InBlocks(Plan, l)
      <4>1. i \in 1..Len(Plan) /\ l = Plan[i].last /\ Plan[i] \in BlockRange /\ Plan[i].first <= Plan[i].last
        BY <1>3, <1>4, ElementOfSeq DEF PlanOk, Apart
      <4>2. l \in Nat /\ InRangeOf(Plan[i], l)
        BY <4>1 DEF InRangeOf, BlockRange
      <4> QED
        BY <4>1, <4>2 DEF InBlocks
    <3> HIDE DEF l
    <3>2. PICK c \in Nat : c < size /\ InBlock(c, l, call.bs)
      BY <1>3, <3>1
    <3>3. l < CeilDiv(size, call.bs)
      BY <1>3, <3>1, <3>2, BlockInImage
    <3> QED
      BY <3>3 DEF l
  <2>5. \A c \in file.data : c < size =>
          \E b \in Nat : InBlock(c, b, call.bs) /\ InBlocks(out, b)
    BY <1>3, <1>4, <2>1 DEF FileOk
  <2>6. prog'.advanced = prog'.total
    BY <1>6
  <2> QED
    BY <1>2, <1>4, <1>5, <1>7, <2>2, <2>3, <2>4, <2>5, <2>6 DEF MapInv
<1> QED
  BY <1>8, <1>9, <1>10, <1>11, <1>12

Rest == BaseInv /\ StageInv /\ CandsInv /\ TallyInv /\ ScanInv /\ MapInv

(* A call that gives up.                                                   *)
LEMMA GivesUp ==
  ASSUME CreateInv, phase # "done", Decided, phase' = "done",
         result' \in {"Empty", "InvalidBlockSize", "Io"},
         prog' \in ProgType, prog'.advanced = prog.advanced, prog'.total = prog.total,
         UNCHANGED <<fileVars, call, pos, cands, offset, builder, seen>>
  PROVE  Rest'
<1>1. /\ UNCHANGED <<file, size, kpos, look, changed>>
      /\ UNCHANGED <<call, pos, cands, offset, builder, seen>>
  BY DEF fileVars
<1>2. BaseInv /\ FileOk /\ TallyInv /\ StageInv
  BY DEF CreateInv, BaseInv
<1>3. /\ (GaveUpMidway' <=> GaveUpMidway) /\ (ScanNeeded' <=> ScanNeeded)
      /\ (\A c : Planned(c)' <=> Planned(c))
  BY <1>1, PlanStays
<1>4. FileOk' /\ Decided'
  BY <1>1, <1>2, FileStays
<1>5. BaseInv'
  BY <1>1, <1>2, <1>4 DEF BaseInv
<1>6. StageInv'
  BY <1>1, <1>2, <1>4 DEF StageInv
<1>7. CandsInv' /\ ScanInv' /\ MapInv'
  BY DEF CandsInv, ScanInv, MapInv, Scanning
<1>8. TallyInv'
  <2>1. {c \in Nat : Planned(c)}' = {c \in Nat : Planned(c)}
    BY <1>3
  <2> QED
    BY <1>1, <1>2, <1>3, <2>1 DEF TallyInv
<1> QED
  BY <1>5, <1>6, <1>7, <1>8 DEF Rest

-----------------------------------------------------------------------------
(* One lemma for each step: it keeps all but PositionInv.                  *)

LEMMA StartKeeps == CreateInv /\ Start => Rest'
<1> SUFFICES ASSUME CreateInv, Start PROVE Rest'
  OBVIOUS
<1>1. phase = "start" /\ look = InitLook /\ Fresh /\ BaseInv /\ StageInv /\ FileOk /\ size \in Nat
      /\ Decided /\ call \in Calls
  BY DEF Start, CreateInv, BaseInv, StageInv, Decided, FileOk
<1>2. /\ UNCHANGED <<file, size, kpos, look, changed>>
      /\ UNCHANGED <<call, pos, offset, builder, seen>>
      /\ UNCHANGED <<fileVars, call, pos, offset, builder, seen>>
  BY DEF fileVars, Start
<1>3. /\ call.bs \in Nat /\ call.batch \in Nat \ {0}
      /\ {call.stream, call.holes, call.zeros, call.sums} \subseteq BOOLEAN
      /\ BlockSizeAccepted => CallOk
  BY <1>1, CallFacts
<1>4. CASE (~call.stream /\ size = 0) \/ ~BlockSizeAccepted
  <2>1. phase' = "done" /\ result' \in {"Empty", "InvalidBlockSize"}
        /\ UNCHANGED <<cands, prog, map>>
    BY <1>4 DEF Start, Return
  <2>2. prog \in ProgType
    BY <1>1 DEF BaseInv
  <2> QED
    BY <1>1, <1>2, <2>1, <2>2, GivesUp
<1>5. CASE ~(~call.stream /\ size = 0) /\ BlockSizeAccepted /\ call.stream
  <2>1. phase' = "stream" /\ prog' = [prog EXCEPT !.announced = TRUE]
        /\ UNCHANGED <<result, cands, map>>
    BY <1>5 DEF Start
  <2>2. CallOk /\ ~changed
    BY <1>1, <1>3, <1>5 DEF StageInv
  <2>3. /\ seen' = {} /\ builder' = NoRanges /\ cands' = <<>> /\ pos' = 0
    BY <1>1, <1>2, <2>1 DEF Fresh
  <2>4. prog' = [announced |-> TRUE, total |-> Unknown, advanced |-> 0, finished |-> 0]
    BY <1>1, <2>1 DEF Fresh
  <2>5. FileOk' /\ Decided'
    BY <1>1, <1>2, FileStays
  <2>6. prog' \in ProgType /\ prog'.finished = 0 /\ prog'.total = Unknown /\ prog'.advanced = 0
    BY <2>4 DEF ProgType, Unknown
  <2>7. BaseInv'
    BY <1>1, <1>2, <2>1, <2>5, <2>6 DEF BaseInv
  <2>8. CallOk' /\ call'.stream /\ ~changed'
    BY <1>2, <1>5, <2>2 DEF CallOk
  <2>9. StageInv'
    BY <2>1, <2>3, <2>5, <2>6, <2>8 DEF StageInv
  <2>10. CandsInv' /\ MapInv'
    BY <1>1, <2>1 DEF CandsInv, MapInv, BaseInv
  <2>11. TallyInv'
    BY <2>3, <2>6, FS_EmptySet DEF TallyInv
  <2>12. ScanInv'
    <3>1. NothingMissed'
      <4>1. \A c \in Nat : Pending(c)'
        BY <2>1, <2>3 DEF Pending
      <4> QED
        BY <4>1 DEF NothingMissed
    <3>2. DataKept' /\ BuiltExactly' /\ BuiltSums'
      BY <2>3, NoRangesFacts DEF DataKept, BuiltExactly, BuiltSums, AllSummed
    <3>3. \A g : BuilderAt(builder, g)'
      BY <2>3, NoRangesFacts DEF BuilderAt
    <3>4. BuilderAt(builder, CeilDiv(pos, call.bs))'
      BY <3>3
    <3>5. Even(pos)' /\ pos' <= size'
      <4>1. call'.bs \in Nat
        BY <1>2, <1>3
      <4>2. 0 * call'.bs = 0 /\ 0 \in Nat
        BY <4>1
      <4> QED
        BY <1>1, <1>2, <2>3, <4>2 DEF Even
    <3> QED
      BY <2>1, <2>3, <3>1, <3>2, <3>4, <3>5 DEF ScanInv
  <2> QED
    BY <2>7, <2>9, <2>10, <2>11, <2>12 DEF Rest
<1>6. CASE ~(~call.stream /\ size = 0) /\ BlockSizeAccepted /\ ~call.stream /\ call.holes
  <2>1. phase' = "lookup" /\ UNCHANGED <<result, cands, prog, map>>
    BY <1>6 DEF Start
  <2>2. CallOk /\ size # 0
    BY <1>3, <1>6
  <2>3. Fresh' /\ CallOk' /\ size' # 0 /\ call'.holes /\ ~call'.stream
    BY <1>1, <1>2, <1>6, <2>1, <2>2 DEF Fresh, CallOk
  <2>4. FileOk' /\ Decided'
    BY <1>1, <1>2, FileStays
  <2>5. LookingOn'
    <3>1. LookingOn
      <4>1. look \in LookSet /\ look.at = "data" /\ look.cursor = 0 /\ look.start = 0
            /\ look.found = <<>>
        BY <1>1, EmptySeq DEF InitLook, LookSet
      <4>2. Len(look.found) = 0 /\ look.found \in Seq(ByteRange)
        BY <4>1, EmptySeq
      <4>3. FoundOk
        BY <1>1, <4>1, <4>2 DEF FoundOk, SortedBytes
      <4>4. FoundUpto(0)
        BY <1>1, <4>2 DEF FoundUpto, InBytes, FileOk, FileSet
      <4> QED
        BY <4>1, <4>3, <4>4 DEF LookingOn
    <3>2. ~LookedUpOk
      BY <1>1 DEF LookedUpOk, InitLook
    <3>3. ~LookedUpOk'
      BY <1>1, <1>2 DEF LookedUpOk, InitLook
    <3> QED
      BY <1>2, <3>1, <3>3, FileStays
  <2>6. BaseInv'
    BY <1>1, <1>2, <2>1, <2>4 DEF BaseInv
  <2>7. StageInv'
    BY <1>2, <2>1, <2>3, <2>5 DEF StageInv
  <2>8. CandsInv' /\ MapInv' /\ ScanInv'
    BY <1>1, <2>1 DEF CandsInv, MapInv, BaseInv, ScanInv, Scanning
  <2>9. TallyInv'
    <3>1. seen' = {} /\ prog'.total = Unknown /\ prog'.advanced = 0
      BY <2>3 DEF Fresh
    <3> QED
      BY <3>1, FS_EmptySet DEF TallyInv
  <2> QED
    BY <2>6, <2>7, <2>8, <2>9 DEF Rest
<1>7. CASE ~(~call.stream /\ size = 0) /\ BlockSizeAccepted /\ ~call.stream /\ ~call.holes
  <2>1. Proceed(CandidateRanges(FALSE, call.bs)) /\ call.holes = FALSE
    BY <1>3, <1>7 DEF Start
  <2>2. Proceed(Plan)
    BY <2>1 DEF Plan
  <2>3. CallOk /\ size # 0
    BY <1>3, <1>7
  <2> QED
    BY <1>1, <1>2, <1>7, <2>2, <2>3, ProceedScans, ProceedReturns DEF Rest
<1> QED
  BY <1>4, <1>5, <1>6, <1>7

LEMMA LookUpKeeps == CreateInv /\ LookUp => Rest'
<1> SUFFICES ASSUME CreateInv, LookUp PROVE Rest'
  OBVIOUS
<1>1. phase = "lookup" /\ DataByteRanges
      /\ UNCHANGED <<call, phase, result, pos, cands, offset, builder, prog, map, seen>>
  BY DEF LookUp, createVars
<1>2. BaseInv /\ FileOk /\ StageInv /\ Fresh /\ CallOk /\ size # 0 /\ call.holes /\ ~call.stream
  BY <1>1 DEF CreateInv, BaseInv, StageInv
<1>3. LookingOn
  <2>1. ~LookedUpOk
    BY <1>1 DEF LookedUpOk, DataByteRanges, NoMoreData, FindData, FindHole, FindHolePastEnd,
                Refused, LookupFails, Rewind
  <2> QED
    BY <1>1, <2>1 DEF CreateInv, StageInv
<1>4. /\ (LookingOn \/ LookedUpOk)' /\ FileOk' /\ UNCHANGED <<file, size, changed>>
      /\ kpos' = kpos \/ (kpos' \in Nat /\ kpos' <= MaxLen)
  BY <1>1, <1>2, <1>3, LookupFinds DEF DataByteRanges
<1>5. Fresh' /\ CallOk' /\ pos' = 0
  BY <1>1, <1>2 DEF Fresh, CallOk
<1>6. BaseInv'
  <2>1. kpos' \in Nat /\ kpos' <= MaxLen /\ pos' <= kpos'
    BY <1>2, <1>4, <1>5 DEF BaseInv
  <2> QED
    BY <1>1, <1>2, <1>4, <2>1 DEF BaseInv
<1>7. StageInv'
  BY <1>1, <1>2, <1>4, <1>5 DEF StageInv
<1>8. CandsInv' /\ MapInv' /\ ScanInv'
  BY <1>1, <1>2 DEF CandsInv, MapInv, BaseInv, ScanInv, Scanning
<1>9. TallyInv'
  <2>1. seen' = {} /\ prog'.total = Unknown /\ prog'.advanced = 0
    BY <1>5 DEF Fresh
  <2> QED
    BY <2>1, FS_EmptySet DEF TallyInv
<1> QED
  BY <1>6, <1>7, <1>8, <1>9 DEF Rest

LEMMA LookedUpKeeps == CreateInv /\ LookedUp => Rest'
<1> SUFFICES ASSUME CreateInv, LookedUp PROVE Rest'
  OBVIOUS
<1>1. phase = "lookup" /\ look.at = "answered"
      /\ UNCHANGED <<fileVars, call, pos, offset, builder, seen>>
  BY DEF LookedUp
<1>2. BaseInv /\ StageInv /\ Fresh /\ CallOk /\ size # 0 /\ call.holes /\ ~call.stream
  BY <1>1 DEF CreateInv, BaseInv, StageInv
<1>3. Decided
  <2>1. ~LookingOn
    BY <1>1 DEF LookingOn, LookSet
  <2> QED
    BY <1>1, <1>2, <2>1 DEF StageInv, Decided
<1>4. CASE look.answer = "io"
  <2>1. phase' = "done" /\ result' = "Io" /\ UNCHANGED <<cands, prog, map>>
    BY <1>4 DEF LookedUp, Return
  <2>2. prog \in ProgType
    BY <1>2 DEF BaseInv
  <2> QED
    BY <1>1, <1>3, <2>1, <2>2, GivesUp
<1>5. CASE look.answer # "io"
  <2>1. Proceed(CandidateRanges(TRUE, call.bs)) /\ call.holes = TRUE
    BY <1>2, <1>5 DEF LookedUp, CallOk
  <2>2. Proceed(Plan)
    BY <2>1 DEF Plan
  <2> QED
    BY <1>1, <1>2, <1>3, <2>2, ProceedScans, ProceedReturns DEF Rest
<1> QED
  BY <1>4, <1>5

LEMMA OthersKeep == CreateInv /\ Others => Rest'
<1> SUFFICES ASSUME CreateInv, Others PROVE Rest'
  OBVIOUS
<1>1. /\ phase # "done" /\ ~call.stream /\ Meddle
      /\ UNCHANGED <<size, kpos, look>>
      /\ UNCHANGED <<call, phase, result, pos, cands, offset, builder, prog, map, seen>>
  BY DEF Others, Meddle, createVars
<1>2. BaseInv /\ FileOk /\ StageInv /\ CandsInv /\ TallyInv /\ ScanInv
      /\ file.len \in Nat /\ size \in Nat /\ pos \in Nat
  BY DEF CreateInv, BaseInv, FileOk, FileSet
<1>3. /\ FileOk' /\ changed'
      /\ \A c \in file'.data : c < size => c \in file.data
      /\ file.len < size => file'.len <= file.len
      /\ file'.len \in Nat
  BY <1>1, <1>2, MeddleTakesAway DEF FileOk, FileSet
<1>4. (LookingOn => LookingOn') /\ (LookedUpOk => LookedUpOk')
  BY <1>1, <1>2, MeddleWhileLooking
<1>5. /\ Plan' = Plan /\ (GaveUpMidway' <=> GaveUpMidway)
      /\ (ScanNeeded' <=> ScanNeeded) /\ (CallOk' <=> CallOk)
      /\ (\A c : Planned(c)' <=> Planned(c))
      /\ (\A r : RangeStart(r)' = RangeStart(r) /\ RangeEnd(r)' = RangeEnd(r))
  BY <1>1, PlanStays
<1>6. Decided => Decided'
  BY <1>1, <1>4 DEF Decided, CallOk
<1>7. Fresh => Fresh'
  BY <1>1 DEF Fresh
<1>8. BaseInv'
  BY <1>1, <1>2, <1>3 DEF BaseInv
<1>9. StageInv'
  BY <1>1, <1>2, <1>4, <1>5, <1>6, <1>7 DEF StageInv
<1>10. CandsOk => CandsOk'
  BY <1>1, <1>5 DEF CandsOk
<1>11. CandsInv'
  BY <1>1, <1>2, <1>5, <1>10 DEF CandsInv
<1>12. TallyInv'
  <2>1. {c \in Nat : Planned(c)}' = {c \in Nat : Planned(c)}
    BY <1>5
  <2> QED
    BY <1>1, <1>2, <1>5, <2>1 DEF TallyInv
<1>13. MapInv'
  BY <1>1, <1>2 DEF MapInv, BaseInv
<1>14. ScanInv'
  <2> SUFFICES ASSUME Scanning, ~GaveUpMidway
      PROVE  (/\ \A c \in seen : c < pos
              /\ NothingMissed /\ DataKept /\ BuiltExactly /\ BuiltSums
              /\ phase = "seek" => builder.open = <<>>
              /\ phase = "seek" => /\ BuilderAt(builder, CeilDiv(size, call.bs) + 1)
                                   /\ \A i \in 1..Len(cands) : BuilderAt(builder, cands[i].first)
              /\ phase \in {"read", "stream"} => BuilderAt(builder, CeilDiv(pos, call.bs))
              /\ phase = "read" => Even(pos) \/ pos = RangeEnd(Head(cands))
                                   \/ (file.len <= pos /\ file.len < size)
              /\ phase = "stream" => pos <= size /\ (Even(pos) \/ pos = size))'
    BY <1>1, <1>5 DEF ScanInv, Scanning
  <2>1. /\ \A c \in seen : c < pos
        /\ NothingMissed /\ DataKept
        /\ phase = "seek" => builder.open = <<>>
        /\ phase = "seek" => /\ BuilderAt(builder, CeilDiv(size, call.bs) + 1)
                             /\ \A i \in 1..Len(cands) : BuilderAt(builder, cands[i].first)
        /\ phase \in {"read", "stream"} => BuilderAt(builder, CeilDiv(pos, call.bs))
        /\ phase = "read" => Even(pos) \/ pos = RangeEnd(Head(cands))
                             \/ (file.len <= pos /\ file.len < size)
    BY <1>2 DEF ScanInv
  <2>2. \A c \in seen : c \in Nat /\ c < size
    BY <1>2 DEF TallyInv, Planned, BaseInv
  <2>3. NothingMissed'
    <3> SUFFICES ASSUME NEW c \in Nat, Planned(c)
                 PROVE  c \in seen \/ Pending(c)' \/ file'.len <= c
      BY <1>1, <1>5 DEF NothingMissed
    <3>1. Pending(c) => Pending(c)'
      BY <1>1, <1>5 DEF Pending, InCells
    <3>2. file.len <= c => file'.len <= c
      BY <1>2, <1>3 DEF Planned
    <3> QED
      BY <2>1, <3>1, <3>2 DEF NothingMissed
  <2>4. DataKept'
    BY <1>1, <1>3, <2>1, <2>2 DEF DataKept
  <2>5. BuiltExactly' /\ BuiltSums'
    BY <1>3 DEF BuiltExactly, BuiltSums
  <2>6. \A g : BuilderAt(builder, g)' <=> BuilderAt(builder, g)
    BY <1>1 DEF BuilderAt
  <2>7. phase = "seek" => /\ BuilderAt(builder, CeilDiv(size, call.bs) + 1)'
                          /\ \A i \in 1..Len(cands) : BuilderAt(builder, cands[i].first)'
    BY <1>1, <2>1 DEF BuilderAt
  <2>8. phase \in {"read", "stream"} => BuilderAt(builder, CeilDiv(pos, call.bs))'
    BY <1>1, <2>1 DEF BuilderAt
  <2>9. phase = "read" => (Even(pos) \/ pos = RangeEnd(Head(cands))
                             \/ (file.len <= pos /\ file.len < size))'
    <3>1. file.len <= pos /\ file.len < size => file'.len <= pos /\ file'.len < size
      BY <1>2, <1>3
    <3>2. RangeEnd(Head(cands))' = RangeEnd(Head(cands))
      BY <1>1 DEF RangeEnd
    <3> QED
      BY <1>1, <2>1, <3>1, <3>2 DEF Even
  <2>10. phase # "stream"
    BY <1>1, <1>2 DEF StageInv
  <2> QED
    BY <1>1, <2>1, <2>3, <2>4, <2>5, <2>7, <2>8, <2>9, <2>10
<1> QED
  BY <1>8, <1>9, <1>11, <1>12, <1>13, <1>14 DEF Rest

LEMMA ReadFailsKeeps == CreateInv /\ ReadFails => Rest'
<1> SUFFICES ASSUME CreateInv, ReadFails PROVE Rest'
  OBVIOUS
<1>1. /\ phase \in {"read", "stream", "seek"} /\ phase' = "done" /\ result' = "Io"
      /\ UNCHANGED <<fileVars, call, pos, cands, offset, builder, seen>> /\ prog' = prog
  BY DEF ReadFails, Return
<1>2. Decided /\ prog \in ProgType
  BY <1>1 DEF CreateInv, StageInv, BaseInv
<1> QED
  BY <1>1, <1>2, GivesUp

(* The next candidate begins where nothing was read yet.                   *)
LEMMA SeekKeeps == CreateInv /\ Seek => Rest'
<1> SUFFICES ASSUME CreateInv, Seek PROVE Rest'
  OBVIOUS
<1> DEFINE h == Head(cands)
           start == RangeStart(h)
<1>1. /\ phase = "seek" /\ cands # <<>>
      /\ UNCHANGED <<file, size, look, changed>>
      /\ UNCHANGED <<call, builder, prog, map, seen>>
  BY DEF Seek
<1>2. BaseInv /\ FileOk /\ StageInv /\ CandsInv /\ CandsOk /\ TallyInv /\ ScanInv /\ CallOk /\ ~call.stream
      /\ size \in Nat /\ size <= MaxLen /\ MaxLen \in Nat /\ kpos \in Nat /\ pos \in Nat /\ Decided /\ ScanNeeded
      /\ pos <= kpos /\ kpos <= MaxLen
  BY <1>1, MaxLenAssumption DEF CreateInv, BaseInv, FileOk, CandsInv, StageInv
<1>3. /\ Len(cands) \in Nat /\ 1 \in 1..Len(cands) /\ h = cands[1] /\ h \in BlockRange
      /\ \A i \in 1..Len(cands) : cands[i] \in BlockRange
  <2>1. cands \in Seq(BlockRange)
    BY <1>2 DEF CandsOk
  <2>2. Len(cands) \in Nat /\ Len(cands) # 0
    BY <1>1, <2>1, EmptySeq
  <2> QED
    BY <1>1, <2>1, <2>2, ElementOfSeq
<1>4. /\ start \in Nat /\ RangeEnd(h) \in Nat /\ RangeEnd(h) <= size /\ start < RangeEnd(h)
      /\ pos <= start /\ h.first \in Nat /\ start = h.first * call.bs
  BY <1>1, <1>2, <1>3, RangePlace DEF CandsOk, CandsInv, RangeStart
<1> HIDE DEF h
<1>5. /\ SkipTo(start) /\ offset' = start /\ phase' = "read" /\ UNCHANGED <<cands, result>>
  <2>1. ~(RangeEnd(h) <= start) /\ ~(start < pos)
    BY <1>2, <1>4
  <2> QED
    BY <1>1, <2>1 DEF Seek, h
<1>6. pos' = start /\ kpos' \in Nat /\ kpos' <= MaxLen /\ pos' <= kpos'
  BY <1>2, <1>4, <1>5 DEF SkipTo
<1>7. /\ (GaveUpMidway' <=> GaveUpMidway) /\ (ScanNeeded' <=> ScanNeeded) /\ (CallOk' <=> CallOk)
      /\ (\A c : Planned(c)' <=> Planned(c)) /\ Plan' = Plan
      /\ (\A r : RangeStart(r)' = RangeStart(r) /\ RangeEnd(r)' = RangeEnd(r))
  BY <1>1, PlanStays
<1>8. FileOk' /\ Decided'
  BY <1>1, <1>2, FileStays
<1>9. BaseInv'
  BY <1>1, <1>2, <1>4, <1>5, <1>6, <1>8 DEF BaseInv
<1>10. StageInv'
  BY <1>1, <1>2, <1>5, <1>7, <1>8 DEF StageInv
<1>11. CandsInv'
  <2>1. CandsOk'
    BY <1>2, <1>5, <1>7 DEF CandsOk
  <2>2. Head(cands)' = h
    BY <1>5 DEF h
  <2> QED
    BY <1>1, <1>4, <1>5, <1>6, <1>7, <2>1, <2>2 DEF CandsInv
<1>12. TallyInv'
  <2>1. {c \in Nat : Planned(c)}' = {c \in Nat : Planned(c)}
    BY <1>7
  <2> QED
    BY <1>1, <1>2, <1>7, <2>1 DEF TallyInv
<1>13. MapInv'
  BY <1>1, <1>2, <1>5 DEF MapInv, BaseInv
<1>14. ASSUME ~GaveUpMidway PROVE ScanInv'
  <2>1. /\ \A c \in seen : c < pos
        /\ NothingMissed /\ DataKept /\ BuiltExactly /\ BuiltSums
        /\ \A i \in 1..Len(cands) : BuilderAt(builder, cands[i].first)
    BY <1>1, <1>2, <1>14 DEF ScanInv, Scanning
  <2>2. \A c \in seen' : c < pos'
    BY <1>1, <1>2, <1>4, <1>6, <2>1 DEF BaseInv
  <2>3. NothingMissed'
    <3> SUFFICES ASSUME NEW c \in Nat, Planned(c)
                 PROVE  c \in seen \/ Pending(c)' \/ file.len <= c
      BY <1>1, <1>7 DEF NothingMissed
    <3>1. Pending(c) => Pending(c)'
      <4> SUFFICES ASSUME NEW i \in 1..Len(cands), InCells(cands[i], c) PROVE Pending(c)'
        BY <1>1 DEF Pending
      <4>1. i = 1 => start <= c
        BY <1>3 DEF InCells
      <4>2. InCells(cands[i], c)'
        BY <1>5, <1>7 DEF InCells
      <4> QED
        BY <1>5, <1>6, <4>1, <4>2 DEF Pending
    <3> QED
      BY <2>1, <3>1 DEF NothingMissed
  <2>4. DataKept' /\ BuiltExactly'
    BY <1>1, <2>1 DEF DataKept, BuiltExactly, Marks
  <2>5. BuiltSums'
    <3>1. AllRanges(builder)' = AllRanges(builder)
      BY <1>1 DEF AllRanges
    <3> QED
      BY <1>1, <2>1, <3>1, SumsStay
  <2>6. CeilDiv(start, call.bs) = h.first
    BY <1>2, <1>4, CeilOfMultiple DEF CallOk
  <2>7. BuilderAt(builder, CeilDiv(pos, call.bs))'
    <3>1. BuilderAt(builder, h.first)
      BY <1>3, <2>1
    <3> QED
      BY <1>1, <1>6, <2>6, <3>1 DEF BuilderAt
  <2>8. Even(pos)'
    BY <1>1, <1>4, <1>6 DEF Even
  <2> QED
    BY <1>5, <2>2, <2>3, <2>4, <2>5, <2>7, <2>8 DEF ScanInv
<1>15. GaveUpMidway => ScanInv'
  BY <1>7 DEF ScanInv
<1> QED
  BY <1>9, <1>10, <1>11, <1>12, <1>13, <1>14, <1>15 DEF Rest

-----------------------------------------------------------------------------
(* A batch.                                                                *)

LEMMA BatchLenFacts ==
  ASSUME CallOk
  PROVE  BatchLen \in Nat \ {0} /\ Even(BatchLen)
<1> DEFINE bs == call.bs
           g == Greater(call.batch, call.bs)
           q == g \div bs
<1>1. bs \in Nat \ {0} /\ g \in Nat \ {0} /\ bs <= g
  BY DEF CallOk, Greater
<1> HIDE DEF bs, g
<1>2. q \in Nat /\ q * bs <= g /\ g < (q + 1) * bs
  BY <1>1, DivMod
<1>3. BatchLen = q * bs
  BY DEF BatchLen, bs, g
<1> HIDE DEF q
<1>4. q # 0
  <2> SUFFICES ASSUME q = 0 PROVE FALSE
    OBVIOUS
  <2> QED
    BY <1>1, <1>2
<1>5. q * bs \in Nat /\ q * bs # 0
  <2>1. 0 < q
    BY <1>2, <1>4
  <2>2. (0 + 1) * bs <= q * bs
    BY <1>1, <1>2, <2>1, Multiples
  <2>3. (0 + 1) * bs = bs /\ q * bs \in Nat
    BY <1>1, <1>2
  <2> QED
    BY <1>1, <2>2, <2>3
<1> QED
  BY <1>2, <1>3, <1>5 DEF Even, bs

LEMMA EvenSum ==
  ASSUME CallOk, NEW a \in Nat, NEW b \in Nat, Even(a), Even(b)
  PROVE  Even(a + b)
<1>1. call.bs \in Nat
  BY DEF CallOk
<1>2. PICK j \in Nat : a = j * call.bs
  BY DEF Even
<1>3. PICK k \in Nat : b = k * call.bs
  BY DEF Even
<1>4. j + k \in Nat /\ (j + k) * call.bs = j * call.bs + k * call.bs
  BY <1>1
<1> QED
  BY <1>2, <1>3, <1>4 DEF Even

(* What holds whatever was read.                                           *)
LEMMA BatchTypes ==
  ASSUME CreateInv, phase \in {"read", "stream"}, NEW n \in Nat, TakeBatch(n),
         UNCHANGED <<file, size, look, changed, call, phase, result, cands, map>>,
         kpos + n <= file.len, phase = "read" => pos + n <= RangeEnd(Head(cands))
  PROVE  BaseInv' /\ StageInv' /\ CandsInv' /\ MapInv'
<1> DEFINE cells == [i \in 1..n |-> Content(kpos + i - 1)]
<1>1. /\ BaseInv /\ FileOk /\ StageInv /\ CandsInv /\ CallOk /\ Decided /\ builder \in Builders
      /\ kpos \in Nat /\ pos \in Nat /\ pos <= kpos /\ offset = pos /\ prog \in ProgType /\ prog.finished = 0
      /\ file.len \in Nat /\ file.len <= MaxLen /\ MaxLen \in Nat /\ seen \in SUBSET (0..(MaxLen - 1))
  BY MaxLenAssumption DEF CreateInv, BaseInv, StageInv, FileOk, FileSet
<1>2. cells \in Seq(Nat)
  <2>1. \A i \in 1..n : Content(kpos + i - 1) \in Nat
    <3>1. file.data \in SUBSET Nat
      BY <1>1 DEF FileOk, FileSet
    <3> QED
      BY <1>1, <3>1 DEF Content, Zero
  <2> QED
    BY <2>1
<1>3. /\ builder' = Consume(builder, cells, offset) /\ kpos' = kpos + n /\ pos' = pos + n
      /\ offset' = offset + n /\ prog' = [prog EXCEPT !.advanced = prog.advanced + n]
      /\ seen' = seen \cup (kpos..(kpos + n - 1))
  BY DEF TakeBatch
<1> HIDE DEF cells
<1>4. builder' \in Builders
  <2> DEFINE spans == Classify(cells, call.bs, call.zeros)
  <2>1. PICK f : ConsumedBy(f, builder, spans, cells, offset)
    BY <1>1, <1>2, ConsumeSteps
  <2>2. Len(spans) \in Nat
    BY <1>1, <1>2, ClassifyReturnsRuns, LenProperties DEF CallOk, Cuts
  <2> QED
    BY <1>3, <2>1, <2>2 DEF ConsumedBy
<1>5. seen' \in SUBSET (0..(MaxLen - 1))
  BY <1>1, <1>3
<1>6. prog' \in ProgType /\ prog'.finished = 0
  BY <1>1, <1>3 DEF ProgType
<1>7. FileOk' /\ Decided'
  BY <1>1, FileStays
<1>8. BaseInv'
  BY <1>1, <1>3, <1>4, <1>5, <1>6, <1>7 DEF BaseInv
<1>9. /\ (ScanNeeded' <=> ScanNeeded) /\ (CallOk' <=> CallOk) /\ Plan' = Plan
      /\ (\A r : RangeStart(r)' = RangeStart(r) /\ RangeEnd(r)' = RangeEnd(r))
  BY PlanStays
<1>10. StageInv'
  <2>1. prog'.total = prog.total
    BY <1>1, <1>3 DEF ProgType
  <2> QED
    BY <1>1, <1>7, <1>9, <2>1 DEF StageInv
<1>11. CandsInv'
  <2>1. CandsOk => CandsOk'
    BY <1>9 DEF CandsOk
  <2>2. phase = "read" => RangeStart(Head(cands)) <= pos /\ cands # <<>> /\ CandsOk
    BY <1>1 DEF CandsInv
  <2>3. phase = "read" => RangeStart(Head(cands)) <= pos + n
    <3> SUFFICES ASSUME phase = "read" PROVE RangeStart(Head(cands)) <= pos + n
      OBVIOUS
    <3>1. Head(cands) \in BlockRange
      BY <2>2, HeadTailProperties DEF CandsOk
    <3>2. RangeStart(Head(cands)) \in Nat
      BY <1>1, <3>1, RangePlace DEF FileOk
    <3> QED
      BY <1>1, <2>2, <3>2
  <2>4. Head(cands)' = Head(cands)
    OBVIOUS
  <2> QED
    BY <1>1, <1>3, <1>9, <2>1, <2>2, <2>3, <2>4 DEF CandsInv
<1>12. MapInv'
  BY <1>1 DEF MapInv, BaseInv
<1> QED
  BY <1>8, <1>10, <1>11, <1>12

(* What was counted goes on with the cells from a on.                      *)
LEMMA CountOn ==
  ASSUME NEW s, NEW m \in Nat, s \in SUBSET (0..(m - 1)), NEW a \in Nat, NEW n \in Nat,
         \A c \in s : c < a, NEW t, t = s \cup (a..(a + n - 1))
  PROVE  Cardinality(t) = Cardinality(s) + n
<1> DEFINE u == a..(a + n - 1)
<1>1. IsFiniteSet(s)
  <2>1. 0 \in Int /\ m - 1 \in Int
    OBVIOUS
  <2>2. IsFiniteSet(0..(m - 1))
    BY <2>1, FS_Interval
  <2> QED
    BY <2>2, FS_Subset
<1>2. IsFiniteSet(u) /\ Cardinality(u) = n
  BY FS_Interval
<1>3. s \cap u = {}
  OBVIOUS
<1>4. Cardinality({}) = 0 /\ Cardinality(s) \in Nat
  BY <1>1, FS_EmptySet, FS_CardinalityType
<1> HIDE DEF u
<1>5. Cardinality(s \cup u) = Cardinality(s) + Cardinality(u) - Cardinality(s \cap u)
  BY <1>1, <1>2, FS_Union
<1>6. t = s \cup u
  BY DEF u
<1>7. Cardinality(s \cup u) = Cardinality(s) + n - 0
  BY <1>2, <1>3, <1>4, <1>5
<1>8. Cardinality(t) = Cardinality(s \cup u)
  BY <1>6
<1> QED
  BY <1>4, <1>7, <1>8

(* A batch that was read where it was believed to be.                      *)
LEMMA BatchCounts ==
  ASSUME CreateInv, phase \in {"read", "stream"}, ~GaveUpMidway, NEW n \in Nat, TakeBatch(n),
         UNCHANGED <<file, size, look, changed, call, phase, result, cands, map>>,
         kpos + n <= file.len, phase = "read" => pos + n <= RangeEnd(Head(cands)),
         phase = "stream" => pos + n <= size
  PROVE  TallyInv' /\ \A c \in Nat : pos <= c /\ c < pos + n => Planned(c)
<1>1. /\ BaseInv /\ FileOk /\ StageInv /\ CandsInv /\ TallyInv /\ CallOk
      /\ pos \in Nat /\ pos = kpos /\ prog \in ProgType /\ MaxLen \in Nat /\ size \in Nat
      /\ seen \in SUBSET (0..(MaxLen - 1)) /\ \A c \in seen : c < pos
  BY MaxLenAssumption DEF CreateInv, BaseInv, StageInv, FileOk, PositionInv, ScanInv, Scanning
<1>2. /\ prog' = [prog EXCEPT !.advanced = prog.advanced + n]
      /\ seen' = seen \cup (pos..(pos + n - 1))
  BY <1>1 DEF TakeBatch
<1>3. ASSUME NEW c \in Nat, pos <= c, c < pos + n
      PROVE  Planned(c)
  <2>1. CASE phase = "stream"
    BY <1>1, <1>3, <2>1 DEF Planned, StageInv
  <2>2. CASE phase = "read"
    <3>1. /\ CandsOk /\ cands \in Seq(BlockRange) /\ cands # <<>> /\ RangeStart(Head(cands)) <= pos
      BY <1>1, <2>2 DEF CandsInv, CandsOk
    <3>2. Head(cands) \in BlockRange /\ Len(cands) \in Nat /\ Len(cands) # 0 /\ Head(cands) = cands[1]
      BY <3>1, HeadTailProperties, EmptySeq
    <3> DEFINE h == Head(cands)
    <3>3. RangeStart(h) \in Nat /\ RangeEnd(h) \in Nat /\ pos + n <= RangeEnd(h) /\ RangeStart(h) <= pos
      BY <1>1, <2>2, <3>1, <3>2, RangePlace
    <3>4. InCells(h, c)
      <4> HIDE DEF h
      <4> QED
        BY <1>1, <1>3, <3>3 DEF InCells
    <3>5. 1 \in 1..Len(cands) /\ InCells(cands[1], c)
      BY <3>2, <3>4
    <3>6. c < size /\ \E b \in Nat : InBlock(c, b, call.bs) /\ InBlocks(cands, b)
      BY <1>1, <3>1, <3>5, CellsOfRanges
    <3> QED
      BY <3>1, <3>6 DEF CandsOk, Planned
  <2> QED
    BY <2>1, <2>2
<1>4. /\ (GaveUpMidway' <=> GaveUpMidway) /\ (ScanNeeded' <=> ScanNeeded)
      /\ (\A c : Planned(c)' <=> Planned(c))
  BY PlanStays
<1>5. TallyInv'
  <2>1. Cardinality(seen') = Cardinality(seen) + n
    BY <1>1, <1>2, CountOn
  <2>2. prog'.advanced = prog.advanced + n /\ prog'.total = prog.total
    BY <1>1, <1>2 DEF ProgType
  <2>3. prog.advanced = Cardinality(seen)
    BY <1>1 DEF TallyInv
  <2>4. \A c \in seen' : Planned(c)'
    BY <1>1, <1>2, <1>3, <1>4 DEF TallyInv
  <2>5. {c \in Nat : Planned(c)}' = {c \in Nat : Planned(c)}
    BY <1>4
  <2>6. phase = "read" => ScanNeeded
    BY <1>1 DEF StageInv
  <2>7. prog.total # Unknown /\ ScanNeeded => prog.total = Cardinality({c \in Nat : Planned(c)})
    BY <1>1 DEF TallyInv
  <2>8. phase = "stream" => prog.total = Unknown
    BY <1>1 DEF StageInv
  <2> QED
    BY <1>4, <2>1, <2>2, <2>3, <2>4, <2>5, <2>6, <2>7, <2>8 DEF TallyInv
<1> QED
  BY <1>3, <1>5

LEMMA ConsumedBatch ==
  ASSUME CallOk, NEW n \in Nat, NEW base \in Nat, Even(base),
         NEW b \in Builders, BuilderAt(b, CeilDiv(base, call.bs)),
         NEW end \in Nat, NEW stop \in Nat, stop = base + n,
         NEW cells \in Seq(Nat), cells = CellsOf(base, stop),
         NEW out \in {Consume(b, cells, base)}
  PROVE  GoesOn(b, out, base, stop, end)
<1>1. PICK j \in Nat : base = j * call.bs
  BY DEF Even
<1>2. CeilDiv(base, call.bs) = j /\ StartOf(j, base)
  BY <1>1, CeilOfMultiple DEF StartOf, CallOk
<1>3. BuilderAt(b, j)
  BY <1>2
<1> QED
  BY <1>2, <1>3, ConsumeSpec

(* What a batch leaves of ScanInv.                                         *)
LEMMA BatchScans ==
  ASSUME CreateInv, phase \in {"read", "stream"}, ~GaveUpMidway, NEW n \in Nat, TakeBatch(n),
         UNCHANGED <<file, size, look, changed, call, phase, result, cands, map>>,
         Even(pos), ~changed => StopsAt(pos + n, size),
         \A c \in Nat : pos <= c /\ c < pos + n => Planned(c),
         phase = "read" => \/ Even(pos + n) \/ pos + n = RangeEnd(Head(cands))
                           \/ (file.len <= pos + n /\ file.len < size),
         phase = "stream" => pos + n <= size /\ (Even(pos + n) \/ pos + n = size)
  PROVE  ScanInv'
<1> DEFINE stop == pos + n
           cells == CellsOf(pos, stop)
           bs == call.bs
<1>1. /\ BaseInv /\ FileOk /\ StageInv /\ CallOk /\ bs \in Nat \ {0}
      /\ pos \in Nat /\ pos = kpos /\ offset = pos /\ size \in Nat /\ seen \in SUBSET Nat
      /\ stop \in Nat
  BY DEF CreateInv, BaseInv, StageInv, FileOk, PositionInv, CallOk
<1>2. /\ \A c \in seen : c < pos
      /\ NothingMissed /\ DataKept /\ BuiltExactly /\ BuiltSums
      /\ BuilderAt(builder, CeilDiv(pos, bs))
  BY DEF CreateInv, ScanInv, Scanning
<1>3. cells = [i \in 1..n |-> Content(kpos + i - 1)]
  <2>1. stop - pos = n
    BY <1>1
  <2> QED
    BY <1>1, <2>1 DEF CellsOf
<1>4. /\ builder' = Consume(builder, cells, pos) /\ pos' = stop
      /\ seen' = seen \cup (pos..(stop - 1))
  BY <1>1, <1>3 DEF TakeBatch
<1> DEFINE out == Consume(builder, cells, pos)
<1>7. /\ BuilderAt(out, CeilDiv(stop, bs))
      /\ \A y \in Nat : InBlocks(AllRanges(out), y)
                        <=> InBlocks(AllRanges(builder), y) \/ Marked(pos, stop, y)
      /\ AllSummed(builder, size) /\ StopsAt(stop, size) => AllSummed(out, size)
  <2>1. /\ BuilderAt(builder, CeilDiv(pos, call.bs)) /\ CallOk /\ Even(pos)
        /\ stop \in Nat /\ pos \in Nat /\ size \in Nat /\ n \in Nat
        /\ stop = pos + n /\ cells = CellsOf(pos, stop) /\ out \in {Consume(builder, cells, pos)}
        /\ builder \in Builders
    BY <1>1, <1>2 DEF BuilderAt
  <2>2. cells \in Seq(Nat)
    BY <1>1, CellsType
  <2> HIDE DEF out, cells, stop
  <2>3. GoesOn(builder, out, pos, stop, size)
    BY <2>1, <2>2, ConsumedBatch
  <2> QED
    BY <2>3 DEF GoesOn
<1> HIDE DEF out, cells
<1>8. builder' = out
  BY <1>4 DEF out
<1> DEFINE new == pos..(stop - 1)
<1>9. \A c : c \in new <=> c \in Nat /\ pos <= c /\ c < stop
  BY <1>1
<1>10. seen' = seen \cup new
  BY <1>4
<1> HIDE DEF new, stop
<1>11. \A c \in seen' : c < pos'
  <2>1. \A c \in seen : c < stop
    BY <1>1, <1>2 DEF stop
  <2> QED
    BY <1>4, <1>9, <1>10, <2>1
<1>12. /\ (\A c : Planned(c)' <=> Planned(c))
       /\ (\A r : RangeStart(r)' = RangeStart(r) /\ RangeEnd(r)' = RangeEnd(r))
  BY PlanStays
<1>13. NothingMissed'
  <2> SUFFICES ASSUME NEW c \in Nat, Planned(c)
               PROVE  c \in seen' \/ Pending(c)' \/ file.len <= c
    BY <1>12 DEF NothingMissed
  <2>1. c \in seen \/ Pending(c) \/ file.len <= c
    BY <1>2 DEF NothingMissed
  <2>2. Pending(c) => c \in new \/ Pending(c)'
    <3> SUFFICES ASSUME Pending(c), ~(pos <= c /\ c < stop) PROVE Pending(c)'
      BY <1>9
    <3>1. pos <= c => stop <= c
      BY <1>1
    <3>2. \A i : InCells(cands[i], c)' <=> InCells(cands[i], c)
      BY <1>12 DEF InCells
    <3> QED
      BY <1>4, <3>1, <3>2 DEF Pending
  <2> QED
    BY <1>10, <2>1, <2>2
<1>14. \A y \in Nat : Marked(pos, stop, y) <=> \E c \in new : InBlock(c, y, bs) /\ Marks(c)
  BY <1>9 DEF Marked
<1>15. \A c : Marks(c)' <=> Marks(c)
  BY DEF Marks
<1>16. DataKept'
  <2> SUFFICES ASSUME NEW c \in seen', c \in file.data
               PROVE  \E b \in Nat : InBlock(c, b, bs) /\ InBlocks(AllRanges(out), b)
    BY <1>8 DEF DataKept
  <2>1. CASE c \in seen
    <3>1. PICK b \in Nat : InBlock(c, b, bs) /\ InBlocks(AllRanges(builder), b)
      BY <1>2, <2>1 DEF DataKept
    <3> QED
      BY <1>7, <3>1
  <2>2. CASE c \in new
    <3>1. c \in Nat /\ Marks(c)
      BY <1>9, <2>2 DEF Marks
    <3>2. PICK b \in Nat : InBlock(c, b, bs)
      BY <1>1, <3>1, InBlockFacts
    <3> QED
      BY <1>7, <1>14, <2>2, <3>1, <3>2
  <2> QED
    BY <1>10, <2>1, <2>2
<1>17. BuiltExactly'
  <2> SUFFICES ASSUME ~changed, NEW b \in Nat
               PROVE  InBlocks(AllRanges(out), b) <=> \E c \in seen' : InBlock(c, b, bs) /\ Marks(c)
    BY <1>8, <1>15 DEF BuiltExactly
  <2>1. InBlocks(AllRanges(builder), b) <=> \E c \in seen : InBlock(c, b, bs) /\ Marks(c)
    BY <1>2 DEF BuiltExactly
  <2> QED
    BY <1>7, <1>10, <1>14, <2>1
<1>18. BuiltSums'
  <2>1. ~changed => AllSummed(out, size)
    BY <1>2, <1>7 DEF BuiltSums, stop
  <2> QED
    BY <1>8, <2>1 DEF BuiltSums, AllSummed, Summed, CellsOf, Content
<1>19. BuilderAt(builder, CeilDiv(pos, bs))'
  <2>1. BuilderAt(out, CeilDiv(stop, bs))
    BY <1>7
  <2> QED
    BY <1>4, <1>8, <2>1 DEF BuilderAt
<1>20. phase = "read" => (Even(pos) \/ pos = RangeEnd(Head(cands)) \/ (file.len <= pos /\ file.len < size))'
  BY <1>4, <1>12 DEF Even, stop
<1>21. phase = "stream" => (pos <= size /\ (Even(pos) \/ pos = size))'
  BY <1>4 DEF Even, stop
<1> QED
  BY <1>11, <1>13, <1>16, <1>17, <1>18, <1>19, <1>20, <1>21 DEF ScanInv

LEMMA ReadKeeps == CreateInv /\ Read => Rest'
<1> SUFFICES ASSUME CreateInv, Read PROVE Rest'
  OBVIOUS
<1> DEFINE h == Head(cands)
           want == CandidateWant
           n == Available(want)
           re == RangeEnd(h)
<1>1. /\ phase = "read" /\ want > 0 /\ n > 0 /\ TakeBatch(n)
      /\ UNCHANGED <<file, size, look, changed, call, phase, result, cands, map>>
  BY DEF Read
<1>2. /\ BaseInv /\ FileOk /\ StageInv /\ CandsInv /\ CandsOk /\ CallOk /\ cands # <<>>
      /\ pos \in Nat /\ kpos \in Nat /\ offset = pos /\ size \in Nat /\ file.len \in Nat
      /\ ~changed => file.len = size
  BY <1>1 DEF CreateInv, BaseInv, StageInv, FileOk, FileSet, CandsInv
<1>3. h \in BlockRange
  BY <1>2, HeadTailProperties DEF CandsOk
<1>4. /\ re \in Nat /\ re <= size /\ (re = size \/ Even(re))
  BY <1>2, <1>3, RangePlace
<1>5. BatchLen \in Nat \ {0} /\ Even(BatchLen)
  BY <1>2, BatchLenFacts
<1>6. want = Lesser(re - pos, BatchLen)
  BY <1>2 DEF CandidateWant
<1>7. n = Lesser(want, Greater(0, file.len - kpos))
  BY DEF Available
<1> HIDE DEF h, want, n, re
<1>8. /\ want \in Nat \ {0} /\ n \in Nat \ {0} /\ kpos + n <= file.len /\ kpos < file.len
      /\ pos < re /\ pos + n <= re
      /\ n = want \/ (n < want /\ kpos + n = file.len)
      /\ pos + want = re \/ want = BatchLen
  BY <1>1, <1>2, <1>4, <1>5, <1>6, <1>7 DEF Lesser, Greater
<1>9. RangeEnd(Head(cands)) = re
  BY DEF re, h
<1>10. BaseInv' /\ StageInv' /\ CandsInv' /\ MapInv'
  BY <1>1, <1>8, <1>9, BatchTypes
<1>11. GaveUpMidway' <=> GaveUpMidway
  BY <1>1, PlanStays
<1>12. CASE GaveUpMidway
  BY <1>10, <1>11, <1>12 DEF Rest, TallyInv, ScanInv
<1>13. CASE ~GaveUpMidway
  <2>1. pos = kpos
    BY <1>1, <1>13 DEF CreateInv, PositionInv
  <2>2. Even(pos)
    <3>1. Even(pos) \/ pos = re \/ (file.len <= pos /\ file.len < size)
      BY <1>1, <1>9, <1>13 DEF CreateInv, ScanInv, Scanning
    <3> QED
      BY <1>2, <1>4, <1>8, <2>1, <3>1
  <2>3. Even(pos + n) \/ pos + n = re \/ (file.len <= pos + n /\ file.len < size)
    <3>1. CASE n = want /\ want = BatchLen
      BY <1>2, <1>5, <2>2, <3>1, EvenSum
    <3>2. CASE n = want /\ pos + want = re
      BY <3>2
    <3>3. CASE n < want /\ kpos + n = file.len
      BY <1>2, <1>4, <1>5, <1>6, <1>8, <2>1, <3>3 DEF Lesser
    <3> QED
      BY <1>8, <3>1, <3>2, <3>3
  <2>4. ~changed => StopsAt(pos + n, size)
    BY <1>2, <1>4, <1>8, <2>3 DEF StopsAt
  <2>5. TallyInv' /\ \A c \in Nat : pos <= c /\ c < pos + n => Planned(c)
    BY <1>1, <1>8, <1>9, <1>13, BatchCounts
  <2>6. ScanInv'
    BY <1>1, <1>8, <1>9, <1>13, <2>2, <2>3, <2>4, <2>5, BatchScans
  <2> QED
    BY <1>10, <2>5, <2>6 DEF Rest
<1> QED
  BY <1>12, <1>13

(* A stream is read as it is.                                              *)
LEMMA StreamIsRead ==
  ASSUME CreateInv, phase = "stream"
  PROVE  /\ ~GaveUpMidway /\ pos = kpos /\ file.len = size /\ ~changed
         /\ pos <= size /\ (Even(pos) \/ pos = size)
<1>1. call.stream /\ Decided /\ FileOk /\ ~changed
  BY DEF CreateInv, BaseInv, StageInv
<1>2. look = InitLook
  BY <1>1 DEF Decided
<1>3. ~GaveUpMidway
  BY <1>2 DEF GaveUpMidway, InitLook
<1> QED
  BY <1>1, <1>3 DEF CreateInv, PositionInv, ScanInv, Scanning, FileOk

LEMMA ReadStreamKeeps == CreateInv /\ ReadStream => Rest'
<1> SUFFICES ASSUME CreateInv, ReadStream PROVE Rest'
  OBVIOUS
<1> DEFINE n == Available(BatchLen)
<1>1. /\ phase = "stream" /\ n > 0 /\ TakeBatch(n)
      /\ UNCHANGED <<file, size, look, changed, call, phase, result, cands, map>>
  BY DEF ReadStream
<1>2. /\ CallOk /\ pos \in Nat /\ kpos \in Nat /\ size \in Nat
  BY <1>1 DEF CreateInv, BaseInv, StageInv, FileOk
<1>3. /\ ~GaveUpMidway /\ pos = kpos /\ file.len = size /\ ~changed
      /\ pos <= size /\ (Even(pos) \/ pos = size)
  BY <1>1, StreamIsRead
<1>4. BatchLen \in Nat \ {0} /\ Even(BatchLen)
  BY <1>2, BatchLenFacts
<1>5. n = Lesser(BatchLen, Greater(0, size - pos))
  BY <1>3 DEF Available
<1> HIDE DEF n
<1>6. /\ n \in Nat \ {0} /\ pos < size /\ pos + n <= size /\ kpos + n <= file.len
      /\ n = BatchLen \/ pos + n = size
  BY <1>1, <1>2, <1>3, <1>4, <1>5 DEF Lesser, Greater
<1>7. Even(pos)
  BY <1>2, <1>3, <1>6
<1>8. Even(pos + n) \/ pos + n = size
  <2>1. CASE n = BatchLen
    BY <1>2, <1>4, <1>7, <2>1, EvenSum
  <2> QED
    BY <1>6, <2>1
<1>9. StopsAt(pos + n, size)
  BY <1>6, <1>8 DEF StopsAt
<1>10. BaseInv' /\ StageInv' /\ CandsInv' /\ MapInv'
  BY <1>1, <1>6, BatchTypes
<1>11. TallyInv' /\ \A c \in Nat : pos <= c /\ c < pos + n => Planned(c)
  BY <1>1, <1>3, <1>6, BatchCounts
<1>12. ScanInv'
  BY <1>1, <1>3, <1>6, <1>7, <1>8, <1>9, <1>11, BatchScans
<1> QED
  BY <1>10, <1>11, <1>12 DEF Rest

LEMMA CeilBound ==
  ASSUME NEW bs \in Nat \ {0}, NEW n \in Nat, NEW q \in Nat, NEW e, e = q * bs, n <= e
  PROVE  CeilDiv(n, bs) <= q
<1> DEFINE k == CeilDiv(n, bs)
<1>1. k \in Nat /\ \A i \in Nat : i < k => i * bs < n
  BY CeilFacts
<1> HIDE DEF k
<1>2. q * bs \in Nat
  OBVIOUS
<1>3. ~(q < k)
  BY <1>1, <1>2
<1>4. k <= q
  BY <1>1, <1>3
<1> QED
  BY <1>4 DEF k

LEMMA CeilGrows ==
  ASSUME NEW bs \in Nat \ {0}, NEW m \in Nat, NEW n \in Nat, n <= m
  PROVE  CeilDiv(n, bs) <= CeilDiv(m, bs)
<1> DEFINE q == CeilDiv(m, bs)
           e == q * bs
<1>1. q \in Nat /\ m <= e /\ e \in Nat
  BY CeilFacts
<1>2. n <= e
  BY <1>1
<1>3. e = q * bs
  OBVIOUS
<1> HIDE DEF q, e
<1>4. CeilDiv(n, bs) <= q
  BY <1>1, <1>2, <1>3, CeilBound
<1> QED
  BY <1>4 DEF q

LEMMA CandidateEndsKeeps == CreateInv /\ CandidateEnds => Rest'
<1> SUFFICES ASSUME CreateInv, CandidateEnds PROVE Rest'
  OBVIOUS
<1> DEFINE h == Head(cands)
           t == Tail(cands)
           re == RangeEnd(h)
           bs == call.bs
<1>1. /\ phase = "read" /\ (CandidateWant = 0 \/ Available(CandidateWant) = 0)
      /\ builder' = Close(builder) /\ cands' = t /\ phase' = "seek"
      /\ UNCHANGED <<file, size, kpos, look, changed>>
      /\ UNCHANGED <<call, result, pos, offset, prog, map, seen>>
  BY DEF CandidateEnds, fileVars
<1>2. /\ BaseInv /\ FileOk /\ StageInv /\ CandsInv /\ CandsOk /\ TallyInv /\ CallOk /\ cands # <<>>
      /\ pos \in Nat /\ kpos \in Nat /\ offset = pos /\ size \in Nat /\ file.len \in Nat
      /\ builder \in Builders /\ Decided /\ ScanNeeded /\ ~call.stream /\ bs \in Nat \ {0}
  BY <1>1 DEF CreateInv, BaseInv, StageInv, FileOk, FileSet, CandsInv, CallOk
<1>3. /\ cands \in Seq(BlockRange) /\ Len(cands) \in Nat /\ Len(cands) # 0
      /\ h \in BlockRange /\ h = cands[1] /\ \A i \in 1..Len(cands) : cands[i] \in BlockRange
      /\ t \in Seq(BlockRange) /\ Len(t) = Len(cands) - 1 /\ \A i \in 1..Len(t) : t[i] = cands[i + 1]
  BY <1>2, HeadTailProperties, EmptySeq, ElementOfSeq DEF CandsOk
<1>4. \A i \in 1..Len(t) : i + 1 \in 1..Len(cands) /\ 1 < i + 1
  BY <1>3
<1>5. 1 \in 1..Len(cands)
  BY <1>3
<1>6. /\ RangeStart(h) \in Nat /\ re \in Nat /\ re <= size /\ pos <= re /\ RangeStart(h) <= pos
      /\ h.first \in Nat /\ h.last \in Nat
  BY <1>1, <1>2, <1>3, RangePlace DEF CandsInv
<1>7. ASSUME NEW i \in 1..Len(t)
      PROVE  h.last + 1 < t[i].first /\ re <= RangeStart(t[i]) /\ t[i] \in BlockRange /\ t[i].first \in Nat
             /\ RangeStart(t[i]) \in Nat
  <2>1. t[i] \in BlockRange /\ h.last + 1 < t[i].first
    BY <1>2, <1>3, <1>4, <1>5, <1>7 DEF CandsOk, Apart
  <2>2. t[i].first \in Nat /\ h.last < t[i].first
    BY <1>6, <2>1 DEF BlockRange
  <2>3. re <= RangeStart(t[i])
    BY <1>2, <1>3, <2>1, <2>2, CellsApart
  <2> QED
    BY <1>2, <2>1, <2>2, <2>3, RangePlace
<1>8. /\ (GaveUpMidway' <=> GaveUpMidway) /\ (ScanNeeded' <=> ScanNeeded) /\ (CallOk' <=> CallOk)
      /\ (\A c : Planned(c)' <=> Planned(c)) /\ Plan' = Plan
      /\ (\A r : RangeStart(r)' = RangeStart(r) /\ RangeEnd(r)' = RangeEnd(r))
  BY <1>1, PlanStays
<1>9. FileOk' /\ Decided'
  BY <1>1, <1>2, FileStays
<1> HIDE DEF t, h, re
<1>10. BaseInv'
  <2>1. builder' \in Builders
    BY <1>1, <1>2, CloseFacts
  <2> QED
    BY <1>1, <1>2, <1>9, <2>1 DEF BaseInv
<1>11. StageInv'
  BY <1>1, <1>2, <1>8, <1>9 DEF StageInv
<1>12. CandsInv'
  <2>1. Apart(t)
    <3>1. \A i \in 1..Len(t) : \A k \in 1..Len(t) : i < k => i + 1 < k + 1
      BY <1>3
    <3> QED
      BY <1>2, <1>3, <1>4, <3>1 DEF CandsOk, Apart
  <2>2. \A b \in Nat : InBlocks(t, b) => InBlocks(cands, b)
    BY <1>3, <1>4 DEF InBlocks
  <2>3. \A i \in 1..Len(t) : RangeStart(t[i]) < RangeEnd(t[i])
    BY <1>2, <1>3, <1>4 DEF CandsOk
  <2>4. CandsOk'
    BY <1>1, <1>2, <1>3, <1>8, <2>1, <2>2, <2>3 DEF CandsOk
  <2>5. \A i \in 1..Len(t) : pos <= RangeStart(t[i])
    BY <1>2, <1>6, <1>7
  <2> QED
    BY <1>1, <1>8, <2>4, <2>5 DEF CandsInv
<1>13. TallyInv'
  <2>1. {c \in Nat : Planned(c)}' = {c \in Nat : Planned(c)}
    BY <1>8
  <2> QED
    BY <1>1, <1>2, <1>8, <2>1 DEF TallyInv
<1>14. MapInv'
  BY <1>1, <1>2 DEF MapInv, BaseInv
<1>15. ASSUME ~GaveUpMidway PROVE ScanInv'
  <2>1. /\ \A c \in seen : c < pos
        /\ NothingMissed /\ DataKept /\ BuiltExactly /\ BuiltSums
        /\ BuilderAt(builder, CeilDiv(pos, bs))
    BY <1>1, <1>15 DEF CreateInv, ScanInv, Scanning
  <2>2. pos = kpos
    BY <1>1, <1>15 DEF CreateInv, PositionInv
  <2>3. pos = re \/ file.len <= pos
    <3>1. BatchLen \in Nat \ {0} /\ CandidateWant = Lesser(re - pos, BatchLen)
      BY <1>2, BatchLenFacts DEF CandidateWant, re, h
    <3>2. CASE CandidateWant = 0
      BY <1>2, <1>6, <3>1, <3>2 DEF Lesser
    <3>3. CASE Available(CandidateWant) = 0 /\ CandidateWant # 0
      <4>1. CandidateWant \in Nat \ {0}
        BY <1>2, <1>6, <3>1, <3>3 DEF Lesser
      <4> QED
        BY <1>2, <2>2, <3>3, <4>1 DEF Available, Lesser, Greater
    <3> QED
      BY <1>1, <3>2, <3>3
  <2>4. AllRanges(builder)' = AllRanges(builder) /\ builder'.open = <<>>
    BY <1>1, <1>2, CloseFacts DEF AllRanges
  <2> DEFINE f == CeilDiv(pos, bs)
             g == CeilDiv(size, bs) + 1
  <2>5. f \in Nat /\ g \in Nat /\ f < g
    <3>1. CeilDiv(pos, bs) \in Nat /\ CeilDiv(size, bs) \in Nat
      BY <1>2, CeilFacts
    <3>2. CeilDiv(pos, bs) <= CeilDiv(size, bs)
      BY <1>2, <1>6, CeilGrows
    <3> QED
      BY <3>1, <3>2
  <2>6. f <= h.last + 1
    <3> DEFINE e == (h.last + 1) * bs
    <3>1. e \in Nat /\ re <= e
      BY <1>2, <1>6 DEF re, RangeEnd, Lesser
    <3>2. pos <= e /\ e = (h.last + 1) * bs /\ h.last + 1 \in Nat
      BY <1>2, <1>6, <3>1
    <3> HIDE DEF e
    <3> QED
      BY <1>2, <3>2, CeilBound
  <2>7. BuilderAt(builder, f)
    BY <2>1
  <2> HIDE DEF f, g
  <2>8. BuilderAt(builder', g)
    BY <1>1, <2>5, <2>7, ClosedAt
  <2>9. \A i \in 1..Len(t) : BuilderAt(builder', t[i].first)
    <3> SUFFICES ASSUME NEW i \in 1..Len(t) PROVE BuilderAt(builder', t[i].first)
      OBVIOUS
    <3>1. t[i].first \in Nat /\ f < t[i].first
      BY <1>6, <1>7, <2>5, <2>6
    <3> QED
      BY <1>1, <2>5, <2>7, <3>1, ClosedAt
  <2>10. BuilderAt(builder, CeilDiv(size, call.bs) + 1)'
    BY <1>1, <2>8 DEF BuilderAt, g
  <2>11. \A i \in 1..Len(cands') : BuilderAt(builder, cands[i].first)'
    BY <1>1, <2>9 DEF BuilderAt
  <2>12. NothingMissed'
    <3> SUFFICES ASSUME NEW c \in Nat, Planned(c)
                 PROVE  c \in seen \/ Pending(c)' \/ file.len <= c
      BY <1>1, <1>8 DEF NothingMissed
    <3>1. c \in seen \/ Pending(c) \/ file.len <= c
      BY <2>1 DEF NothingMissed
    <3>2. ASSUME Pending(c), ~(file.len <= c) PROVE Pending(c)'
      <4>1. PICK i \in 1..Len(cands) : InCells(cands[i], c) /\ (i = 1 => pos <= c)
        BY <1>1, <3>2 DEF Pending
      <4>2. i # 1
        BY <1>2, <1>3, <1>6, <2>3, <3>2, <4>1 DEF InCells, re, h
      <4>3. i - 1 \in 1..Len(t) /\ t[i - 1] = cands[i]
        BY <1>3, <4>1, <4>2
      <4>4. \A r : InCells(r, c) => RangeStart(r)' <= c /\ c < RangeEnd(r)'
        BY <1>8 DEF InCells
      <4>5. \E k \in 1..Len(cands') : InCells(cands'[k], c)
        BY <1>1, <4>1, <4>3
      <4> QED
        BY <1>1, <1>8, <4>4, <4>5 DEF Pending, InCells
    <3> QED
      BY <3>1, <3>2
  <2>13. DataKept' /\ BuiltExactly'
    BY <1>1, <2>1, <2>4 DEF DataKept, BuiltExactly, Marks
  <2>14. BuiltSums'
    BY <1>1, <2>1, <2>4, SumsStay
  <2> QED
    BY <1>1, <2>1, <2>4, <2>10, <2>11, <2>12, <2>13, <2>14 DEF ScanInv
<1>16. GaveUpMidway => ScanInv'
  BY <1>8 DEF ScanInv
<1> QED
  BY <1>10, <1>11, <1>12, <1>13, <1>14, <1>15, <1>16 DEF Rest

(* The map of a scan that is over.                                         *)
LEMMA MapMade ==
  ASSUME CreateInv, Scanning, ~GaveUpMidway, CallOk, Decided, NEW end,
         Assemble(end, Close(builder).ranges), end = size,
         \A c \in Nat : Planned(c) => c \in seen \/ file.len <= c,
         \A i \in 1..Len(AllRanges(builder)) : AllRanges(builder)[i].last < CeilDiv(size, call.bs),
         call.stream \/ ScanNeeded, prog' = [prog EXCEPT !.finished = prog.finished + 1],
         UNCHANGED <<file, size, look, changed, call>>
  PROVE  MapInv'
<1>1. /\ BaseInv /\ FileOk /\ TallyInv /\ DataKept /\ BuiltExactly /\ BuiltSums /\ StageInv
      /\ builder \in Builders /\ seen \in SUBSET Nat /\ prog \in ProgType
      /\ size \in Nat /\ call.bs \in Nat \ {0} /\ file.len \in Nat /\ file.data \in SUBSET Nat
  BY DEF CreateInv, ScanInv, BaseInv, FileOk, FileSet, CallOk
<1> DEFINE rs == AllRanges(builder)
<1>2. Apart(rs) /\ rs \in Seq(SumRange)
  <2>1. \E g : BuilderAt(builder, g)
    BY DEF CreateInv, ScanInv, Scanning
  <2> QED
    BY <1>1, <2>1, BuilderFacts DEF BuilderAt
<1>3. /\ map'.size = size /\ map'.blocks = CeilDiv(size, call.bs) /\ map'.ranges = rs
      /\ map'.mapped = Covered(rs)
  BY <1>1, CloseFacts DEF Assemble, Covered
<1> HIDE DEF rs
<1>4. /\ (GaveUpMidway' <=> GaveUpMidway) /\ (ScanNeeded' <=> ScanNeeded) /\ (CallOk' <=> CallOk)
      /\ (\A c : Planned(c)' <=> Planned(c))
      /\ (\A c : Marks(c)' <=> Marks(c))
  BY PlanStays DEF Marks
<1>5. ~changed => \A c \in Nat : Planned(c) <=> c \in seen
  BY <1>1 DEF TallyInv, Planned, FileOk
<1>6. ~changed => \A b \in Nat : InBlocks(rs, b)
                       <=> \E c \in Nat : Planned(c) /\ InBlock(c, b, call.bs) /\ Marks(c)
  BY <1>1, <1>5 DEF BuiltExactly, rs
<1>7. ASSUME NEW c \in file.data, c < size
      PROVE  \E b \in Nat : InBlock(c, b, call.bs) /\ InBlocks(rs, b)
  <2>1. c \in file.extents /\ c \in Nat /\ c < file.len /\ size # 0
    BY <1>1, <1>7 DEF FileOk
  <2>2. Planned(c)
    BY <1>1, <1>7, <2>1, PlanHolds
  <2>3. c \in seen
    BY <1>1, <2>1, <2>2
  <2> QED
    BY <1>1, <1>7, <2>3 DEF DataKept, rs
<1>8. /\ ~changed => \A i \in 1..Len(rs) : Summed(rs[i], size)
      /\ \A r : Summed(r, size)' <=> Summed(r, size)
  BY <1>1 DEF BuiltSums, AllSummed, rs, Summed, CellsOf, Content
<1>11. \A i \in 1..Len(map'.ranges) : Summed(map'.ranges[i], size) => Summed(map.ranges[i], size)'
  BY DEF Summed, CellsOf, Content
<1>9. ~changed /\ prog'.total # Unknown => prog'.advanced = prog'.total
  <2> SUFFICES ASSUME ~changed, prog'.total # Unknown PROVE prog'.advanced = prog'.total
    OBVIOUS
  <2>1. prog'.total = prog.total /\ prog'.advanced = prog.advanced
    BY <1>1 DEF ProgType
  <2>2. ~call.stream
    BY <1>1, <2>1 DEF StageInv
  <2>3. seen = {c \in Nat : Planned(c)}
    BY <1>1, <1>5
  <2> QED
    BY <1>1, <2>1, <2>2, <2>3 DEF TallyInv
<1>10. \A i \in 1..Len(rs) : rs[i].last < map'.blocks
  BY <1>3 DEF rs
<1> QED
  BY <1>2, <1>3, <1>4, <1>6, <1>7, <1>8, <1>9, <1>10, <1>11 DEF MapInv

(* A scan that is over.                                                    *)
LEMMA Finishes ==
  ASSUME CreateInv, Scanning, Decided, phase' = "done", result' \in {"ok", "Empty"},
         prog' = [prog EXCEPT !.finished = prog.finished + 1],
         UNCHANGED <<fileVars, call, pos, cands, offset, builder, seen>>,
         result' = "ok" => MapInv'
  PROVE  Rest'
<1>1. /\ UNCHANGED <<file, size, kpos, look, changed>>
      /\ UNCHANGED <<call, pos, cands, offset, builder, seen>>
  BY DEF fileVars
<1>2. BaseInv /\ FileOk /\ TallyInv /\ StageInv /\ prog \in ProgType /\ prog.finished = 0
  BY DEF CreateInv, BaseInv, Scanning
<1>3. /\ (GaveUpMidway' <=> GaveUpMidway) /\ (ScanNeeded' <=> ScanNeeded)
      /\ (\A c : Planned(c)' <=> Planned(c))
  BY <1>1, PlanStays
<1>4. FileOk' /\ Decided'
  BY <1>1, <1>2, FileStays
<1>5. prog' \in ProgType /\ prog'.advanced = prog.advanced /\ prog'.total = prog.total
  <2>1. prog.finished + 1 = 1
    BY <1>2
  <2> QED
    BY <1>2, <2>1 DEF ProgType
<1>6. BaseInv'
  BY <1>1, <1>2, <1>4, <1>5 DEF BaseInv
<1>7. StageInv'
  BY <1>1, <1>2, <1>4, <1>5 DEF StageInv
<1>8. CandsInv' /\ ScanInv'
  BY DEF CandsInv, ScanInv, Scanning
<1>9. TallyInv'
  <2>1. {c \in Nat : Planned(c)}' = {c \in Nat : Planned(c)}
    BY <1>3
  <2> QED
    BY <1>1, <1>2, <1>3, <1>5, <2>1 DEF TallyInv
<1>10. MapInv'
  BY DEF MapInv
<1> QED
  BY <1>6, <1>7, <1>8, <1>9, <1>10 DEF Rest

LEMMA ScanEndsKeeps == CreateInv /\ ScanEnds => Rest'
<1> SUFFICES ASSUME CreateInv, ScanEnds PROVE Rest'
  OBVIOUS
<1>1. /\ phase = "seek" /\ cands = <<>> /\ prog' = [prog EXCEPT !.finished = prog.finished + 1]
      /\ Assemble(size, Close(builder).ranges)
      /\ phase' = "done" /\ result' = "ok"
      /\ UNCHANGED <<fileVars, call, pos, cands, offset, builder, seen>>
      /\ UNCHANGED <<file, size, look, changed, call>>
  BY DEF ScanEnds, Return, fileVars
<1>2. Scanning /\ Decided /\ CallOk /\ ScanNeeded
  BY <1>1 DEF CreateInv, StageInv, Scanning
<1>3. ASSUME ~GaveUpMidway PROVE MapInv'
  <2>1. /\ NothingMissed /\ builder.open = <<>> /\ BuilderAt(builder, CeilDiv(size, call.bs) + 1)
    BY <1>1, <1>2, <1>3 DEF CreateInv, ScanInv
  <2>2. \A c \in Nat : Planned(c) => c \in seen \/ file.len <= c
    <3>1. \A c : ~Pending(c)
      <4>1. Len(cands) = 0
        BY <1>1, EmptySeq
      <4> QED
        BY <1>1, <4>1 DEF Pending
    <3> QED
      BY <2>1, <3>1 DEF NothingMissed
  <2>3. \A i \in 1..Len(AllRanges(builder)) : AllRanges(builder)[i].last < CeilDiv(size, call.bs)
    <3> SUFFICES ASSUME NEW i \in 1..Len(AllRanges(builder))
                 PROVE  AllRanges(builder)[i].last < CeilDiv(size, call.bs)
      OBVIOUS
    <3>1. AllRanges(builder)[i].last + 1 < CeilDiv(size, call.bs) + 1
      BY <2>1 DEF BuilderAt
    <3>2. AllRanges(builder)[i].last \in Nat
      <4>1. AllRanges(builder)[i] \in SumRange
        BY <2>1, BuilderFacts, ElementOfSeq DEF BuilderAt
      <4> QED
        BY <4>1 DEF SumRange
    <3>3. CeilDiv(size, call.bs) \in Nat
      BY <1>2, CeilFacts DEF CreateInv, BaseInv, FileOk, CallOk
    <3> QED
      BY <3>1, <3>2, <3>3
  <2> QED
    BY <1>1, <1>2, <1>3, <2>2, <2>3, MapMade
<1>4. GaveUpMidway => MapInv'
  BY <1>1, PlanStays DEF MapInv
<1> QED
  BY <1>1, <1>2, <1>3, <1>4, Finishes

LEMMA StreamEndsKeeps == CreateInv /\ StreamEnds => Rest'
<1> SUFFICES ASSUME CreateInv, StreamEnds PROVE Rest'
  OBVIOUS
<1>1. /\ phase = "stream" /\ Available(BatchLen) = 0
      /\ prog' = [prog EXCEPT !.finished = prog.finished + 1]
      /\ phase' = "done" /\ result' \in {"ok", "Empty"}
      /\ result' = "ok" => Assemble(offset, Close(builder).ranges)
      /\ UNCHANGED <<fileVars, call, pos, cands, offset, builder, seen>>
      /\ UNCHANGED <<file, size, look, changed, call>>
  BY DEF StreamEnds, Return, fileVars
<1>2. /\ Scanning /\ Decided /\ CallOk /\ call.stream /\ offset = pos /\ pos \in Nat
      /\ size \in Nat /\ call.bs \in Nat \ {0}
  BY <1>1 DEF CreateInv, StageInv, BaseInv, Scanning, FileOk, CallOk
<1>3. /\ ~GaveUpMidway /\ pos = kpos /\ file.len = size /\ pos <= size
  BY <1>1, StreamIsRead
<1>4. pos = size
  <2>1. BatchLen \in Nat \ {0}
    BY <1>2, BatchLenFacts
  <2> QED
    BY <1>1, <1>2, <1>3, <2>1 DEF Available, Lesser, Greater
<1>5. NothingMissed /\ BuilderAt(builder, CeilDiv(size, call.bs))
  BY <1>1, <1>2, <1>3, <1>4 DEF CreateInv, ScanInv
<1>6. \A c \in Nat : Planned(c) => c \in seen \/ file.len <= c
  BY <1>1, <1>3, <1>4, <1>5 DEF NothingMissed, Pending
<1>7. \A i \in 1..Len(AllRanges(builder)) : AllRanges(builder)[i].last < CeilDiv(size, call.bs)
  <2> SUFFICES ASSUME NEW i \in 1..Len(AllRanges(builder))
               PROVE  AllRanges(builder)[i].last < CeilDiv(size, call.bs)
    OBVIOUS
  <2>1. CeilDiv(size, call.bs) \in Nat
    BY <1>2, CeilFacts
  <2>2. AllRanges(builder)[i].last + 1 <= CeilDiv(size, call.bs)
    BY <1>5, <2>1, NothingBeyond
  <2>3. AllRanges(builder)[i].last \in Nat
    <3>1. AllRanges(builder)[i] \in SumRange
      BY <1>5, BuilderFacts, ElementOfSeq DEF BuilderAt
    <3> QED
      BY <3>1 DEF SumRange
  <2> QED
    BY <2>1, <2>2, <2>3
<1>8. result' = "ok" => MapInv'
  <2> SUFFICES ASSUME result' = "ok" PROVE MapInv'
    OBVIOUS
  <2>1. Assemble(offset, Close(builder).ranges) /\ offset = size
    BY <1>1, <1>2, <1>4
  <2> QED
    BY <1>1, <1>2, <1>3, <1>6, <1>7, <2>1, MapMade
<1> QED
  BY <1>1, <1>2, <1>8, Finishes

(* The inductive invariant of create.                                      *)
LEMMA CreateInvStep == CreateInv /\ [Next]_vars => CreateInv'
<1> SUFFICES ASSUME CreateInv, [Next]_vars PROVE CreateInv'
  OBVIOUS
<1>1. PositionInv'
  BY NextStep DEF CreateInv
<1>2. CASE Create
  BY <1>1, <1>2, StartKeeps, LookUpKeeps, LookedUpKeeps, SeekKeeps, ReadKeeps, CandidateEndsKeeps,
     ScanEndsKeeps, ReadFailsKeeps, ReadStreamKeeps, StreamEndsKeeps DEF Create, Rest, CreateInv
<1>3. CASE Others
  BY <1>1, <1>3, OthersKeep DEF Rest, CreateInv
<1>4. CASE UNCHANGED vars
  <2>1. UNCHANGED <<file, size, kpos, look, changed>>
        /\ UNCHANGED <<call, phase, result, pos, cands, offset, builder, prog, map, seen>>
    BY <1>4 DEF vars, fileVars, createVars
  <2>2. /\ (GaveUpMidway' <=> GaveUpMidway) /\ (ScanNeeded' <=> ScanNeeded) /\ (CallOk' <=> CallOk)
        /\ (\A c : Planned(c)' <=> Planned(c)) /\ Plan' = Plan
        /\ (\A r : RangeStart(r)' = RangeStart(r) /\ RangeEnd(r)' = RangeEnd(r))
    BY <2>1, PlanStays
  <2>3. (FileOk' <=> FileOk) /\ (Decided' <=> Decided)
        /\ ((LookingOn \/ LookedUpOk)' <=> (LookingOn \/ LookedUpOk))
    BY <2>1, FileStays
  <2>4. BaseInv'
    BY <2>1, <2>3 DEF BaseInv, CreateInv
  <2>5. StageInv'
    BY <2>1, <2>2, <2>3 DEF StageInv, CreateInv, Fresh
  <2>6. CandsInv'
    <3>1. CandsOk => CandsOk'
      BY <2>1, <2>2 DEF CandsOk
    <3> QED
      BY <2>1, <2>2, <3>1 DEF CandsInv, CreateInv
  <2>7. TallyInv'
    <3>1. {c \in Nat : Planned(c)}' = {c \in Nat : Planned(c)}
      BY <2>2
    <3> QED
      BY <2>1, <2>2, <3>1 DEF TallyInv, CreateInv
  <2>8. NothingMissed => NothingMissed'
    BY <2>1, <2>2 DEF NothingMissed, Pending, InCells
  <2>11. (DataKept => DataKept') /\ (BuiltExactly => BuiltExactly')
    BY <2>1 DEF DataKept, BuiltExactly, Marks
  <2>12. BuiltSums => BuiltSums'
    <3>1. AllRanges(builder)' = AllRanges(builder)
      BY <2>1 DEF AllRanges
    <3> QED
      BY <2>1, <3>1, SumsStay
  <2>13. /\ BuilderAt(builder, CeilDiv(size, call.bs) + 1)' <=> BuilderAt(builder, CeilDiv(size, call.bs) + 1)
         /\ BuilderAt(builder, CeilDiv(pos, call.bs))' <=> BuilderAt(builder, CeilDiv(pos, call.bs))
         /\ \A i : BuilderAt(builder, cands[i].first)' <=> BuilderAt(builder, cands[i].first)
    BY <2>1 DEF BuilderAt
  <2>14. Even(pos)' <=> Even(pos)
    BY <2>1 DEF Even
  <2>9. ScanInv'
    BY <2>1, <2>2, <2>8, <2>11, <2>12, <2>13, <2>14 DEF ScanInv, Scanning, CreateInv
  <2>10. MapInv'
    <3>1. \A c : Marks(c)' <=> Marks(c)
      BY <2>1 DEF Marks
    <3>2. \A i : Summed(map.ranges[i], size)' <=> Summed(map.ranges[i], size)
      BY <2>1 DEF Summed, CellsOf, Content
    <3> QED
      BY <2>1, <2>2, <3>1, <3>2 DEF MapInv, CreateInv
  <2> QED
    BY <1>1, <2>4, <2>5, <2>6, <2>7, <2>9, <2>10 DEF CreateInv
<1> QED
  BY <1>2, <1>3, <1>4 DEF Next, Returned

(* Create keeps its books.                                                 *)
THEOREM CreateInvHolds == Spec => []CreateInv
  BY CreateInit, CreateInvStep, PTL DEF Spec

(* For every file, call and interference, and every length the file may    *)
(* grow to: the state of create has the types it should.                   *)
THEOREM CreateTypeCorrect == Spec => []TypeOK
<1>1. ASSUME CreateInv PROVE TypeOK
  <2>1. BaseInv /\ StageInv /\ FileOk /\ MaxLen \in Nat
    BY <1>1, MaxLenAssumption DEF CreateInv, BaseInv
  <2>2. /\ kpos \in Nat /\ kpos <= MaxLen /\ pos \in Nat /\ pos <= kpos /\ offset = pos
        /\ size \in Nat /\ size <= MaxLen /\ seen \in SUBSET (0..(MaxLen - 1))
    BY <2>1 DEF BaseInv, FileOk
  <2>3. look = InitLook \/ LookingOn \/ LookedUpOk
    BY <2>1 DEF StageInv, BaseInv, Decided
  <2>4. /\ look.at \in {"data", "hole", "rewind", "answered"}
        /\ look.answer \in {"none", "ranges", "unknown", "io"}
        /\ (look.at = "answered") <=> (look.answer # "none")
    BY <2>3 DEF InitLook, LookingOn, LookSet, LookedUpOk
  <2>5. /\ look.cursor \in Nat /\ look.cursor <= size /\ look.start \in Nat /\ look.start <= size
    BY <2>2, <2>3 DEF InitLook, LookingOn, FoundOk, LookedUpOk
  <2>6. LookTypeOK
    BY <2>1, <2>2, <2>4, <2>5 DEF LookTypeOK
  <2>7. Len(builder.open) <= 1
    BY <2>1 DEF BaseInv, Builders
  <2>8. prog.finished \in 0..1
    BY <2>1 DEF BaseInv, ProgType
  <2>9. {pos, offset} \subseteq 0..MaxLen
    BY <2>1, <2>2
  <2> QED
    BY <2>1, <2>2, <2>6, <2>7, <2>8, <2>9 DEF TypeOK, BaseInv
<1> QED
  BY <1>1, CreateInvHolds, PTL

(* For every file, call and interference: every cell is read at most once, *)
(* none outside the ranges that were found, and Progress hears of exactly  *)
(* these (create.rs:5, 290).                                               *)
THEOREM EachCellReadOnce == Spec => []ReadOnce
<1>1. ASSUME CreateInv PROVE ReadOnce
  <2> SUFFICES ASSUME ~GaveUpMidway
               PROVE  /\ prog.advanced = Cardinality(seen)
                      /\ look.answer = "ranges"
                         => BlocksOf(seen) \subseteq BlocksOf({c \in 0..(size - 1) : InRange(c)})
                      /\ prog.total # Unknown => /\ prog.advanced <= prog.total
                                                 /\ Ok /\ ~changed => prog.advanced = prog.total
    <3>1. Ok => prog.finished = 1
      BY <1>1 DEF CreateInv, BaseInv, Ok
    <3> QED
      BY <3>1 DEF ReadOnce
  <2>1. BaseInv /\ StageInv /\ FileOk /\ TallyInv /\ MapInv /\ size \in Nat /\ seen \in SUBSET Nat
    BY <1>1 DEF CreateInv, BaseInv, FileOk
  <2>2. /\ prog.advanced = Cardinality(seen)
        /\ \A c \in seen : Planned(c)
    BY <2>1 DEF TallyInv
  <2>3. ASSUME look.answer = "ranges", NEW c \in seen
        PROVE  \E d \in 0..(size - 1) : InRange(d) /\ d \div call.bs = c \div call.bs
    <3>1. phase \notin {"start", "lookup"}
      BY <2>1, <2>3 DEF StageInv, Fresh
    <3>2. call.holes /\ ~call.stream /\ CallOk /\ LookedUpOk
      BY <2>1, <2>3, <3>1 DEF StageInv, Decided, InitLook
    <3>3. PICK b \in Nat : InBlock(c, b, call.bs) /\ InBlocks(Plan, b)
      BY <2>2, <3>2 DEF Planned
    <3>4. PICK d \in Nat : InBytes(look.found, d) /\ InBlock(d, b, call.bs)
      BY <2>1, <2>3, <3>2, <3>3, PlanOfFound
    <3>5. d < size
      BY <2>3, <3>2, <3>4 DEF LookedUpOk
    <3>6. InRange(d)
      BY <3>4 DEF InRange, InBytes, Spanned
    <3> QED
      BY <2>1, <3>3, <3>4, <3>5, <3>6 DEF InBlock
  <2>4. look.answer = "ranges" => BlocksOf(seen) \subseteq BlocksOf({c \in 0..(size - 1) : InRange(c)})
    BY <2>3 DEF BlocksOf
  <2>5. ASSUME prog.total # Unknown
        PROVE  /\ prog.advanced <= prog.total
               /\ Ok /\ ~changed => prog.advanced = prog.total
    <3> DEFINE plan == {c \in Nat : Planned(c)}
    <3>1. IsFiniteSet(plan)
      <4>1. plan \in SUBSET (0..(size - 1))
        BY <2>1 DEF Planned
      <4>2. 0 \in Int /\ size - 1 \in Int
        BY <2>1
      <4>3. IsFiniteSet(0..(size - 1))
        BY <4>2, FS_Interval
      <4> HIDE DEF plan
      <4> QED
        BY <4>1, <4>3, FS_Subset
    <3>2. seen \in SUBSET plan
      BY <2>1, <2>2
    <3>3. ScanNeeded => prog.total = Cardinality(plan)
      BY <2>1, <2>5 DEF TallyInv
    <3>4. ~ScanNeeded => prog.total = 0 /\ seen = {}
      BY <2>1, <2>5 DEF TallyInv
    <3> HIDE DEF plan
    <3>5. Cardinality(seen) <= Cardinality(plan)
      BY <3>1, <3>2, FS_Subset
    <3>6. prog.advanced <= prog.total
      <4>1. CASE ScanNeeded
        BY <2>2, <3>3, <3>5, <4>1
      <4>2. CASE ~ScanNeeded
        <5>1. Cardinality(seen) = 0
          BY <3>4, <4>2, FS_EmptySet
        <5> QED
          BY <2>2, <3>4, <4>2, <5>1
      <4> QED
        BY <4>1, <4>2
    <3> QED
      BY <2>1, <2>5, <3>6 DEF MapInv, Ok
  <2> QED
    BY <2>2, <2>4, <2>5
<1> QED
  BY <1>1, CreateInvHolds, PTL

(* The mapped blocks as a set.                                             *)
LEMMA MappedFacts ==
  ASSUME MapInv, Ok, ~GaveUpMidway
  PROVE  MappedBlocks = {b \in Nat : InBlocks(map.ranges, b)}
<1>1. map.ranges \in Seq(SumRange)
  BY DEF MapInv, Ok
<1>2. \A i \in 1..Len(map.ranges) : map.ranges[i].first \in Nat /\ map.ranges[i].last \in Nat
  <2> SUFFICES ASSUME NEW i \in 1..Len(map.ranges)
               PROVE  map.ranges[i].first \in Nat /\ map.ranges[i].last \in Nat
    OBVIOUS
  <2>1. map.ranges[i] \in SumRange
    BY <1>1, ElementOfSeq
  <2> QED
    BY <2>1 DEF SumRange
<1>3. ASSUME NEW b PROVE b \in MappedBlocks <=> b \in Nat /\ InBlocks(map.ranges, b)
  <2>1. b \in MappedBlocks <=> \E i \in 1..Len(map.ranges) : b \in map.ranges[i].first..map.ranges[i].last
    BY DEF MappedBlocks
  <2> QED
    BY <1>2, <2>1 DEF InBlocks, InRangeOf
<1> QED
  BY <1>3

(* For every file, call and interference: what is still data of the image  *)
(* when create returns is mapped (create.rs:3).                            *)
THEOREM SurvivorsAreMapped == Spec => []SurvivingDataMapped
<1>1. ASSUME CreateInv PROVE SurvivingDataMapped
  <2> SUFFICES ASSUME Ok, ~GaveUpMidway, NEW c \in file.data, c < map.size
               PROVE  c \div call.bs \in MappedBlocks
    BY DEF SurvivingDataMapped
  <2>1. MapInv /\ map.size = size
    BY <1>1 DEF CreateInv, MapInv, Ok
  <2>2. PICK b \in Nat : InBlock(c, b, call.bs) /\ InBlocks(map.ranges, b)
    BY <2>1 DEF MapInv, Ok
  <2> QED
    BY <2>1, <2>2, MappedFacts DEF InBlock
<1> QED
  BY <1>1, CreateInvHolds, PTL

(* For every file and call: the map of an image that nobody touched has    *)
(* exactly the blocks it should have (create.rs:3-10).                     *)
THEOREM MapIsExact == Spec => []MapExact
<1>1. ASSUME CreateInv PROVE MapExact
  <2> SUFFICES ASSUME Ok, ~changed, ~GaveUpMidway
               PROVE  /\ map.size = file.len
                      /\ MappedBlocks = IF call.zeros THEN BlocksOf(file.data)
                                        ELSE IF look.answer = "ranges" THEN BlocksOf(file.extents)
                                        ELSE BlocksOf(0..(file.len - 1))
    BY DEF MapExact
  <2>1. /\ BaseInv /\ StageInv /\ FileOk /\ MapInv /\ CallOk /\ map.size = size /\ size = file.len /\ Decided
        /\ call.bs \in Nat \ {0} /\ size \in Nat
    <3>1. phase = "done"
      BY <1>1 DEF CreateInv, BaseInv, Ok
    <3> QED
      BY <1>1, <3>1 DEF CreateInv, BaseInv, StageInv, MapInv, FileOk, Ok, CallOk
  <2>2. /\ file.data \subseteq file.extents /\ \A c \in file.extents : c \in Nat /\ c < size
    BY <2>1 DEF FileOk, FileSet
  <2>3. \A c, b : InBlock(c, b, call.bs) <=> b = c \div call.bs
    BY DEF InBlock
  <2>4. \A c \in Nat : c \div call.bs \in Nat
    BY <2>1
  <2> DEFINE M(b) == \E c \in Nat : Planned(c) /\ b = c \div call.bs /\ Marks(c)
  <2>5. \A b : b \in MappedBlocks <=> b \in Nat /\ M(b)
    <3>1. MappedBlocks = {b \in Nat : InBlocks(map.ranges, b)}
      BY <2>1, MappedFacts
    <3>2. \A b \in Nat : InBlocks(map.ranges, b) <=> M(b)
      BY <2>1, <2>3 DEF MapInv, Ok
    <3> QED
      BY <3>1, <3>2
  <2>6. \A c \in file.extents : Planned(c)
    <3> SUFFICES ASSUME NEW c \in file.extents PROVE Planned(c)
      OBVIOUS
    <3>1. size # 0 /\ c < size
      BY <2>1, <2>2
    <3> QED
      BY <2>1, <3>1, PlanHolds
  <2>7. CASE call.zeros
    <3>1. \A c : Marks(c) <=> c \in file.data
      BY <2>7 DEF Marks
    <3>2. \A b : b \in MappedBlocks <=> \E c \in file.data : b = c \div call.bs
      BY <2>2, <2>4, <2>5, <2>6, <3>1
    <3>3. \A b : b \in BlocksOf(file.data) <=> \E c \in file.data : b = c \div call.bs
      BY DEF BlocksOf
    <3>4. MappedBlocks = BlocksOf(file.data)
      BY <3>2, <3>3
    <3> QED
      BY <2>1, <2>7, <3>4
  <2>8. CASE ~call.zeros /\ look.answer = "ranges"
    <3>1. call.holes /\ ~call.stream /\ LookedUpOk
      BY <2>1, <2>8 DEF Decided, InitLook
    <3>2. \A d \in Nat : InBytes(look.found, d) <=> d \in file.extents
      BY <2>2, <2>8, <3>1 DEF LookedUpOk, FoundUpto
    <3>3. \A b \in Nat : InBlocks(Plan, b) <=> \E c \in Nat : InBytes(look.found, c) /\ InBlock(c, b, call.bs)
      BY <2>1, <2>8, <3>1, PlanOfFound
    <3>4. \A b \in Nat : M(b) => \E d \in file.extents : b = d \div call.bs
      BY <2>3, <3>1, <3>2, <3>3 DEF Planned
    <3>5. \A c : Marks(c)
      BY <2>8 DEF Marks
    <3>6. \A b : b \in MappedBlocks <=> \E d \in file.extents : b = d \div call.bs
      BY <2>2, <2>4, <2>5, <2>6, <3>4, <3>5
    <3>7. \A b : b \in BlocksOf(file.extents) <=> \E c \in file.extents : b = c \div call.bs
      BY DEF BlocksOf
    <3>8. MappedBlocks = BlocksOf(file.extents)
      BY <3>6, <3>7
    <3> QED
      BY <2>1, <2>8, <3>8
  <2>9. CASE ~call.zeros /\ look.answer # "ranges"
    <3>1. \A c \in Nat : c < size => Planned(c)
      <4> SUFFICES ASSUME NEW c \in Nat, c < size PROVE Planned(c)
        OBVIOUS
      <4>1. size # 0
        BY <2>1
      <4>2. PICK b \in Nat : InBlock(c, b, call.bs)
        BY <2>3, <2>4
      <4>3. InBlocks(Plan, b)
        BY <2>1, <2>9, <4>1, <4>2, PlanOfAll
      <4> QED
        BY <4>2, <4>3 DEF Planned
    <3>2. \A c : Planned(c) => c < size
      BY DEF Planned
    <3>3. \A c : Marks(c)
      BY <2>9 DEF Marks
    <3>4. \A c : c \in 0..(file.len - 1) <=> c \in Nat /\ c < size
      BY <2>1
    <3> DEFINE all == 0..(file.len - 1)
    <3>5. \A c : c \in all <=> c \in Nat /\ c < size
      BY <3>4
    <3> HIDE DEF all
    <3>6. \A b : b \in MappedBlocks <=> \E c \in all : b = c \div call.bs
      BY <2>4, <2>5, <3>1, <3>2, <3>3, <3>5
    <3>7. \A b : b \in BlocksOf(all) <=> \E c \in all : b = c \div call.bs
      BY DEF BlocksOf
    <3>8. MappedBlocks = BlocksOf(all)
      BY <3>6, <3>7
    <3> QED
      BY <2>1, <2>9, <3>8 DEF all
  <2> QED
    BY <2>7, <2>8, <2>9
<1> QED
  BY <1>1, CreateInvHolds, PTL

(* For every file and call, and however it was cut into batches and spans: *)
(* the checksum of a range is the hash of its cells, each once and in      *)
(* order (create.rs:289-346).                                              *)
THEOREM SumsAreOfImage == Spec => []SumsMatchImage
<1>1. ASSUME CreateInv PROVE SumsMatchImage
  <2> SUFFICES ASSUME Ok, ~changed, ~GaveUpMidway, ScanNeeded, NEW i \in 1..Len(map.ranges)
               PROVE  map.ranges[i].sum
                      = IF call.sums
                        THEN [k \in 1..Cardinality(RangeCells(map.ranges[i])) |->
                                Content(map.ranges[i].first * call.bs + k - 1)]
                        ELSE <<>>
    BY DEF SumsMatchImage
  <2> DEFINE r == map.ranges[i]
             a == r.first * call.bs
             e == Lesser((r.last + 1) * call.bs, size)
  <2>1. /\ Summed(r, size) /\ map.size = size /\ size \in Nat /\ call.bs \in Nat /\ r \in SumRange
    <3>1. MapInv /\ FileOk
      BY <1>1 DEF CreateInv, BaseInv
    <3>2. Summed(r, size) /\ map.size = size /\ CallOk /\ map.ranges \in Seq(SumRange)
      BY <3>1 DEF MapInv, Ok
    <3>3. r \in SumRange
      BY <3>2, ElementOfSeq
    <3> QED
      BY <3>1, <3>2, <3>3 DEF FileOk, CallOk
  <2>2. a \in Nat /\ e \in Nat
    <3>1. r.first \in Nat /\ r.last + 1 \in Nat /\ call.bs \in Nat
      BY <2>1 DEF SumRange
    <3> HIDE DEF r
    <3>2. r.first * call.bs \in Nat /\ (r.last + 1) * call.bs \in Nat
      BY <3>1
    <3> QED
      BY <2>1, <3>2 DEF Lesser
  <2>3. RangeCells(r) = a..(e - 1)
    BY <2>1 DEF RangeCells
  <2>4. r.sum = IF call.sums THEN [k \in 1..(e - a) |-> Content(a + k - 1)] ELSE <<>>
    BY <2>1 DEF Summed, CellsOf
  <2> DEFINE m == Cardinality(RangeCells(r))
  <2>5. m = IF a > e - 1 THEN 0 ELSE e - 1 - a + 1
    <3> HIDE DEF r, a, e
    <3>1. a \in Int /\ e - 1 \in Int
      BY <2>2
    <3> QED
      BY <2>3, <3>1, FS_Interval
  <2>6. 1..m = 1..(e - a)
    <3> HIDE DEF r, a, e, m
    <3> QED
      BY <2>2, <2>5
  <2>7. [k \in 1..(e - a) |-> Content(a + k - 1)] = [k \in 1..m |-> Content(a + k - 1)]
    <3> HIDE DEF a, e, m
    <3> QED
      BY <2>6
  <2> QED
    BY <2>4, <2>7
<1> QED
  BY <1>1, CreateInvHolds, PTL

-----------------------------------------------------------------------------
(* The map, written down.                                                  *)

(* For every file, call and interference: the map that create makes is     *)
(* accepted by parse and read back as it was, and its ranges ascend with a *)
(* gap between any two (bmap.rs:45).                                       *)
THEOREM CreatedMapAccepted == Spec => []MapAccepted
<1>1. ASSUME CreateInv PROVE MapAccepted
  <2> SUFFICES ASSUME Ok, ~GaveUpMidway
               PROVE  /\ ParseAnswer(Render(AsBmap)) = "ok"
                      /\ Parsed(Render(AsBmap)) = AsBmap
                      /\ map.mapped = Cardinality(MappedBlocks)
                      /\ \A i \in 1..(Len(map.ranges) - 1) : map.ranges[i].last + 1 < map.ranges[i + 1].first
    BY DEF MapAccepted
  <2>1. MapInv /\ FileOk
    BY <1>1 DEF CreateInv, BaseInv
  <2>2. /\ CallOk /\ map.size = size /\ map.blocks = CeilDiv(size, call.bs)
        /\ map.ranges \in Seq(SumRange) /\ Apart(map.ranges)
        /\ \A i \in 1..Len(map.ranges) : map.ranges[i].last < map.blocks
        /\ map.mapped = Covered(map.ranges)
    BY <2>1 DEF MapInv, Ok
  <2>3. MappedBlocks = {b \in Nat : InBlocks(map.ranges, b)}
    BY <2>1, MappedFacts
  <2>4. IsFiniteSet(MappedBlocks) /\ map.mapped = Cardinality(MappedBlocks)
    BY <2>2, <2>3, CoveredCounts
  <2>5. map.mapped \in Nat
    BY <2>4, FS_CardinalityType
  <2>6. GoodMap(AsBmap)
    BY <2>1, <2>2, <2>5 DEF GoodMap, AsBmap, FileOk, CallOk, Apart, ChecksumKinds, DefaultKind
  <2>7. \A i \in 1..(Len(map.ranges) - 1) : map.ranges[i].last + 1 < map.ranges[i + 1].first
    <3>1. Len(map.ranges) \in Nat
      BY <2>2
    <3>2. \A i \in 1..(Len(map.ranges) - 1) : i \in 1..Len(map.ranges) /\ i + 1 \in 1..Len(map.ranges) /\ i < i + 1
      BY <3>1
    <3> QED
      BY <2>2, <3>2 DEF Apart
  <2> QED
    BY <2>4, <2>6, <2>7, RenderedIsParsed
<1> QED
  BY <1>1, CreateInvHolds, PTL

-----------------------------------------------------------------------------
(* The bmap file.                                                          *)

LEMMA AbsentIsRefused == ParseAnswer(Absent) # "ok"
  BY DEF ParseAnswer, Absent

-----------------------------------------------------------------------------

CutMap == [Render(AsBmap) EXCEPT !.cut = 1]

(* What is at the output path at each step of the command.                 *)
OutputInv ==
  /\ cmd \in {"create", "write", "ok", "failed", "killed"}
  /\ cmd = "create" => output = before
  /\ cmd = "write" => output \in {Absent, CutMap}
  /\ cmd = "ok" => output = Render(AsBmap)
  /\ cmd \in {"failed", "killed"} => output \in {before, Absent, CutMap}

LEMMA OutputInvRefuses == OutputInv => TornMapRefused
  BY CutIsRefused, AbsentIsRefused DEF OutputInv, TornMapRefused, CutMap

(* Once create is over, the map it made stays as it is.                    *)
LEMMA MapStays == UNCHANGED vars => AsBmap' = AsBmap
  BY DEF vars, createVars, AsBmap

LEMMA StepOutput ==
  ASSUME OutputInv, [CommandNext]_commandVars
  PROVE  OutputInv'
<1> USE DEF OutputInv
<1>1. CASE CreateFrom \/ Meddled
  BY <1>1 DEF CreateFrom, Meddled
<1>2. CASE NowhereToWrite \/ Failed
  BY <1>2 DEF NowhereToWrite, Failed
<1>3. CASE OpenOutput
  BY <1>3 DEF OpenOutput
<1>4. CASE WriteOutput
  BY <1>4, MapStays DEF WriteOutput, CutMap
<1>5. CASE OutputWritten
  BY <1>5, MapStays DEF OutputWritten
<1>6. CASE OutputFails \/ Kill
  BY <1>6, MapStays DEF OutputFails, Kill, CutMap
<1>7. CASE Exited \/ UNCHANGED commandVars
  BY <1>7, MapStays DEF Exited, commandVars, CutMap
<1> QED
  BY <1>1, <1>2, <1>3, <1>4, <1>5, <1>6, <1>7 DEF CommandNext, Writing

(* Whoever reads the bmap file at any moment of the command, or after it   *)
(* was killed, finds the old map, the new one, or one that parse refuses.  *)
(* (bmap.rs:287)                                                           *)
THEOREM HalfAMapIsNoMap == CommandSpec => []TornMapRefused
<1>1. InitCommand => OutputInv
  BY DEF InitCommand, OutputInv
<1>2. OutputInv /\ [CommandNext]_commandVars => OutputInv'
  BY StepOutput
<1>3. OutputInv => TornMapRefused
  BY OutputInvRefuses
<1> QED
  BY <1>1, <1>2, <1>3, PTL DEF CommandSpec

(* A run of the command, which may end before create does, or be killed    *)
(* over it, is a run of create as far as create goes: what was proved of   *)
(* create_from holds of create_from in cmd_create.  (run.rs)               *)
THEOREM CommandRunsCreate == CommandSpec => Spec
<1>1. InitCommand => Init
  BY DEF InitCommand
<1>2. ASSUME [CommandNext]_commandVars PROVE [Next]_vars
  <2>1. CASE CreateFrom
    BY <2>1 DEF CreateFrom, Next
  <2>2. CASE Meddled
    BY <2>2 DEF Meddled, Next
  <2>3. CASE Writing
    BY <2>3 DEF Writing, NowhereToWrite, Failed, OpenOutput, WriteOutput, OutputWritten, OutputFails
  <2>4. CASE Kill
    BY <2>4 DEF Kill
  <2>5. CASE Exited
    BY <2>5 DEF Exited, commandVars
  <2>6. CASE UNCHANGED commandVars
    BY <2>6 DEF commandVars
  <2> QED
    BY <1>2, <2>1, <2>2, <2>3, <2>4, <2>5, <2>6 DEF CommandNext
<1> QED
  BY <1>1, <1>2, PTL DEF CommandSpec, Spec

=============================================================================
