------------------------------ MODULE ReadBack ------------------------------
(***************************************************************************)
(* copy.rs and run.rs: `copy --verify`.  Once copy has succeeded the image *)
(* is opened a second time, and compared with what the destination now     *)
(* gives back.  In between the image may have changed, and the medium may  *)
(* not have kept what was written.                                         *)
(***************************************************************************)
EXTENDS CopyProperties

CONSTANTS Decay,  \* what changes before the comparison: "image", "medium"
          Page    \* the least batch of verify, 4096 bytes, in cells

(* readBack  --verify was given                                            *)
(* stdin     the image is "-": the second opening goes on where the copy   *)
(*           stopped reading (a raw stream; a decoder reads ahead)         *)
ASSUME ReadBackAssumption ==
  /\ \A j \in Jobs : j.readBack \in BOOLEAN /\ j.stdin \in BOOLEAN /\ (j.stdin => j.stream)
  /\ Page \in Nat \ {0}

Garbage == -2

(* at: "copy" until copy has returned, "compare", "over"; image, the image *)
(* when it is opened again, and start, the cell that is read first; stale, *)
(* cells the medium has not kept; off, how much was compared; verdict and  *)
(* mark, first_mismatch.                                                   *)
VARIABLE back

backVars == <<vars, back>>

Image == [len |-> job.srcLen, data |-> job.data]

InitBack ==
  back = [at |-> "copy", image |-> Image, start |-> 0, stale |-> {}, off |-> 0,
          verdict |-> "none", mark |-> Unknown, total |-> Unknown, finished |-> 0]

-----------------------------------------------------------------------------

(* An image in a file may have been cut, extended or overwritten.          *)
LaterImages ==
  {Image} \cup
  IF job.stdin \/ "image" \notin Decay \/ job.srcLen = 0 THEN {}
  ELSE {[len |-> job.srcLen - 1, data |-> job.data \ {job.srcLen - 1}],
        [len |-> job.srcLen, data |-> job.data \ {0}]}
       \cup {[len |-> n, data |-> job.data \cup {n - 1}] :
               n \in {job.srcLen + 1} \cap (0..(MaxOffset - job.offset))}

Decayed ==
  {{}} \cup IF "medium" \in Decay /\ ~IsSink(dest)
            THEN {{job.offset + i} : i \in 0..(job.srcLen - 1)} ELSE {}

(* open_source once more.                                                  *)
Reopen ==
  /\ phase = "done" /\ Ok /\ job.readBack
  /\ back.at = "copy"
  /\ \E image \in LaterImages, stale \in Decayed :
       back' = [back EXCEPT !.at = "compare", !.image = image, !.stale = stale,
                            !.start = IF job.stdin THEN rd.pos ELSE 0,
                            !.total = IF job.stream THEN Unknown ELSE image.len]

ReopenFails ==
  /\ "read" \in Faults
  /\ phase = "done" /\ Ok /\ job.readBack
  /\ back.at = "copy"
  /\ back' = [back EXCEPT !.at = "over", !.verdict = "Io"]

-----------------------------------------------------------------------------
(* verify, a batch at a time.                                              *)

(* What the image is to hold in cell i, counted from where it was opened.  *)
ToFind(i) == IF back.start + i \in back.image.data THEN back.start + i + 1 ELSE Zero

Got(c) == IF c \in back.stale THEN Garbage ELSE dest.cells[c]

DestEnd == IF IsSink(dest) THEN 0 ELSE IF dest.kind = "device" THEN dest.cap ELSE dest.len

BackBatch == Greater(job.batch, Page)

(* read_full and read_at: what the image and the destination have left.    *)
Left(end, from) == Lesser(BackBatch, Greater(0, end - from))

Wanted == Left(back.image.len, back.start + back.off)
Given == Lesser(Wanted, Left(DestEnd, job.offset + back.off))

(* Broken: what the image has as zero is not compared.                     *)
Differing_DataOnly ==
  {i \in 0..(Wanted - 1) : /\ ToFind(back.off + i) # Zero
                           /\ Got(job.offset + back.off + i) # ToFind(back.off + i)}

(* Broken: the destination is read from its beginning.                     *)
Differing_NoOffset ==
  {i \in 0..(Wanted - 1) : Got(back.off + i) # ToFind(back.off + i)}

Differing ==
  {i \in 0..(Wanted - 1) : Got(job.offset + back.off + i) # ToFind(back.off + i)}

Verdict(verdict, mark) ==
  back' = [back EXCEPT !.at = "over", !.verdict = verdict, !.mark = mark, !.finished = @ + 1]

BatchSame ==
  /\ back.at = "compare"
  /\ Wanted > 0 /\ Given = Wanted /\ Differing = {}
  /\ back' = [back EXCEPT !.off = @ + Wanted]

BatchDiffers ==
  /\ back.at = "compare"
  /\ Wanted > 0 /\ Given = Wanted
  /\ \E i \in Differing : /\ \A k \in Differing : i <= k
                          /\ Verdict("differs", back.off + i)

(* The destination ends first.  What it gave of the batch is not compared. *)
BatchShort ==
  /\ back.at = "compare"
  /\ Given < Wanted
  /\ Verdict("differs", back.off + Given)

CompareEnds ==
  /\ back.at = "compare"
  /\ Wanted = 0
  /\ Verdict("same", Unknown)

(* A read of either fails; Progress does not hear of the end.              *)
CompareFails ==
  /\ "read" \in Faults
  /\ back.at = "compare"
  /\ back' = [back EXCEPT !.at = "over", !.verdict = "Io"]

Verify ==
  /\ \/ Reopen \/ ReopenFails
     \/ BatchSame \/ BatchDiffers \/ BatchShort \/ CompareEnds \/ CompareFails
  /\ UNCHANGED vars

-----------------------------------------------------------------------------

BackInit == Init /\ InitBack

BackNext == (Next /\ UNCHANGED back) \/ Verify

BackSpec == BackInit /\ [][BackNext]_backVars

FairBackSpec == BackSpec /\ Fairness /\ WF_backVars(Verify)

-----------------------------------------------------------------------------

Compared(i) == job.offset + i < DestEnd /\ Got(job.offset + i) = ToFind(i)

(* A verdict is worth something: "same" only if the destination gives back *)
(* every cell of the image as it is now, holes and zero runs included, and *)
(* Progress was told of all of them; a mismatch only where there is one.   *)
(* (copy.rs:602)                                                           *)
ReadBackSound ==
  /\ back.verdict = "same" =>
       /\ \A i \in 0..(back.image.len - back.start - 1) : Compared(i)
       /\ back.finished = 1
       /\ back.total # Unknown => back.off = back.total
  /\ back.verdict = "differs" => ~Compared(back.mark)

(* What copy reports as done also reads back: a mismatch after a copy that *)
(* succeeded has a cause, the image or the medium that has changed since,  *)
(* a bmap of some other image, standard input or a sink, or old contents   *)
(* that show through where ZeroMode::Skip wrote nothing, or where there is *)
(* no device any more. (copy.rs:607)                                       *)
ReadBackConfirms ==
  back.verdict = "differs" =>
    \/ back.image # Image \/ back.stale # {}
    \/ job.stdin \/ IsSink(dest)
    \/ job.srcLen # FinalSize \/ \E i \in job.data : ~Mapped(i)
    \/ /\ ~job.zeroMode
       /\ \E i \in 0..(job.srcLen - 1) :
            dest.cells[job.offset + i] = Old /\ (~job.wipe \/ PastDevice(i))

(* Every call of copy returns, and the comparison after it: no             *)
(* interleaving of errors and teardown leaves a thread waiting.            *)
CopyReturns == <>(phase = "done" /\ (Ok /\ job.readBack => back.at = "over"))

(* "`--verify` reads the destination back and compares it against the      *)
(* image" (README.md:391): what is reported as identical was all compared. *)
VerifiedIsCompared == back.verdict = "same" => back.off = job.srcLen

=============================================================================
