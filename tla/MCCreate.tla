------------------------------ MODULE MCCreate ------------------------------
(***************************************************************************)
(* Calls of create for TLC: images of up to five cells in blocks of two,   *)
(* so that the last block is partial.                                      *)
(***************************************************************************)
EXTENDS CreateCommand

Image(n, extents, data) == [len |-> n, extents |-> extents, data |-> data, host |-> {"refuse"}]

(* Every pattern of holes and zeroes in five cells, and shorter images.    *)
AllImages ==
  {Image(5, e, d) : e \in SUBSET (0..4), d \in SUBSET (0..4)}
  \cup {Image(n, {}, {}) : n \in 0..2} \cup {Image(1, {0}, {0}), Image(4, {0, 3}, {0, 3})}

QuietImages == {f \in AllImages : f.data \subseteq f.extents}

(* Patterns with two separate extents, one that ends the image, one with   *)
(* zero blocks at its ends, and one inside a block each.                   *)
BusyImages ==
  {[f EXCEPT !.host = {"refuse", "contradict", "io", "shrink", "append", "punch", "read"}] :
     f \in {Image(5, {0, 4}, {0, 4}), Image(5, {2, 3, 4}, {4}), Image(4, 0..3, {1}),
            Image(4, {1, 2}, {1, 2})}}

BothImages == QuietImages \cup BusyImages

(* The same files when only holes are punched.                             *)
PunchedImages == {[f EXCEPT !.host = {"punch"}] : f \in BusyImages}

(* The output path holds a map of an earlier image.                        *)
OldMap == Render([size |-> 9, bs |-> 2, blocks |-> 5, mapped |-> 0, kind |-> "none",
                  ranges |-> <<>>])

AnyEarlier == {OldMap}

Call(stream, holes, zeros, sums, batch) ==
  [stream |-> stream, holes |-> holes, zeros |-> zeros, sums |-> sums, bs |-> 2,
   batch |-> batch]

(* A stream is never asked about its holes.                                *)
AllCalls ==
  {Call(FALSE, h, z, s, b) : h, z, s \in BOOLEAN, b \in {1, 3, 4}}
  \cup {Call(TRUE, TRUE, z, s, b) : z, s \in BOOLEAN, b \in {1, 3, 4}}
  \cup {[Call(FALSE, TRUE, TRUE, TRUE, 4) EXCEPT !.bs = n] : n \in {0, 3, 4}}
  \cup {[Call(FALSE, TRUE, TRUE, TRUE, 2) EXCEPT !.bs = 1]}

FileCalls ==
  {Call(FALSE, h, TRUE, s, 4) : h, s \in BOOLEAN}
  \cup {Call(FALSE, h, FALSE, TRUE, 2) : h \in BOOLEAN}

(* An image that others are busy with is only given to the calls above.    *)
MCInit == InitCommand /\ (file \in BusyImages => call \in FileCalls)

MCSpec == MCInit /\ [][CommandNext]_commandVars /\ CommandFairness

=============================================================================
