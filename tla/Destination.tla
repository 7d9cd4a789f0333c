---------------------------- MODULE Destination ----------------------------
(***************************************************************************)
(* dest.rs: what each operation of a Destination does to what it is open   *)
(* on.  Storage is a function from cells to contents; a cell is the unit   *)
(* in which the model counts, and what a content is does not matter here   *)
(* beyond Zero.  A destination is a record:                                *)
(*                                                                         *)
(*   kind    "file", "device" (anything that reports a capacity) or "sink" *)
(*           (neither, for instance /dev/null)                             *)
(*   cap     the capacity of a device                                      *)
(*   len     the length of a file; cells of a file past it hold Zero       *)
(*   cells   the contents                                                  *)
(*   fast    fast_zero_available                                           *)
(*   dirty   cells written by pwrite since the last sync                   *)
(***************************************************************************)
EXTENDS Blocks

-----------------------------------------------------------------------------

IsSink(d) == d.kind = "sink"
SupportsSync(d) == ~IsSink(d)

(* ensure_fits: only a capacity can be too small.                          *)
Fits(d, size, offset) == d.kind = "device" => size + offset <= d.cap

(* How many of the n cells at `at` the destination can take: a write that  *)
(* reaches past the end of a device fails with ENOSPC after that many.     *)
Room(d, at, n) ==
  IF d.kind = "device" THEN Greater(0, Lesser(n, d.cap - at)) ELSE n

(* write_all_at: bytes is a function on 0..n-1.  Writing past the end of a *)
(* file extends it; a sink swallows everything.                            *)
WriteAllAt(d, at, n, bytes) ==
  IF IsSink(d) \/ n = 0 THEN d
  ELSE [d EXCEPT
         !.cells = [c \in DOMAIN d.cells |->
                      IF c \in at..(at + n - 1) THEN bytes[c - at] ELSE d.cells[c]],
         !.len   = IF d.kind = "file" THEN Greater(d.len, at + n) ELSE d.len,
         !.dirty = d.dirty + n]

(* fallocate: the cells read back as zero, the length of a file stays.     *)
PunchHole(d, at, n) ==
  IF IsSink(d) THEN d
  ELSE [d EXCEPT !.cells = [c \in DOMAIN d.cells |->
                              IF c \in at..(at + n - 1) THEN Zero ELSE d.cells[c]]]

(* The slow path of zero_range: it is taken for good once fallocate has    *)
(* failed.                                                                 *)
FillZero(d, at, n) ==
  [WriteAllAt(d, at, n, [i \in 0..(n - 1) |-> Zero]) EXCEPT !.fast = FALSE]

(* zero_range when it succeeds: the destinations it can leave behind.  The *)
(* kernel may refuse fallocate whenever it likes, and does on a sink and   *)
(* past the end of a device.                                               *)
ZeroRange(d, at, n) ==
  IF n = 0 THEN {d}
  ELSE {x \in {PunchHole(d, at, n)} : d.fast /\ ~IsSink(d) /\ Room(d, at, n) = n}
       \cup {x \in {FillZero(d, at, n)} : Room(d, at, n) = n}

-----------------------------------------------------------------------------

(* set_len: only a file has a length to set; cells cut off are gone.       *)
SetLen(d, size) ==
  IF d.kind # "file" THEN d
  ELSE [d EXCEPT !.len = size,
                 !.cells = [c \in DOMAIN d.cells |->
                              IF c < size THEN d.cells[c] ELSE Zero]]

(* grow_to never shrinks a file.                                           *)
GrowTo(d, size) ==
  IF d.kind = "file" /\ d.len < size THEN SetLen(d, size) ELSE d

(* Broken: never shortens, so a longer file keeps its old tail.            *)
SizeDestination_GrowsOnly(d, offset, size) == GrowTo(d, offset + size)

(* size_destination of copy.rs: at offset zero the file is the image.      *)
SizeDestination(d, offset, size) ==
  IF offset = 0 THEN SetLen(d, size) ELSE GrowTo(d, offset + size)

(* wipe of something it accepts: a file is truncated, a device zeroed.     *)
Wipe(d) == IF d.kind = "file" THEN {SetLen(d, 0)} ELSE ZeroRange(d, 0, d.cap)

(* Broken: clears the head twice when the device is long enough.           *)
Zap_HeadOnly(d, span) ==
  IF d.kind # "device" THEN {d}
  ELSE IF d.cap <= span * 2 THEN ZeroRange(d, 0, d.cap)
  ELSE UNION {ZeroRange(x, 0, span) : x \in ZeroRange(d, 0, span)}

(* zap: both ends of a device, or all of it when it has no middle.         *)
Zap(d, span) ==
  IF d.kind # "device" THEN {d}
  ELSE IF d.cap <= span * 2 THEN ZeroRange(d, 0, d.cap)
  ELSE UNION {ZeroRange(x, d.cap - span, span) : x \in ZeroRange(d, 0, span)}

(* What a wipe or a zap that fails leaves behind: a device zeroed up to    *)
(* the write that failed.                                                  *)
WipePartly(d) ==
  IF d.kind = "device" THEN {FillZero(d, 0, n) : n \in 0..(d.cap - 1)} ELSE {d}

ZapPartly(d, span) ==
  IF d.cap <= span * 2 THEN WipePartly(d)
  ELSE {FillZero(d, 0, n) : n \in 0..(span - 1)}
       \cup {FillZero(x, d.cap - span, n) : x \in ZeroRange(d, 0, span), n \in 0..(span - 1)}

Sync(d) == [d EXCEPT !.dirty = 0]

=============================================================================
