----------------------------- MODULE MCCommand -----------------------------
(***************************************************************************)
(* Two commands on a machine with one disk and two partitions of it, one   *)
(* knob of which is tuned already; a path may name any, or no device.      *)
(***************************************************************************)
EXTENDS Command, TLC

CONSTANTS path1, path2, drive, part1, part2, plain

NodesOnDisk == {drive, part1, part2}

DiskOf == [n \in NodesOnDisk |-> drive]

(* The second knob has the value already that apply gives it.              *)
Before == drive :> <<plain, Tuned>>

(* The first path names a partition, the second the disk or the other      *)
(* partition; the first may come to name the disk, or no device.           *)
Named(one, other) == [x \in Paths |-> IF x = path1 THEN one ELSE other]

TwoLayouts == {Named(part1, drive), Named(part1, part2), Named(NoNode, part1)}

ToDisk == {[path |-> path1, node |-> drive]}

Asked(path, force, verify) == [path |-> path, force |-> force, verify |-> verify]

AnyCommand == {Asked(path1, FALSE, TRUE), Asked(path2, FALSE, FALSE), Asked(path1, TRUE, FALSE)}

-----------------------------------------------------------------------------
(* Two commands for two partitions, neither of them forced.                *)

Partitions == {Named(part1, part2)}

OnePartitionEach == {Asked(path1, FALSE, FALSE), Asked(path2, FALSE, FALSE)}

=============================================================================
