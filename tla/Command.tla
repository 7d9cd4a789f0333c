------------------------------ MODULE Command ------------------------------
(***************************************************************************)
(* run.rs, sysfs.rs and Destination::open: any number of `thindd copy`     *)
(* commands on one machine, from their start to their exit.  What copy and *)
(* verify do in between is in CopyEngine and ReadBack; here it is the      *)
(* block devices the commands share: the exclusive claims the kernel       *)
(* grants, and the knobs of a disk, which outlive the command that sets    *)
(* them.                                                                   *)
(***************************************************************************)
EXTENDS Naturals

CONSTANTS
  Procs,     \* the commands
  Commands,  \* what may be asked of one: records [path, force, verify]
  Paths,
  Nodes,     \* block devices, whole disks and partitions
  Disk,      \* the disk of a node: a whole disk's is itself
  NoNode,    \* what a path names that names no block device; no open device
  Value,     \* what a knob may be set to
  Tuned,     \* what apply sets it to
  None,      \* no value
  Original,  \* the knobs of the disks before any command ran
  Layouts,   \* what the paths may name at first
  Renames    \* and be given to later: records [path, node]

Knob == 1..2  \* queue/scheduler and bdi/max_ratio, in the order of apply_under

Disks == {Disk[n] : n \in Nodes}

ASSUME CommandAssumption ==
  /\ Commands \subseteq [path : Paths, force : BOOLEAN, verify : BOOLEAN]
  /\ Disk \in [Nodes -> Nodes] /\ \A n \in Nodes : Disk[Disk[n]] = Disk[n]
  /\ NoNode \notin Nodes
  /\ Tuned \in Value /\ None \notin Value
  /\ Original \in [Disks -> [Knob -> Value]]
  /\ Layouts \subseteq [Paths -> Nodes \cup {NoNode}]
  /\ Renames \subseteq [path : Paths, node : Nodes \cup {NoNode}]

VARIABLES
  asked,    \* the command of each process, never changed
  names,    \* what the paths name now
  mounted,  \* the nodes that the kernel itself has claimed
  knobs,    \* the knobs of every disk
  pc,       \* where cmd_copy is
  block,    \* is_block: what stat said of the path
  fd,       \* the block device that is open, or NoNode
  knob,     \* the knob in hand
  prev,     \* what it was read as, None if it could not be
  saved,    \* BdevTuning::restore: the value to put back, None for no entry
  misled,   \* history: the path was given to something else after the stat
  shared,   \* history: disks that two commands had open at a time
  lost      \* history: disks whose old values were lost

procVars == <<pc, block, fd, knob, prev, saved>>
vars == <<asked, names, mounted, knobs, procVars, misled, shared, lost>>

TypeOK ==
  /\ asked \in [Procs -> Commands]
  /\ names \in [Paths -> Nodes \cup {NoNode}]
  /\ mounted \subseteq Nodes
  /\ knobs \in [Disks -> [Knob -> Value]]
  /\ pc \in [Procs -> {"prepare", "stat", "open", "find", "read", "write", "copy", "verify",
                       "restore", "close", "ended", "killed"}]
  /\ block \in [Procs -> BOOLEAN]
  /\ fd \in [Procs -> Nodes \cup {NoNode}]
  /\ knob \in [Procs -> Knob]
  /\ prev \in [Procs -> Value \cup {None}]
  /\ saved \in [Procs -> [Knob -> Value \cup {None}]]
  /\ misled \in [Procs -> BOOLEAN]
  /\ shared \subseteq Disks /\ lost \subseteq Disks

NothingSaved == [k \in Knob |-> None]

Init ==
  /\ asked \in [Procs -> Commands]
  /\ names \in Layouts
  /\ mounted = {}
  /\ knobs = Original
  /\ pc = [p \in Procs |-> "prepare"]
  /\ block = [p \in Procs |-> FALSE]
  /\ fd = [p \in Procs |-> NoNode]
  /\ knob = [p \in Procs |-> 1]
  /\ prev = [p \in Procs |-> None]
  /\ saved = [p \in Procs |-> NothingSaved]
  /\ misled = [p \in Procs |-> FALSE]
  /\ shared = {}
  /\ lost = {}

Path(p) == asked[p].path
Forced(p) == asked[p].force

HasOpen(p, d) == fd[p] # NoNode /\ Disk[fd[p]] = d

Owes(p) == \E k \in Knob : saved[p][k] # None

Go(p, from, to) == pc[p] = from /\ pc' = [pc EXCEPT ![p] = to]

-----------------------------------------------------------------------------
(* The claims of the kernel.  A whole disk is claimed with its partitions; *)
(* two partitions of a disk can be claimed apart.                          *)

Overlap(a, b) == a = b \/ Disk[a] = b \/ Disk[b] = a

(* Broken: the flag is set in the branch that creates files.               *)
Exclusive_Files(p) == ~block[p] /\ ~Forced(p)

(* O_EXCL, decided by what stat has seen of the path.                      *)
Exclusive(p) == block[p] /\ ~Forced(p)

Claims(p, n) == fd[p] = n /\ Exclusive(p)

Claimed(n) ==
  \/ \E m \in mounted : Overlap(m, n)
  \/ \E p \in Procs, m \in Nodes : Claims(p, m) /\ Overlap(m, n)

-----------------------------------------------------------------------------
(* cmd_copy.                                                               *)

(* open_source and resolve_bmap, either of which may end the command.      *)
Prepare(p) ==
  /\ Go(p, "prepare", "stat") \/ Go(p, "prepare", "ended")
  /\ UNCHANGED <<asked, names, mounted, knobs, block, fd, knob, prev, saved, misled, shared, lost>>

Stat(p) ==
  /\ Go(p, "stat", "open")
  /\ block' = [block EXCEPT ![p] = names[Path(p)] # NoNode]
  /\ UNCHANGED <<asked, names, mounted, knobs, fd, knob, prev, saved, misled, shared, lost>>

(* The path is looked up again.  What is a block device then, fstat says.  *)
Open(p) ==
  LET node == names[Path(p)]
  IN  /\ node # NoNode /\ Exclusive(p) => ~Claimed(node)
      /\ Go(p, "open", IF node = NoNode THEN "copy" ELSE "find")
      /\ fd' = [fd EXCEPT ![p] = node]
      /\ shared' = shared \cup {d \in Disks : /\ node # NoNode /\ Disk[node] = d
                                              /\ \E q \in Procs : HasOpen(q, d)}
      /\ UNCHANGED <<asked, names, mounted, knobs, block, knob, prev, saved, misled, lost>>

(* The device is claimed, the file cannot be created, ...                  *)
OpenFails(p) ==
  /\ Go(p, "open", "ended")
  /\ UNCHANGED <<asked, names, mounted, knobs, block, fd, knob, prev, saved, misled, shared, lost>>

-----------------------------------------------------------------------------
(* BdevTuning::apply.                                                      *)

(* sysfs_base: the device's own queue directory or that of its disk, if    *)
(* sysfs has one.                                                          *)
FindKnobs(p) ==
  /\ Go(p, "find", "read") \/ Go(p, "find", "copy")
  /\ UNCHANGED <<asked, names, mounted, knobs, block, fd, knob, prev, saved, misled, shared, lost>>

ReadKnob(p) ==
  /\ Go(p, "read", "write")
  /\ \E v \in {knobs[Disk[fd[p]]][knob[p]], None} : prev' = [prev EXCEPT ![p] = v]
  /\ UNCHANGED <<asked, names, mounted, knobs, block, fd, knob, saved, misled, shared, lost>>

(* On to the next knob, or to the copy.                                    *)
NextKnob(p) ==
  /\ Go(p, "write", IF knob[p] = 1 THEN "read" ELSE "copy")
  /\ knob' = [knob EXCEPT ![p] = IF @ = 1 THEN 2 ELSE 1]
  /\ prev' = [prev EXCEPT ![p] = None]

(* The value that was read is remembered once the write has succeeded;     *)
(* without one, the knob stays tuned for good.                             *)
WriteKnob(p) ==
  LET disk == Disk[fd[p]]
  IN  /\ NextKnob(p)
      /\ knobs' = [knobs EXCEPT ![disk] = [@ EXCEPT ![knob[p]] = Tuned]]
      /\ saved' = [saved EXCEPT ![p] = [@ EXCEPT ![knob[p]] = prev[p]]]
      /\ lost' = IF prev[p] = None THEN lost \cup {disk} ELSE lost
      /\ UNCHANGED <<asked, names, mounted, block, fd, misled, shared>>

WriteKnobFails(p) ==
  /\ NextKnob(p)
  /\ UNCHANGED <<asked, names, mounted, knobs, block, fd, saved, misled, shared, lost>>

-----------------------------------------------------------------------------

(* The copy fails, or it is done; --verify reads it back.  Whatever came   *)
(* of either, the locals are dropped then, tuning before the destination.  *)
Copy(p) ==
  /\ Go(p, "copy", "restore") \/ (asked[p].verify /\ Go(p, "copy", "verify"))
  /\ UNCHANGED <<asked, names, mounted, knobs, block, fd, knob, prev, saved, misled, shared, lost>>

(* Broken: a failed comparison exits without dropping the guard.           *)
Verify_Exits(p) ==
  /\ Go(p, "verify", "restore") \/ Go(p, "verify", "close")
  /\ UNCHANGED <<asked, names, mounted, knobs, block, fd, knob, prev, saved, misled, shared, lost>>

Verify(p) ==
  /\ Go(p, "verify", "restore")
  /\ UNCHANGED <<asked, names, mounted, knobs, block, fd, knob, prev, saved, misled, shared, lost>>

(* BdevTuning::drop drains its entries; a write that fails is logged.      *)
Restore(p) ==
  LET k == knob[p]
      disk == Disk[fd[p]]
  IN  /\ Go(p, "restore", IF k = 1 THEN "restore" ELSE "close")
      /\ knob' = [knob EXCEPT ![p] = IF @ = 1 THEN 2 ELSE 1]
      /\ saved' = [saved EXCEPT ![p] = [@ EXCEPT ![k] = None]]
      /\ \/ saved[p][k] = None /\ UNCHANGED <<knobs, lost>>
         \/ /\ saved[p][k] # None
            /\ knobs' = [knobs EXCEPT ![disk] = [@ EXCEPT ![k] = saved[p][k]]]
            /\ UNCHANGED lost
         \/ saved[p][k] # None /\ lost' = lost \cup {disk} /\ UNCHANGED knobs
      /\ UNCHANGED <<asked, names, mounted, block, fd, prev, misled, shared>>

Close(p) ==
  /\ Go(p, "close", "ended")
  /\ fd' = [fd EXCEPT ![p] = NoNode]
  /\ UNCHANGED <<asked, names, mounted, knobs, block, knob, prev, saved, misled, shared, lost>>

Cmd(p) ==
  \/ Prepare(p) \/ Stat(p) \/ Open(p) \/ OpenFails(p)
  \/ FindKnobs(p) \/ ReadKnob(p) \/ WriteKnob(p) \/ WriteKnobFails(p)
  \/ Copy(p) \/ Verify(p) \/ Restore(p) \/ Close(p)

-----------------------------------------------------------------------------
(* Around the commands.                                                    *)

Running(p) == pc[p] \notin {"ended", "killed"}

(* A signal, or a panic: it aborts.  The kernel closes the device, the     *)
(* values to put back go with the process.                                 *)
Kill(p) ==
  /\ Running(p)
  /\ pc' = [pc EXCEPT ![p] = "killed"]
  /\ fd' = [fd EXCEPT ![p] = NoNode]
  /\ lost' = lost \cup {d \in Disks : HasOpen(p, d) /\ Owes(p)}
  /\ saved' = [saved EXCEPT ![p] = NothingSaved]
  /\ prev' = [prev EXCEPT ![p] = None]
  /\ knob' = [knob EXCEPT ![p] = 1]
  /\ UNCHANGED <<asked, names, mounted, knobs, block, misled, shared>>

Mount(n) ==
  /\ ~Claimed(n)
  /\ mounted' = mounted \cup {n}
  /\ UNCHANGED <<asked, names, knobs, procVars, misled, shared, lost>>

Unmount(n) ==
  /\ mounted' = mounted \ {n}
  /\ UNCHANGED <<asked, names, knobs, procVars, misled, shared, lost>>

(* A device is plugged or a link replaced: the path names something else.  *)
Rename(r) ==
  /\ names' = [names EXCEPT ![r.path] = r.node]
  /\ misled' = [p \in Procs |-> misled[p] \/ (pc[p] = "open" /\ Path(p) = r.path)]
  /\ UNCHANGED <<asked, mounted, knobs, procVars, shared, lost>>

Others ==
  \/ \E n \in Nodes : Mount(n) \/ Unmount(n)
  \/ \E r \in Renames : Rename(r)

Next ==
  \/ \E p \in Procs : Cmd(p) \/ Kill(p)
  \/ Others

Spec == Init /\ [][Next]_vars

-----------------------------------------------------------------------------

(* The guard against overwriting a mounted file system: a command that was *)
(* not forced has nothing open that overlaps a mounted device, or a device *)
(* another such command has open, whatever the order of the opens, mounts  *)
(* and exits; unless the path was given to something else between the stat *)
(* that decides about O_EXCL and the open.  (dest.rs:83-99)                *)
ClaimRespected ==
  \A p \in Procs : fd[p] # NoNode /\ ~Forced(p) /\ ~misled[p] =>
    /\ \A m \in mounted : ~Overlap(m, fd[p])
    /\ \A q \in Procs \ {p} :
         fd[q] # NoNode /\ ~Forced(q) /\ ~misled[q] => ~Overlap(fd[q], fd[p])

(* A disk that no command has open has the knobs it had before the first   *)
(* one, whatever failed in those that have ended.  Excepted are disks that *)
(* two commands had open at a time, which takes --force, a misled stat or  *)
(* two partitions (ClaimRespected), and disks whose old values were lost:  *)
(* never read, not written back, or killed with their command.             *)
(* (sysfs.rs:24; run.rs:39)                                                *)
KnobsPutBack ==
  \A d \in Disks \ (shared \cup lost) :
    (\A p \in Procs : ~HasOpen(p, d)) => knobs[d] = Original[d]

(* "The original values are put back on drop", sysfs.rs:17, once every     *)
(* command has dropped its guard and nothing failed.                       *)
OriginalsPutBack ==
  (\A p \in Procs : pc[p] = "ended") /\ lost = {} => knobs = Original

-----------------------------------------------------------------------------
(* Why these hold.                                                         *)

(* The step a command is at, and what it has open, saved and in hand then. *)
InOrder(p) ==
  /\ pc[p] \in {"prepare", "stat", "open", "ended", "killed"} => fd[p] = NoNode
  /\ pc[p] \in {"find", "read", "write"} => fd[p] # NoNode
  /\ pc[p] \notin {"read", "write", "restore"} => knob[p] = 1
  /\ fd[p] = NoNode \/ pc[p] \in {"find", "close"} => ~Owes(p)
  /\ pc[p] \in {"read", "write"} => \A k \in Knob : k >= knob[p] => saved[p][k] = None
  /\ pc[p] = "restore" => \A k \in Knob : k < knob[p] => saved[p][k] = None

StepsInOrder == \A p \in Procs : InOrder(p)

(* O_EXCL is used for every device unless forced or misled, and two claims *)
(* that stand never overlap.                                               *)
ClaimsApart ==
  /\ \A p \in Procs : pc[p] = "open" /\ ~misled[p] => block[p] = (names[Path(p)] # NoNode)
  /\ \A p \in Procs : fd[p] # NoNode /\ ~misled[p] => block[p]
  /\ \A p \in Procs : fd[p] # NoNode /\ Exclusive(p) =>
       /\ \A m \in mounted : ~Overlap(m, fd[p])
       /\ \A q \in Procs \ {p} : fd[q] # NoNode /\ Exclusive(q) => ~Overlap(fd[q], fd[p])

(* A disk that is neither shared nor lost is open to one command at most,  *)
(* and that command either has not changed a knob or has its old value.    *)
OldValuesKept ==
  \A p \in Procs : \A d \in Disks \ shared : HasOpen(p, d) =>
    /\ \A q \in Procs \ {p} : ~HasOpen(q, d)
    /\ d \notin lost =>
         /\ \A k \in Knob : IF saved[p][k] = None THEN knobs[d][k] = Original[d][k]
                             ELSE saved[p][k] = Original[d][k]
         /\ pc[p] = "write" => prev[p] \in {None, Original[d][knob[p]]}

IInv == TypeOK /\ StepsInOrder /\ ClaimsApart /\ OldValuesKept /\ KnobsPutBack

=============================================================================
