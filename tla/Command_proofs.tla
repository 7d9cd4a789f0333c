--------------------------- MODULE Command_proofs ---------------------------
(***************************************************************************)
(* Command keeps its inductive invariant, for any set of commands, devices *)
(* and paths.  There is one lemma per conjunct of the invariant; each      *)
(* needs the ones before it, in the step's first state or in its second.   *)
(***************************************************************************)
EXTENDS Command, TLAPS

USE CommandAssumption DEF Knob

-----------------------------------------------------------------------------
(* The steps of a command.                                                 *)

(* A command that has a device open has the device's disk among Disks.     *)
LEMMA DiskInHand ==
  ASSUME TypeOK, NEW p \in Procs, fd[p] # NoNode
  PROVE  Disk[fd[p]] \in Disks
  BY DEF TypeOK, Disks

LEMMA InitOrdered == Init => TypeOK /\ StepsInOrder
  BY DEF Init, TypeOK, NothingSaved, Disks, StepsInOrder, InOrder, Owes

LEMMA StepTyped ==
  ASSUME TypeOK, StepsInOrder, [Next]_vars
  PROVE  TypeOK'
<1> USE DEF TypeOK, Go
<1>1. CASE UNCHANGED vars
  BY <1>1 DEF vars, procVars
<1>2. CASE \E p \in Procs : Prepare(p) \/ Stat(p) \/ OpenFails(p) \/ Close(p)
  BY <1>2 DEF Prepare, Stat, OpenFails, Close
<1>3. CASE \E p \in Procs : Open(p)
  BY <1>3 DEF Open, Path
<1>4. CASE \E p \in Procs : FindKnobs(p) \/ Copy(p) \/ Verify(p)
  BY <1>4 DEF FindKnobs, Copy, Verify
<1>5. ASSUME NEW p \in Procs, ReadKnob(p)
      PROVE  TypeOK'
  <2>1. knobs[Disk[fd[p]]][knob[p]] \in Value
    BY <1>5, DiskInHand DEF ReadKnob, StepsInOrder, InOrder
  <2> QED
    BY <1>5, <2>1 DEF ReadKnob
<1>6. ASSUME NEW p \in Procs, WriteKnob(p)
      PROVE  TypeOK'
  <2>1. Disk[fd[p]] \in Disks
    BY <1>6, DiskInHand DEF WriteKnob, NextKnob, StepsInOrder, InOrder
  <2> QED
    BY <1>6, <2>1 DEF WriteKnob, NextKnob
<1>7. CASE \E p \in Procs : WriteKnobFails(p)
  BY <1>7 DEF WriteKnobFails, NextKnob
<1>8. ASSUME NEW p \in Procs, Restore(p)
      PROVE  TypeOK'
  <2>1. saved[p][knob[p]] # None => Disk[fd[p]] \in Disks
    BY <1>8, DiskInHand DEF Restore, StepsInOrder, InOrder, Owes
  <2>2. /\ lost' \subseteq Disks
        /\ saved[p][knob[p]] \in Value \cup {None}
        /\ knobs' = knobs \/ (saved[p][knob[p]] # None /\ knobs' = [knobs EXCEPT
             ![Disk[fd[p]]] = [@ EXCEPT ![knob[p]] = saved[p][knob[p]]]])
    BY <1>8, <2>1 DEF Restore
  <2>5. knobs' \in [Disks -> [Knob -> Value]]
    <3>1. CASE saved[p][knob[p]] = None
      BY <2>2, <3>1
    <3>2. CASE saved[p][knob[p]] # None
      <4>1. Disk[fd[p]] \in Disks /\ saved[p][knob[p]] \in Value
        BY <2>1, <2>2, <3>2
      <4>2. [knobs[Disk[fd[p]]] EXCEPT ![knob[p]] = saved[p][knob[p]]] \in [Knob -> Value]
        BY <4>1
      <4> QED
        BY <2>2, <4>1, <4>2
    <3> QED
      BY <3>1, <3>2
  <2>3. saved' \in [Procs -> [Knob -> Value \cup {None}]]
    BY <1>8 DEF Restore
  <2>4. /\ pc' \in [Procs -> {"prepare", "stat", "open", "find", "read", "write", "copy", "verify",
                             "restore", "close", "ended", "killed"}]
        /\ knob' \in [Procs -> Knob]
    BY <1>8 DEF Restore
  <2> QED
    BY <1>8, <2>2, <2>3, <2>4, <2>5 DEF Restore
<1>9. CASE \E p \in Procs : Kill(p)
  BY <1>9 DEF Kill, NothingSaved
<1>10. CASE Others
  BY <1>10 DEF Others, Mount, Unmount, Rename, procVars
<1> QED
  BY <1>1, <1>2, <1>3, <1>4, <1>5, <1>6, <1>7, <1>8, <1>9, <1>10 DEF Next, Cmd

(* A step is one command's own, or it leaves every command where it is.    *)
LEMMA StepInOrder ==
  ASSUME TypeOK, StepsInOrder, [Next]_vars
  PROVE  StepsInOrder'
<1> SUFFICES ASSUME NEW q \in Procs PROVE InOrder(q)'
  BY DEF StepsInOrder
<1>0. InOrder(q)
  BY DEF StepsInOrder
<1>1. CASE UNCHANGED vars \/ Others
  BY <1>0, <1>1 DEF InOrder, Owes, vars, procVars, Others, Mount, Unmount, Rename
<1>2. ASSUME NEW p \in Procs, Cmd(p) \/ Kill(p), p # q
      PROVE  InOrder(q)'
  BY <1>0, <1>2 DEF InOrder, Owes, TypeOK, Cmd, Go, Kill, Prepare, Stat, Open, OpenFails, FindKnobs,
                    ReadKnob, NextKnob, WriteKnob, WriteKnobFails, Copy, Verify, Restore, Close
<1>3. ASSUME Cmd(q) \/ Kill(q)
      PROVE  InOrder(q)'
  <2> USE <1>0 DEF InOrder, TypeOK, Go, NothingSaved, Owes
  <2>1. CASE Prepare(q) \/ Stat(q) \/ OpenFails(q) \/ Close(q)
    BY <2>1 DEF Prepare, Stat, OpenFails, Close
  <2>2. CASE Open(q)
    BY <2>2 DEF Open
  <2>3. CASE FindKnobs(q)
    BY <2>3 DEF FindKnobs
  <2>9. CASE Copy(q) \/ Verify(q)
    BY <2>9 DEF Copy, Verify
  <2>4. CASE ReadKnob(q)
    BY <2>4 DEF ReadKnob
  <2>5. CASE WriteKnob(q)
    BY <2>5 DEF WriteKnob, NextKnob
  <2>6. CASE WriteKnobFails(q)
    BY <2>6 DEF WriteKnobFails, NextKnob
  <2>7. CASE Restore(q)
    <3>1. /\ knob'[q] = IF knob[q] = 1 THEN 2 ELSE 1
          /\ pc'[q] = IF knob[q] = 1 THEN "restore" ELSE "close"
          /\ fd'[q] = fd[q]
      BY <2>7 DEF Restore
    <3>2. \A k \in Knob : saved'[q][k] = IF k = knob[q] THEN None ELSE saved[q][k]
      BY <2>7 DEF Restore
    <3> QED
      BY <2>7, <3>1, <3>2 DEF Restore
  <2>8. CASE Kill(q)
    BY <2>8 DEF Kill
  <2> QED
    BY <1>3, <2>1, <2>2, <2>3, <2>4, <2>5, <2>6, <2>7, <2>8, <2>9 DEF Cmd
<1> QED
  BY <1>1, <1>2, <1>3 DEF Next

-----------------------------------------------------------------------------
(* The claims.                                                             *)

LEMMA InitApart == Init => ClaimsApart
  BY DEF Init, ClaimsApart

(* A claim ends with the command's open, and begins with Open or Mount,    *)
(* which wait for the claims in their way.                                 *)
LEMMA StepApart ==
  ASSUME TypeOK, StepsInOrder, ClaimsApart, [Next]_vars
  PROVE  ClaimsApart'
<1> USE DEF ClaimsApart, TypeOK, Exclusive, Forced, Path, Go
<1>1. ASSUME UNCHANGED <<asked, names, mounted, block, misled>>,
             \A p \in Procs : fd'[p] \in {fd[p], NoNode},
             \A p \in Procs : pc'[p] = "open" => pc[p] = "open"
      PROVE  ClaimsApart'
  BY <1>1
<1>2. CASE UNCHANGED vars
  BY <1>1, <1>2 DEF vars, procVars
<1>3. ASSUME NEW p \in Procs, Cmd(p) \/ Kill(p), ~Stat(p), ~Open(p)
      PROVE  ClaimsApart'
  <2>1. UNCHANGED <<asked, names, mounted, block, misled>>
    BY <1>3 DEF Cmd, Kill, Prepare, OpenFails, FindKnobs, ReadKnob, NextKnob, WriteKnob,
                WriteKnobFails, Copy, Verify, Restore, Close
  <2>2. \A q \in Procs : fd'[q] \in {fd[q], NoNode}
    BY <1>3 DEF Cmd, Kill, Prepare, OpenFails, FindKnobs, ReadKnob, NextKnob, WriteKnob,
                WriteKnobFails, Copy, Verify, Restore, Close
  <2>3. \A q \in Procs : pc'[q] = "open" => pc[q] = "open"
    BY <1>3 DEF Cmd, Kill, Prepare, OpenFails, FindKnobs, ReadKnob, NextKnob, WriteKnob,
                WriteKnobFails, Copy, Verify, Restore, Close
  <2> QED
    BY <1>1, <2>1, <2>2, <2>3
<1>4. ASSUME NEW p \in Procs, Stat(p)
      PROVE  ClaimsApart'
  <2>1. fd[p] = NoNode
    BY <1>4 DEF Stat, StepsInOrder, InOrder
  <2> QED
    BY <1>4, <2>1 DEF Stat
<1>5. ASSUME NEW p \in Procs, Open(p)
      PROVE  ClaimsApart'
  <2> DEFINE node == names[Path(p)]
  <2>1. /\ UNCHANGED <<asked, names, mounted, block, misled>>
        /\ \A q \in Procs : fd'[q] = IF q = p THEN node ELSE fd[q]
        /\ \A q \in Procs : pc'[q] = "open" => pc[q] = "open"
        /\ ~misled[p] => block[p] = (node # NoNode)
    BY <1>5 DEF Open
  <2>2. ASSUME node # NoNode, Exclusive(p)
        PROVE  /\ \A m \in mounted : ~Overlap(m, node)
               /\ \A q \in Procs : fd[q] # NoNode /\ Exclusive(q) => ~Overlap(fd[q], node)
    BY <1>5, <2>2 DEF Open, Claimed, Claims
  <2>3. ASSUME NEW q \in Procs, fd'[q] # NoNode, Exclusive(q)
        PROVE  /\ \A m \in mounted : ~Overlap(m, fd'[q])
               /\ \A r \in Procs \ {q} : fd'[r] # NoNode /\ Exclusive(r) => ~Overlap(fd'[r], fd'[q])
    BY <2>1, <2>2, <2>3 DEF Overlap
  <2> QED
    BY <2>1, <2>3
<1>6. ASSUME NEW n \in Nodes, Mount(n)
      PROVE  ClaimsApart'
  <2>1. \A p \in Procs : fd[p] # NoNode /\ Exclusive(p) => ~Overlap(n, fd[p])
    BY <1>6 DEF Mount, Claimed, Claims, Overlap
  <2> QED
    BY <1>6, <2>1 DEF Mount, procVars
<1>7. CASE \E n \in Nodes : Unmount(n)
  BY <1>7 DEF Unmount, procVars
<1>8. ASSUME NEW r \in Renames, Rename(r)
      PROVE  ClaimsApart'
  <2>1. UNCHANGED <<asked, mounted, pc, block, fd>>
    BY <1>8 DEF Rename, procVars
  <2>2. \A p \in Procs : /\ ~misled'[p] => ~misled[p]
                         /\ pc[p] = "open" /\ ~misled'[p] => names'[Path(p)] = names[Path(p)]
    <3>1. names' = [names EXCEPT ![r.path] = r.node]
      BY <1>8 DEF Rename
    <3>2. \A p \in Procs : misled'[p] = (misled[p] \/ (pc[p] = "open" /\ Path(p) = r.path))
      BY <1>8 DEF Rename
    <3>3. \A x \in Paths : x # r.path => names'[x] = names[x]
      BY <3>1
    <3>4. \A p \in Procs : Path(p) \in Paths
      OBVIOUS
    <3> QED
      BY <3>2, <3>3, <3>4
  <2> QED
    BY <2>1, <2>2
<1> QED
  BY <1>2, <1>3, <1>4, <1>5, <1>6, <1>7, <1>8 DEF Next, Others

-----------------------------------------------------------------------------
(* The knobs.                                                              *)

LEMMA InitKept == Init => OldValuesKept /\ KnobsPutBack
  BY DEF Init, OldValuesKept, KnobsPutBack, HasOpen

(* A command that owes nothing has its disk as it was.                     *)
LEMMA NothingOwed ==
  ASSUME TypeOK, OldValuesKept, NEW p \in Procs, NEW d \in Disks \ (shared \cup lost),
         HasOpen(p, d), ~Owes(p)
  PROVE  knobs[d] = Original[d]
<1>1. \A k \in Knob : knobs[d][k] = Original[d][k]
  BY DEF OldValuesKept, Owes
<1>2. knobs[d] \in [Knob -> Value] /\ Original[d] \in [Knob -> Value]
  BY DEF TypeOK
<1> QED
  BY <1>1, <1>2

LEMMA StepKept ==
  ASSUME TypeOK, StepsInOrder, OldValuesKept, KnobsPutBack, [Next]_vars
  PROVE  OldValuesKept' /\ KnobsPutBack'
<1> DEFINE Kept(p, d) ==
      /\ \A k \in Knob : IF saved[p][k] = None THEN knobs[d][k] = Original[d][k]
                          ELSE saved[p][k] = Original[d][k]
      /\ pc[p] = "write" => prev[p] \in {None, Original[d][knob[p]]}
<1>0. ASSUME NEW p \in Procs, NEW d \in Disks \ shared, HasOpen(p, d)
      PROVE  /\ \A q \in Procs \ {p} : ~HasOpen(q, d)
             /\ d \notin lost => Kept(p, d)
  BY <1>0 DEF OldValuesKept
<1>1. ASSUME UNCHANGED <<knobs, fd, saved, shared, lost>>,
             \A q \in Procs : pc'[q] = "write" =>
               pc[q] = "write" /\ prev'[q] = prev[q] /\ knob'[q] = knob[q]
      PROVE  OldValuesKept' /\ KnobsPutBack'
  BY <1>1 DEF OldValuesKept, KnobsPutBack, HasOpen
<1>2. CASE UNCHANGED vars \/ Others
  BY <1>1, <1>2 DEF vars, procVars, Others, Mount, Unmount, Rename
<1>3. ASSUME NEW p \in Procs, \/ Prepare(p) \/ Stat(p) \/ OpenFails(p) \/ FindKnobs(p)
                              \/ WriteKnobFails(p) \/ Copy(p) \/ Verify(p)
      PROVE  OldValuesKept' /\ KnobsPutBack'
  <2>1. UNCHANGED <<knobs, fd, saved, shared, lost>>
    BY <1>3 DEF Prepare, Stat, OpenFails, FindKnobs, WriteKnobFails, Copy, Verify
  <2>2. \A q \in Procs : pc'[q] = "write" =>
          pc[q] = "write" /\ prev'[q] = prev[q] /\ knob'[q] = knob[q]
    BY <1>3 DEF TypeOK, Go, NextKnob, Prepare, Stat, OpenFails, FindKnobs, WriteKnobFails,
                Copy, Verify
  <2> QED
    BY <1>1, <2>1, <2>2
<1>4. ASSUME NEW p \in Procs, Open(p)
      PROVE  OldValuesKept' /\ KnobsPutBack'
  <2> DEFINE node == names[Path(p)]
  <2>1. /\ UNCHANGED <<knobs, saved, prev, knob, lost>>
        /\ fd[p] = NoNode
        /\ \A q \in Procs : fd'[q] = IF q = p THEN node ELSE fd[q]
        /\ \A q \in Procs : pc'[q] = "write" => pc[q] = "write"
        /\ \A d \in Disks : d \in shared' <=>
             d \in shared \/ (node # NoNode /\ Disk[node] = d /\ \E q \in Procs : HasOpen(q, d))
    BY <1>4 DEF Open, TypeOK, Go, StepsInOrder, InOrder
  <2>2. pc'[p] # "write" /\ ~Owes(p)
    BY <1>4 DEF Open, TypeOK, Go, StepsInOrder, InOrder
  <2>3. ASSUME NEW q \in Procs, NEW d \in Disks \ shared', HasOpen(q, d)'
        PROVE  /\ \A r \in Procs \ {q} : ~HasOpen(r, d)'
               /\ d \notin lost' => Kept(q, d)'
    <3>1. CASE q = p
      <4>1. \A r \in Procs : ~HasOpen(r, d)
        BY <2>1, <2>3, <3>1 DEF HasOpen
      <4>2. d \notin lost => knobs[d] = Original[d]
        BY <2>1, <4>1 DEF KnobsPutBack
      <4> QED
        BY <2>1, <2>2, <3>1, <4>1, <4>2 DEF HasOpen, Owes
    <3>2. CASE q # p
      <4>1. HasOpen(q, d) /\ d \notin shared /\ ~HasOpen(p, d)'
        BY <2>1, <2>3, <3>2 DEF HasOpen
      <4> QED
        BY <1>0, <2>1, <3>2, <4>1 DEF HasOpen
    <3> QED
      BY <3>1, <3>2
  <2>4. KnobsPutBack'
    BY <2>1 DEF KnobsPutBack, HasOpen
  <2> QED
    BY <2>3, <2>4 DEF OldValuesKept
<1>5. ASSUME NEW p \in Procs, Close(p) \/ Kill(p)
      PROVE  OldValuesKept' /\ KnobsPutBack'
  <2>1. /\ UNCHANGED <<knobs, shared>>
        /\ fd'[p] = NoNode
        /\ lost \subseteq lost'
        /\ \A q \in Procs \ {p} : /\ fd'[q] = fd[q] /\ saved'[q] = saved[q] /\ prev'[q] = prev[q]
                                  /\ knob'[q] = knob[q] /\ pc'[q] = pc[q]
    BY <1>5 DEF Close, Kill, TypeOK, Go
  <2>2. \A d \in Disks \ lost' : HasOpen(p, d) => ~Owes(p)
    BY <1>5 DEF Close, Kill, Go, StepsInOrder, InOrder
  <2>3. OldValuesKept'
    BY <1>0, <2>1 DEF OldValuesKept, HasOpen
  <2>4. ASSUME NEW d \in Disks \ (shared' \cup lost'), \A q \in Procs : ~HasOpen(q, d)'
        PROVE  knobs'[d] = Original[d]
    <3>1. CASE HasOpen(p, d)
      BY <2>1, <2>2, <2>4, <3>1, NothingOwed
    <3>2. CASE ~HasOpen(p, d)
      BY <2>1, <2>4, <3>2 DEF KnobsPutBack, HasOpen
    <3> QED
      BY <3>1, <3>2
  <2> QED
    BY <2>3, <2>4 DEF KnobsPutBack
<1>6. ASSUME NEW p \in Procs, ReadKnob(p)
      PROVE  OldValuesKept' /\ KnobsPutBack'
  <2>1. /\ UNCHANGED <<knobs, fd, saved, shared, lost, knob>>
        /\ \A q \in Procs \ {p} : prev'[q] = prev[q] /\ pc'[q] = pc[q]
        /\ prev'[p] \in {None, knobs[Disk[fd[p]]][knob[p]]}
    BY <1>6 DEF ReadKnob, TypeOK, Go
  <2>2. knob[p] \in Knob /\ saved[p][knob[p]] = None
    BY <1>6 DEF ReadKnob, TypeOK, Go, StepsInOrder, InOrder
  <2>3. ASSUME NEW q \in Procs, NEW d \in Disks \ shared', HasOpen(q, d)'
        PROVE  /\ \A r \in Procs \ {q} : ~HasOpen(r, d)'
               /\ d \notin lost' => Kept(q, d)'
    <3>1. HasOpen(q, d)
      BY <2>1, <2>3 DEF HasOpen
    <3>2. \A r \in Procs \ {q} : ~HasOpen(r, d)'
      BY <1>0, <2>1, <3>1 DEF HasOpen
    <3>3. d \notin lost => Kept(q, d)
      BY <1>0, <2>1, <3>1
    <3>4. d \notin lost' => Kept(q, d)'
      BY <2>1, <2>2, <3>1, <3>3 DEF HasOpen
    <3> QED
      BY <3>2, <3>4
  <2> QED
    BY <2>1, <2>3 DEF OldValuesKept, KnobsPutBack, HasOpen
<1>7. ASSUME NEW p \in Procs, WriteKnob(p) \/ Restore(p)
      PROVE  OldValuesKept' /\ KnobsPutBack'
  <2> DEFINE disk == Disk[fd[p]]
             k == knob[p]
  <2>1. /\ UNCHANGED <<fd, shared>>
        /\ k \in Knob
        /\ \A q \in Procs \ {p} : /\ saved'[q] = saved[q] /\ prev'[q] = prev[q]
                                  /\ knob'[q] = knob[q] /\ pc'[q] = pc[q]
        /\ pc'[p] # "write"
    BY <1>7 DEF WriteKnob, NextKnob, Restore, TypeOK, Go
  <2>2. /\ lost' \in {lost, lost \cup {disk}}
        /\ \A d \in Disks : d # disk => knobs'[d] = knobs[d]
        /\ \A j \in Knob : j # k => saved'[p][j] = saved[p][j]
    BY <1>7 DEF WriteKnob, NextKnob, Restore, TypeOK, Go
  <2>3. ~HasOpen(p, disk) => knobs' = knobs
    BY <1>7 DEF WriteKnob, NextKnob, Restore, HasOpen, Go, StepsInOrder, InOrder, Owes, TypeOK
  <2>4. ASSUME HasOpen(p, disk), disk \in Disks \ shared, disk \notin lost'
        PROVE  Kept(p, disk)'
    <3>1. Kept(p, disk) /\ disk \notin lost
      BY <1>0, <2>2, <2>4
    <3>2. \A j \in Knob : j # k => knobs'[disk][j] = knobs[disk][j]
      BY <1>7, <2>4 DEF WriteKnob, Restore, TypeOK
    <3>3. saved[p][k] \in Value \cup {None} /\ prev[p] \in Value \cup {None}
      BY <2>1 DEF TypeOK
    <3>4. IF saved'[p][k] = None THEN knobs'[disk][k] = Original[disk][k]
          ELSE saved'[p][k] = Original[disk][k]
      <4>1. CASE WriteKnob(p)
        BY <2>1, <2>4, <3>1, <3>3, <4>1 DEF WriteKnob, NextKnob, TypeOK, Go
      <4>2. CASE Restore(p)
        BY <2>1, <2>4, <3>1, <3>3, <4>2 DEF Restore, TypeOK
      <4> QED
        BY <1>7, <4>1, <4>2
    <3> QED
      BY <2>1, <2>2, <3>1, <3>2, <3>4
  <2>5. ASSUME NEW q \in Procs, NEW d \in Disks \ shared', HasOpen(q, d)'
        PROVE  /\ \A r \in Procs \ {q} : ~HasOpen(r, d)'
               /\ d \notin lost' => Kept(q, d)'
    <3>1. HasOpen(q, d) /\ \A r \in Procs \ {q} : ~HasOpen(r, d)
      BY <1>0, <2>1, <2>5 DEF HasOpen
    <3>2. \A r \in Procs \ {q} : ~HasOpen(r, d)'
      BY <2>1, <3>1 DEF HasOpen
    <3>3. CASE q = p
      <4>1. d = disk
        BY <3>1, <3>3 DEF HasOpen
      <4> QED
        BY <2>1, <2>4, <3>1, <3>2, <3>3, <4>1
    <3>4. CASE q # p
      <4>1. d # disk \/ knobs' = knobs
        BY <2>3, <3>1, <3>4
      <4>2. knobs'[d] = knobs[d] /\ (d \notin lost' => Kept(q, d))
        BY <1>0, <2>1, <2>2, <3>1, <4>1
      <4> QED
        BY <2>1, <3>2, <3>4, <4>2
    <3> QED
      BY <3>3, <3>4
  <2>6. ASSUME NEW d \in Disks \ (shared' \cup lost'), \A q \in Procs : ~HasOpen(q, d)'
        PROVE  knobs'[d] = Original[d]
    <3>1. \A q \in Procs : ~HasOpen(q, d)
      BY <2>1, <2>6 DEF HasOpen
    <3>2. knobs'[d] = knobs[d]
      BY <2>2, <2>3, <3>1
    <3> QED
      BY <2>1, <2>2, <3>1, <3>2 DEF KnobsPutBack
  <2> QED
    BY <2>5, <2>6 DEF OldValuesKept, KnobsPutBack
<1> QED
  BY <1>2, <1>3, <1>4, <1>5, <1>6, <1>7 DEF Next, Cmd

-----------------------------------------------------------------------------

(* The invariant that TLC checks in the run "command" holds for any set of *)
(* commands, paths and devices. (run.rs:32-75; dest.rs:80; sysfs.rs:45)    *)
THEOREM CommandInvariant == Spec => []IInv
<1>1. Init => IInv
  BY InitOrdered, InitApart, InitKept DEF IInv
<1>2. IInv /\ [Next]_vars => IInv'
  BY StepTyped, StepInOrder, StepApart, StepKept DEF IInv
<1> QED
  BY <1>1, <1>2, PTL DEF Spec

(* A claim stands or is not to be had: no command that was neither forced  *)
(* nor misled has a device open that is in use. (dest.rs:83-99)            *)
THEOREM NothingInUseIsOpened == Spec => []ClaimRespected
<1>1. IInv => ClaimRespected
  BY DEF IInv, ClaimsApart, ClaimRespected, Exclusive
<1> QED
  BY <1>1, CommandInvariant, PTL

(* The knobs of a disk outlive no command, unless it was shared or its old *)
(* values were lost. (sysfs.rs:45-94)                                      *)
THEOREM KnobsOutliveNoCommand == Spec => []KnobsPutBack
<1>1. IInv => KnobsPutBack
  BY DEF IInv
<1> QED
  BY <1>1, CommandInvariant, PTL

=============================================================================
