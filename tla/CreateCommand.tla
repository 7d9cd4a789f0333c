--------------------------- MODULE CreateCommand ---------------------------
(***************************************************************************)
(* run.rs: cmd_create around create_from, with the bmap file it writes.    *)
(* Bmap::write_to writes in place, so the file passes through states that  *)
(* are no map, and stays in one if the command is killed; others may read  *)
(* it at any time.                                                         *)
(***************************************************************************)
EXTENDS CreateProperties

CONSTANT Earlier  \* what the output path may hold before: documents, or Absent

Absent == [cut |-> 2]

VARIABLES cmd,     \* "create" "write" "ok" "failed" "killed"
          output,  \* the document at the output path
          before   \* history: what it was at first

commandVars == <<vars, cmd, output, before>>

InitCommand ==
  /\ Init
  /\ cmd = "create"
  /\ output \in Earlier
  /\ before = output

-----------------------------------------------------------------------------

(* Standard input has no default output path: without -o the command ends  *)
(* before it reads.                                                        *)
NowhereToWrite ==
  /\ cmd = "create" /\ phase = "start" /\ call.stream
  /\ cmd' = "failed"
  /\ UNCHANGED <<vars, output, before>>

Failed ==
  /\ cmd = "create" /\ phase = "done" /\ ~Ok
  /\ cmd' = "failed"
  /\ UNCHANGED <<vars, output, before>>

(* std::fs::write: the file is emptied when it is opened, ...              *)
OpenOutput ==
  /\ cmd = "create" /\ Ok
  /\ cmd' = "write"
  /\ output' = Absent
  /\ UNCHANGED <<vars, before>>

(* Broken: the map is put together as it is written.                       *)
WriteOutput_Unsealed ==
  /\ cmd = "write" /\ output = Absent
  /\ \E n \in 0..2 : output' = [Render([AsBmap EXCEPT !.ranges = <<>>, !.mapped = 0])
                                  EXCEPT !.cut = n]
  /\ UNCHANGED <<vars, cmd, before>>

(* ... some of it is written, or all but what follows the last tag, ...    *)
WriteOutput ==
  /\ cmd = "write" /\ output.cut = 2
  /\ output' = [Render(AsBmap) EXCEPT !.cut = 1]
  /\ UNCHANGED <<vars, cmd, before>>

(* ... and in the end the whole.                                           *)
OutputWritten ==
  /\ cmd = "write"
  /\ output' = Render(AsBmap)
  /\ cmd' = "ok"
  /\ UNCHANGED <<vars, before>>

(* The file cannot be opened, or the disk is full.                         *)
OutputFails ==
  /\ cmd = "write" \/ (cmd = "create" /\ Ok)
  /\ cmd' = "failed"
  /\ UNCHANGED <<vars, output, before>>

Kill ==
  /\ cmd \in {"create", "write"}
  /\ cmd' = "killed"
  /\ UNCHANGED <<vars, output, before>>

Writing == NowhereToWrite \/ Failed \/ OpenOutput \/ WriteOutput \/ OutputWritten \/ OutputFails

CreateFrom == cmd = "create" /\ Create /\ UNCHANGED <<cmd, output, before>>

Meddled == cmd = "create" /\ Others /\ UNCHANGED <<cmd, output, before>>

Exited == cmd \in {"ok", "failed", "killed"} /\ UNCHANGED commandVars

CommandNext == CreateFrom \/ Meddled \/ Writing \/ Kill \/ Exited

CommandSpec == InitCommand /\ [][CommandNext]_commandVars

CommandFairness == WF_commandVars(CreateFrom) /\ WF_commandVars(Writing)

-----------------------------------------------------------------------------

(* Whoever reads the bmap file, at whatever moment and although it is      *)
(* written in place, finds the map that was there before, or one that      *)
(* parse refuses, or the new one, whole; and the new one is there for good *)
(* once create has reported success.  (bmap.rs:287)                        *)
TornMapRefused ==
  /\ ParseAnswer(output) = "ok" => output = before \/ output = Render(AsBmap)
  /\ cmd = "ok" => output = Render(AsBmap)

(* Whatever is done to the file meanwhile, the command returns.            *)
CreateReturns == <>(cmd \in {"ok", "failed", "killed"})

=============================================================================
