---------------------------- MODULE CorpusBuilder ----------------------------
(***************************************************************************)
(* build_corpus of build-provisional-corpus.py: tool metadata commands and *)
(* one compiler command per target of the matrix, all in one working       *)
(* directory that must be empty around each of them, any failure aborting  *)
(* the build; late reauthentication; publication; and the verification of  *)
(* the published corpus under its public name.  The program has its own    *)
(* copy of the owned stage, word for word that of the runner.              *)
(***************************************************************************)
EXTENDS OwnedCampaign

CONSTANT Builds        \* the commands: "metadata", "compile"

ASSUME BuildsAssumption == Builds \in Seq({"metadata", "compile"})

-------------------------------------------------------------------------------
(* run_command of build-provisional-corpus.py: one compiler or tool        *)
(* command.  Any failure while its output is captured terminates the whole *)
(* process tree where it is noticed (pass 1) and again in the exception    *)
(* handler (pass 2), so that a signal in the first is made good by the     *)
(* second.                                                                 *)
Capturing   == {"reading", "sweep", "sweepEscaped"}
Terminating == {"terminate", "waiting", "killed", "endGroup", "endEscaped"}

Launch ==
  /\ Step("launch", IF Alive = {} THEN "fork" ELSE "raised")
  /\ run' = NewRun
  /\ UNCHANGED <<treeVars, interrupted, outcome>>

(* Popen with the signals blocked, then the check for one that was.        *)
SpawnCompiler ==
  /\ \/ Step("fork", "forked") /\ Starts
     \/ Step("fork", "raised") /\ UNCHANGED treeVars
  /\ UNCHANGED <<interrupted, run, outcome>>

Terminate1(from) == Step(from, "terminate") /\ run' = [run EXCEPT !.pass = 1]
Terminate2(from) == Step(from, "terminate") /\ run' = [run EXCEPT !.pass = 2]

CompilerSpawned ==
  /\ \/ interrupted /\ Terminate2("forked")
     \/ ~interrupted /\ Step("forked", "reading") /\ UNCHANGED run
  /\ UNCHANGED <<treeVars, interrupted, outcome>>

-------------------------------------------------------------------------------
(* capture_bounded_process_output: poll the root and sweep what it left,   *)
(* watch the deadline, which goes on after the root has exited, and the    *)
(* capture limit, until both pipes are at end of file.                     *)
SeeExit ==
  /\ main = "zombie" /\ Step("reading", "sweep")
  /\ main' = "reaped"
  /\ UNCHANGED <<worldVars, doomed, interrupted, run, outcome>>

Sweep(from, procs, to) ==
  \/ KillAgain(procs) /\ Step(from, from) /\ UNCHANGED run
  \/ Gone(procs) /\ Step(from, to) /\ UNCHANGED <<run, doomed>>
  \/ GivenUp(procs) /\ Terminate2(from) /\ UNCHANGED doomed

SweepMembers ==
  Sweep("sweep", {"group"}, "sweepEscaped") /\ UNCHANGED <<worldVars, main, interrupted, outcome>>

SweepEscaped ==
  Sweep("sweepEscaped", kin, "reading") /\ UNCHANGED <<worldVars, main, interrupted, outcome>>

TimedOut ==
  Terminate1("reading") /\ UNCHANGED <<treeVars, interrupted, outcome>>

OverLimit ==
  /\ excess # {} /\ Terminate1("reading")
  /\ UNCHANGED <<treeVars, interrupted, outcome>>

Captured ==
  /\ main = "reaped" /\ Alive = {} /\ excess = {}
  /\ Step("reading", "recorded")
  /\ outcome' = IF ended = "zero" THEN "success" ELSE "nonzero_exit"
  /\ UNCHANGED <<treeVars, interrupted, run>>

-------------------------------------------------------------------------------
(* terminate_process_tree: SIGTERM, a short wait, SIGKILL, a longer one,   *)
(* then the group and the adopted descendants; whatever fails ends the     *)
(* pass.                                                                   *)
NextPass(from) == IF run.pass = 1 THEN Terminate2(from) ELSE Step(from, "raised") /\ UNCHANGED run

AskToEnd ==
  /\ Step("terminate", "waiting") /\ doomed' = Terminate(Group)
  /\ UNCHANGED <<worldVars, main, interrupted, run, outcome>>

RootGone(from) ==
  /\ main # "running" /\ Step(from, "endGroup")
  /\ main' = "reaped" /\ UNCHANGED <<doomed, run>>

WaitForRoot ==
  /\ \/ RootGone("waiting")
     \/ /\ main = "running" /\ Step("waiting", "killed")
        /\ doomed' = Kill(Group) /\ UNCHANGED <<main, run>>
  /\ UNCHANGED <<worldVars, interrupted, outcome>>

WaitForKilled ==
  /\ \/ RootGone("killed")
     \/ main = "running" /\ slow /\ NextPass("killed") /\ UNCHANGED <<main, doomed>>
  /\ UNCHANGED <<worldVars, interrupted, outcome>>

EndGroup ==
  /\ \/ KillAgain({"group"}) /\ Step("endGroup", "endGroup") /\ UNCHANGED run
     \/ Gone({"group"}) /\ Step("endGroup", "endEscaped") /\ UNCHANGED <<run, doomed>>
     \/ GivenUp({"group"}) /\ NextPass("endGroup") /\ UNCHANGED doomed
  /\ UNCHANGED <<worldVars, main, interrupted, outcome>>

EndEscapedNot ==                    \* a defect: only the group is cleaned up
  /\ NextPass("endEscaped") /\ UNCHANGED <<doomed, worldVars, main, interrupted, outcome>>

EndEscaped ==
  /\ \/ KillAgain(kin) /\ Step("endEscaped", "endEscaped") /\ UNCHANGED run
     \/ (Gone(kin) \/ GivenUp(kin)) /\ NextPass("endEscaped") /\ UNCHANGED doomed
  /\ UNCHANGED <<worldVars, main, interrupted, outcome>>

(* signal_handler during a command: blocked around the spawn the signal is *)
(* only noted; otherwise the group is killed and it raises out of whatever *)
(* runs, into the second pass or, between the spawn and the try of         *)
(* run_command and in the second pass itself, past it.                     *)
SignalInCommand ==
  /\ ~interrupted /\ px \in {"launch", "fork", "forked"} \cup Capturing \cup Terminating
  /\ interrupted' = TRUE
  /\ \/ px = "launch" /\ px' = "raised" /\ UNCHANGED <<run, doomed>>
     \/ px \in {"fork", "forked"} /\ UNCHANGED <<px, run, doomed>>
     \/ /\ px \in Capturing \/ (px \in Terminating /\ run.pass = 1)
        /\ Terminate2(px) /\ doomed' = Kill(Group)
     \/ /\ px = "forked" \/ (px \in Terminating /\ run.pass = 2)
        /\ px' = "raised" /\ doomed' = Kill(Group) /\ UNCHANGED run
  /\ UNCHANGED <<worldVars, main, outcome>>

CompilerStep == \/ Launch \/ SpawnCompiler \/ CompilerSpawned
                \/ SeeExit \/ SweepMembers \/ SweepEscaped \/ TimedOut \/ OverLimit \/ Captured
                \/ AskToEnd \/ WaitForRoot \/ WaitForKilled \/ EndGroup \/ EndEscaped

-------------------------------------------------------------------------------
(* The builder's copies.                                                   *)
BuilderCreation    == CreationStep
BuilderPublication == PublicationStep
BuilderCleanup     == Locate \/ Recheck
BuilderClear       == ClearContents
BuilderUnlink      == UnlinkStep
HandleFailure      == Handle

SnapshotSources ==
  /\ step = "inputs"
  /\ \/ FillStage /\ step' = "before" /\ UNCHANGED <<crash, late>>
     \/ Raise("error") /\ UNCHANGED stageVars
  /\ UNCHANGED <<execVars, tool, next, sound, rows, exit>>

(* require_workspace_members: nothing but the expected output is in the    *)
(* working directory.                                                      *)
WorkspaceClean == "workspace" \in sound

BeforeCompile ==
  /\ step = "before" /\ next <= Len(Builds)
  /\ IF WorkspaceClean THEN /\ step' = "executing" /\ px' = "launch"
                            /\ UNCHANGED <<crash, late>>
                       ELSE Raise("error") /\ UNCHANGED px
  /\ UNCHANGED <<stageVars, treeVars, interrupted, run, outcome, tool, next, sound, rows, exit>>

(* Exit status zero, and for a target an output of an allowed size whose   *)
(* ELF facts are those its profiles expect, moved to targets/.             *)
AfterCompile ==
  /\ step = "executing" /\ px = "recorded"
  /\ EndExecution(FALSE)
  /\ \/ Raise("error") /\ UNCHANGED <<next, rows>>
     \/ /\ WorkspaceClean /\ outcome = "success"
        /\ step' = "before" /\ next' = next + 1 /\ UNCHANGED <<crash, late>>
        /\ rows' = IF Builds[next] = "metadata" THEN rows
                   ELSE Append(rows, [ok |-> TRUE, primary |-> TRUE,
                                      whole |-> ended = "zero" /\ excess = {}])
  /\ UNCHANGED <<stageVars, interrupted, tool, sound, exit>>

(* The target count is the matrix product; tools, specification, source,   *)
(* license, builder and everything retained are read again, the member set *)
(* is exact; then metadata, checksums, fsync and publication.              *)
FinishCorpus ==
  /\ step = "before" /\ next > Len(Builds)
  /\ \/ Raise("error") /\ UNCHANGED stageVars
     \/ /\ sound = Retained
        /\ BeginPublish /\ step' = "publishing" /\ UNCHANGED <<crash, late>>
  /\ UNCHANGED <<execVars, tool, next, sound, rows, exit>>

(* verify_corpus reads the published name, not the stage.                  *)
VerifyPublished ==
  /\ step = "return"
  /\ \/ Is("final", "owned") /\ step' = "leaving" /\ UNCHANGED <<crash, late>>
     \/ ~Is("final", "owned") /\ Raise("error")
  /\ UNCHANGED <<stageVars, execVars, tool, next, sound, rows, exit>>

LeaveBuilder ==
  /\ step = "leaving" /\ step' = "done"
  /\ exit' = IF crash # "none" THEN crash ELSE "ok"
  /\ UNCHANGED <<stageVars, execVars, tool, next, sound, rows, crash, late>>

BuilderStageStep ==
  /\ \/ step = "creating" /\ BuilderCreation
     \/ step = "publishing" /\ BuilderPublication
     \/ step = "cleaning" /\ (BuilderClear \/ BuilderCleanup)
     \/ step \in Masked /\ BuilderUnlink
  /\ UNCHANGED <<execVars, campVars>>

BuilderSteps ==
  /\ tool = "builder"
  /\ \/ SnapshotSources \/ BeforeCompile \/ AfterCompile \/ FinishCorpus \/ VerifyPublished
     \/ HandleFailure \/ LeaveBuilder \/ BuilderStageStep
     \/ step = "executing" /\ CompilerStep /\ UNCHANGED <<stageVars, campVars>>
===============================================================================
