--------------------------- MODULE DiagnosticRunner ---------------------------
(***************************************************************************)
(* run_campaign of diagnostic-runner.py: the snapshots of the inputs and   *)
(* the measured commands, whose snapshots are checked before and after     *)
(* each, and the late checks of everything retained.                       *)
(***************************************************************************)
EXTENDS OwnedCampaign

CONSTANT Plan          \* the commands: "version", "probe", "warmup", "measured"

ASSUME PlanAssumption == Plan \in Seq({"version", "probe", "warmup", "measured"})

-------------------------------------------------------------------------------
(* execute_process of diagnostic-runner.py: one measured command from the  *)
(* capture directory to its recorded outcome, under a time limit, a limit  *)
(* on each captured pipe, descendants that outlive it and a signal to the  *)
(* runner at any point.  The deadlines are the choices of when TimeUp,     *)
(* KillLate and GiveUp happen; how long they take is not modelled.         *)
Loop    == {"loop", "sweepGroup", "sweepAdopted"}
Handler == {"emergency", "reap", "groupLast", "adoptedLast"}

(* The capture and work directories are made exclusively; an object there, *)
(* or a child the runner does not know, ends the execution before it       *)
(* begins and removes the partial capture directory.                       *)
Prepare ==
  /\ \/ Alive = {} /\ Step("prepare", "spawn")
     \/ Step("prepare", "raised")
  /\ run' = NewRun
  /\ UNCHANGED <<treeVars, interrupted, outcome>>

(* Popen inside the spawn window, then the check for a signal the window   *)
(* deferred.                                                               *)
Spawn ==
  /\ \/ Step("spawn", "spawned") /\ Starts
     \/ Step("spawn", "raised") /\ UNCHANGED treeVars
  /\ UNCHANGED <<interrupted, run, outcome>>

Spawned ==
  /\ Step("spawned", IF interrupted THEN "emergency" ELSE "loop")
  /\ UNCHANGED <<treeVars, interrupted, run, outcome>>

-------------------------------------------------------------------------------
(* The capture loop: wait4, the three deadlines, the readable pipes, and   *)
(* the sweep of what the command left behind once its status is known.     *)
Reap ==
  /\ px = "loop" /\ run.status = "none" /\ main = "zombie"
  /\ run' = [run EXCEPT !.status = ended] /\ main' = "reaped"
  /\ UNCHANGED <<worldVars, doomed, px, interrupted, outcome>>

TimeUp ==
  /\ px = "loop" /\ run.status = "none" /\ run.reason = "none"
  /\ run' = [run EXCEPT !.reason = "timeout", !.timer = "term"]
  /\ doomed' = Terminate(Group)
  /\ UNCHANGED <<worldVars, main, px, interrupted, outcome>>

TerminateLate ==                    \* a defect: SIGTERM again
  /\ px = "loop" /\ run.status = "none" /\ run.timer = "term"
  /\ run' = [run EXCEPT !.timer = "kill"]
  /\ doomed' = Terminate(Group)
  /\ UNCHANGED <<worldVars, main, px, interrupted, outcome>>

KillLate ==
  /\ px = "loop" /\ run.status = "none" /\ run.timer = "term"
  /\ run' = [run EXCEPT !.timer = "kill"]
  /\ doomed' = Kill(Group)
  /\ UNCHANGED <<worldVars, main, px, interrupted, outcome>>

GiveUp ==
  /\ run.status = "none" /\ run.timer = "kill" /\ slow
  /\ Step("loop", "emergency")
  /\ UNCHANGED <<treeVars, interrupted, run, outcome>>

ReadTooMuch ==
  /\ px = "loop"
  /\ \E s \in excess \ run.over :
       \/ /\ run.reason = "none"
          /\ run' = [run EXCEPT !.over = @ \cup {s}, !.reason = "output_limit", !.timer = "term"]
          /\ doomed' = Terminate(Group)
       \/ /\ run.reason # "none"
          /\ run' = [run EXCEPT !.over = @ \cup {s}] /\ UNCHANGED doomed
  /\ UNCHANGED <<worldVars, main, px, interrupted, outcome>>

(* cleanup_process_group, then cleanup_adopted_descendants; a descendant   *)
(* that will not die is an error.                                          *)
BeginSweep ==
  /\ run.status # "none" /\ ~run.swept
  /\ Step("loop", "sweepGroup")
  /\ run' = [run EXCEPT !.required = ("group" \in kin)]
  /\ UNCHANGED <<treeVars, interrupted, outcome>>

SweepGroup ==
  /\ \/ KillAgain({"group"}) /\ Step("sweepGroup", "sweepGroup") /\ UNCHANGED run
     \/ /\ Gone({"group"}) /\ Step("sweepGroup", "sweepAdopted")
        /\ run' = [run EXCEPT !.required = @ \/ kin # {}] /\ UNCHANGED doomed
     \/ GivenUp({"group"}) /\ Step("sweepGroup", "emergency") /\ UNCHANGED <<run, doomed>>
  /\ UNCHANGED <<worldVars, main, interrupted, outcome>>

SweepAdopted ==
  /\ \/ KillAgain(kin) /\ Step("sweepAdopted", "sweepAdopted") /\ UNCHANGED run
     \/ /\ Gone(kin) /\ Step("sweepAdopted", "loop")
        /\ run' = [run EXCEPT !.swept = TRUE] /\ UNCHANGED doomed
     \/ GivenUp(kin) /\ Step("sweepAdopted", "emergency") /\ UNCHANGED <<run, doomed>>
  /\ UNCHANGED <<worldVars, main, interrupted, outcome>>

(* Both pipes at end of file and the status known: persist the captures    *)
(* and name the outcome, in the order of the code.                         *)
OutcomeOfStatus ==                  \* a defect: the limits are not an outcome
  CASE run.status = "signal"  -> "signal"
    [] run.status = "nonzero" -> "nonzero_exit"
    [] run.status = "zero"    -> IF run.required THEN "unexpected_descendants" ELSE "success"

Outcome ==
  CASE run.reason # "none" -> run.reason
    [] run.reason = "none" /\ run.status = "signal"  -> "signal"
    [] run.reason = "none" /\ run.status = "nonzero" -> "nonzero_exit"
    [] run.reason = "none" /\ run.status = "zero"    ->
         IF run.required THEN "unexpected_descendants" ELSE "success"

Record ==
  /\ run.status # "none" /\ run.swept /\ Alive = {} /\ excess \subseteq run.over
  /\ \/ Step("loop", "recorded") /\ outcome' = Outcome
     \/ Step("loop", "raised") /\ UNCHANGED outcome      \* a retained capture exists already
  /\ UNCHANGED <<treeVars, interrupted, run>>

-------------------------------------------------------------------------------
(* The exception path: kill the group, reap the main process for a while,  *)
(* then both cleanups with their errors swallowed.                         *)
Emergency ==
  /\ Step("emergency", "reap")
  /\ doomed' = Kill(Group)
  /\ UNCHANGED <<worldVars, main, interrupted, run, outcome>>

ReapMain ==
  /\ main # "running" \/ slow
  /\ Step("reap", "groupLast")
  /\ main' = IF main = "zombie" THEN "reaped" ELSE main
  /\ UNCHANGED <<worldVars, doomed, interrupted, run, outcome>>

GroupLast ==
  /\ \/ KillAgain(Group) /\ Step("groupLast", "groupLast")
     \/ (Gone(Group) \/ GivenUp(Group)) /\ Step("groupLast", "adoptedLast") /\ UNCHANGED doomed
  /\ UNCHANGED <<worldVars, main, interrupted, run, outcome>>

AdoptedLast ==
  /\ \/ main = "zombie" /\ main' = "reaped" /\ Step("adoptedLast", "adoptedLast") /\ UNCHANGED doomed
     \/ KillAgain(Adopted) /\ Step("adoptedLast", "adoptedLast") /\ UNCHANGED main
     \/ /\ main # "zombie" /\ (Alive = {} \/ GivenUp(Adopted))
        /\ Step("adoptedLast", "raised") /\ UNCHANGED <<main, doomed>>
  /\ UNCHANGED <<worldVars, interrupted, run, outcome>>

(* signal_handler inside an execution: the group is killed at once; in the *)
(* spawn window the signal is only recorded, in the loop it raises into    *)
(* the exception path, and in that path it either ends it or is swallowed  *)
(* with the error of the cleanup it interrupts.                            *)
SignalInExecution ==
  /\ ~interrupted /\ px \notin {"idle", "raised", "recorded"}
  /\ interrupted' = TRUE
  /\ doomed' = IF px \in {"prepare", "spawn"} THEN doomed ELSE Kill(Group)
  /\ px' = CASE px \in {"spawn", "spawned"} -> px
             [] px \in Loop                 -> "emergency"
             [] px = "groupLast"            -> "adoptedLast"
             [] px \in {"prepare", "emergency", "reap", "adoptedLast"} -> "raised"
  /\ UNCHANGED <<worldVars, main, run, outcome>>

RunnerStep == \/ Prepare \/ Spawn \/ Spawned \/ Reap \/ TimeUp \/ KillLate \/ GiveUp \/ ReadTooMuch
              \/ BeginSweep \/ SweepGroup \/ SweepAdopted \/ Record
              \/ Emergency \/ ReapMain \/ GroupLast \/ AdoptedLast

-------------------------------------------------------------------------------
(* Copies of the specification, the runner, the tools and the targets.     *)
SnapshotInputs ==
  /\ step = "inputs"
  /\ \/ FillStage /\ step' = "before" /\ UNCHANGED <<crash, late>>
     \/ Raise("error") /\ UNCHANGED stageVars
  /\ UNCHANGED <<execVars, tool, next, sound, rows, exit>>

(* require_campaign_snapshot_identities and the late reauthentication of   *)
(* every capture, output and version file.                                 *)
SnapshotsIntact == "inputs" \in sound
ArtifactsIntact == sound = Retained

(* require_snapshot_identity and require_execution_identity on both sides  *)
(* of execute_process: a changed snapshot ends the campaign.               *)
BeforeCommand ==
  /\ step = "before" /\ next <= Len(Plan)
  /\ IF SnapshotsIntact THEN /\ step' = "executing" /\ px' = "prepare"
                                /\ UNCHANGED <<crash, late>>
                           ELSE Raise("error") /\ UNCHANGED px
  /\ UNCHANGED <<stageVars, treeVars, interrupted, run, outcome, tool, next, sound, rows, exit>>

(* A version or probe command must succeed; the others become rows.  The   *)
(* row also notes, for the properties, what the command really did.        *)
Row(kind) ==
  LET slowEnough == {TRUE, FALSE}       \* above the timer floor
  IN \E above \in slowEnough :
       rows' = Append(rows, [ok      |-> outcome = "success",
                             primary |-> kind = "measured" /\ outcome = "success" /\ above,
                             whole   |-> ended = "zero" /\ excess = {}])

AfterCommand ==
  /\ step = "executing" /\ px = "recorded"
  /\ EndExecution(FALSE)
  /\ IF ~SnapshotsIntact \/ (Plan[next] \in {"version", "probe"} /\ outcome # "success")
       THEN Raise("error") /\ UNCHANGED <<next, rows>>
       ELSE /\ step' = "before" /\ next' = next + 1 /\ UNCHANGED <<crash, late>>
            /\ IF Plan[next] \in {"version", "probe"} THEN UNCHANGED rows ELSE Row(Plan[next])
  /\ UNCHANGED <<stageVars, interrupted, tool, sound, exit>>

(* After the last command every capture, snapshot and source is read again *)
(* and must match; then rows, manifest, fsync and publication.             *)
Finish ==
  /\ step = "before" /\ next > Len(Plan)
  /\ IF ArtifactsIntact
       THEN BeginPublish /\ step' = "publishing" /\ UNCHANGED <<crash, late>>
       ELSE Raise("error") /\ UNCHANGED stageVars
  /\ UNCHANGED <<execVars, tool, next, sound, rows, exit>>

Return ==
  /\ step = "return" /\ step' = "leaving"
  /\ UNCHANGED <<stageVars, execVars, tool, next, sound, rows, crash, late, exit>>

(* main: the exit status is that of the exception or, when the             *)
(* specification asks for it, of the failed rows.                          *)
Leave ==
  /\ step = "leaving" /\ step' = "done"
  /\ \/ crash # "none" /\ exit' = crash
     \/ crash = "none" /\ exit' = "ok"
     \/ crash = "none" /\ (\E i \in 1 .. Len(rows) : ~rows[i].ok) /\ exit' = "failedRows"
  /\ UNCHANGED <<stageVars, execVars, tool, next, sound, rows, crash, late>>

(* Copied, executed and reauthenticated by the runner.                     *)
RunnerSteps ==
  /\ tool = "runner"
  /\ \/ SnapshotInputs \/ BeforeCommand \/ AfterCommand \/ Finish \/ Return \/ Leave
     \/ step = "executing" /\ RunnerStep /\ UNCHANGED <<stageVars, campVars>>
===============================================================================
