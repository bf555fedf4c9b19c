------------------------------- MODULE Campaigns -------------------------------
(***************************************************************************)
(* The two programs that publish an owned stage after running commands in  *)
(* it, under everything that can happen around them: other processes at    *)
(* the names of the staging parent, what their commands do, and one signal.*)
(***************************************************************************)
EXTENDS DiagnosticRunner, CorpusBuilder

RunnerStageStep ==
  /\ \/ step = "creating" /\ CreationStep
     \/ step = "publishing" /\ PublicationStep
     \/ step = "cleaning" /\ CleanupStep
     \/ step \in Masked /\ UnlinkStep
  /\ UNCHANGED <<execVars, campVars>>

SharedStep == Start \/ Created \/ CommandRaised \/ Published \/ Cleaned

ProgramStep ==
  \/ SharedStep
  \/ RunnerSteps
  \/ tool = "runner" /\ (Handle \/ RunnerStageStep)
  \/ BuilderSteps

Finishing == next > Len(IF tool = "runner" THEN Plan ELSE Builds)

WorldStep ==
  \/ World /\ UNCHANGED <<stageVars, px, interrupted, run, outcome, campVars>>
  \/ Exposed(Finishing) /\ Outside /\ UNCHANGED <<execVars, campVars>>
  \/ /\ step = "executing"
     /\ IF tool = "runner" THEN SignalInExecution ELSE SignalInCommand
     /\ UNCHANGED <<stageVars, campVars>>
  \/ SignalOutside
  \/ Tamper

Done == step = "done" /\ UNCHANGED allVars

CampaignNext == ProgramStep \/ WorldStep \/ Done

(* The program keeps running, and the kernel ends what was killed.         *)
CampaignSpec ==
  /\ CampaignInit /\ [][CampaignNext]_allVars
  /\ WF_allVars(ProgramStep)
  /\ WF_allVars(DoomedExit /\ UNCHANGED <<stageVars, px, interrupted, run, outcome, campVars>>)

-------------------------------------------------------------------------------
(* What a committed tree holds is never removed again, by whatever failure *)
(* or signal follows, and was unchanged since it was measured, with no     *)
(* command left alive to change it.                                        *)
CommittedTreeStands ==
  committed => /\ place["owned"] # "removed" /\ "owned" \in full
               /\ sound = Retained /\ Alive = {}

(* Without a commit the stage is gone at the end, and so is the            *)
(* placeholder if nobody else moved things, unless the failure to remove   *)
(* them was reported or the signal came in the handler's open window.      *)
NothingLeftBehind ==
  (step = "done" /\ ~committed /\ ~late /\ at \notin {"stuck", "uncreated"}) =>
    /\ place["owned"] \in {None, "removed"}
    /\ moves = 0 => place["holder"] \in {None, "removed"}

(* The claim of docs/adr/0043: "Failure paths cannot silently retain       *)
(* staging state."                                                         *)
NoSilentResidue ==
  (step = "done" /\ ~committed /\ exit = "interrupt") => place["owned"] \in {None, "removed"}

(* What other processes put in the way is never deleted: the one directory *)
(* removed besides the stage is the one recorded as the placeholder.       *)
ForeignPreserved == \A f \in Foreign : place[f] = "removed" => hid = f

(* A command that failed leaves no process behind, in its group or escaped *)
(* from it, as long as no signal cuts its cleanup short.                   *)
NothingSurvives == (px = "raised" /\ ~interrupted /\ ~slow) => Alive = {}

(* A row of the primary summary is a command that ended by itself with     *)
(* status zero and whose captures are complete.                            *)
PrimaryRowsWhole == \A i \in 1 .. Len(rows) : rows[i].primary => rows[i].whole

(* Every campaign and every build comes to an end, whatever its commands   *)
(* do, on a kernel that ends killed processes in time.                     *)
AlwaysFinishes == slow \/ <>(step = "done")

-------------------------------------------------------------------------------
(* The commands of one campaign and of one build, for the runs.            *)
MCPlan   == <<"probe", "measured">>
MCBuilds == <<"metadata", "compile">>
===============================================================================
