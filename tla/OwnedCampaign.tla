---------------------------- MODULE OwnedCampaign ----------------------------
(***************************************************************************)
(* What run_campaign of diagnostic-runner.py and build_corpus of           *)
(* build-provisional-corpus.py have in common: an owned stage, a list of   *)
(* supervised commands run inside it, the publication or the removal of    *)
(* the tree, with one of SIGINT and SIGTERM at any point.  The commands,   *)
(* and whatever escapes from them, run as the same user: while one lives   *)
(* it may change what the stage retains.                                   *)
(***************************************************************************)
EXTENDS OwnedStage, ProcessTree, Sequences

VARIABLES tool,        \* which of the two programs runs: "runner", "builder"
          step,        \* where run_campaign or build_corpus is
          next,        \* the command to run
          sound,       \* what the stage retains and still matches its record
          rows,        \* the result rows, the target records
          crash,       \* the exception in flight: "none", "error", "interrupt"
          late,        \* a signal arrived in the handler of another failure
          exit         \* the process's answer

campVars == <<tool, step, next, sound, rows, crash, late, exit>>
allVars  == <<stageVars, execVars, campVars>>

(* The captures stand for everything checked only at the end, the          *)
(* workspace is the builder's shared working directory.                    *)
Retained == {"inputs", "captures"} \cup (IF tool = "builder" THEN {"workspace"} ELSE {})
Masked   == {"creating", "publishing", "cleaning"}

CampaignInit ==
  /\ StageInit /\ TreeInit
  /\ tool \in {"runner", "builder"}
  /\ step = "start" /\ next = 1 /\ sound = Retained /\ rows = <<>>
  /\ crash = "none" /\ late = FALSE /\ exit = "none"

Raise(why) == step' = "handler" /\ crash' = why /\ UNCHANGED late

(* The final name must be free; the stage is created with signals blocked. *)
Start ==
  /\ step = "start"
  /\ \/ Named("final") = {} /\ step' = "creating" /\ UNCHANGED exit
     \/ Named("final") # {} /\ step' = "done" /\ exit' = "error"
  /\ UNCHANGED <<stageVars, execVars, tool, next, sound, rows, crash, late>>

(* A stage that was never registered leaves nothing to clean up.           *)
Created ==
  /\ step = "creating" /\ at \in {"held", "uncreated"}
  /\ IF at = "held" THEN IF interrupted THEN Raise("interrupt") ELSE step' = "inputs" /\ UNCHANGED <<crash, late>>
                    ELSE step' = "leaving" /\ crash' = "error" /\ UNCHANGED late
  /\ UNCHANGED <<stageVars, execVars, tool, next, sound, rows, exit>>

(* The locals of the supervisor go with it, and so does the command: what *)
(* survives a failed one is of no further account to the campaign.         *)
EndExecution(failed) ==
  /\ px' = "idle" /\ run' = NewRun /\ outcome' = "none"
  /\ main' = "none" /\ ended' = "none" /\ excess' = {} /\ stubborn' = {} /\ UNCHANGED slow
  /\ IF failed THEN kin' = {} /\ doomed' = {} ELSE UNCHANGED <<kin, doomed>>

CommandRaised ==
  /\ step = "executing" /\ px = "raised"
  /\ EndExecution(TRUE)
  /\ Raise("error") \/ (interrupted /\ Raise("interrupt"))
  /\ UNCHANGED <<stageVars, interrupted, tool, next, sound, rows, exit>>

Published ==
  /\ step = "publishing" /\ at \in {"published", "raised"}
  /\ IF at = "published" THEN step' = "return" /\ UNCHANGED <<crash, late>> ELSE Raise("error")
  /\ UNCHANGED <<stageVars, execVars, tool, next, sound, rows, exit>>

(* The exception handler: a committed tree is kept, and an interruption    *)
(* after the commit reports it; anything else is cleaned up.               *)
HandleAlways ==                     \* a defect: a committed tree is cleaned up too
  /\ step = "handler" /\ BeginCleanup /\ step' = "cleaning"
  /\ UNCHANGED <<execVars, tool, next, sound, rows, crash, late, exit>>

Handle ==
  /\ step = "handler"
  /\ \/ /\ committed /\ step' = "leaving"
        /\ crash' = IF crash = "interrupt" THEN "none" ELSE crash
        /\ UNCHANGED stageVars
     \/ ~committed /\ BeginCleanup /\ step' = "cleaning" /\ UNCHANGED crash
  /\ UNCHANGED <<execVars, tool, next, sound, rows, late, exit>>

Cleaned ==
  /\ step = "cleaning" /\ at \in {"cleaned", "stuck"}
  /\ step' = "leaving"
  /\ crash' = IF at = "stuck" THEN "error" ELSE crash
  /\ UNCHANGED <<stageVars, execVars, tool, next, sound, rows, late, exit>>

(* signal_handler outside an execution.  Blocked or deferred, the signal   *)
(* is only recorded; in the handler of another failure, before cleanup     *)
(* blocks it, it replaces that failure, and cleanup with it or, inside     *)
(* the inner try, makes cleanup fail; on the way out it only changes the   *)
(* exit status.                                                            *)
SignalOutside ==
  /\ ~interrupted /\ step \notin {"executing", "done"}
  /\ interrupted' = TRUE
  /\ \/ step \in Masked /\ UNCHANGED <<stageVars, step, crash, late>>
     \/ step \in {"start", "leaving"} /\ step' = "leaving" /\ crash' = "interrupt" /\ UNCHANGED <<stageVars, late>>
     \/ step \in {"inputs", "before", "return"} /\ Raise("interrupt") /\ UNCHANGED stageVars
     \/ /\ step = "handler" /\ late' = TRUE /\ step' = "leaving"
        /\ \/ crash' = "interrupt" /\ UNCHANGED stageVars
           \/ /\ ~committed /\ crash' = "error" /\ at' = "stuck"
              /\ UNCHANGED <<place, full, hid, rm, spot, tries, committed, moves>>
  /\ UNCHANGED <<treeVars, px, run, outcome, tool, next, sound, rows, exit>>

(* A live command of this campaign changes something the stage retains.    *)
Tamper ==
  /\ Alive # {}
  /\ \E r \in sound : sound' = sound \ {r}
  /\ UNCHANGED <<stageVars, execVars, tool, step, next, rows, crash, late, exit>>

(* Names matter while the stage is published or removed: a rename during   *)
(* the commands is no different from one just before publication.          *)
Exposed(finishing) == \/ step \in {"publishing", "cleaning", "handler"}
                      \/ step = "creating" /\ at \in {"partial", "unlinking"}
                      \/ step = "before" /\ finishing
===============================================================================
