--------------------------- MODULE CampaignProofs ---------------------------
(***************************************************************************)
(* Proofs about the two programs that publish an owned stage, for every    *)
(* list of commands, every set of foreign directories and pipes, and every *)
(* bound on what others do.                                                *)
(***************************************************************************)
EXTENDS Campaigns, TLAPS

-----------------------------------------------------------------------------
(* The stage: where its step can be, for each step of the campaign, and    *)
(* what a removal in progress was asked to remove.                         *)

Places == {None, "stage", "final", "aside", "quarantine", "removed"}

Unpublished == {"absent", "opening", "partial", "held", "reserve", "openHolder"}

Publishing == {"reserve", "openHolder", "exchange", "checkFinal", "checkHolder", "rollback",
               "dropHolder", "keepOwned", "sync", "recover", "recommit", "recoverExchange",
               "recoverDrop", "published", "raised", "unlinking"}

StageTyped ==
  /\ place \in [Objects -> Places]
  /\ full \subseteq Objects
  /\ hid \in Objects \cup {None}
  /\ rm.grabbed \in Objects \cup {None}
  /\ committed \in BOOLEAN /\ moves \in Nat

\* at follows step.
StageFollows ==
  /\ step = "start" => at = "absent"
  /\ step = "creating" => at \in {"absent", "opening", "held", "partial", "uncreated", "unlinking"}
  /\ step \in {"inputs", "before", "executing"} => at = "held"
  /\ step = "publishing" => at \in Publishing
  /\ step = "return" => at = "published"
  /\ step = "handler" => at \in {"held", "raised", "published"}
  /\ step = "cleaning" => at \in {"clear", "locate", "recheck", "unlinking", "cleaned", "stuck"}
  /\ step \in {"leaving", "done"} => \/ committed \/ late
                                     \/ at \in {"absent", "uncreated", "cleaned", "stuck"}
  /\ step \in {"leaving", "done"} => at # "unlinking"

Removal ==
  /\ at # "unlinking" => rm = NoCall
  /\ at = "unlinking" =>
       /\ rm.from \in {"stage", "final", "aside", "quarantine"}
       /\ step = "creating" => rm.id = "owned" /\ rm.ok = "uncreated"
                               /\ rm.bad = "uncreated" /\ rm.gone = "uncreated"
       /\ step = "cleaning" => rm.id = "owned" /\ rm.ok = "cleaned" /\ rm.bad = "stuck"
                               /\ rm.gone = "locate"
       /\ step = "publishing" => /\ rm.id = hid /\ rm.ok \in {"sync", "raised", "recommit"}
                                 /\ rm.bad \in {"recover", "raised"} /\ rm.gone = rm.bad
       /\ rm.grabbed # None => place[rm.grabbed] = "quarantine"

HolderUnknown == at \in Unpublished => hid = None

OwnedPlace ==
  /\ at = "absent" <=> place["owned"] = None
  /\ place["owned"] = "removed" => at \in {"cleaned", "uncreated"}
  /\ at = "cleaned" => place["owned"] = "removed"
  /\ spot = "removed" \/ spot = None => at # "recheck"

Committed ==
  /\ committed => /\ at \in {"published", "raised"}
                  /\ step \in {"publishing", "return", "handler", "leaving", "done"}
  /\ at = "published" => committed

StageInv == /\ StageTyped /\ StageFollows /\ Removal /\ HolderUnknown /\ OwnedPlace /\ Committed
            /\ ForeignPreserved

\* Nobody else at work, publication goes as planned and the placeholder with it.
HolderAway == place["holder"] \in {None, "removed"}

Undisturbed == moves = 0 =>
  /\ full \subseteq {"owned"}
  /\ \A f \in Foreign : place[f] = None
  /\ at \notin {"rollback", "dropHolder", "keepOwned", "recover", "recommit", "recoverExchange",
                "recoverDrop"}
  /\ at \in {"opening", "partial", "held", "reserve"} => place["owned"] = "stage"
  /\ at \in {"openHolder", "exchange"} => place["owned"] = "stage" /\ place["holder"] = "final"
  /\ at = "exchange" => hid = "holder"
  /\ at \in {"checkFinal", "checkHolder"} =>
        place["owned"] = "final" /\ place["holder"] = "stage" /\ hid = "holder"
  /\ at = "unlinking" /\ step = "publishing" =>
        /\ rm.id = "holder" /\ rm.from = "stage" /\ rm.ok = "sync"
        /\ place["holder"] = IF rm.grabbed = None THEN "stage" ELSE "quarantine"
        /\ rm.grabbed \in {None, "holder"}
        /\ place["owned"] = "final"
  /\ at \notin {"openHolder", "exchange", "checkFinal", "checkHolder"}
     /\ ~(at = "unlinking" /\ step = "publishing")
        => HolderAway

-----------------------------------------------------------------------------
(* The command: what its supervisor knows of it.                           *)

Registers == [status : {"none", "zero", "nonzero", "signal"}, reason : {"none", "timeout", "output_limit"},
              timer : {"off", "term", "kill"}, over : SUBSET Streams, swept : BOOLEAN, required : BOOLEAN,
              pass : 0 .. 2]

TargetRows == [ok : BOOLEAN, primary : BOOLEAN, whole : BOOLEAN]

TreeTyped ==
  /\ main \in {"none", "running", "zombie", "reaped"}
  /\ ended \in {"none", "zero", "nonzero", "signal"}
  /\ kin \subseteq Kin
  /\ run \in Registers
  /\ excess \subseteq Streams
  /\ rows \in Seq(TargetRows)

NoCommand == main = "none" /\ kin = {}

BeforeSpawn == {"idle", "prepare", "spawn", "launch", "fork"}

\* Nothing lives outside an execution, nor before its process is started.
Quiet ==
  /\ step # "executing" => px = "idle"
  /\ px \in BeforeSpawn => NoCommand

RunKnows ==
  /\ px \in BeforeSpawn \cup {"spawned", "forked"} => run.status = "none"
  /\ run.status # "none" => main = "reaped" /\ run.status = ended
  /\ run.reason = "none" => run.over = {}
  /\ px \in {"sweepGroup", "sweepAdopted"} => run.status # "none"
  /\ px \in {"sweep", "sweepEscaped", "endGroup", "endEscaped"} => main = "reaped"
  /\ main = "zombie" => ended # "none"

Supervised == tool = "runner" => px \in {"idle", "prepare", "spawn", "spawned", "recorded", "raised"}
                                        \cup Loop \cup Handler

CommandEnded ==
  px = "recorded" =>
    /\ Alive = {} /\ main = "reaped"
    /\ outcome = "success" => ended = "zero" /\ excess = {}

TreeInv == TreeTyped /\ Quiet /\ RunKnows /\ Supervised /\ CommandEnded /\ NothingSurvives /\ PrimaryRowsWhole

\* What is published was complete and unchanged when publication began.
Sealed ==
  /\ step \in {"before", "executing"} => "owned" \in full
  /\ step \in {"publishing", "return"} \/ committed => "owned" \in full /\ sound = Retained
  /\ sound \subseteq Retained

CInv == StageInv /\ Undisturbed /\ TreeInv /\ Sealed

-----------------------------------------------------------------------------
(* The steps of the stage.                                                 *)

SInv == StageInv /\ Sealed

LEMMA CampaignSame ==
    ASSUME UNCHANGED <<execVars, campVars>>
    PROVE  /\ UNCHANGED <<tool, step, next, sound, rows, crash, late, exit>>
           /\ UNCHANGED <<main, doomed, ended, kin, stubborn, excess, slow, px, interrupted, run, outcome>>
           /\ Retained' = Retained
  BY DEF execVars, campVars, treeVars, worldVars, Retained

LEMMA CreationKeeps ==
    ASSUME SInv, step = "creating", CreationStep, UNCHANGED <<execVars, campVars>>
    PROVE  SInv'
  <1> USE CampaignSame, ForeignAssumption
      DEF SInv, StageInv, StageTyped, StageFollows, Removal, HolderUnknown, OwnedPlace, Committed,
          ForeignPreserved, Sealed, Places, Objects, None, Publishing, Unpublished, NoCall, Go
  <1>1. CASE CreateStage
    BY <1>1 DEF CreateStage
  <1>2. CASE OpenStage
    BY <1>2 DEF OpenStage
  <1>3. CASE DropPartialStage
    BY <1>3 DEF DropPartialStage, Unlink
  <1> QED BY <1>1, <1>2, <1>3 DEF CreationStep

LEMMA PublicationKeeps ==
    ASSUME SInv, step = "publishing", PublicationStep, UNCHANGED <<execVars, campVars>>
    PROVE  SInv'
  <1> USE CampaignSame, ForeignAssumption
      DEF SInv, StageInv, StageTyped, StageFollows, Removal, HolderUnknown, OwnedPlace, Committed,
          ForeignPreserved, Sealed, Places, Objects, None, Publishing, Unpublished, NoCall, Go
  <1>1. CASE ReserveFinal
    BY <1>1 DEF ReserveFinal, Named
  <1>2. CASE OpenHolder
    BY <1>2 DEF OpenHolder, Named
  <1>3. CASE ExchangeIntoPlace
    BY <1>3 DEF ExchangeIntoPlace, Exchange, Swap
  <1>4. CASE RollBack
    BY <1>4 DEF RollBack, Exchange, Swap
  <1>5. CASE ExchangeRecovered
    BY <1>5 DEF ExchangeRecovered, Exchange, Swap
  <1>6. CASE CheckFinal
    BY <1>6 DEF CheckFinal
  <1>7. CASE CheckHolder
    BY <1>7 DEF CheckHolder, RemoveHolder, Unlink
  <1>8. CASE DropHolder
    BY <1>8 DEF DropHolder, RemoveHolder, Unlink
  <1>9. CASE KeepOwned
    BY <1>9 DEF KeepOwned, RemoveHolder, Unlink
  <1>10. CASE RecoverHolder
    BY <1>10 DEF RecoverHolder, RemoveHolder, Unlink
  <1>11. CASE SyncAndCommit
    BY <1>11 DEF SyncAndCommit
  <1>12. CASE RecoverPublication
    BY <1>12 DEF RecoverPublication
  <1>13. CASE RecommitRecovered
    BY <1>13 DEF RecommitRecovered
  <1> QED BY <1>1, <1>2, <1>3, <1>4, <1>5, <1>6, <1>7, <1>8, <1>9, <1>10, <1>11, <1>12,
             <1>13 DEF PublicationStep

LEMMA CleanupKeeps ==
    ASSUME SInv, step = "cleaning", CleanupStep, UNCHANGED <<execVars, campVars>>
    PROVE  SInv'
  <1> USE CampaignSame, ForeignAssumption
      DEF SInv, StageInv, StageTyped, StageFollows, Removal, HolderUnknown, OwnedPlace, Committed,
          ForeignPreserved, Sealed, Places, Objects, None, Publishing, Unpublished, NoCall, Go
  <1>1. CASE ClearContents
    BY <1>1 DEF ClearContents
  <1>2. CASE Locate
    BY <1>2 DEF Locate
  <1>3. CASE Recheck
    BY <1>3 DEF Recheck, Unlink, Is, Named
  <1> QED BY <1>1, <1>2, <1>3 DEF CleanupStep

LEMMA UnlinkKeeps ==
    ASSUME SInv, step \in Masked, UnlinkStep, UNCHANGED <<execVars, campVars>>
    PROVE  SInv'
  <1> USE CampaignSame, ForeignAssumption
      DEF SInv, StageInv, StageTyped, StageFollows, Removal, HolderUnknown, OwnedPlace, Committed,
          ForeignPreserved, Sealed, Places, Objects, None, Publishing, Unpublished, NoCall, Go
  <1>1. CASE Quarantine
    <2>1. CASE at' = rm.gone /\ rm' = NoCall /\ UNCHANGED <<place, full, hid, spot, tries, committed, moves>>
      BY <1>1, <2>1 DEF Quarantine, Masked
    <2>2. CASE \E o \in Objects : /\ place' = [place EXCEPT ![o] = "quarantine"]
                                  /\ rm' = [rm EXCEPT !.grabbed = o] /\ at' = at /\ place[o] = rm.from
                                  /\ UNCHANGED <<full, hid, spot, tries, committed, moves>>
      <3>1. PICK o \in Objects : /\ place' = [place EXCEPT ![o] = "quarantine"]
                                 /\ rm' = [rm EXCEPT !.grabbed = o] /\ at' = at /\ place[o] = rm.from
        BY <2>2
      <3> QED BY <1>1, <2>2, <3>1 DEF Quarantine, Masked
    <2> QED BY <1>1, <2>1, <2>2 DEF Quarantine, Entry, Named
  <1>2. CASE RemoveQuarantined
    BY <1>2 DEF RemoveQuarantined, Named, Masked
  <1> QED BY <1>1, <1>2 DEF UnlinkStep

\* Others move what is under a public name, and never remove.
LEMMA OutsideKeeps ==
    ASSUME SInv, Outside, UNCHANGED <<execVars, campVars>>
    PROVE  SInv'
  <1> USE CampaignSame, ForeignAssumption
      DEF SInv, StageInv, StageTyped, StageFollows, Removal, HolderUnknown, OwnedPlace, Committed,
          ForeignPreserved, Sealed, Places, Objects, None, Publishing, Unpublished, NoCall, Go
  <1> DEFINE moved(o) == \/ place'[o] = place[o]
                         \/ /\ place[o] \in {"stage", "final", "aside"}
                            /\ place'[o] \in {"stage", "final", "aside"}
                         \/ o \in Foreign /\ place[o] = None /\ place'[o] \in {"stage", "final"}
  <1>1. UNCHANGED <<at, hid, rm, spot, tries, committed>> /\ moves' \in Nat
    BY DEF Outside
  <1>2. CASE \E o \in Objects : \E n \in {"stage", "final", "aside"} :
               /\ place[o] \in {"stage", "final", "aside"} \ {n}
               /\ n = "aside" \/ Named(n) = {}
               /\ place' = [place EXCEPT ![o] = n] /\ UNCHANGED full
    <2>1. PICK o \in Objects, n \in {"stage", "final", "aside"} :
               /\ place[o] \in {"stage", "final", "aside"}
               /\ place' = [place EXCEPT ![o] = n] /\ UNCHANGED full
      BY <1>2
    <2>2. place' \in [Objects -> Places] /\ \A x \in Objects : moved(x)
      BY <2>1
    <2> QED BY <1>1, <2>1, <2>2
  <1>3. CASE \E f \in Foreign : \E n \in {"stage", "final"} :
               /\ place[f] = None /\ Named(n) = {}
               /\ place' = [place EXCEPT ![f] = n] /\ full' \in {full, full \cup {f}}
    <2>1. PICK f \in Foreign, n \in {"stage", "final"} :
               /\ place[f] = None
               /\ place' = [place EXCEPT ![f] = n] /\ full' \in {full, full \cup {f}}
      BY <1>3
    <2>2. place' \in [Objects -> Places] /\ \A x \in Objects : moved(x)
      BY <2>1
    <2>3. full' \subseteq Objects /\ full \subseteq full'
      BY <2>1
    <2>4. /\ place'["owned"] = place["owned"]
          /\ \A x \in Objects : place[x] = "quarantine" => place'[x] = "quarantine"
          /\ \A x \in Foreign : place'[x] = "removed" => place[x] = "removed"
      BY <2>1
    <2>5. StageTyped' /\ StageFollows' /\ HolderUnknown' /\ Committed'
      BY <1>1, <2>2, <2>3
    <2>6. Removal'
      BY <1>1, <2>4
    <2>7. OwnedPlace'
      BY <1>1, <2>4
    <2>8. ForeignPreserved'
      BY <1>1, <2>4
    <2>9. Sealed'
      BY <1>1, <2>3
    <2> QED BY <2>5, <2>6, <2>7, <2>8, <2>9
  <1>4. CASE \E o \in {"owned", "holder"} \ full :
               /\ place[o] \in {"stage", "final", "aside"}
               /\ full' = full \cup {o} /\ UNCHANGED place
    BY <1>1, <1>4
  <1> QED BY <1>2, <1>3, <1>4 DEF Outside

-----------------------------------------------------------------------------
(* The steps of the campaign, for the stage.                               *)

LEMMA OwnStepsKeep ==
    ASSUME SInv,
           \/ Start \/ Created \/ CommandRaised \/ Published \/ Cleaned \/ Handle \/ SnapshotInputs
           \/ BeforeCommand \/ AfterCommand
           \/ Finish \/ Return \/ Leave \/ SnapshotSources \/ BeforeCompile \/ AfterCompile
           \/ FinishCorpus \/ VerifyPublished \/ LeaveBuilder \/ SignalOutside
    PROVE  SInv'
  <1> USE ForeignAssumption
      DEF SInv, StageInv, StageTyped, StageFollows, Removal, HolderUnknown, OwnedPlace, Committed,
          ForeignPreserved, Sealed, Places, Objects, None, Publishing, Unpublished, NoCall, Go,
          Raise, Retained,
          stageVars, execVars, treeVars, worldVars
  <1>1. CASE Start
    BY <1>1 DEF Start, Named
  <1>2. CASE Created
    BY <1>2 DEF Created
  <1>3. CASE CommandRaised
    BY <1>3 DEF CommandRaised, EndExecution
  <1>4. CASE Published
    BY <1>4 DEF Published
  <1>5. CASE Cleaned
    BY <1>5 DEF Cleaned
  <1>6. CASE Handle
    <2>1. CASE committed /\ step' = "leaving" /\ UNCHANGED stageVars
      BY <1>6, <2>1 DEF Handle
    <2>2. CASE ~committed /\ BeginCleanup /\ step' = "cleaning"
      BY <1>6, <2>2 DEF Handle, BeginCleanup
    <2> QED BY <1>6, <2>1, <2>2 DEF Handle
  <1>7. CASE SnapshotInputs
    <2>1. CASE FillStage
      BY <1>7, <2>1 DEF SnapshotInputs, FillStage
    <2>2. CASE Raise("error") /\ UNCHANGED stageVars
      BY <1>7, <2>2 DEF SnapshotInputs
    <2> QED BY <1>7, <2>1, <2>2 DEF SnapshotInputs
  <1>8. CASE BeforeCommand
    BY <1>8 DEF BeforeCommand
  <1>9. CASE AfterCommand
    BY <1>9 DEF AfterCommand, EndExecution
  <1>10. CASE Finish
    BY <1>10 DEF Finish, BeginPublish, ArtifactsIntact, Is, Named
  <1>11. CASE Return
    BY <1>11 DEF Return
  <1>12. CASE Leave
    BY <1>12 DEF Leave
  <1>13. CASE SnapshotSources
    <2>1. CASE FillStage
      BY <1>13, <2>1 DEF SnapshotSources, FillStage
    <2>2. CASE Raise("error") /\ UNCHANGED stageVars
      BY <1>13, <2>2 DEF SnapshotSources
    <2> QED BY <1>13, <2>1, <2>2 DEF SnapshotSources
  <1>14. CASE BeforeCompile
    BY <1>14 DEF BeforeCompile
  <1>15. CASE AfterCompile
    BY <1>15 DEF AfterCompile, EndExecution
  <1>16. CASE FinishCorpus
    <2>1. CASE Raise("error") /\ UNCHANGED stageVars
      BY <1>16, <2>1 DEF FinishCorpus
    <2>2. CASE sound = Retained /\ BeginPublish /\ step' = "publishing" /\ UNCHANGED late
      BY <1>16, <2>2 DEF FinishCorpus, BeginPublish
    <2> QED BY <1>16, <2>1, <2>2 DEF FinishCorpus
  <1>17. CASE VerifyPublished
    BY <1>17 DEF VerifyPublished
  <1>18. CASE LeaveBuilder
    BY <1>18 DEF LeaveBuilder
  <1>19. CASE SignalOutside
    <2>1. UNCHANGED <<tool, sound>>
      BY <1>19 DEF SignalOutside
    <2>2. CASE step \in Masked /\ UNCHANGED <<stageVars, step, late>>
      BY <1>19, <2>1, <2>2 DEF SignalOutside, Masked
    <2>3. CASE step \in {"start", "leaving"} /\ step' = "leaving" /\ UNCHANGED <<stageVars, late>>
      BY <1>19, <2>1, <2>3 DEF SignalOutside, Masked
    <2>4. CASE step \in {"inputs", "before", "return"} /\ Raise("interrupt") /\ UNCHANGED stageVars
      BY <1>19, <2>1, <2>4 DEF SignalOutside, Masked
    <2>5. CASE step = "handler" /\ late' = TRUE /\ step' = "leaving" /\ UNCHANGED stageVars
      BY <1>19, <2>1, <2>5 DEF SignalOutside, Masked
    <2>6. CASE /\ step = "handler" /\ late' = TRUE /\ step' = "leaving" /\ ~committed /\ at' = "stuck"
               /\ UNCHANGED <<place, full, hid, rm, spot, tries, committed, moves>>
      BY <1>19, <2>1, <2>6 DEF SignalOutside, Masked
    <2> QED BY <1>19, <2>2, <2>3, <2>4, <2>5, <2>6 DEF SignalOutside
  <1> QED BY <1>1, <1>2, <1>3, <1>4, <1>5, <1>6, <1>7, <1>8, <1>9, <1>10, <1>11, <1>12, <1>13, <1>14,
             <1>15, <1>16, <1>17, <1>18, <1>19

-----------------------------------------------------------------------------
(* The steps of the supervisors and of the processes.                      *)

(* What a step does to the supervisor's locals.                            *)
Kept(fields) == /\ run' \in Registers
                /\ "status" \in fields => run'.status = run.status
                /\ "reason" \in fields => run'.reason = run.reason
                /\ "over" \in fields   => run'.over = run.over

LEMMA NewRegisters == /\ NewRun \in Registers /\ NewRun.status = "none"
                      /\ NewRun.reason = "none" /\ NewRun.over = {}
  BY DEF NewRun, Registers

LEMMA SameRegisters == TreeTyped /\ UNCHANGED run => Kept({"status", "reason", "over"})
  BY DEF Kept, TreeTyped

LEMMA PassCounted ==
    ASSUME TreeTyped, NEW p \in 1 .. 2, run' = [run EXCEPT !.pass = p]
    PROVE  Kept({"status", "reason", "over"})
  BY DEF Kept, TreeTyped, Registers

LEMMA RunnerTree ==
    ASSUME TreeInv, step = "executing", UNCHANGED campVars, RunnerStep
    PROVE  TreeInv'
  <1>t. TreeTyped /\ step' = step /\ rows' = rows /\ tool' = tool
    BY DEF TreeInv, campVars
  <1> USE <1>t, NewRegisters, SameRegisters
      DEF TreeInv, TreeTyped, Quiet, RunKnows, Supervised, CommandEnded, NothingSurvives,
          PrimaryRowsWhole, NoCommand,
          BeforeSpawn, Alive, treeVars, worldVars, Step, Kin, Group, Gone, GivenUp, KillAgain, Kept,
          Loop, Handler
  <1>1. CASE Prepare
    BY <1>1 DEF Prepare
  <1>2. CASE Spawn
    BY <1>2 DEF Spawn, Starts
  <1>3. CASE Spawned
    BY <1>3 DEF Spawned
  <1>4. CASE Reap
    <2>1. run' \in Registers /\ run'.status = ended /\ Kept({"reason", "over"})
      BY <1>4 DEF Reap, Registers
    <2> QED BY <1>4, <2>1 DEF Reap
  <1>5. CASE TimeUp
    <2>1. run'.reason = "timeout" /\ Kept({"status", "over"})
      BY <1>5 DEF TimeUp, Registers
    <2> QED BY <1>5, <2>1 DEF TimeUp
  <1>6. CASE KillLate
    <2>1. Kept({"status", "reason", "over"})
      BY <1>6 DEF KillLate, Registers
    <2> QED BY <1>6, <2>1 DEF KillLate
  <1>7. CASE GiveUp
    BY <1>7 DEF GiveUp
  <1>8. CASE ReadTooMuch
    <2>1. PICK s \in excess \ run.over :
             \/ run' = [run EXCEPT !.over = @ \cup {s}, !.reason = "output_limit", !.timer = "term"]
             \/ run.reason # "none" /\ run' = [run EXCEPT !.over = @ \cup {s}]
      BY <1>8 DEF ReadTooMuch
    <2>2. s \in Streams /\ run.over \cup {s} \in SUBSET Streams
      BY DEF Registers
    <2>3. run'.reason # "none" /\ Kept({"status"})
      BY <2>1, <2>2 DEF Registers
    <2> QED BY <1>8, <2>3 DEF ReadTooMuch
  <1>9. CASE BeginSweep
    <2> DEFINE members == ("group" \in kin)
    <2>a. members \in BOOLEAN /\ run' = [run EXCEPT !.required = members]
      BY <1>9 DEF BeginSweep
    <2> HIDE DEF members
    <2>1. Kept({"status", "reason", "over"})
      BY <2>a DEF Registers
    <2> QED BY <1>9, <2>1 DEF BeginSweep
  <1>10. CASE SweepGroup
    <2>1. Kept({"status", "reason", "over"})
      BY <1>10 DEF SweepGroup, Registers
    <2>2. px = "sweepGroup" /\ px' \in {"sweepGroup", "sweepAdopted", "emergency"}
      BY <1>10 DEF SweepGroup
    <2>3. UNCHANGED <<main, worldVars, interrupted, outcome>>
      BY <1>10 DEF SweepGroup
    <2> QED BY <2>1, <2>2, <2>3
  <1>11. CASE SweepAdopted
    <2>1. Kept({"status", "reason", "over"})
      BY <1>11 DEF SweepAdopted, Registers
    <2>2. px = "sweepAdopted" /\ px' \in {"sweepAdopted", "loop", "emergency"}
      BY <1>11 DEF SweepAdopted
    <2>3. UNCHANGED <<main, worldVars, interrupted, outcome>>
      BY <1>11 DEF SweepAdopted
    <2> QED BY <2>1, <2>2, <2>3
  <1>12. CASE Record
    <2>1. outcome' = "success" /\ px' = "recorded" => run.reason = "none" /\ ended = "zero" /\ excess = {}
      <3> SUFFICES ASSUME outcome' = "success", px' = "recorded"
                   PROVE  run.reason = "none" /\ ended = "zero" /\ excess = {}
        OBVIOUS
      <3>1. Outcome = "success"
        BY <1>12 DEF Record
      <3>2. run.reason \in {"none", "timeout", "output_limit"}
              /\ run.status \in {"none", "zero", "nonzero", "signal"}
        BY DEF Registers
      <3>3. run.reason = "none" /\ run.status = "zero"
        BY <1>12, <3>1, <3>2 DEF Outcome, Record
      <3> QED BY <1>12, <3>3 DEF Record
    <2>2. px = "loop" /\ px' \in {"recorded", "raised"} /\ main = "reaped" /\ Alive = {}
      BY <1>12 DEF Record
    <2>3. UNCHANGED <<treeVars, interrupted, run>>
      BY <1>12 DEF Record
    <2> QED BY <2>1, <2>2, <2>3
  <1>13. CASE Emergency
    BY <1>13 DEF Emergency
  <1>14. CASE ReapMain
    BY <1>14 DEF ReapMain
  <1>15. CASE GroupLast
    BY <1>15 DEF GroupLast
  <1>16. CASE AdoptedLast
    BY <1>16 DEF AdoptedLast
  <1> QED BY <1>1, <1>2, <1>3, <1>4, <1>5, <1>6, <1>7, <1>8, <1>9, <1>10, <1>11, <1>12, <1>13, <1>14,
             <1>15, <1>16 DEF RunnerStep

LEMMA CompilerTree ==
    ASSUME TreeInv, tool # "runner", step = "executing", UNCHANGED campVars, CompilerStep
    PROVE  TreeInv'
  <1>t. TreeTyped /\ step' = step /\ rows' = rows /\ tool' = tool
    BY DEF TreeInv, campVars
  <1> USE <1>t, NewRegisters, SameRegisters, PassCounted
      DEF TreeInv, TreeTyped, Quiet, RunKnows, Supervised, CommandEnded, NothingSurvives,
          PrimaryRowsWhole, NoCommand,
          BeforeSpawn, Alive, treeVars, worldVars, Step, Kin, Group, Gone, GivenUp, KillAgain, Kept,
          Terminate1, Terminate2, NextPass, RootGone
  <1>1. CASE Launch
    BY <1>1 DEF Launch
  <1>2. CASE SpawnCompiler
    BY <1>2 DEF SpawnCompiler, Starts
  <1>3. CASE CompilerSpawned
    <2>1. Kept({"status", "reason", "over"})
      BY <1>3 DEF CompilerSpawned
    <2> QED BY <1>3, <2>1 DEF CompilerSpawned
  <1>4. CASE SeeExit
    BY <1>4 DEF SeeExit
  <1>5. CASE SweepMembers
    <2>1. Kept({"status", "reason", "over"})
      BY <1>5 DEF SweepMembers, Sweep
    <2>2. px = "sweep" /\ px' \in {"sweep", "sweepEscaped", "terminate"}
      BY <1>5 DEF SweepMembers, Sweep
    <2>3. UNCHANGED <<main, worldVars, interrupted, outcome>>
      BY <1>5 DEF SweepMembers
    <2> QED BY <2>1, <2>2, <2>3
  <1>6. CASE SweepEscaped
    <2>1. Kept({"status", "reason", "over"})
      BY <1>6 DEF SweepEscaped, Sweep
    <2>2. px = "sweepEscaped" /\ px' \in {"sweepEscaped", "reading", "terminate"}
      BY <1>6 DEF SweepEscaped, Sweep
    <2>3. UNCHANGED <<main, worldVars, interrupted, outcome>>
      BY <1>6 DEF SweepEscaped
    <2> QED BY <2>1, <2>2, <2>3
  <1>7. CASE TimedOut
    <2>1. Kept({"status", "reason", "over"})
      BY <1>7 DEF TimedOut
    <2> QED BY <1>7, <2>1 DEF TimedOut
  <1>8. CASE OverLimit
    <2>1. Kept({"status", "reason", "over"})
      BY <1>8 DEF OverLimit
    <2> QED BY <1>8, <2>1 DEF OverLimit
  <1>9. CASE Captured
    BY <1>9 DEF Captured
  <1>10. CASE AskToEnd
    BY <1>10 DEF AskToEnd
  <1>11. CASE WaitForRoot
    BY <1>11 DEF WaitForRoot
  <1>12. CASE WaitForKilled
    <2>1. Kept({"status", "reason", "over"})
      BY <1>12 DEF WaitForKilled
    <2>2. UNCHANGED <<worldVars, interrupted, outcome>>
      BY <1>12 DEF WaitForKilled
    <2>3. CASE RootGone("killed")
      BY <2>1, <2>2, <2>3
    <2>4. CASE slow /\ px = "killed" /\ px' \in {"terminate", "raised"} /\ UNCHANGED main
      BY <2>1, <2>2, <2>4
    <2> QED BY <1>12, <2>3, <2>4 DEF WaitForKilled
  <1>13. CASE EndGroup
    <2>1. Kept({"status", "reason", "over"})
      BY <1>13 DEF EndGroup
    <2>2. UNCHANGED <<main, worldVars, interrupted, outcome>>
      BY <1>13 DEF EndGroup
    <2>3. px = "endGroup" /\ px' \in {"endGroup", "endEscaped", "terminate", "raised"}
          /\ (px' = "raised" => slow)
      BY <1>13 DEF EndGroup
    <2> QED BY <2>1, <2>2, <2>3
  <1>14. CASE EndEscaped
    <2>1. Kept({"status", "reason", "over"})
      BY <1>14 DEF EndEscaped
    <2>2. UNCHANGED <<main, worldVars, interrupted, outcome>>
      BY <1>14 DEF EndEscaped
    <2>3. px = "endEscaped" /\ px' \in {"endEscaped", "terminate", "raised"}
      BY <1>14 DEF EndEscaped
    <2>4. px' = "raised" => slow \/ Alive = {}
      BY <1>14 DEF EndEscaped
    <2> QED BY <2>1, <2>2, <2>3, <2>4
  <1> QED BY <1>1, <1>2, <1>3, <1>4, <1>5, <1>6, <1>7, <1>8, <1>9, <1>10, <1>11, <1>12, <1>13,
             <1>14 DEF CompilerStep

LEMMA WorldTree ==
    ASSUME TreeInv, World, UNCHANGED <<px, interrupted, run, outcome, campVars>>
    PROVE  TreeInv'
  <1> USE DEF TreeInv, TreeTyped, Quiet, RunKnows, Supervised, CommandEnded, NothingSurvives,
              PrimaryRowsWhole, NoCommand,
            BeforeSpawn, Alive, treeVars, worldVars, Step, campVars, Kin
  <1>1. CASE Exits
    BY <1>1 DEF Exits
  <1>2. CASE KinExits
    BY <1>2 DEF KinExits
  <1>3. CASE Forks
    BY <1>3 DEF Forks
  <1>4. CASE WritesTooMuch
    BY <1>4 DEF WritesTooMuch
  <1> QED BY <1>1, <1>2, <1>3, <1>4 DEF World

LEMMA SignalMoves ==
    /\ tool = "runner" /\ Supervised /\ SignalInExecution =>
         (px' = px /\ px \in {"spawn", "spawned"}) \/ px' \in {"emergency", "adoptedLast", "raised"}
    /\ SignalInCommand => px' = px \/ px' \in {"raised", "terminate"}
  <1>1. ASSUME tool = "runner", Supervised, SignalInExecution
        PROVE  (px' = px /\ px \in {"spawn", "spawned"}) \/ px' \in {"emergency", "adoptedLast", "raised"}
    BY <1>1 DEF SignalInExecution, Supervised, Loop, Handler
  <1>2. SignalInCommand => px' = px \/ px' \in {"raised", "terminate"}
    BY DEF SignalInCommand, Capturing, Terminating, Terminate2, Step
  <1> QED BY <1>1, <1>2

LEMMA SignalTree ==
    ASSUME TreeInv, step = "executing", UNCHANGED campVars,
           IF tool = "runner" THEN SignalInExecution ELSE SignalInCommand
    PROVE  TreeInv'
  <1>t. TreeTyped /\ step' = step /\ rows' = rows /\ tool' = tool
    BY DEF TreeInv, campVars
  <1> USE <1>t, SameRegisters, PassCounted
      DEF TreeInv, TreeTyped, Quiet, RunKnows, Supervised, CommandEnded, NothingSurvives,
          PrimaryRowsWhole, NoCommand,
          BeforeSpawn, Alive, treeVars, worldVars, Step, Kin, Kept, Terminate2, Loop, Handler
  <1>1. CASE tool = "runner" /\ SignalInExecution
    <2>1. Kept({"status", "reason", "over"}) /\ interrupted' = TRUE
      BY <1>1 DEF SignalInExecution
    <2>2. UNCHANGED <<worldVars, main, run, outcome>>
      BY <1>1 DEF SignalInExecution
    <2>3. (px' = px /\ px \in {"spawn", "spawned"}) \/ px' \in {"emergency", "adoptedLast", "raised"}
      BY <1>1, SignalMoves
    <2> QED BY <1>1, <2>1, <2>2, <2>3
  <1>2. CASE tool # "runner" /\ SignalInCommand
    <2>1. Kept({"status", "reason", "over"}) /\ interrupted' = TRUE
      BY <1>2 DEF SignalInCommand
    <2>2. UNCHANGED <<worldVars, main, outcome>>
      BY <1>2 DEF SignalInCommand
    <2>3. px' = px \/ px' \in {"raised", "terminate"}
      BY <1>2, SignalMoves
    <2> QED BY <1>2, <2>1, <2>2, <2>3
  <1> QED BY <1>1, <1>2

\* Outside an execution there is nothing to supervise.
LEMMA IdleTree ==
    ASSUME TreeInv, step # "executing", UNCHANGED <<execVars, rows, tool>>
    PROVE  TreeInv'
  <1> USE DEF TreeInv, TreeTyped, Quiet, RunKnows, Supervised, CommandEnded, NothingSurvives,
              PrimaryRowsWhole,
              NoCommand, BeforeSpawn, Alive, execVars, treeVars, worldVars
  <1>1. px = "idle" /\ px' = "idle"
    OBVIOUS
  <1> QED BY <1>1

LEMMA CommandTree ==
    ASSUME TreeInv, IF tool = "runner" THEN BeforeCommand ELSE BeforeCompile
    PROVE  TreeInv'
  <1> USE DEF TreeInv, TreeTyped, Quiet, RunKnows, Supervised, CommandEnded, NothingSurvives,
              PrimaryRowsWhole,
              NoCommand, BeforeSpawn, Alive, execVars, treeVars, worldVars
  <1>1. CASE tool = "runner" /\ BeforeCommand
    BY <1>1 DEF BeforeCommand, Raise
  <1>2. CASE tool # "runner" /\ BeforeCompile
    BY <1>2 DEF BeforeCompile, Raise
  <1> QED BY <1>1, <1>2

LEMMA RowAdded ==
    ASSUME rows \in Seq(TargetRows), PrimaryRowsWhole, NEW r \in TargetRows, r.primary => r.whole,
           rows' = Append(rows, r)
    PROVE  rows' \in Seq(TargetRows) /\ PrimaryRowsWhole'
  <1>1. rows' \in Seq(TargetRows) /\ Len(rows') = Len(rows) + 1
    OBVIOUS
  <1>2. \A i \in 1 .. Len(rows') : rows'[i] = IF i = Len(rows) + 1 THEN r ELSE rows[i]
    BY <1>1
  <1> QED BY <1>1, <1>2 DEF PrimaryRowsWhole

\* The command is over: what the campaign keeps of it is its row.
LEMMA EndedTree ==
    ASSUME TreeInv, step = "executing", UNCHANGED <<tool, interrupted>>,
           \/ EndExecution(TRUE)
           \/ EndExecution(FALSE) /\ px = "recorded",
           rows' \in Seq(TargetRows), PrimaryRowsWhole'
    PROVE  TreeInv'
  <1>1. px' = "idle" /\ main' = "none" /\ ended' = "none" /\ run' = NewRun /\ excess' = {} /\ kin' = {}
    BY DEF EndExecution, TreeInv, CommandEnded, Alive
  <1> QED BY <1>1, NewRegisters
          DEF TreeInv, TreeTyped, Quiet, RunKnows, Supervised, CommandEnded, NothingSurvives, NoCommand,
              BeforeSpawn, Alive, execVars, treeVars, worldVars

LEMMA RaisedTree == TreeInv /\ CommandRaised => TreeInv'
  <1> SUFFICES ASSUME TreeInv, CommandRaised PROVE TreeInv'
    OBVIOUS
  <1>1. UNCHANGED <<tool, interrupted, rows>> /\ step = "executing" /\ EndExecution(TRUE)
    BY DEF CommandRaised
  <1>2. rows' \in Seq(TargetRows) /\ PrimaryRowsWhole'
    BY <1>1 DEF TreeInv, TreeTyped, PrimaryRowsWhole
  <1> QED BY <1>1, <1>2, EndedTree

LEMMA AfterCommandTree == TreeInv /\ AfterCommand => TreeInv'
  <1> SUFFICES ASSUME TreeInv, AfterCommand PROVE TreeInv'
    OBVIOUS
  <1>1. UNCHANGED <<tool, interrupted>> /\ step = "executing" /\ px = "recorded" /\ EndExecution(FALSE)
    BY DEF AfterCommand
  <1>2. rows \in Seq(TargetRows) /\ PrimaryRowsWhole
    BY DEF TreeInv, TreeTyped
  <1>3. CASE rows' = rows
    BY <1>1, <1>2, <1>3, EndedTree DEF PrimaryRowsWhole
  <1>4. CASE Row(Plan[next])
    <2> DEFINE kind == Plan[next]
    <2>1. PICK above \in BOOLEAN :
             rows' = Append(rows, [ok      |-> outcome = "success",
                                   primary |-> kind = "measured" /\ outcome = "success" /\ above,
                                   whole   |-> ended = "zero" /\ excess = {}])
      BY <1>4 DEF Row
    <2> DEFINE r == [ok      |-> outcome = "success",
                     primary |-> kind = "measured" /\ outcome = "success" /\ above,
                     whole   |-> ended = "zero" /\ excess = {}]
    <2>2. r \in TargetRows
      BY DEF TargetRows
    <2>3. r.primary => r.whole
      BY <1>1 DEF TreeInv, CommandEnded
    <2> HIDE DEF r
    <2>4. rows' \in Seq(TargetRows) /\ PrimaryRowsWhole'
      BY <1>2, <2>1, <2>2, <2>3, RowAdded DEF r
    <2> QED BY <1>1, <2>4, EndedTree
  <1> QED BY <1>3, <1>4 DEF AfterCommand

LEMMA AfterCompileTree == TreeInv /\ AfterCompile => TreeInv'
  <1> SUFFICES ASSUME TreeInv, AfterCompile PROVE TreeInv'
    OBVIOUS
  <1>1. UNCHANGED <<tool, interrupted>> /\ step = "executing" /\ px = "recorded" /\ EndExecution(FALSE)
    BY DEF AfterCompile
  <1>2. rows \in Seq(TargetRows) /\ PrimaryRowsWhole
    BY DEF TreeInv, TreeTyped
  <1>3. CASE rows' = rows
    BY <1>1, <1>2, <1>3, EndedTree DEF PrimaryRowsWhole
  <1>4. CASE /\ outcome = "success"
             /\ rows' = Append(rows, [ok |-> TRUE, primary |-> TRUE, whole |-> ended = "zero" /\ excess = {}])
    <2> DEFINE r == [ok |-> TRUE, primary |-> TRUE, whole |-> ended = "zero" /\ excess = {}]
    <2>1. r \in TargetRows
      BY DEF TargetRows
    <2>2. r.primary => r.whole
      BY <1>1, <1>4 DEF TreeInv, CommandEnded
    <2> HIDE DEF r
    <2>3. rows' \in Seq(TargetRows) /\ PrimaryRowsWhole'
      BY <1>2, <1>4, <2>1, <2>2, RowAdded DEF r
    <2> QED BY <1>1, <2>3, EndedTree
  <1> QED BY <1>3, <1>4 DEF AfterCompile

LEMMA SignalOutsideTree == TreeInv /\ SignalOutside => TreeInv'
  <1> SUFFICES ASSUME TreeInv, SignalOutside PROVE TreeInv'
    OBVIOUS
  <1>1. step # "executing" /\ UNCHANGED <<treeVars, px, run, outcome, tool, rows>>
    BY DEF SignalOutside
  <1>2. px = "idle" /\ px' = "idle"
    BY <1>1 DEF TreeInv, Quiet
  <1> QED BY <1>1, <1>2
          DEF TreeInv, TreeTyped, Quiet, RunKnows, Supervised, CommandEnded, NothingSurvives,
              PrimaryRowsWhole,
              NoCommand, BeforeSpawn, Alive, treeVars, worldVars

-----------------------------------------------------------------------------
(* With nobody else at work.                                               *)

LEMMA ForeignAway ==
    ASSUME StageInv, Undisturbed, moves = 0
    PROVE  /\ \A o \in Objects : o \in {"owned", "holder"} \/ place[o] = None
           /\ \A n \in {"stage", "final"} : Named(n) = {o \in {"owned", "holder"} : place[o] = n}
  BY DEF Undisturbed, Objects, Named, None

LEMMA CreationUndisturbed ==
    ASSUME StageInv, Undisturbed, step = "creating", step' = step, CreationStep
    PROVE  Undisturbed'
  <1>1. moves' = moves
    BY DEF CreationStep, CreateStage, OpenStage, DropPartialStage
  <1> SUFFICES ASSUME moves = 0 PROVE Undisturbed'
    BY <1>1 DEF Undisturbed
  <1> USE <1>1, ForeignAssumption
      DEF Undisturbed, HolderAway, StageInv, StageTyped, StageFollows, Removal, Objects, None,
          NoCall, Go, Places
  <1>2. CASE CreateStage
    BY <1>2 DEF CreateStage
  <1>3. CASE OpenStage
    BY <1>3 DEF OpenStage
  <1>4. CASE DropPartialStage
    BY <1>4 DEF DropPartialStage, Unlink
  <1> QED BY <1>2, <1>3, <1>4 DEF CreationStep

LEMMA PublicationUndisturbed ==
    ASSUME StageInv, Undisturbed, step = "publishing", step' = step, PublicationStep
    PROVE  Undisturbed'
  <1>1. moves' = moves
    BY DEF PublicationStep, ReserveFinal, OpenHolder, ExchangeIntoPlace, RollBack, ExchangeRecovered,
           Exchange,
           CheckFinal, CheckHolder, DropHolder, KeepOwned, RecoverHolder, RemoveHolder, SyncAndCommit,
           RecoverPublication, RecommitRecovered
  <1> SUFFICES ASSUME moves = 0 PROVE Undisturbed'
    BY <1>1 DEF Undisturbed
  <1>f. /\ \A o \in Objects : o \in {"owned", "holder"} \/ place[o] = None
        /\ \A n \in {"stage", "final"} : Named(n) = {o \in {"owned", "holder"} : place[o] = n}
    BY ForeignAway
  <1> USE <1>1, <1>f, ForeignAssumption
      DEF Undisturbed, HolderAway, StageInv, StageTyped, StageFollows, Removal, Objects, None,
          NoCall, Go, Places
  <1>2. CASE ReserveFinal
    <2>1. CASE place' = [place EXCEPT !["holder"] = "final"] /\ Go("openHolder")
      BY <1>2, <2>1 DEF ReserveFinal
    <2>2. CASE Go("raised") /\ UNCHANGED place
      BY <1>2, <2>2 DEF ReserveFinal
    <2> QED BY <1>2, <2>1, <2>2 DEF ReserveFinal
  <1>3. CASE OpenHolder
    BY <1>3 DEF OpenHolder
  <1>4. CASE ExchangeIntoPlace
    BY <1>4 DEF ExchangeIntoPlace, Exchange, Swap
  <1>5. CASE CheckFinal
    BY <1>5 DEF CheckFinal, Is
  <1>6. CASE CheckHolder
    BY <1>6 DEF CheckHolder, RemoveHolder, Unlink, Is
  <1>7. CASE SyncAndCommit
    BY <1>7 DEF SyncAndCommit
  <1>8. at \notin {"rollback", "dropHolder", "keepOwned", "recover", "recommit",
                  "recoverExchange", "recoverDrop"}
    OBVIOUS
  <1>9. ~(RollBack \/ ExchangeRecovered \/ DropHolder \/ KeepOwned \/ RecoverHolder
          \/ RecoverPublication \/ RecommitRecovered)
    BY <1>8 DEF RollBack, ExchangeRecovered, Exchange, DropHolder, KeepOwned, RecoverHolder,
                RemoveHolder,
                RecoverPublication, RecommitRecovered
  <1> QED BY <1>2, <1>3, <1>4, <1>5, <1>6, <1>7, <1>9 DEF PublicationStep

LEMMA CleanupUndisturbed ==
    ASSUME StageInv, Undisturbed, step = "cleaning", step' = step, CleanupStep
    PROVE  Undisturbed'
  <1>1. moves' = moves
    BY DEF CleanupStep, ClearContents, Locate, Recheck
  <1> SUFFICES ASSUME moves = 0 PROVE Undisturbed'
    BY <1>1 DEF Undisturbed
  <1> USE <1>1, ForeignAssumption
      DEF Undisturbed, HolderAway, StageInv, StageTyped, StageFollows, Removal, Objects, None,
          NoCall, Go, Places
  <1>2. CASE ClearContents
    BY <1>2 DEF ClearContents
  <1>3. CASE Locate
    BY <1>3 DEF Locate
  <1>4. CASE Recheck
    BY <1>4 DEF Recheck, Unlink
  <1> QED BY <1>2, <1>3, <1>4 DEF CleanupStep

LEMMA UnlinkUndisturbed ==
    ASSUME StageInv, Undisturbed, step \in Masked, step' = step, UnlinkStep
    PROVE  Undisturbed'
  <1>1. moves' = moves
    BY DEF UnlinkStep, Quarantine, RemoveQuarantined
  <1> SUFFICES ASSUME moves = 0 PROVE Undisturbed'
    BY <1>1 DEF Undisturbed
  <1>f. /\ \A o \in Objects : o \in {"owned", "holder"} \/ place[o] = None
        /\ \A n \in {"stage", "final"} : Named(n) = {o \in {"owned", "holder"} : place[o] = n}
    BY ForeignAway
  <1> USE <1>1, <1>f, ForeignAssumption
      DEF Undisturbed, HolderAway, StageInv, StageTyped, StageFollows, Removal, Objects, None,
          NoCall, Go, Places,
          Masked
  <1>2. CASE Quarantine
    <2>1. at = "unlinking" /\ rm.grabbed = None /\ UNCHANGED <<full, hid, spot, tries, committed>>
      BY <1>2 DEF Quarantine
    <2>2. CASE Entry(rm.from, rm.id) = {} /\ at' = rm.gone /\ rm' = NoCall /\ UNCHANGED place
      <3>1. step # "publishing"
        BY <2>1, <2>2 DEF Entry
      <3> QED BY <2>1, <2>2, <3>1
    <2>3. ASSUME NEW o \in Entry(rm.from, rm.id), place' = [place EXCEPT ![o] = "quarantine"],
                 rm' = [rm EXCEPT !.grabbed = o], at' = at
          PROVE  Undisturbed'
      <3>1. o \in {"owned", "holder"} /\ place[o] = rm.from
        BY <2>3 DEF Entry, Named
      <3>2. CASE step = "publishing"
        BY <2>1, <2>3, <3>1, <3>2
      <3>3. CASE step # "publishing"
        <4>1. o = "owned"
          BY <2>1, <3>1, <3>3
        <4> QED BY <2>1, <2>3, <3>3, <4>1
      <3> QED BY <3>2, <3>3
    <2> QED BY <1>2, <2>2, <2>3 DEF Quarantine
  <1>3. CASE RemoveQuarantined
    BY <1>3 DEF RemoveQuarantined
  <1> QED BY <1>2, <1>3 DEF UnlinkStep

LEMMA OutsideUndisturbed == StageTyped /\ Outside => Undisturbed'
  BY DEF Outside, Undisturbed, StageTyped

LEMMA CarriedUndisturbed ==
    ASSUME Undisturbed, UNCHANGED stageVars, step' = step \/ at # "unlinking"
    PROVE  Undisturbed'
  BY DEF Undisturbed, HolderAway, stageVars

-----------------------------------------------------------------------------
(* Every step of a campaign.                                               *)

\* Nothing the stage's part speaks of changes.
LEMMA SameStage ==
    ASSUME SInv, UNCHANGED <<stageVars, step, tool, sound, late>>
    PROVE  SInv'
  BY DEF SInv, StageInv, StageTyped, StageFollows, Removal, HolderUnknown, OwnedPlace, Committed,
         ForeignPreserved,
         Sealed, Retained, stageVars

LEMMA CInvParts == /\ CInv  <=> SInv /\ Undisturbed /\ TreeInv
                   /\ CInv' <=> SInv' /\ Undisturbed' /\ TreeInv'
  BY DEF CInv, SInv

\* The steps of the stage, for both programs.
LEMMA StageSteps ==
    ASSUME CInv, RunnerStageStep
    PROVE  CInv'
  <1> SUFFICES SInv' /\ Undisturbed' /\ TreeInv'
    BY CInvParts
  <1>1. SInv /\ StageInv /\ Undisturbed /\ TreeInv /\ UNCHANGED <<execVars, campVars>>
    BY CInvParts DEF SInv, RunnerStageStep
  <1>2. step' = step /\ UNCHANGED <<execVars, rows, tool>> /\ step # "executing"
    BY <1>1 DEF RunnerStageStep, campVars, Masked
  <1>3. TreeInv'
    BY <1>1, <1>2, IdleTree
  <1>4. CASE step = "creating" /\ CreationStep
    BY <1>1, <1>2, <1>3, <1>4, CreationKeeps, CreationUndisturbed
  <1>5. CASE step = "publishing" /\ PublicationStep
    BY <1>1, <1>2, <1>3, <1>5, PublicationKeeps, PublicationUndisturbed
  <1>6. CASE step = "cleaning" /\ CleanupStep
    BY <1>1, <1>2, <1>3, <1>6, CleanupKeeps, CleanupUndisturbed
  <1>7. CASE step \in Masked /\ UnlinkStep
    BY <1>1, <1>2, <1>3, <1>7, UnlinkKeeps, UnlinkUndisturbed
  <1> QED BY <1>4, <1>5, <1>6, <1>7 DEF RunnerStageStep

LEMMA FillUndisturbed == Undisturbed /\ FillStage => Undisturbed'
  BY DEF FillStage, Undisturbed, HolderAway

LEMMA BeginUndisturbed ==
    ASSUME StageInv, Undisturbed, BeginPublish \/ BeginCleanup
    PROVE  Undisturbed'
  <1> USE DEF Undisturbed, HolderAway, StageInv, StageTyped, Go
  <1>1. CASE BeginPublish
    BY <1>1 DEF BeginPublish, Is, Named
  <1>2. CASE BeginCleanup
    BY <1>2 DEF BeginCleanup
  <1> QED BY <1>1, <1>2

\* The steps both programs take themselves.
LEMMA SharedSteps ==
    ASSUME CInv, SharedStep \/ Handle
    PROVE  CInv'
  <1> SUFFICES SInv' /\ Undisturbed' /\ TreeInv'
    BY CInvParts
  <1>1. SInv /\ StageInv /\ Undisturbed /\ TreeInv
    BY CInvParts DEF SInv
  <1>2. CASE Start
    <2>1. UNCHANGED <<stageVars, execVars, rows, tool>> /\ step = "start" /\ at # "unlinking"
      BY <1>1, <1>2 DEF Start, StageInv, StageFollows
    <2> QED BY <1>1, <1>2, <2>1, OwnStepsKeep, CarriedUndisturbed, IdleTree
  <1>3. CASE Created
    <2>1. UNCHANGED <<stageVars, execVars, rows, tool>> /\ step = "creating" /\ at # "unlinking"
      BY <1>3 DEF Created
    <2> QED BY <1>1, <1>3, <2>1, OwnStepsKeep, CarriedUndisturbed, IdleTree
  <1>4. CASE CommandRaised
    <2>1. UNCHANGED stageVars /\ at # "unlinking"
      BY <1>1, <1>4 DEF CommandRaised, StageInv, StageFollows
    <2> QED BY <1>1, <1>4, <2>1, OwnStepsKeep, CarriedUndisturbed, RaisedTree
  <1>5. CASE Published
    <2>1. UNCHANGED <<stageVars, execVars, rows, tool>> /\ step = "publishing" /\ at # "unlinking"
      BY <1>5 DEF Published
    <2> QED BY <1>1, <1>5, <2>1, OwnStepsKeep, CarriedUndisturbed, IdleTree
  <1>6. CASE Cleaned
    <2>1. UNCHANGED <<stageVars, execVars, rows, tool>> /\ step = "cleaning" /\ at # "unlinking"
      BY <1>6 DEF Cleaned
    <2> QED BY <1>1, <1>6, <2>1, OwnStepsKeep, CarriedUndisturbed, IdleTree
  <1>7. CASE Handle
    <2>1. UNCHANGED <<execVars, rows, tool>> /\ step = "handler" /\ at # "unlinking"
      BY <1>1, <1>7 DEF Handle, StageInv, StageFollows
    <2>2. UNCHANGED stageVars \/ BeginCleanup
      BY <1>7 DEF Handle
    <2>3. Undisturbed'
      BY <1>1, <2>1, <2>2, CarriedUndisturbed, BeginUndisturbed
    <2> QED BY <1>1, <1>7, <2>1, <2>3, OwnStepsKeep, IdleTree
  <1> QED BY <1>2, <1>3, <1>4, <1>5, <1>6, <1>7 DEF SharedStep

LEMMA RunnersSteps ==
    ASSUME CInv, RunnerSteps
    PROVE  CInv'
  <1> SUFFICES SInv' /\ Undisturbed' /\ TreeInv'
    BY CInvParts
  <1>1. SInv /\ StageInv /\ Undisturbed /\ TreeInv /\ tool = "runner"
    BY CInvParts DEF SInv, RunnerSteps
  <1>2. CASE SnapshotInputs
    <2>1. UNCHANGED <<execVars, rows, tool>> /\ step = "inputs" /\ at # "unlinking"
      BY <1>1, <1>2 DEF SnapshotInputs, StageInv, StageFollows
    <2>2. FillStage \/ UNCHANGED stageVars
      BY <1>2 DEF SnapshotInputs
    <2>3. Undisturbed'
      BY <1>1, <2>1, <2>2, CarriedUndisturbed, FillUndisturbed
    <2> QED BY <1>1, <1>2, <2>1, <2>3, OwnStepsKeep, IdleTree
  <1>3. CASE BeforeCommand
    <2>1. UNCHANGED stageVars /\ at # "unlinking"
      BY <1>1, <1>3 DEF BeforeCommand, StageInv, StageFollows
    <2>2. TreeInv'
      BY <1>1, <1>3, CommandTree
    <2> QED BY <1>1, <1>3, <2>1, <2>2, OwnStepsKeep, CarriedUndisturbed
  <1>4. CASE AfterCommand
    <2>1. UNCHANGED stageVars /\ at # "unlinking"
      BY <1>1, <1>4 DEF AfterCommand, StageInv, StageFollows
    <2> QED BY <1>1, <1>4, <2>1, OwnStepsKeep, CarriedUndisturbed, AfterCommandTree
  <1>5. CASE Finish
    <2>1. UNCHANGED <<execVars, rows, tool>> /\ step = "before" /\ at # "unlinking"
      BY <1>1, <1>5 DEF Finish, StageInv, StageFollows
    <2>2. BeginPublish \/ UNCHANGED stageVars
      BY <1>5 DEF Finish
    <2>3. Undisturbed'
      BY <1>1, <2>1, <2>2, CarriedUndisturbed, BeginUndisturbed
    <2> QED BY <1>1, <1>5, <2>1, <2>3, OwnStepsKeep, IdleTree
  <1>6. CASE Return
    <2>1. UNCHANGED <<stageVars, execVars, rows, tool>> /\ step = "return" /\ at # "unlinking"
      BY <1>1, <1>6 DEF Return, StageInv, StageFollows
    <2> QED BY <1>1, <1>6, <2>1, OwnStepsKeep, CarriedUndisturbed, IdleTree
  <1>7. CASE Leave
    <2>1. UNCHANGED <<stageVars, execVars, rows, tool>> /\ step = "leaving" /\ at # "unlinking"
      BY <1>1, <1>7 DEF Leave, StageInv, StageFollows
    <2> QED BY <1>1, <1>7, <2>1, OwnStepsKeep, CarriedUndisturbed, IdleTree
  <1>8. CASE step = "executing" /\ RunnerStep /\ UNCHANGED <<stageVars, campVars>>
    <2>1. UNCHANGED <<stageVars, step, tool, sound, late>>
      BY <1>8 DEF campVars
    <2> QED BY <1>1, <1>8, <2>1, SameStage, CarriedUndisturbed, RunnerTree
  <1> QED BY <1>2, <1>3, <1>4, <1>5, <1>6, <1>7, <1>8 DEF RunnerSteps

LEMMA BuildersSteps ==
    ASSUME CInv, BuilderSteps
    PROVE  CInv'
  <1>0. SInv /\ StageInv /\ Undisturbed /\ TreeInv /\ tool # "runner"
    BY CInvParts DEF SInv, BuilderSteps
  <1>1. CASE SnapshotSources
    <2>1. UNCHANGED <<execVars, rows, tool>> /\ step = "inputs" /\ at # "unlinking"
      BY <1>0, <1>1 DEF SnapshotSources, StageInv, StageFollows
    <2>2. FillStage \/ UNCHANGED stageVars
      BY <1>1 DEF SnapshotSources
    <2>3. Undisturbed'
      BY <1>0, <2>1, <2>2, CarriedUndisturbed, FillUndisturbed
    <2> QED BY <1>0, <1>1, <2>1, <2>3, OwnStepsKeep, IdleTree, CInvParts
  <1>2. CASE BeforeCompile
    <2>1. UNCHANGED stageVars /\ at # "unlinking"
      BY <1>0, <1>2 DEF BeforeCompile, StageInv, StageFollows
    <2> QED BY <1>0, <1>2, <2>1, OwnStepsKeep, CarriedUndisturbed, CommandTree, CInvParts
  <1>3. CASE AfterCompile
    <2>1. UNCHANGED stageVars /\ at # "unlinking"
      BY <1>0, <1>3 DEF AfterCompile, StageInv, StageFollows
    <2> QED BY <1>0, <1>3, <2>1, OwnStepsKeep, CarriedUndisturbed, AfterCompileTree, CInvParts
  <1>4. CASE FinishCorpus
    <2>1. UNCHANGED <<execVars, rows, tool>> /\ step = "before" /\ at # "unlinking"
      BY <1>0, <1>4 DEF FinishCorpus, StageInv, StageFollows
    <2>2. BeginPublish \/ UNCHANGED stageVars
      BY <1>4 DEF FinishCorpus
    <2>3. Undisturbed'
      BY <1>0, <2>1, <2>2, CarriedUndisturbed, BeginUndisturbed
    <2> QED BY <1>0, <1>4, <2>1, <2>3, OwnStepsKeep, IdleTree, CInvParts
  <1>5. CASE VerifyPublished
    <2>1. UNCHANGED <<stageVars, execVars, rows, tool>> /\ step = "return" /\ at # "unlinking"
      BY <1>0, <1>5 DEF VerifyPublished, StageInv, StageFollows
    <2> QED BY <1>0, <1>5, <2>1, OwnStepsKeep, CarriedUndisturbed, IdleTree, CInvParts
  <1>6. CASE HandleFailure
    BY <1>6, SharedSteps DEF HandleFailure
  <1>7. CASE LeaveBuilder
    <2>1. UNCHANGED <<stageVars, execVars, rows, tool>> /\ step = "leaving" /\ at # "unlinking"
      BY <1>0, <1>7 DEF LeaveBuilder, StageInv, StageFollows
    <2> QED BY <1>0, <1>7, <2>1, OwnStepsKeep, CarriedUndisturbed, IdleTree, CInvParts
  <1>8. CASE BuilderStageStep
    <2>1. RunnerStageStep
      BY <1>8 DEF BuilderStageStep, RunnerStageStep, BuilderCreation, BuilderPublication, BuilderClear,
                  BuilderCleanup, BuilderUnlink, CleanupStep
    <2> QED BY <2>1, StageSteps
  <1>9. CASE step = "executing" /\ CompilerStep /\ UNCHANGED <<stageVars, campVars>>
    <2>1. UNCHANGED <<stageVars, step, tool, sound, late>>
      BY <1>9 DEF campVars
    <2> QED BY <1>0, <1>9, <2>1, SameStage, CarriedUndisturbed, CompilerTree, CInvParts
  <1> QED BY <1>1, <1>2, <1>3, <1>4, <1>5, <1>6, <1>7, <1>8, <1>9 DEF BuilderSteps

\* While anything lives the campaign is executing, and nothing is published yet.
LEMMA TamperKeeps ==
    ASSUME CInv, Tamper
    PROVE  CInv'
  <1>1. step = "executing" /\ ~committed
    BY DEF CInv, StageInv, TreeInv, Quiet, BeforeSpawn, NoCommand, Alive, Tamper, Committed
  <1>2. UNCHANGED <<stageVars, execVars, step, rows, tool, late>> /\ sound' \subseteq sound
    BY DEF Tamper
  <1>3. Undisturbed'
    BY <1>2, CarriedUndisturbed DEF CInv
  <1>4. TreeInv'
    BY <1>2 DEF CInv, TreeInv, TreeTyped, Quiet, RunKnows, Supervised, CommandEnded, NothingSurvives,
                PrimaryRowsWhole, NoCommand, BeforeSpawn, Alive, execVars, treeVars, worldVars
  <1>5. StageInv'
    BY <1>2 DEF CInv, StageInv, StageTyped, StageFollows, Removal, HolderUnknown, OwnedPlace, Committed,
                ForeignPreserved, stageVars
  <1>6. Sealed'
    BY <1>1, <1>2 DEF CInv, Sealed, Retained, stageVars
  <1> QED BY <1>3, <1>4, <1>5, <1>6 DEF CInv

LEMMA SignalOutsideUndisturbed == StageInv /\ Undisturbed /\ SignalOutside => Undisturbed'
  <1> SUFFICES ASSUME StageInv, Undisturbed, SignalOutside PROVE Undisturbed'
    OBVIOUS
  <1>1. CASE UNCHANGED stageVars
    <2>1. step' = step \/ at # "unlinking"
      BY DEF SignalOutside, StageInv, StageFollows
    <2> QED BY <1>1, <2>1, CarriedUndisturbed
  <1>2. CASE /\ step = "handler" /\ step' = "leaving" /\ at' = "stuck"
             /\ UNCHANGED <<place, full, hid, rm, spot, tries, committed, moves>>
    BY <1>2 DEF Undisturbed, HolderAway, StageInv, StageFollows
  <1> QED BY <1>1, <1>2 DEF SignalOutside

LEMMA WorldSteps ==
    ASSUME CInv, WorldStep
    PROVE  CInv'
  <1>0. SInv /\ StageInv /\ Undisturbed /\ TreeInv
    BY CInvParts DEF SInv
  <1>1. CASE World /\ UNCHANGED <<stageVars, px, interrupted, run, outcome, campVars>>
    <2>1. UNCHANGED <<stageVars, step, tool, sound, late>>
      BY <1>1 DEF campVars
    <2> QED BY <1>0, <1>1, <2>1, SameStage, CarriedUndisturbed, WorldTree, CInvParts
  <1>2. CASE Exposed(Finishing) /\ Outside /\ UNCHANGED <<execVars, campVars>>
    <2>1. step # "executing" /\ UNCHANGED <<execVars, rows, tool>>
      BY <1>2 DEF Exposed, campVars
    <2>2. Undisturbed'
      BY <1>0, <1>2, OutsideUndisturbed DEF StageInv
    <2> QED BY <1>0, <1>2, <2>1, <2>2, OutsideKeeps, IdleTree, CInvParts
  <1>3. CASE /\ step = "executing" /\ UNCHANGED <<stageVars, campVars>>
             /\ IF tool = "runner" THEN SignalInExecution ELSE SignalInCommand
    <2>1. UNCHANGED <<stageVars, step, tool, sound, late>>
      BY <1>3 DEF campVars
    <2>2. TreeInv'
      BY <1>0, <1>3, SignalTree
    <2> QED BY <1>0, <2>1, <2>2, SameStage, CarriedUndisturbed, CInvParts
  <1>4. CASE SignalOutside
    BY <1>0, <1>4, OwnStepsKeep, SignalOutsideUndisturbed, SignalOutsideTree, CInvParts
  <1>5. CASE Tamper
    BY <1>5, TamperKeeps
  <1> QED BY <1>1, <1>2, <1>3, <1>4, <1>5 DEF WorldStep

LEMMA NothingHappens == CInv /\ UNCHANGED allVars => CInv'
  <1> SUFFICES ASSUME CInv, UNCHANGED allVars PROVE CInv'
    OBVIOUS
  <1>1. UNCHANGED <<stageVars, execVars, step, rows, tool, sound, late>>
    BY DEF allVars, campVars
  <1>2. TreeInv'
    BY <1>1 DEF CInv, TreeInv, TreeTyped, Quiet, RunKnows, Supervised, CommandEnded, NothingSurvives,
                PrimaryRowsWhole, NoCommand, BeforeSpawn, Alive, execVars, treeVars, worldVars
  <1> QED BY <1>1, <1>2, SameStage, CarriedUndisturbed, CInvParts

LEMMA CampaignStarts == CampaignInit => CInv
  <1> SUFFICES ASSUME CampaignInit PROVE CInv
    OBVIOUS
  <1>1. StageInv /\ Undisturbed /\ Sealed
    BY ForeignAssumption
       DEF CampaignInit, StageInit, StageInv, StageTyped, StageFollows, Removal, HolderUnknown,
           OwnedPlace,
           Committed, ForeignPreserved, Undisturbed, HolderAway, Sealed, Objects, None, NoCall,
              Places, Unpublished
  <1>2. TreeInv
    BY NewRegisters
       DEF CampaignInit, TreeInit, TreeInv, TreeTyped, Quiet, RunKnows, Supervised, CommandEnded,
           NothingSurvives,
           PrimaryRowsWhole, NoCommand, BeforeSpawn, Alive
  <1> QED BY <1>1, <1>2 DEF CInv

(* The invariant of a campaign and of a build: the owner's step and what   *)
(* it knows of its stage, the command's supervisor and what it knows of    *)
(* its processes, and what ties a commit to the measured contents.         *)
THEOREM CampaignInvariant == CampaignSpec => []CInv
  <1>1. CInv /\ [CampaignNext]_allVars => CInv'
    <2> SUFFICES ASSUME CInv, CampaignNext PROVE CInv'
      BY NothingHappens
    <2>1. CASE ProgramStep
      <3>1. SharedStep \/ RunnerSteps \/ Handle \/ RunnerStageStep \/ BuilderSteps
        BY <2>1 DEF ProgramStep
      <3> QED BY <3>1, SharedSteps, RunnersSteps, StageSteps, BuildersSteps
    <2>2. CASE WorldStep
      BY <2>2, WorldSteps
    <2>3. CASE Done
      BY <2>3, NothingHappens DEF Done
    <2> QED BY <2>1, <2>2, <2>3 DEF CampaignNext
  <1> QED BY <1>1, CampaignStarts, PTL DEF CampaignSpec

(* What a committed tree holds is never removed again, was unchanged since *)
(* it was measured, and no command is alive to change it, whatever failure *)
(* or signal follows the commit.                                           *)
THEOREM CommitStands == CampaignSpec => []CommittedTreeStands
  <1>1. CInv => CommittedTreeStands
    BY DEF CInv, StageInv, OwnedPlace, Committed, Sealed, TreeInv, Quiet, BeforeSpawn, NoCommand, Alive,
           CommittedTreeStands
  <1> QED BY <1>1, CampaignInvariant, PTL

(* A campaign that ends without a commit, and reported no failure of its   *)
(* own cleanup, has removed its stage, and its placeholder too when nobody *)
(* else moved things.                                                      *)
THEOREM FailureCleansUp == CampaignSpec => []NothingLeftBehind
  <1>1. CInv => NothingLeftBehind
    BY DEF CInv, StageInv, StageFollows, OwnedPlace, Undisturbed, HolderAway, None, NothingLeftBehind
  <1> QED BY <1>1, CampaignInvariant, PTL

(* No directory of another process is ever removed, save one recorded as   *)
(* the placeholder.                                                        *)
THEOREM ForeignStands == CampaignSpec => []ForeignPreserved
  <1>1. CInv => ForeignPreserved
    BY DEF CInv, StageInv
  <1> QED BY <1>1, CampaignInvariant, PTL

(* A command that failed leaves no process of its own behind, unless a     *)
(* signal cut the cleanup short or the kernel was too slow to end one.     *)
THEOREM FailedCommandEnds == CampaignSpec => []NothingSurvives
  <1>1. CInv => NothingSurvives
    BY DEF CInv, TreeInv
  <1> QED BY <1>1, CampaignInvariant, PTL

(* A row of the primary summary is a command that exited with status zero  *)
(* and whose captures held everything it wrote.                            *)
THEOREM PrimaryRowsAreWhole == CampaignSpec => []PrimaryRowsWhole
  <1>1. CInv => PrimaryRowsWhole
    BY DEF CInv, TreeInv
  <1> QED BY <1>1, CampaignInvariant, PTL

=============================================================================
