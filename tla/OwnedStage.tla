------------------------------ MODULE OwnedStage ------------------------------
(***************************************************************************)
(* The staging directory of a campaign: created under a private name, held *)
(* open, published by exchanging it with a placeholder, or removed by its  *)
(* creation-time identity wherever it has been moved to.  Between any two  *)
(* system calls of the owner another process may rename what is in the     *)
(* staging parent or put a directory of its own there.  Signals are        *)
(* blocked inside every operation here, so they belong to the modules that *)
(* drive the stage.                                                        *)
(*   "quarantine" stands for the private names _unlinkat_directory draws,  *)
(* one per call, and "aside" for every name outside the two that matter:   *)
(* both hold any number of objects, "stage" and "final" at most one.       *)
(***************************************************************************)
EXTENDS Naturals, FiniteSets

CONSTANTS Foreign,     \* directories other processes may create
          MaxMoves,    \* bound: how often other processes act
          MaxTries     \* attempts of cleanup to follow the stage (32 in the code)

VARIABLES place,       \* object -> where it is
          full,        \* the directories that hold entries
          at,          \* the step the owner has reached
          hid,         \* identity recorded for the placeholder
          rm,          \* the _unlinkat_directory call in progress
          spot,        \* the name cleanup located the stage under
          tries,       \* attempts cleanup has used
          committed,   \* OwnedStage.committed
          moves        \* foreign acts so far

stageVars == <<place, full, at, hid, rm, spot, tries, committed, moves>>

None    == "none"
ASSUME ForeignAssumption == Foreign \cap {None, "owned", "holder"} = {}

Objects == {"owned", "holder"} \cup Foreign
NoCall  == [from |-> None, id |-> None, grabbed |-> None,
            ok |-> None, bad |-> None, gone |-> None]

Named(n)  == {o \in Objects : place[o] = n}
Is(n, id) == id \in Named(n)

(* What the rename of one entry takes: private names are told apart by     *)
(* their object, the two public ones hold whatever is there now.           *)
Entry(n, id) == IF n \in {"stage", "final"} THEN Named(n) ELSE Named(n) \cap {id}

Go(s) == at' = s /\ UNCHANGED rm

Unlink(n, id, ok, bad, gone) ==
  /\ at' = "unlinking"
  /\ rm' = [from |-> n, id |-> id, grabbed |-> None, ok |-> ok, bad |-> bad, gone |-> gone]

Swap(m, n) == place' = [o \in Objects |-> CASE place[o] = m -> n
                                            [] place[o] = n -> m
                                            [] OTHER -> place[o]]

StageInit ==
  /\ place = [o \in Objects |-> None]
  /\ full = {}
  /\ at = "absent" /\ hid = None /\ rm = NoCall /\ spot = None
  /\ tries = 0 /\ committed = FALSE /\ moves = 0

-------------------------------------------------------------------------------
(* _unlinkat_directory: the atomic no-replace rename takes whatever the    *)
(* name holds to a private name; only the expected identity is removed     *)
(* from there, and rmdir refuses a directory that holds entries.  Another  *)
(* object is renamed back, and stays in quarantine when the name was taken *)
(* meanwhile.                                                              *)
Quarantine ==
  /\ at = "unlinking" /\ rm.grabbed = None
  /\ LET taken == Entry(rm.from, rm.id) IN
       IF taken = {} THEN at' = rm.gone /\ rm' = NoCall /\ UNCHANGED place
       ELSE \E o \in taken : /\ place' = [place EXCEPT ![o] = "quarantine"]
                             /\ rm' = [rm EXCEPT !.grabbed = o]
                             /\ UNCHANGED at
  /\ UNCHANGED <<full, hid, spot, tries, committed, moves>>

RemoveQuarantinedUnchecked ==       \* a defect: whatever was taken is removed
  /\ at = "unlinking" /\ rm.grabbed # None
  /\ LET removable == rm.grabbed \notin full
     IN /\ place' = [place EXCEPT ![rm.grabbed] = IF removable THEN "removed" ELSE "quarantine"]
        /\ at' = IF removable THEN rm.ok ELSE rm.bad
  /\ rm' = NoCall
  /\ UNCHANGED <<full, hid, spot, tries, committed, moves>>

RemoveQuarantined ==
  /\ at = "unlinking" /\ rm.grabbed # None
  /\ LET o == rm.grabbed
         removable == o = rm.id /\ o \notin full
         restored  == o # rm.id /\ Named(rm.from) = {}
     IN /\ place' = [place EXCEPT ![o] = CASE removable -> "removed"
                                           [] restored  -> rm.from
                                           [] OTHER     -> "quarantine"]
        /\ at' = IF removable THEN rm.ok ELSE rm.bad
  /\ rm' = NoCall
  /\ UNCHANGED <<full, hid, spot, tries, committed, moves>>

(* OwnedStage.create: mkdir and the stat that records the identity (the    *)
(* name is fresh and nothing measured runs yet), then the open, whose      *)
(* descriptor must have that identity, or the removal of a partial stage.  *)
CreateStage ==
  /\ at = "absent"
  /\ place' = [place EXCEPT !["owned"] = "stage"]
  /\ Go("opening")
  /\ UNCHANGED <<full, hid, spot, tries, committed, moves>>

OpenStage ==
  /\ at = "opening"
  /\ \/ Is("stage", "owned") /\ Go("held")
     \/ Go("partial")
  /\ UNCHANGED <<place, full, hid, spot, tries, committed, moves>>

DropPartialStage ==
  /\ at = "partial"
  /\ IF Is("stage", "owned") THEN Unlink("stage", "owned", "uncreated", "uncreated", "uncreated")
                             ELSE Go("uncreated")
  /\ UNCHANGED <<place, full, hid, spot, tries, committed, moves>>

-------------------------------------------------------------------------------
(* _publish_owned_stage, one action per system call that matters.          *)
BeginPublish ==
  /\ at = "held"
  /\ Go(IF Is("stage", "owned") THEN "reserve" ELSE "raised")
  /\ UNCHANGED <<place, full, hid, spot, tries, committed, moves>>

ReserveFinal ==
  /\ at = "reserve"
  /\ IF Named("final") = {}
       THEN place' = [place EXCEPT !["holder"] = "final"] /\ Go("openHolder")
       ELSE Go("raised") /\ UNCHANGED place
  /\ UNCHANGED <<full, hid, spot, tries, committed, moves>>

OpenHolder ==
  /\ at = "openHolder"
  /\ IF Named("final") = {} THEN Go("raised") /\ UNCHANGED hid
     ELSE hid' \in Named("final") /\ Go("exchange")
  /\ UNCHANGED <<place, full, spot, tries, committed, moves>>

(* RENAME_EXCHANGE needs both names; `next` is the step after it.          *)
Exchange(from, next, failed) ==
  /\ at = from
  /\ IF Named("stage") # {} /\ Named("final") # {}
       THEN Swap("stage", "final") /\ Go(next)
       ELSE Go(failed) /\ UNCHANGED place
  /\ UNCHANGED <<full, hid, spot, tries, committed, moves>>

ExchangeIntoPlace == Exchange("exchange", "checkFinal", "recover")
RollBack          == Exchange("rollback", "dropHolder", "recover")
ExchangeRecovered == Exchange("recoverExchange", "recoverDrop", "raised")

CheckFinal ==
  /\ at = "checkFinal"
  /\ Go(CASE Named("final") = {}  -> "recover"
          [] Is("final", "owned") -> "checkHolder"
          [] OTHER                -> "rollback")
  /\ UNCHANGED <<place, full, hid, spot, tries, committed, moves>>

(* _remove_placeholder at a name: the stat must show the placeholder.      *)
RemoveHolder(from, n, ok, failed) ==
  /\ at = from
  /\ IF Is(n, hid) THEN Unlink(n, hid, ok, failed, failed) ELSE Go(failed)
  /\ UNCHANGED <<place, full, hid, spot, tries, committed, moves>>

CheckHolder   == RemoveHolder("checkHolder", "stage", "sync", "recover")
DropHolder    == RemoveHolder("dropHolder", "final", "raised", "recover")
KeepOwned     == RemoveHolder("keepOwned", "stage", "recommit", "raised")
RecoverHolder == RemoveHolder("recoverDrop", "final", "raised", "raised")

(* fsync of the parent, then committed; a failed fsync finds no            *)
(* placeholder to recover and raises.                                      *)
SyncAndCommit ==
  /\ at = "sync"
  /\ \/ committed' = TRUE /\ Go("published")
     \/ Go("raised") /\ UNCHANGED committed
  /\ UNCHANGED <<place, full, hid, spot, tries, moves>>

(* The exception handler: what the two names hold decides.                 *)
RecoverPublication ==
  /\ at = "recover"
  /\ Go(CASE Is("final", "owned") /\ Is("stage", hid)   -> "keepOwned"
          [] Is("final", "owned") /\ ~Is("stage", hid)  -> "recommit"
          [] Is("final", hid)                           -> "recoverDrop"
          [] Is("stage", hid) /\ Named("final") # {} /\ ~Is("final", "owned")
                                                        -> "recoverExchange"
          [] OTHER                                      -> "raised")
  /\ UNCHANGED <<place, full, hid, spot, tries, committed, moves>>

RecommitRecovered ==
  /\ at = "recommit"
  /\ committed' = TRUE /\ Go("raised")
  /\ UNCHANGED <<place, full, hid, spot, tries, moves>>

-------------------------------------------------------------------------------
(* OwnedStage.cleanup: empty the directory through its descriptor, find    *)
(* the name it has now, check it, remove it; a name that vanished before   *)
(* the quarantine is looked up again, one that vanished before the check   *)
(* is an error.                                                            *)
BeginCleanup ==
  /\ at \in {"held", "raised"}
  /\ Go("clear")
  /\ UNCHANGED <<place, full, hid, spot, tries, committed, moves>>

ClearContents ==
  /\ at = "clear"
  /\ \/ full' = full \ {"owned"} /\ Go("locate")
     \/ Go("stuck") /\ UNCHANGED full      \* a filesystem boundary, a changed child
  /\ UNCHANGED <<place, hid, spot, tries, committed, moves>>

Locate ==
  /\ at = "locate"
  /\ IF tries < MaxTries
       THEN tries' = tries + 1 /\ spot' = place["owned"] /\ Go("recheck")
       ELSE Go("stuck") /\ UNCHANGED <<tries, spot>>
  /\ UNCHANGED <<place, full, hid, committed, moves>>

RecheckOnce ==                      \* a defect: a vanished name counts as removed
  /\ at = "recheck"
  /\ IF Is(spot, "owned") THEN Unlink(spot, "owned", "cleaned", "stuck", "cleaned")
                          ELSE Go("stuck")
  /\ UNCHANGED <<place, full, hid, spot, tries, committed, moves>>

Recheck ==
  /\ at = "recheck"
  /\ IF Is(spot, "owned") THEN Unlink(spot, "owned", "cleaned", "stuck", "locate")
                          ELSE Go("stuck")
  /\ UNCHANGED <<place, full, hid, spot, tries, committed, moves>>

-------------------------------------------------------------------------------
(* The campaign writes into its own stage while it holds it.               *)
FillStage ==
  /\ at = "held" /\ "owned" \notin full
  /\ full' = full \cup {"owned"}
  /\ UNCHANGED <<place, at, hid, rm, spot, tries, committed, moves>>

(* Another process: rename an entry to a free public name or away, create  *)
(* a directory at a free public name, write into a directory.              *)
Outside ==
  /\ at \notin {"absent"} /\ moves < MaxMoves
  /\ moves' = moves + 1
  /\ \/ \E o \in Objects : \E n \in {"stage", "final", "aside"} :
          /\ place[o] \in {"stage", "final", "aside"} \ {n}
          /\ n = "aside" \/ Named(n) = {}
          /\ place' = [place EXCEPT ![o] = n] /\ UNCHANGED full
     \/ \E f \in Foreign : \E n \in {"stage", "final"} :
          /\ place[f] = None /\ Named(n) = {}
          /\ place' = [place EXCEPT ![f] = n] /\ full' \in {full, full \cup {f}}
     \/ \E o \in {"owned", "holder"} \ full :
          /\ place[o] \in {"stage", "final", "aside"}
          /\ full' = full \cup {o} /\ UNCHANGED place
  /\ UNCHANGED <<at, hid, rm, spot, tries, committed>>

CreationStep    == CreateStage \/ OpenStage \/ DropPartialStage
PublicationStep == \/ ReserveFinal \/ OpenHolder \/ ExchangeIntoPlace \/ RollBack
                   \/ ExchangeRecovered \/ CheckFinal \/ CheckHolder \/ DropHolder
                   \/ KeepOwned \/ RecoverHolder \/ SyncAndCommit
                   \/ RecoverPublication \/ RecommitRecovered
CleanupStep     == ClearContents \/ Locate \/ Recheck
UnlinkStep      == Quarantine \/ RemoveQuarantined
===============================================================================
