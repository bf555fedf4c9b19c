------------------------------ MODULE Custody ------------------------------
(***************************************************************************)
(* One run of one of the tools that publish, remove or repair what other   *)
(* processes can reach by name, with such processes at work at the same    *)
(* time and a termination signal that may come once.                       *)
(***************************************************************************)
EXTENDS Recovery, DeliveryCustody, OwnedRemoval, CorpusModes

CONSTANT Drifts      \* bound: per list of files, which modes are not canonical at first

VARIABLE tool

custodySpace ==
  <<tool, pc, nameVars, noteVars, recoveryVars, custodyVars, removalVars, allModes>>

OnNames == {"recover", "create", "verify", "remove"}
OnModes == {"normalize", "repair"}

Begins(object, start) ==
  /\ entry = [n \in Names |-> IF n = "target" THEN object ELSE None]
  /\ pc = start

NotRecovering == request = CHOOSE r \in Requests : TRUE
NotInCustody  == ~creating /\ payload = Unseen /\ value = Unseen
NotOnModes    == authority = "corpus"

Init ==
  /\ NamesInit /\ RecoveryInit /\ CustodyInit /\ RemovalInit /\ CorpusInit
  /\ authority \in {"index", "manifest", "corpus"} /\ wasOff \in Drifts[authority] /\ ModesInit
  /\ \/ tool = "recover" /\ Begins(None, "manifest") /\ NotInCustody /\ NotOnModes
     \/ tool = "create" /\ Begins(None, "root") /\ creating /\ NotRecovering /\ NotOnModes
     \/ tool = "verify" /\ Begins("own", "root") /\ ~creating /\ NotRecovering /\ NotOnModes
     \/ tool = "remove" /\ Begins("own", "open root") /\ NotRecovering /\ NotInCustody /\ NotOnModes
     \/ /\ tool = "normalize" /\ authority # "corpus" /\ Begins(None, "records")
        /\ NotRecovering /\ NotInCustody
     \/ /\ tool = "repair" /\ authority = "corpus" /\ Begins(None, "retain root")
        /\ NotRecovering /\ NotInCustody

Recovers ==
  tool = "recover" /\ RecoveryStep /\ UNCHANGED <<tool, custodyVars, removalVars, allModes>>

Attests ==
  /\ tool \in {"create", "verify"} /\ CustodyStep
  /\ UNCHANGED <<tool, recoveryVars, removalVars, allModes>>

Removes ==
  tool = "remove" /\ RemovalStep /\ UNCHANGED <<tool, recoveryVars, custodyVars, allModes>>

Normalizes ==
  /\ tool = "normalize" /\ NormalizeStep
  /\ UNCHANGED <<tool, recoveryVars, custodyVars, removalVars, corpusVars>>

Ended == pc \in {"failed", "recovered", "created", "verified", "refused", "removed",
                "unchanged", "normalized", "repaired"}

Repairs ==
  /\ tool = "repair" /\ RepairStep
  /\ UNCHANGED <<tool, recoveryVars, custodyVars, removalVars>>

Interrupt ==
  /\ ~Ended /\ UNCHANGED <<tool, removalVars>>
  /\ \/ tool = "recover" /\ InterruptRecovery /\ UNCHANGED <<custodyVars, allModes>>
     \/ tool = "create" /\ InterruptCustody /\ UNCHANGED <<recoveryVars, allModes>>
     \/ tool = "normalize" /\ InterruptNormalizing /\ UNCHANGED <<recoveryVars, custodyVars, corpusVars>>
     \/ tool = "repair" /\ InterruptRepair /\ UNCHANGED <<recoveryVars, custodyVars>>

(* Renaming an entry changes its fingerprint and that of the directory.    *)
NamesChange ==
  LET of(e) == {n \in Names : e[n] = "own"} IN
  changed' = IF tool \in {"create", "verify"} /\ entry' # entry
               THEN changed \cup {"root"} \cup (IF of(entry') # of(entry)
                                                 THEN {"manifest", "observed manifest"} ELSE {})
               ELSE changed

OthersOnNames ==
  /\ tool \in OnNames /\ OthersActOnNames /\ NamesChange
  /\ touched' = (tool = "recover" \/ touched)
  /\ UNCHANGED <<tool, removalVars, request, members, tree, records, staged, identity, current, altered,
                 creating, payload, listed, seen, next, value, manifest, made, published, call, stranded, instant,
                 allModes>>

OthersOnTree ==
  /\ tool = "recover" /\ OthersActOnTree /\ UNCHANGED <<tool, custodyVars, removalVars, allModes>>

OthersOnDelivery ==
  /\ tool \in {"create", "verify"} /\ OthersActOnDelivery
  /\ UNCHANGED <<tool, recoveryVars, removalVars, allModes>>

OthersInside ==
  /\ tool = "remove" /\ OthersActInside /\ UNCHANGED <<tool, recoveryVars, custodyVars, allModes>>

OthersOnModes ==
  /\ tool \in OnModes /\ OthersTouchCorpus
  /\ UNCHANGED <<tool, recoveryVars, custodyVars, removalVars>>

Others ==
  ~Ended /\ (OthersOnNames \/ OthersOnTree \/ OthersOnDelivery \/ OthersInside \/ OthersOnModes)

ToolStep == Recovers \/ Attests \/ Removes \/ Normalizes \/ Repairs

AtEnd == Ended /\ UNCHANGED custodySpace

Next == ToolStep \/ Interrupt \/ Others \/ AtEnd

\* A tool runs until it exits; nothing it waits for is another process.
Spec == Init /\ [][Next]_custodySpace /\ WF_custodySpace(ToolStep)

-----------------------------------------------------------------------------
(***************************************************************************)
(* What recover-candidate-source.py says it recovered is the Git tree that *)
(* the manifest names, at the destination: those files with those bytes,   *)
(* the directories they need and nothing else, whatever the archive held   *)
(* and whatever others did to it or to the stage before the last look.     *)
(***************************************************************************)
RecoveredIsTheTree ==
  pc = "recovered" /\ ~touched =>
    /\ entry["target"] = held
    /\ {p \in Paths : tree[p] = "whole"} = Manifest.candidate
    /\ {p \in Paths : tree[p] = "directory"} =
          (UNION {Ancestors(p) : p \in Manifest.candidate}) \ Manifest.candidate
    /\ \A p \in Paths : tree[p] \in {"whole", "directory", "nothing"}

(***************************************************************************)
(* A manifest that verify-delivery-custody.py created or verified was true *)
(* of the whole root at one instant, with the manifest itself in place,    *)
(* although its files are read one after the other while others write.     *)
(***************************************************************************)
ManifestIsASnapshot ==
  pc \in {"created", "verified"} => instant = [files |-> value, manifest |-> "own"]

(***************************************************************************)
(* None of the tools removes an object it has not opened and compared;     *)
(* what others put in its place afterwards stays, under whatever name it   *)
(* has been moved to.  Only the empty directory that takes the place of the*)
(* root of a recovery after the last comparison can be lost, since the     *)
(* members are deleted in between.  Nor does one change the mode of what   *)
(* is not tracked, or of a tracked path's object before it has checked it, *)
(* but for a file that has been given the numbers of a removed one.        *)
(***************************************************************************)
ForeignPreserved ==
  /\ lost \subseteq (IF tool = "recover" THEN {"hollow"} ELSE {})
  /\ chmodded \subseteq {expected[p] : p \in Corpus} \cup {"recycled"}

(***************************************************************************)
(* A recovery or a creation that fails leaves neither its published nor    *)
(* its private name behind without saying so, except where a signal finds  *)
(* no handler.                                                             *)
(***************************************************************************)
FailureLeavesNoName ==
  pc = "failed" /\ tool # "verify" /\ ~reported /\ ~late =>
    \A n \in (IF tool = "recover" THEN Names ELSE {"target", "stage"}) : entry[n] # "own"

(***************************************************************************)
(* write_manifest_atomic publishes the manifest or restores the complete   *)
(* prior absence, whichever call fails: of what it created no name is left *)
(* unless the message says so.                                             *)
(***************************************************************************)
PriorAbsence ==
  tool = "create" /\ pc = "failed" /\ ~reported /\ ~late =>
    "own" \notin stranded /\ \A n \in Names : entry[n] # "own"

(***************************************************************************)
(* A mode transaction that fails has restored every mode it had changed,   *)
(* wherever the object is by now, unless its message names what it could   *)
(* not restore or an exception fell where no rollback knows of the change. *)
(***************************************************************************)
ModesRestored ==
  pc = "unchanged" /\ ~reported /\ ~late =>
    \A o \in Tree \ meddled : o \in off <=> o \in wasOff

(***************************************************************************)
(* A mode transaction that succeeds leaves every path leading to the object*)
(* it authenticated, with its canonical mode, no second link and the bytes *)
(* declared, if others kept still during the last look; and a repaired     *)
(* corpus was not touched, even for a moment, between the change of a      *)
(* member and the last look at it.                                         *)
(***************************************************************************)
ModesNormalized ==
  /\ pc \in {"normalized", "repaired"} /\ calm =>
       /\ visible
       /\ \A p \in Corpus : SameIdentity(p) /\ Canonical(p)
       /\ authority # "index" => \A p \in Tracked : named[p] = p /\ p \notin rewritten
  /\ pc = "repaired" => Corpus \cap stale = {}

(***************************************************************************)
(* Every run ends, whatever is done to its names and members.              *)
(***************************************************************************)
AlwaysEnds == <>Ended
=============================================================================
