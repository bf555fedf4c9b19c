---------------------------- MODULE OwnedRemoval ----------------------------
(***************************************************************************)
(* tools/remove-owned-tree.py --remove: the tree whose identity was taken  *)
(* at its creation is moved to a private name, emptied member by member    *)
(* and removed.  "recycled" is a directory that came to have the device    *)
(* and inode numbers of the tree after others removed it; the identity     *)
(* also has the birth time.                                                *)
(*   The members are files here: a directory goes through the same steps   *)
(* after clear has emptied it in the same way.                             *)
(***************************************************************************)
EXTENDS SharedNames

CONSTANTS Members,     \* the names in the owned tree
          Intruders    \* what others may put into it

VARIABLES inside,      \* name in the tree -> object, a member at first has its own name
          todo,        \* what is left of the listing of clear
          member,      \* the name clear is at
          holding,     \* the object its descriptor holds
          found        \* every object clear has found by name

removalVars == <<inside, todo, member, holding, found>>

Slots == Members \cup {"quarantine", "final"}

Refuse == Go("refused")

MoveInside(m, n) == inside' = [inside EXCEPT ![m] = None, ![n] = inside[m]]

Requires(p, condition, next) ==
  /\ At(p)
  /\ IF condition THEN Go(next) ELSE Refuse
  /\ UNCHANGED <<nameVars, noteVars, removalVars>>

RemovalCallFails ==
  /\ pc \in {"open root", "move root", "hold", "quarantine", "finish", "unlink", "removed root"}
  /\ Refuse
  /\ UNCHANGED <<nameVars, noteVars, removalVars>>

-----------------------------------------------------------------------------
(* remove: the name is opened, and the directory must have the identity.   *)
IdentityByNumbers(o) == o \in {"own", "recycled"}    \* a defect: no birth time

IdentityExpected(o) == o = "own"

OpenOwnedRoot ==
  /\ At("open root")
  /\ IF IsDirectory(entry["target"]) /\ IdentityExpected(entry["target"])
       THEN held' = entry["target"] /\ Go("move root")
       ELSE Refuse /\ UNCHANGED held
  /\ UNCHANGED <<entry, elsewhere, bound, lost, noteVars, removalVars>>

MoveRoot ==
  /\ At("move root")
  /\ IF CanMove("target", "first") THEN Move("target", "first") /\ Go("compare root")
                                   ELSE Refuse /\ UNCHANGED entry
  /\ UNCHANGED <<elsewhere, bound, held, lost, noteVars, removalVars>>

CompareRoot == Requires("compare root", entry["first"] = held, "clear")

-----------------------------------------------------------------------------
(* clear: every name of the listing, whatever it names now.                *)
ListMembers ==
  /\ At("clear") /\ Go("hold")
  /\ todo' = {m \in Members : inside[m] # None}
  /\ UNCHANGED <<nameVars, noteVars, inside, member, holding, found>>

HoldMember ==
  /\ At("hold")
  /\ \E m \in todo :
        /\ member' = m
        /\ IF inside[m] # None
             THEN holding' = inside[m] /\ found' = found \cup {inside[m]} /\ Go("quarantine")
             ELSE Refuse /\ UNCHANGED <<holding, found>>
  /\ UNCHANGED <<nameVars, noteVars, inside, todo>>

MoveMember(p, from, to, next) ==
  /\ At(p)
  /\ IF inside[from] # None /\ inside[to] = None
       THEN MoveInside(from, to) /\ Go(next)
       ELSE Refuse /\ UNCHANGED inside
  /\ UNCHANGED <<nameVars, noteVars, todo, member, holding, found>>

QuarantineMember == MoveMember("quarantine", member, "quarantine", "compare")
CompareMember    == Requires("compare", inside["quarantine"] = holding, "finish")
FinishMember     == MoveMember("finish", "quarantine", "final", "compare final")

(* Another object goes back to the name it was moved from, if that is free.*)
CompareFinal ==
  /\ At("compare final")
  /\ IF inside["final"] = holding THEN Go("unlink") /\ UNCHANGED inside
     ELSE /\ Refuse
          /\ IF inside["quarantine"] = None THEN MoveInside("final", "quarantine")
                                            ELSE UNCHANGED inside
  /\ UNCHANGED <<nameVars, noteVars, todo, member, holding, found>>

UnlinkMember ==
  /\ At("unlink")
  /\ IF inside["final"] = holding
       THEN /\ inside' = [inside EXCEPT !["final"] = None]
            /\ todo' = todo \ {member} /\ Go("hold")
       ELSE Refuse /\ UNCHANGED <<inside, todo>>
  /\ UNCHANGED <<nameVars, noteVars, member, holding, found>>

Cleared == todo = {} /\ Requires("hold", TRUE, "hide root")

-----------------------------------------------------------------------------
HideRoot ==
  /\ At("hide root")
  /\ IF CanMove("first", "second") THEN Move("first", "second") /\ Go("compare hidden")
                                   ELSE Refuse /\ UNCHANGED entry
  /\ UNCHANGED <<elsewhere, bound, held, lost, noteVars, removalVars>>

CompareHidden ==
  /\ At("compare hidden")
  /\ IF entry["second"] = held THEN Go("remove root") /\ UNCHANGED entry
     ELSE Refuse /\ IF CanMove("second", "first") THEN Move("second", "first") ELSE UNCHANGED entry
  /\ UNCHANGED <<elsewhere, bound, held, lost, noteVars, removalVars>>

RemoveOwnedRoot ==
  /\ At("remove root")
  /\ IF entry["second"] = held /\ \A n \in Slots : inside[n] = None
       THEN /\ entry' = [entry EXCEPT !["second"] = None]
            /\ lost' = lost \cup ({held} \ {"own"})
            /\ Go("removed root")
       ELSE Refuse /\ UNCHANGED <<entry, lost>>
  /\ UNCHANGED <<elsewhere, bound, held, noteVars, removalVars>>

Removed == Requires("removed root", TRUE, "removed")

-----------------------------------------------------------------------------
OthersActInside ==
  /\ acts < MaxActs /\ acts' = acts + 1
  /\ \/ \E n \in Slots, o \in Intruders \cup {None} :
          /\ inside[n] # None \/ n \in Members
          /\ o # None => o \notin found /\ \A k \in Slots : inside[k] # o
          /\ inside[n] # o
          /\ inside' = [inside EXCEPT ![n] = o]
          /\ UNCHANGED entry
     \/ /\ held = None /\ entry["target"] = "own"
        /\ entry' = [entry EXCEPT !["target"] = "recycled"]
        /\ UNCHANGED inside
  /\ UNCHANGED <<pc, elsewhere, bound, held, lost, interrupted, late, reported, todo, member,
                 holding, found>>

RemovalInit ==
  /\ inside = [n \in Slots |-> IF n \in Members THEN n ELSE None]
  /\ todo = {} /\ member = None /\ holding = None /\ found = {}

RemovalStep ==
  \/ OpenOwnedRoot \/ MoveRoot \/ CompareRoot \/ ListMembers \/ HoldMember \/ QuarantineMember
  \/ CompareMember \/ FinishMember \/ CompareFinal \/ UnlinkMember \/ Cleared
  \/ HideRoot \/ CompareHidden \/ RemoveOwnedRoot \/ Removed \/ RemovalCallFails
=============================================================================
