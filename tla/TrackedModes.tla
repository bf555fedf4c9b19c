---------------------------- MODULE TrackedModes ----------------------------
(***************************************************************************)
(* tools/normalize-tracked-permissions.py: the modes of the directories    *)
(* and files that Git tracks, or that the manifest of a Git-less copy      *)
(* declares, are made canonical in one transaction.  Nothing is held open  *)
(* between the preflight and the change: an object is known by its device, *)
(* inode, type, owner and link count, so a file with the numbers of one    *)
(* that was removed ("recycled") passes for it.                            *)
(*   The repository is a directory "top" with a tracked directory, a file  *)
(* in each, and a file "stray" that is not tracked; a path has the name of *)
(* the object it leads to at first.  Looking a path up, comparing and      *)
(* reading it is one step: a change in between is only ever refused.       *)
(***************************************************************************)
EXTENDS SharedNames, Sequences

VARIABLES authority,    \* what lists the files: "index", "manifest" or "corpus"
          tracked,      \* the files it lists
          named,        \* path -> what its directory names so
          off,          \* the objects whose mode is not canonical
          wasOff,       \* those of which it was not at first
          relinked,     \* the objects whose link count is not the expected one
          rewritten,    \* the files whose bytes others have changed
          meddled,      \* the objects whose mode others have changed
          visible,      \* the caller's path leads to the repository
          expected,     \* path -> the object that must be there
          drifted,      \* the paths whose mode the preflight saw not canonical
          index,        \* how far the current loop has come
          mutated,      \* the mutations recorded, the last one first
          chmodded,     \* the objects whose mode the tool has changed
          calm          \* others have done nothing since the last look began

treeVars == <<authority, tracked, named, off, wasOff, relinked, rewritten, meddled, visible>>
workVars == <<expected, drifted, index, mutated, chmodded, calm>>
modeVars == <<treeVars, workVars>>

Folders == {"top", "dir"}
Tracked == {"deep", "file"}
Tree    == Folders \cup Tracked \cup {"stray"}

FoldersOn(p) == CASE p = "top" -> {} [] p = "deep" -> Folders [] OTHER -> {"top"}

\* Directories before what they hold, then files by name; the last look
\* takes the files first.
FoldersFirst == <<"top", "dir">>
Listed   == IF tracked = Tracked THEN <<"deep", "file">> ELSE <<"stray">>
Order    == IF At("verify") THEN Listed \o FoldersFirst ELSE FoldersFirst \o Listed
Finished == index > Len(Order)
Path     == Order[index]

\* A stranger's directory holds none of the repository's files.
Found(p) == IF \A d \in FoldersOn(p) : named[d] = d THEN named[p] ELSE None

Canonical(p)    == Found(p) \notin off
SameNumbers(p)  == Found(p) # None /\ Found(p) \in {expected[p], "recycled"}
SameIdentity(p) == SameNumbers(p) /\ Found(p) \notin relinked

\* open_directory and open_regular: every component has its identity.
Opens(p) == \A q \in FoldersOn(p) \cup {p} : SameIdentity(q)

-----------------------------------------------------------------------------
(* The preflight.                                                          *)
ReadIndexByName ==                  \* a defect: Git looks the repository up again
  /\ At("records") /\ Go("rebind")
  /\ tracked' = IF authority = "index" /\ ~visible THEN {"stray"} ELSE Tracked
  /\ UNCHANGED <<nameVars, noteVars, authority, named, off, wasOff, relinked, rewritten, meddled,
                 visible, workVars>>

ReadRecords ==
  /\ At("records") /\ Go("rebind")
  /\ tracked' = Tracked
  /\ UNCHANGED <<nameVars, noteVars, authority, named, off, wasOff, relinked, rewritten, meddled,
                 visible, workVars>>

Rebound ==
  /\ At("rebind")
  /\ Go(IF authority = "manifest" \/ visible THEN "preflight" ELSE "unchanged")
  /\ index' = 1
  /\ UNCHANGED <<nameVars, noteVars, treeVars, expected, drifted, mutated, chmodded, calm>>

Eligible(p) ==
  /\ Found(p) # None /\ \A d \in FoldersOn(p) : SameIdentity(d)
  /\ p \notin Folders =>
        /\ Found(p) \notin relinked
        /\ \A q \in Tree : expected[q] # Found(p)
        /\ authority = "manifest" => Found(p) = p /\ p \notin rewritten

Preflight ==
  /\ At("preflight") /\ ~Finished
  /\ IF Eligible(Path)
       THEN /\ expected' = [expected EXCEPT ![Path] = Found(Path)]
            /\ drifted' = IF Canonical(Path) THEN drifted ELSE drifted \cup {Path}
            /\ index' = index + 1 /\ UNCHANGED pc
       ELSE Go("unchanged") /\ UNCHANGED <<expected, drifted, index>>
  /\ UNCHANGED <<nameVars, noteVars, treeVars, mutated, chmodded, calm>>

Prepared ==
  /\ At("preflight") /\ Finished /\ Go("change") /\ index' = 1
  /\ UNCHANGED <<nameVars, noteVars, treeVars, expected, drifted, mutated, chmodded, calm>>

-----------------------------------------------------------------------------
(* The changes: open, fchmod, and only then the entry in the list.         *)
Skip ==
  /\ At("change") /\ ~Finished /\ Path \notin drifted
  /\ index' = index + 1
  /\ UNCHANGED <<pc, nameVars, noteVars, treeVars, expected, drifted, mutated, chmodded, calm>>

OpenPath ==
  /\ At("change") /\ ~Finished /\ Path \in drifted
  /\ IF Opens(Path) THEN Go("chmod") /\ held' = Found(Path) ELSE Go("undo") /\ UNCHANGED held
  /\ UNCHANGED <<entry, elsewhere, bound, lost, noteVars, modeVars>>

Chmod ==
  /\ At("chmod") /\ Go("record")
  /\ off' = off \ {held} /\ chmodded' = chmodded \cup {held}
  /\ UNCHANGED <<nameVars, noteVars, authority, tracked, named, wasOff, relinked, rewritten, meddled,
                 visible, expected, drifted, index, mutated, calm>>

RecordMutation ==
  /\ At("record") /\ Go("change")
  /\ mutated' = <<held>> \o mutated /\ index' = index + 1
  /\ UNCHANGED <<nameVars, noteVars, treeVars, expected, drifted, chmodded, calm>>

Changed ==
  /\ At("change") /\ Finished /\ Go("verify")
  /\ index' = 1 /\ calm' = TRUE
  /\ UNCHANGED <<nameVars, noteVars, treeVars, expected, drifted, mutated, chmodded>>

-----------------------------------------------------------------------------
(* The final look, files first, then directories, then the path itself.    *)
VerifyModes ==                      \* a defect: whatever the path names now
  /\ At("verify") /\ ~Finished
  /\ IF Found(Path) # None /\ Canonical(Path) THEN index' = index + 1 /\ UNCHANGED pc
                                             ELSE Go("undo") /\ UNCHANGED index
  /\ UNCHANGED <<nameVars, noteVars, treeVars, expected, drifted, mutated, chmodded, calm>>

Verify ==
  /\ At("verify") /\ ~Finished
  /\ IF /\ Opens(Path) /\ Canonical(Path)
        /\ authority = "manifest" => Found(Path) = expected[Path] /\ Path \notin rewritten
       THEN index' = index + 1 /\ UNCHANGED pc
       ELSE Go("undo") /\ UNCHANGED index
  /\ UNCHANGED <<nameVars, noteVars, treeVars, expected, drifted, mutated, chmodded, calm>>

ReboundTooLate ==                   \* a defect: outside the region that rolls back
  /\ At("verify") /\ Finished
  /\ Go(IF visible THEN "normalized" ELSE "unchanged")
  /\ UNCHANGED <<nameVars, noteVars, modeVars>>

StillBound ==
  /\ At("verify") /\ Finished
  /\ Go(IF visible THEN "normalized" ELSE "undo")
  /\ UNCHANGED <<nameVars, noteVars, modeVars>>

-----------------------------------------------------------------------------
(* The rollback goes through the descriptors, wherever the objects are.    *)
Undo ==
  /\ At("undo") /\ mutated # <<>>
  /\ mutated' = Tail(mutated)
  /\ \/ off' = off \cup {Head(mutated)} /\ UNCHANGED reported
     \/ reported' = TRUE /\ UNCHANGED off
  /\ UNCHANGED <<pc, nameVars, interrupted, late, acts, authority, tracked, named, wasOff, relinked,
                 rewritten, meddled, visible, expected, drifted, index, chmodded, calm>>

Undone ==
  /\ At("undo") /\ mutated = <<>> /\ Go("unchanged")
  /\ UNCHANGED <<nameVars, noteVars, modeVars>>

-----------------------------------------------------------------------------
NormalizingFails ==
  /\ \/ pc \in {"records", "rebind", "preflight"} /\ Go("unchanged")
     \/ pc \in {"change", "chmod", "verify"} /\ Go("undo")
  /\ UNCHANGED <<nameVars, noteVars, modeVars>>

(* KeyboardInterrupt: an exception wherever the interpreter is.  Between   *)
(* fchmod and the entry the change is in no list; in the rollback it is    *)
(* reported if it falls within the handling of one mutation.               *)
InterruptNormalizing ==
  /\ ~interrupted /\ interrupted' = TRUE
  /\ \/ /\ pc \in {"records", "rebind", "preflight"} /\ Go("unchanged")
        /\ UNCHANGED <<late, reported, mutated>>
     \/ /\ pc \in {"change", "chmod", "record", "verify"} /\ Go("undo")
        /\ late' = At("record")
        /\ UNCHANGED <<reported, mutated>>
     \/ /\ At("undo") /\ mutated # <<>>
        /\ \/ mutated' = Tail(mutated) /\ reported' = TRUE /\ UNCHANGED <<pc, late>>
           \/ Go("unchanged") /\ late' = TRUE /\ UNCHANGED <<reported, mutated>>
  /\ UNCHANGED <<nameVars, acts, treeVars, expected, drifted, index, chmodded, calm>>

-----------------------------------------------------------------------------
(* Other processes.  Names that are not tracked and bytes that are not     *)
(* compared change nothing for the tool.                                   *)
Renames(p, o) == named' = [named EXCEPT ![p] = o]

OthersRename ==
  \E p \in Tree \ (IF authority = "corpus" THEN {"top"} ELSE {"top", "stray"}) :
     \/ named[p] # None /\ Renames(p, None)
     \/ named[p] = None /\ (\A q \in Tree : named[q] # p) /\ Renames(p, p)
     \/ /\ named[p] # "stranger"
        /\ named' = [q \in Tree |-> IF q = p THEN "stranger"
                                   ELSE IF named[q] = "stranger" THEN None ELSE named[q]]

OthersRecycle ==
  \E p \in Tracked :
     /\ authority # "corpus" /\ expected[p] = named[p] /\ named[p] = p
     /\ p # held /\ p \notin chmodded
     /\ Renames(p, "recycled")

OthersTouchTree ==
  /\ acts < MaxActs /\ acts' = acts + 1 /\ calm' = FALSE
  /\ \/ OthersRename /\ UNCHANGED <<off, relinked, rewritten, meddled, visible>>
     \/ OthersRecycle /\ UNCHANGED <<off, relinked, rewritten, meddled, visible>>
     \/ \E o \in Folders \cup Tracked : /\ off' = (off \ {o}) \cup ({o} \ off) /\ meddled' = meddled \cup {o}
                        /\ UNCHANGED <<named, relinked, rewritten, visible>>
     \/ \E o \in Folders \cup Tracked : /\ o \in Folders => expected[o] = o
                        /\ relinked' = (relinked \ {o}) \cup ({o} \ relinked)
                        /\ UNCHANGED <<named, off, rewritten, meddled, visible>>
     \/ \E o \in Tracked : /\ authority # "index"
                           /\ rewritten' = (rewritten \ {o}) \cup ({o} \ rewritten)
                           /\ UNCHANGED <<named, off, relinked, meddled, visible>>
     \/ visible' = ~visible /\ UNCHANGED <<named, off, relinked, rewritten, meddled>>
  /\ UNCHANGED <<pc, nameVars, interrupted, late, reported, authority, tracked, wasOff, expected, drifted, index,
                 mutated, chmodded>>

-----------------------------------------------------------------------------
ModesInit ==
  /\ tracked = Tracked
  /\ named = [p \in Tree |-> IF p = "stray" /\ authority = "corpus" THEN None ELSE p]
  /\ off = wasOff /\ relinked = {} /\ rewritten = {} /\ meddled = {} /\ visible = TRUE
  /\ expected = [p \in Tree |-> None] /\ drifted = {} /\ index = 1
  /\ mutated = <<>> /\ chmodded = {} /\ calm = FALSE

NormalizeStep ==
  \/ ReadRecords \/ Rebound \/ Preflight \/ Prepared \/ Skip \/ OpenPath \/ Chmod \/ RecordMutation
  \/ Changed \/ Verify \/ StillBound \/ Undo \/ Undone \/ NormalizingFails
=============================================================================
