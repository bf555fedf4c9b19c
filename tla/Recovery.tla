------------------------------ MODULE Recovery ------------------------------
(***************************************************************************)
(* tools/recover-candidate-source.py: the source tree a manifest names is  *)
(* unpacked from an archive into a private stage, verified twice through   *)
(* the descriptors that made it, renamed to its destination and verified   *)
(* once more.  Whatever fails, the members that were recorded are removed  *)
(* one by one, and anything else is left and reported.                     *)
(***************************************************************************)
EXTENDS SharedNames, Sequences

CONSTANTS Above,       \* path -> the path of its directory, "" for the root
          Requests     \* the manifests and archives under study

\* Paths are a forest, and there are more of them than any manifest declares.
ASSUME RecoveryAssumption ==
  /\ "" \notin DOMAIN Above
  /\ \A p \in DOMAIN Above : Above[p] \in DOMAIN Above \cup {""}
  /\ \A s \in SUBSET DOMAIN Above : s # {} => \E p \in s : \A q \in s : Above[q] # p
  /\ \A r \in Requests : LET m == r.manifest IN
        m.directories \cup m.files \subseteq DOMAIN Above /\ m.directories \cup m.files # DOMAIN Above

VARIABLES request, members,   \* what is asked for, the members still to read
          tree,               \* path -> what the directory held open has there
          records,            \* the members the tool has recorded
          staged, identity,   \* stage_created and unopened_stage_identity
          current,            \* current_name
          altered,            \* others have changed the archive file
          touched             \* or the destination since it was last verified

recoveryVars == <<request, members, tree, records, staged, identity, current, altered, touched>>

Paths    == DOMAIN Above
Manifest == request.manifest
Declared == Manifest.directories \cup Manifest.files
Bare     == [p \in Paths |-> "nothing"]

(* A tree of Git is its files: a directory is there for what is in it.  A   *)
(* path and those above it are in every set that has the path and, with a  *)
(* path, its directory.                                                    *)
Ancestors(p) ==
  {a \in Paths : \A s \in SUBSET Paths : p \in s /\ (\A q \in s : Above[q] \in s \cup {""}) => a \in s}

-----------------------------------------------------------------------------
(* parse_manifest and derive_tree.                                         *)
ParentsDeclared(m) ==
  \A p \in m.directories \cup m.files : Above[p] \in {""} \cup m.directories

NoEmptyDirectory(m) ==
  \A d \in m.directories \cup {""} : \E p \in m.directories \cup m.files : Above[p] = d

Accepted(m) ==
  /\ m.directories \cap m.files = {}
  /\ ParentsDeclared(m) /\ NoEmptyDirectory(m)
  /\ m.candidate = m.files

(* Every failure and every termination signal is an exception, caught at   *)
(* once by the handler of recover, or by that of the cleanup, which says   *)
(* that cleanup failed.                                                    *)
CleaningUp == {"take", "first", "second", "delete", "rmdir", "synced", "unopened"}
Before     == {"manifest", "parent"}

Fail ==
  \/ pc \in Before /\ Go("failed") /\ UNCHANGED reported
  \/ pc \in CleaningUp /\ Go("failed") /\ reported' = TRUE
  \/ pc \notin Before \cup CleaningUp /\ Go("handler") /\ UNCHANGED reported

Checks(p, condition, next) ==
  /\ At(p)
  /\ IF condition THEN Go(next) /\ UNCHANGED reported ELSE Fail
  /\ UNCHANGED <<nameVars, recoveryVars, interrupted, late, acts>>

(* A system call that can fail without having done anything.               *)
Fails == /\ pc \in {"parent", "make", "open", "archive", "create", "write", "seal", "sync", "synced"}
         /\ Fail
         /\ UNCHANGED <<nameVars, recoveryVars, interrupted, late, acts>>

LoadManifest    == Checks("manifest", Accepted(Manifest), "parent")
OpenParentChain == Checks("parent", bound, "vacant")
DestinationFree == Checks("vacant", bound /\ entry["target"] = None, "make")

-----------------------------------------------------------------------------
(* The stage.  Signals wait until its identity is on record.               *)
MakeStage ==
  /\ At("make") /\ entry["stage"] = None
  /\ entry' = [entry EXCEPT !["stage"] = "own"]
  /\ staged' = TRUE
  /\ Go("identify")
  /\ UNCHANGED <<elsewhere, bound, held, lost, noteVars, request, members, tree, records,
                 identity, current, altered, touched>>

IdentifyStage ==
  /\ At("identify")
  /\ IF entry["stage"] = None THEN Fail /\ UNCHANGED identity
     ELSE identity' = entry["stage"] /\ Go("open") /\ UNCHANGED reported
  /\ UNCHANGED <<nameVars, interrupted, late, acts, request, members, tree, records,
                 staged, current, altered, touched>>

(* The directory that is opened becomes the root, whoever made it.         *)
OpenRoot ==
  /\ At("open")
  /\ IF IsDirectory(identity) /\ IsDirectory(entry["stage"])
       THEN /\ held' = entry["stage"]
            /\ tree' = [p \in Paths |-> IF held' = "tree" /\ p \notin Declared
                                          THEN "strange" ELSE "nothing"]
            /\ Go("archive") /\ UNCHANGED reported
       ELSE Fail /\ UNCHANGED <<held, tree>>
  /\ UNCHANGED <<entry, elsewhere, bound, lost, interrupted, late, acts, request, members,
                 records, staged, identity, current, altered, touched>>

OpenArchive == Checks("archive", TRUE, "member")

-----------------------------------------------------------------------------
(* The members, in the order of the archive.                               *)
Member == Head(members)

Admitted(m) ==
  /\ m.kind \in {"directory", "file"}
  /\ Above[m.path] \in {""} \cup (Manifest.directories \cap records)
  /\ m.path \in (IF m.kind = "file" THEN Manifest.files ELSE Manifest.directories)
  /\ m.path \notin records
  /\ m.agrees

AdmitMember == members # <<>> /\ Checks("member", Admitted(Member), "create")

(* Nothing is overwritten: mkdir and O_EXCL want the name free.            *)
MakeMember ==
  /\ At("create")
  /\ IF tree[Member.path] = "nothing"
       THEN /\ tree' = [tree EXCEPT ![Member.path] = IF Member.kind = "file" THEN "begun"
                                                                            ELSE "directory"]
            /\ Go("record") /\ UNCHANGED reported
       ELSE Fail /\ UNCHANGED tree
  /\ UNCHANGED <<nameVars, interrupted, late, acts, request, members, records, staged,
                 identity, current, altered, touched>>

RecordMember ==
  /\ At("record")
  /\ IF tree[Member.path] \in {"begun", "directory"}
       THEN /\ records' = records \cup {Member.path}
            /\ IF Member.kind = "file" THEN Go("write") /\ UNCHANGED members
                                       ELSE Go("member") /\ members' = Tail(members)
            /\ UNCHANGED reported
       ELSE Fail /\ UNCHANGED <<records, members>>
  /\ UNCHANGED <<nameVars, interrupted, late, acts, request, tree, staged, identity,
                 current, altered, touched>>

(* The bytes go to the descriptor, then name and digests are checked.      *)
WriteMember ==
  /\ At("write")
  /\ tree' = [tree EXCEPT ![Member.path] = IF @ # "begun" THEN @
                                           ELSE IF Member.bytes THEN "whole" ELSE "other bytes"]
  /\ Go("digests")
  /\ UNCHANGED <<nameVars, noteVars, request, members, records, staged, identity, current,
                 altered, touched>>

SealMember ==
  /\ At("digests")
  /\ IF tree[Member.path] \notin {"nothing", "strange"} /\ Member.bytes
       THEN members' = Tail(members) /\ Go("member") /\ UNCHANGED reported
       ELSE Fail /\ UNCHANGED members
  /\ UNCHANGED <<nameVars, interrupted, late, acts, request, tree, records, staged,
                 identity, current, altered, touched>>

Complete == members = <<>> /\ Checks("member", ~altered /\ records = Declared, "seal")
SealRoot == Checks("seal", TRUE, "verify")

-----------------------------------------------------------------------------
(* final_verify: every descriptor against its name, every directory        *)
(* against its members, every file against its digests.                    *)
ExpectedTree == [p \in Paths |-> CASE p \in Manifest.directories -> "directory"
                                   [] p \in Manifest.files -> "whole"
                                   [] OTHER -> "nothing"]

MembersOnly(name) ==                  \* a defect: the bytes are not read again
  /\ bound /\ entry[name] = held
  /\ \A p \in Paths : tree[p] = "nothing" <=> ExpectedTree[p] = "nothing"

FinalVerify(name) == bound /\ entry[name] = held /\ tree = ExpectedTree

VerifyStage      == Checks("verify", FinalVerify("stage"), "verify again")
VerifyStageAgain == Checks("verify again", FinalVerify("stage") /\ ~altered, "publish")

(* The rename takes what the stage is called now; current_name follows     *)
(* before a signal can come.                                               *)
PublishStage ==
  /\ At("publish")
  /\ IF CanMove("stage", "target")
       THEN Move("stage", "target") /\ current' = "target" /\ Go("verify target") /\ UNCHANGED reported
       ELSE Fail /\ UNCHANGED <<entry, current>>
  /\ UNCHANGED <<elsewhere, bound, held, lost, interrupted, late, acts, request, members, tree,
                 records, staged, identity, altered, touched>>

VerifyTarget ==
  /\ touched' = FALSE
  /\ At("verify target")
  /\ IF FinalVerify("target") THEN Go("sync") /\ UNCHANGED reported ELSE Fail
  /\ UNCHANGED <<nameVars, interrupted, late, acts, request, members, tree, records, staged,
                 identity, current, altered>>

SyncParent == Checks("sync", ~altered, "return")
Recovered  == Checks("return", TRUE, "recovered")

-----------------------------------------------------------------------------
(* The handler, and cleanup_owned_root: the name is moved to a private one *)
(* and again to a second, and compared with the descriptor each time.      *)
HandleOpened == Checks("handler", TRUE, IF held # None THEN "take" ELSE "failed")
                                      \* a defect: a stage not opened yet is forgotten

Handle == Checks("handler", TRUE, IF held # None THEN "take"
                                  ELSE IF staged /\ identity # None THEN "unopened" ELSE "failed")

QuarantineRoot(p, from, to, next) ==
  /\ At(p)
  /\ IF CanMove(from, to) /\ (p = "first" => entry[from] = held)
       THEN Move(from, to) /\ Go(next) /\ UNCHANGED reported
       ELSE Fail /\ UNCHANGED entry
  /\ UNCHANGED <<elsewhere, bound, held, lost, interrupted, late, acts, recoveryVars>>

TakeRoot  == QuarantineRoot("take", current, "first", "first")
TakeAgain == QuarantineRoot("first", "first", "second", "second")

MembershipRecorded == {p \in Paths : tree[p] # "nothing"} = records

CompareMembers == Checks("second", entry["second"] = held /\ MembershipRecorded, "delete")

(* _delete_recorded_tree: files first, then directories from the deepest.  *)
DeletedNext(p) == /\ p \in records
                  /\ p \in Manifest.directories =>
                       \A q \in records \ {p} : q \in Manifest.directories /\ p \notin Ancestors(q)

Removable(p) == /\ tree[p] \notin {"nothing", "strange"}
                /\ \A q \in Paths : Above[q] = p => tree[q] = "nothing"

DeleteMember ==
  /\ At("delete")
  /\ \E p \in records : DeletedNext(p) /\
        IF Removable(p)
          THEN /\ tree' = [tree EXCEPT ![p] = "nothing"]
               /\ records' = records \ {p}
               /\ lost' = IF tree[p] = "strange" THEN lost \cup {p} ELSE lost
               /\ UNCHANGED <<pc, reported>>
          ELSE Fail /\ UNCHANGED <<tree, records, lost>>
  /\ UNCHANGED <<entry, elsewhere, bound, held, interrupted, late, acts, request, members,
                 staged, identity, current, altered, touched>>

AllDeleted == records = {} /\ Checks("delete", tree = Bare, "rmdir")

(* rmdir by the second name, which was last compared before the members    *)
(* were deleted; afterwards the descriptor tells whether it was the root.  *)
RemoveRoot ==
  /\ At("rmdir")
  /\ LET o == entry["second"] IN
       IF (o = held /\ tree = Bare) \/ (o # held /\ o = "hollow")
         THEN /\ entry' = [entry EXCEPT !["second"] = None]
              /\ lost' = lost \cup ({o} \ {"own"})
              /\ IF o = held THEN Go("synced") /\ UNCHANGED reported ELSE Fail
         ELSE Fail /\ UNCHANGED <<entry, lost>>
  /\ UNCHANGED <<elsewhere, bound, held, interrupted, late, acts, recoveryVars>>

SyncRemoval == Checks("synced", TRUE, "failed")

(* cleanup_unopened_stage: only the empty directory that was made.         *)
RemoveUnopened ==
  /\ At("unopened")
  /\ IF bound /\ entry["stage"] = identity /\ identity \in {"own", "hollow"}
       THEN /\ entry' = [entry EXCEPT !["stage"] = None]
            /\ lost' = lost \cup ({identity} \ {"own"})
            /\ Go("failed") /\ UNCHANGED reported
       ELSE Fail /\ UNCHANGED <<entry, lost>>
  /\ UNCHANGED <<elsewhere, bound, held, interrupted, late, acts, recoveryVars>>

-----------------------------------------------------------------------------
(* catchable_termination_guard: the first signal raises, later ones are    *)
(* ignored.  Between the exception and the cleanup, and after the return,  *)
(* no handler is left that would undo anything.                            *)
Masked == {"identify"}

InterruptRecovery ==
  /\ ~interrupted /\ interrupted' = TRUE
  /\ pc \notin Masked \cup {"failed", "recovered"}
  /\ IF pc \in {"handler", "return"} THEN Go("failed") /\ late' = TRUE /\ UNCHANGED reported
                                     ELSE Fail /\ UNCHANGED late
  /\ UNCHANGED <<nameVars, acts, recoveryVars>>

(* Others change a member of the open tree or the archive.                 *)
OthersActOnTree ==
  /\ acts < MaxActs /\ acts' = acts + 1
  /\ \/ /\ held # None
        /\ \E p \in Paths, o \in {"nothing", "strange", "other bytes"} :
              /\ tree[p] # o
              /\ o = "nothing" => tree[p] \notin {"directory", "strange"}
              /\ o = "other bytes" => tree[p] \in {"begun", "whole"}
              /\ tree' = [tree EXCEPT ![p] = o]
        /\ UNCHANGED altered
     \/ ~altered /\ altered' = TRUE /\ UNCHANGED tree
  /\ touched' = TRUE
  /\ UNCHANGED <<pc, nameVars, interrupted, late, reported, request, members, records, staged,
                 identity, current>>

RecoveryInit ==
  /\ request \in Requests /\ members = request.members
  /\ tree = Bare /\ records = {}
  /\ staged = FALSE /\ identity = None /\ current = "stage"
  /\ altered = FALSE /\ touched = FALSE

RecoveryStep ==
  \/ LoadManifest \/ OpenParentChain \/ DestinationFree
  \/ MakeStage \/ IdentifyStage \/ OpenRoot \/ OpenArchive
  \/ AdmitMember \/ MakeMember \/ RecordMember \/ WriteMember \/ SealMember
  \/ Complete \/ SealRoot \/ VerifyStage \/ VerifyStageAgain \/ PublishStage
  \/ VerifyTarget \/ SyncParent \/ Recovered
  \/ Handle \/ TakeRoot \/ TakeAgain \/ CompareMembers \/ DeleteMember \/ AllDeleted
  \/ RemoveRoot \/ SyncRemoval \/ RemoveUnopened \/ Fails
=============================================================================
