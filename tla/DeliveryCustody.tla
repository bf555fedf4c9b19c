--------------------------- MODULE DeliveryCustody ---------------------------
(***************************************************************************)
(* tools/verify-delivery-custody.py: a manifest of everything below a root *)
(* is taken by one scan and one closure, which looks at every member again *)
(* by its fingerprint, and is linked into the root; --create then verifies *)
(* the root against it as --verify does, and takes the manifest back when  *)
(* anything fails.                                                         *)
(*   A fingerprint changes with every write, rename and link (ctime), so a *)
(* comparison of fingerprints is modelled as the absence of any change     *)
(* since the fingerprint was taken.  The manifest lies in the root itself. *)
(***************************************************************************)
EXTENDS SharedNames, Sequences

CONSTANTS FileOrder,   \* the delivered files, in the order of their names
          Contents     \* what a file can hold, None when there is no file

VARIABLES creating,    \* --create, not --verify
          payload,     \* file -> what it holds now
          changed,     \* what changed since its fingerprint was taken
          listed,      \* the names the scan found
          seen,        \* file -> what the scan read
          next,        \* the file the scan or the closure is at
          value,       \* the manifest, as composed or read
          manifest,    \* what the manifest file holds
          made,        \* temporary_exists and published_exists
          published,   \* create knows the fingerprint of what it published
          call,        \* the _unlink_owned_name call in progress
          stranded,    \* what earlier calls left under their private names
          instant      \* what the root held when the last closure began

custodyVars == <<creating, payload, changed, listed, seen, next, value, manifest, made,
                 published, call, stranded, instant>>

Files    == {FileOrder[i] : i \in DOMAIN FileOrder}
File     == FileOrder[next]
Unseen   == [f \in Files |-> None]
Present  == {f \in Files : payload[f] # None}
Private  == {n \in Names \ {"target"} : entry[n] # None}
Composing == creating /\ ~published
NoCall   == [name |-> None, done |-> None, failed |-> None]

\* A file does not have the name of one of the other things that change.
ASSUME DeliveryAssumption ==
  FileOrder \in Seq(Files) /\ Files \cap {"root", "manifest", "observed manifest"} = {}

(* Each exception has one handler: that of write_manifest_atomic while it  *)
(* publishes, that of create before and after, and the errors of a         *)
(* rollback are collected in the message.                                  *)
Publishing == {"write manifest", "link", "check", "sync name"}
InCall     == {"grab", "grab again", "remove"}
RollBacks  == {"reopen", "sync rollback"}

Raise ==
  \/ pc \in Publishing /\ Go("undo") /\ UNCHANGED reported
  \/ pc \in InCall /\ Go(call.failed) /\ reported' = (reported \/ call.failed # "undo")
  \/ pc \in RollBacks /\ Go("failed") /\ reported' = TRUE
  \/ pc \notin Publishing \cup InCall \cup RollBacks /\ Go("caught") /\ UNCHANGED reported

Asserts(p, condition, after) ==
  /\ At(p)
  /\ IF condition THEN Go(after) /\ UNCHANGED reported ELSE Raise

Quiet == UNCHANGED <<interrupted, late, acts>>

CallFails ==
  /\ pc \in {"root", "create temporary", "write manifest", "link", "sync name", "sync rollback"} \cup InCall
  /\ Raise
  /\ Quiet /\ UNCHANGED <<nameVars, custodyVars>>

OpenCustodyRoot ==
  /\ Asserts("root", bound, "list")
  /\ changed' = changed \ {"root"}
  /\ Quiet
  /\ UNCHANGED <<nameVars, creating, payload, listed, seen, next, value, manifest, made, published,
                 call, stranded, instant>>

-----------------------------------------------------------------------------
(* scan_tree: the names first, then every file by name.                    *)
ListRoot ==
  /\ At("list") /\ Go("scan")
  /\ listed' = Present
  /\ seen' = Unseen /\ next' = 1
  /\ UNCHANGED <<nameVars, noteVars, creating, payload, changed, value, manifest, made, published,
                 call, stranded, instant>>

ScanFile ==
  /\ At("scan") /\ next <= Len(FileOrder)
  /\ IF File \in listed /\ payload[File] = None
       THEN Raise /\ UNCHANGED <<seen, changed, next>>
       ELSE /\ seen' = IF File \in listed THEN [seen EXCEPT ![File] = payload[File]] ELSE seen
            /\ changed' = changed \ {File}
            /\ next' = next + 1
            /\ UNCHANGED <<pc, reported>>
  /\ Quiet
  /\ UNCHANGED <<nameVars, creating, payload, listed, value, manifest, made, published, call, stranded, instant>>

(* The manifest: absent when one is composed, and when one is verified the *)
(* file is read, and must agree with the scan.                             *)
Agrees == /\ entry["target"] = "own" /\ Private = {}
          /\ manifest = "whole"
          /\ seen = value

ScanManifest ==
  /\ next > Len(FileOrder)
  /\ Asserts("scan", IF Composing THEN entry["target"] = None ELSE Agrees, "close")
  /\ changed' = changed \ {"observed manifest"}
  /\ next' = 1
  /\ instant' = [files |-> payload, manifest |-> entry["target"]]
  /\ Quiet
  /\ UNCHANGED <<nameVars, creating, payload, listed, seen, value, manifest, made, published, call,
                 stranded>>

(* final_closure: the manifest, every file, then the names of the root.    *)
CloseFilesOfNames ==                  \* a defect: only the names are compared
  /\ At("close") /\ next <= Len(FileOrder)
  /\ IF File \in listed /\ payload[File] = None THEN Raise /\ UNCHANGED next
     ELSE next' = next + 1 /\ UNCHANGED <<pc, reported>>
  /\ Quiet
  /\ UNCHANGED <<nameVars, creating, payload, changed, listed, seen, value, manifest, made,
                 published, call, stranded, instant>>

CloseFile ==
  /\ At("close") /\ next <= Len(FileOrder)
  /\ IF (next = 1 /\ ~Composing /\ "observed manifest" \in changed)
          \/ (File \in listed /\ (File \in changed \/ payload[File] = None))
       THEN Raise /\ UNCHANGED next
       ELSE next' = next + 1 /\ UNCHANGED <<pc, reported>>
  /\ Quiet
  /\ UNCHANGED <<nameVars, creating, payload, changed, listed, seen, value, manifest, made,
                 published, call, stranded, instant>>

CloseRoot ==
  /\ next > Len(FileOrder)
  /\ Asserts("close", Present = listed /\ "root" \notin changed /\ bound,
             IF Composing THEN "begin" ELSE "agreed")
  /\ value' = IF Composing THEN seen ELSE value
  /\ Quiet
  /\ UNCHANGED <<nameVars, creating, payload, changed, listed, seen, next, manifest, made, published,
                 call, stranded, instant>>

(* The last look at the path, then the value is returned.                  *)
Agree ==
  /\ Asserts("agreed", bound, IF creating THEN "returning" ELSE "verified")
  /\ Quiet /\ UNCHANGED <<nameVars, custodyVars>>

Created ==
  /\ At("returning") /\ Go("created")
  /\ UNCHANGED <<nameVars, noteVars, custodyVars>>

-----------------------------------------------------------------------------
(* write_manifest_atomic.                                                  *)
BeginWrite ==
  /\ Asserts("begin", bound /\ entry["target"] = None, "create temporary")
  /\ Quiet /\ UNCHANGED <<nameVars, custodyVars>>

CreateTemporary ==
  /\ At("create temporary") /\ Go("write manifest")
  /\ entry' = [entry EXCEPT !["stage"] = "own"]
  /\ made' = [made EXCEPT !.temporary = TRUE]
  /\ manifest' = "begun"
  /\ changed' = changed \cup {"root"}
  /\ UNCHANGED <<elsewhere, bound, held, lost, noteVars, creating, payload, listed, seen, next,
                 value, published, call, stranded, instant>>

WriteTemporary ==
  /\ At("write manifest") /\ Go("link")
  /\ manifest' = IF manifest = "begun" THEN "whole" ELSE manifest
  /\ UNCHANGED <<nameVars, noteVars, creating, payload, changed, listed, seen, next, value, made,
                 published, call, stranded, instant>>

(* The link names whatever the temporary name holds now.                   *)
LinkManifest ==
  /\ At("link")
  /\ IF entry["stage"] \notin {None, "tree", "hollow"} /\ entry["target"] = None
       THEN /\ entry' = [entry EXCEPT !["target"] = entry["stage"]]
            /\ made' = [made EXCEPT !.published = TRUE]
            /\ call' = [name |-> "stage", done |-> "check", failed |-> "undo"]
            /\ changed' = changed \cup {"root"}
            /\ Go("grab") /\ UNCHANGED reported
       ELSE Raise /\ UNCHANGED <<entry, made, call, changed>>
  /\ Quiet
  /\ UNCHANGED <<elsewhere, bound, held, lost, creating, payload, listed, seen, next, value,
                 manifest, published, stranded, instant>>

Links(o) == Cardinality({n \in Names : entry[n] = o}) + (IF o \in elsewhere THEN 1 ELSE 0)

CheckPublished ==
  /\ Asserts("check", entry["target"] = "own" /\ Links("own") = 1, "sync name")
  /\ made' = [made EXCEPT !.temporary = FALSE]
  /\ changed' = changed \ {"manifest"}
  /\ Quiet
  /\ UNCHANGED <<nameVars, creating, payload, listed, seen, next, value, manifest, published, call,
                 stranded, instant>>

SyncName ==
  /\ Asserts("sync name", bound, "returned")
  /\ changed' = changed \ {"root"}
  /\ Quiet
  /\ UNCHANGED <<nameVars, creating, payload, listed, seen, next, value, manifest, made, published,
                 call, stranded, instant>>

Return ==
  /\ At("returned") /\ Go("list")
  /\ published' = TRUE
  /\ UNCHANGED <<nameVars, noteVars, creating, payload, changed, listed, seen, next, value, manifest,
                 made, call, stranded, instant>>

-----------------------------------------------------------------------------
(* _unlink_owned_name: a name that holds nothing is done with; what it     *)
(* holds is moved twice and compared with the descriptor each time, under  *)
(* two private names that are new in every call.                           *)
Grab ==
  /\ At("grab")
  /\ IF entry[call.name] = None THEN Go(call.done) /\ UNCHANGED <<entry, elsewhere, stranded, changed>>
     ELSE /\ entry' = [entry EXCEPT ![call.name] = None, !["first"] = entry[call.name],
                                    !["second"] = None]
          /\ elsewhere' = elsewhere \cup ({entry["first"], entry["second"]} \ {None})
          /\ stranded' = stranded \cup ({entry["first"], entry["second"]} \ {None})
          /\ Go("grab again")
          /\ changed' = changed \cup {"root", "manifest"}
  /\ Quiet
  /\ UNCHANGED <<reported, bound, held, lost, creating, payload, listed, seen, next,
                 value, manifest, made, published, call, instant>>

GrabAgain ==
  /\ At("grab again")
  /\ IF entry["first"] = "own" /\ entry["second"] = None
       THEN Move("first", "second") /\ Go("remove") /\ UNCHANGED reported
       ELSE Raise /\ UNCHANGED entry
  /\ Quiet
  /\ UNCHANGED <<elsewhere, bound, held, lost, custodyVars>>

Remove ==
  /\ At("remove")
  /\ IF entry["second"] = "own"
       THEN entry' = [entry EXCEPT !["second"] = None] /\ Go(call.done) /\ UNCHANGED reported
       ELSE Raise /\ UNCHANGED entry
  /\ Quiet
  /\ UNCHANGED <<elsewhere, bound, held, lost, custodyVars>>

(* The handler of write_manifest_atomic: both names by the descriptor,     *)
(* then the directory; every error is collected and the rest still done.   *)
Unlinks(p, needed, name, after) ==
  /\ At(p)
  /\ IF needed THEN /\ Go("grab")
                    /\ call' = [name |-> name, done |-> after, failed |-> after]
               ELSE Go(after) /\ UNCHANGED call
  /\ Quiet
  /\ UNCHANGED <<reported, nameVars, creating, payload, changed, listed, seen, next, value,
                 manifest, made, published, stranded, instant>>

UndoPublished == Unlinks("undo", made.published, "target", "undo temporary")
UndoTemporary == Unlinks("undo temporary", made.temporary, "stage", "undo sync")

UndoSync ==
  /\ At("undo sync") /\ Go("caught")
  /\ \E synced \in BOOLEAN : reported' = (reported \/ ~synced \/ ~bound)
  /\ changed' = changed \ {"root"}
  /\ Quiet
  /\ UNCHANGED <<nameVars, creating, payload, listed, seen, next, value, manifest, made, published,
                 call, stranded, instant>>

(* The handler of create, and remove_published_manifest.                   *)
Catch ==
  /\ At("caught") /\ Go(IF published THEN "reopen" ELSE "failed")
  /\ UNCHANGED <<nameVars, noteVars, custodyVars>>

ReopenUntilRemoved ==                 \* a defect: a failed rollback is tried again
  /\ Asserts("reopen", entry["target"] = "own" /\ "manifest" \notin changed, "grab")
  /\ call' = [name |-> "target", done |-> "sync rollback", failed |-> "caught"]
  /\ Quiet
  /\ UNCHANGED <<nameVars, creating, payload, changed, listed, seen, next, value, manifest, made,
                 published, stranded, instant>>

ReopenPublished ==
  /\ Asserts("reopen", entry["target"] = "own" /\ "manifest" \notin changed, "grab")
  /\ call' = [name |-> "target", done |-> "sync rollback", failed |-> "failed"]
  /\ Quiet
  /\ UNCHANGED <<nameVars, creating, payload, changed, listed, seen, next, value, manifest, made,
                 published, stranded, instant>>

SyncRollback ==
  /\ Asserts("sync rollback", bound, "failed")
  /\ Quiet /\ UNCHANGED <<nameVars, custodyVars>>

-----------------------------------------------------------------------------
(* The guard covers --create.  The two effects with their flags are        *)
(* masked; before a handler has begun its work, between the return of      *)
(* write_manifest_atomic and the assignment, and after the last return, an *)
(* exception undoes nothing.                                               *)
Unanswered == {"undo", "undo temporary", "undo sync", "returned", "caught", "returning"}

InterruptCustody ==
  /\ creating /\ ~interrupted /\ interrupted' = TRUE
  /\ pc \notin {"failed", "created"}
  /\ IF pc \in Unanswered THEN Go("failed") /\ late' = TRUE /\ UNCHANGED reported
                           ELSE Raise /\ UNCHANGED late
  /\ UNCHANGED <<nameVars, acts, custodyVars>>

(* Others write, create or remove a delivered file, or write into the      *)
(* manifest.                                                               *)
OthersActOnDelivery ==
  /\ acts < MaxActs /\ acts' = acts + 1
  /\ \/ \E f \in Files, c \in Contents \cup {None} :
          /\ c = None => payload[f] # None
          /\ payload' = [payload EXCEPT ![f] = c]
          /\ changed' = changed \cup {f} \cup (IF None \in {c, payload[f]} THEN {"root"} ELSE {})
          /\ UNCHANGED manifest
     \/ /\ Linked("own") /\ manifest # "altered"
        /\ manifest' = "altered"
        /\ changed' = changed \cup {"manifest", "observed manifest"}
        /\ UNCHANGED payload
  /\ UNCHANGED <<pc, nameVars, interrupted, late, reported, creating, listed, seen, next, value,
                 made, published, call, stranded, instant>>

CustodyInit ==
  /\ creating \in BOOLEAN
  /\ payload \in [Files -> Contents \cup {None}]
  /\ changed = {} /\ listed = {} /\ seen = Unseen /\ next = 1
  /\ value \in IF creating THEN {Unseen} ELSE [Files -> Contents \cup {None}]
  /\ manifest = "whole"
  /\ made = [temporary |-> FALSE, published |-> FALSE] /\ published = FALSE
  /\ call = NoCall /\ stranded = {} /\ instant = [files |-> Unseen, manifest |-> None]

CustodyStep ==
  \/ OpenCustodyRoot \/ ListRoot \/ ScanFile \/ ScanManifest \/ CloseFile \/ CloseRoot
  \/ Agree \/ Created \/ BeginWrite \/ CreateTemporary \/ WriteTemporary \/ LinkManifest
  \/ CheckPublished \/ SyncName \/ Return \/ Grab \/ GrabAgain \/ Remove
  \/ UndoPublished \/ UndoTemporary \/ UndoSync \/ Catch \/ ReopenPublished \/ SyncRollback
  \/ CallFails
=============================================================================
