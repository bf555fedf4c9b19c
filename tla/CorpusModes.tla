---------------------------- MODULE CorpusModes ----------------------------
(***************************************************************************)
(* --repair-modes of benchmarks/scripts/build-provisional-corpus.py: the   *)
(* same transaction over a generated corpus, of which every member is held *)
(* open from the start.  The change time of an object is a witness: "stale"*)
(* has the objects that others have changed in any way since the tool last *)
(* took it.  The tree is authenticated as a whole at four boundaries.      *)
(***************************************************************************)
EXTENDS TrackedModes

VARIABLES boundary,    \* the authentication under way or to come
          stale

corpusVars == <<boundary, stale>>
allModes   == <<modeVars, corpusVars>>

Corpus   == Folders \cup Tracked
Started  == boundary \in {"success", "return"}    \* mutation_started
Abandon  == Go(IF Started THEN "mask" ELSE "unchanged")
Expected(p) == IF Started THEN p \notin off ELSE p \in drifted <=> p \in off

-----------------------------------------------------------------------------
(* The root and its parent, then every member the walk of the tree finds.  *)
RetainRoot ==
  /\ At("retain root") /\ Go("retain")
  /\ expected' = [expected EXCEPT !["top"] = "top"]
  /\ drifted' = off \cap {"top"}
  /\ stale' = {}
  /\ UNCHANGED <<nameVars, noteVars, treeVars, index, mutated, chmodded, calm, boundary>>

Membership == \A p \in Tree : p \in Corpus <=> Found(p) # None

RetainMembers ==
  /\ At("retain")
  /\ IF Membership
       THEN /\ expected' = [p \in Tree |-> Found(p)]
            /\ drifted' = (drifted \cap {"top"}) \cup {p \in Corpus \ {"top"} : ~Canonical(p)}
            /\ stale' = stale \cap {"top", "parent"} /\ Go("snapshot")
       ELSE Go("unchanged") /\ UNCHANGED <<expected, drifted, stale>>
  /\ UNCHANGED <<nameVars, noteVars, treeVars, index, mutated, chmodded, calm, boundary>>

(* verify_retained_corpus_snapshot reads the bytes through the descriptors.*)
Snapshot ==
  /\ At("snapshot")
  /\ IF \A p \in Tracked : expected[p] = p /\ p \notin rewritten THEN Go("authenticate") ELSE Abandon
  /\ index' = 1 /\ calm' = TRUE
  /\ UNCHANGED <<nameVars, noteVars, treeVars, expected, drifted, mutated, chmodded, corpusVars>>

-----------------------------------------------------------------------------
(* reauthenticate_transaction: the paths to the root and the membership,   *)
(* then one member after the other.                                        *)
TreeStands ==
  /\ visible /\ "parent" \notin stale
  /\ Membership /\ Corpus \cap relinked = {}
  /\ \A p \in Corpus : Found(p) = expected[p]

MemberByValue(p) ==                 \* a defect: the change time is not compared
  /\ Expected(p) /\ Found(p) = expected[p]
  /\ p = "top" => TreeStands
  /\ p \in Tracked => p \notin relinked \cup rewritten

MemberStands(p) ==
  /\ p \notin stale
  /\ Expected(p) /\ Found(p) = expected[p]
  /\ p = "top" => TreeStands
  /\ p \in Tracked => p \notin relinked \cup rewritten

Authenticate ==
  /\ At("authenticate") /\ ~Finished
  /\ IF MemberStands(Path) THEN index' = index + 1 /\ UNCHANGED pc ELSE Abandon /\ UNCHANGED index
  /\ UNCHANGED <<nameVars, noteVars, treeVars, expected, drifted, mutated, chmodded, calm, corpusVars>>

Authenticated ==
  /\ At("authenticate") /\ Finished /\ index' = 1
  /\ CASE boundary = "semantic" -> boundary' = "mutation" /\ Go("barrier")
       [] boundary = "mutation" -> boundary' = "success" /\ Go("change member")
       [] boundary = "success"  -> boundary' = "return" /\ Go("snapshot")
       [] boundary = "return"   -> UNCHANGED boundary /\ Go("repaired")
  /\ UNCHANGED <<nameVars, noteVars, treeVars, expected, drifted, mutated, chmodded, calm, stale>>

-----------------------------------------------------------------------------
(* The root gets the mode it has, which moves its change time; the time is *)
(* taken afresh after each fchmod of the tool's own.                       *)
SetMode(o, isOff) == off' = IF isOff THEN off \cup {o} ELSE off \ {o}

Barrier ==
  /\ At("barrier") /\ Go("barrier taken")
  /\ SetMode("top", "top" \in drifted)
  /\ UNCHANGED <<nameVars, noteVars, authority, tracked, named, wasOff, relinked, rewritten, meddled,
                 visible, workVars, corpusVars>>

ChangeMember ==
  /\ At("change member") /\ ~Finished /\ Go("change taken")
  /\ SetMode(Path, FALSE) /\ chmodded' = chmodded \cup {Path}
  /\ UNCHANGED <<nameVars, noteVars, authority, tracked, named, wasOff, relinked, rewritten, meddled,
                 visible, expected, drifted, index, mutated, calm, corpusVars>>

TakeTime ==
  /\ \/ At("barrier taken") /\ Go("authenticate") /\ UNCHANGED index
     \/ At("change taken") /\ Go("change member") /\ index' = index + 1
  /\ stale' = stale \ {Path}
  /\ UNCHANGED <<nameVars, noteVars, treeVars, expected, drifted, mutated, chmodded, calm, boundary>>

MembersChanged ==
  /\ At("change member") /\ Finished /\ Go("authenticate") /\ index' = 1
  /\ UNCHANGED <<nameVars, noteVars, treeVars, expected, drifted, mutated, chmodded, calm, corpusVars>>

-----------------------------------------------------------------------------
(* Rollback with signals blocked: every member, changed or not, then the   *)
(* root; a mode that cannot be restored is in the message.                 *)
MaskSignals ==
  /\ At("mask") /\ Go("restore") /\ index' = Len(Order)
  /\ UNCHANGED <<nameVars, noteVars, treeVars, expected, drifted, mutated, chmodded, calm, corpusVars>>

RestoreMember ==
  /\ At("restore") /\ index > 0 /\ index' = index - 1
  /\ \/ SetMode(Path, Path \in drifted) /\ UNCHANGED reported
     \/ (Path \in off) # (Path \in drifted) /\ reported' = TRUE /\ UNCHANGED off
  /\ UNCHANGED <<pc, nameVars, interrupted, late, acts, authority, tracked, named, wasOff, relinked,
                 rewritten, meddled, visible, expected, drifted, mutated, chmodded, calm, corpusVars>>

CheckRestored ==
  /\ At("restore") /\ index = 0 /\ Go("unchanged")
  /\ reported' = (reported \/ \E p \in Corpus : (p \in off) # (p \in drifted))
  /\ UNCHANGED <<nameVars, interrupted, late, acts, allModes>>

-----------------------------------------------------------------------------
RepairFails ==
  /\ pc \in {"retain root", "retain", "snapshot", "authenticate", "barrier", "change member"} /\ Abandon
  /\ UNCHANGED <<nameVars, noteVars, allModes>>

(* SIGINT or SIGTERM raises an exception, once.  One that comes between a  *)
(* failure and the call that blocks it leaves the handler; one that comes  *)
(* in the rollback is only recorded.                                       *)
InterruptRepair ==
  /\ ~interrupted /\ interrupted' = TRUE
  /\ IF At("restore") THEN UNCHANGED <<pc, late>>
     ELSE IF At("mask") THEN Go("unchanged") /\ late' = TRUE
     ELSE Abandon /\ UNCHANGED late
  /\ UNCHANGED <<nameVars, reported, acts, allModes>>

\* What others change gets a new change time, until the tool has looked for the last time.
LookedAt(o) ==
  boundary = "return" /\ At("authenticate") /\ \E i \in 1 .. index - 1 : i <= Len(Order) /\ Order[i] = o

OthersTouchCorpus ==
  /\ OthersTouchTree
  /\ LET differ(s, t) == (s \ t) \cup (t \ s)
         moved == {p \in Tree : named'[p] # named[p]}
         changed == differ(off, off') \cup differ(relinked, relinked') \cup differ(rewritten, rewritten')
                      \cup {named[p] : p \in moved} \cup {named'[p] : p \in moved}
                      \cup {IF p = "deep" THEN "dir" ELSE "top" : p \in moved} IN
       \/ stale' = stale \cup {o \in changed : ~LookedAt(o)}
       \/ visible' # visible /\ stale' = stale \cup {"parent"}
  /\ UNCHANGED boundary

CorpusInit == boundary = "semantic" /\ stale = {}

RepairStep ==
  \/ RetainRoot \/ RetainMembers \/ Snapshot \/ Authenticate \/ Authenticated \/ Barrier \/ ChangeMember
  \/ TakeTime \/ MembersChanged \/ MaskSignals \/ RestoreMember \/ CheckRestored \/ RepairFails
=============================================================================
