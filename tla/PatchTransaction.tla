-------------------------- MODULE PatchTransaction --------------------------
(***************************************************************************)
(* src/tools/git-patch-transaction.py: apply or roll back one patch, with  *)
(* recovery from any failure, from a catchable signal at any point, and    *)
(* from other processes that change the repository meanwhile.  One action  *)
(* is one git command or one pass over the patch paths: the checks of a    *)
(* pass are independent, so a change between two of them is a change       *)
(* before or after the pass.                                               *)
(*                                                                         *)
(* git and the other processes are external.  A file is its blob, its      *)
(* executable bit, the maker of its inode and its link count.              *)
(***************************************************************************)
EXTENDS Naturals, FiniteSets

CONSTANTS Paths,              \* the paths of the patch
          Base, Candidate,    \* the two trees, restricted to Paths
          MaxEvents,          \* bound: changes by other processes
          MaxFaults           \* bound: failing steps and signals

Entry(object) == [oid |-> object.oid, exec |-> object.exec]

NoObject == [oid |-> "none", exec |-> FALSE, inode |-> "none", links |-> 0]
NoEntry == Entry(NoObject)

ASSUME PatchAssumption ==
    /\ \A tree \in {Base, Candidate} :
          tree \in [Paths -> [oid : {"base", "candidate"}, exec : BOOLEAN] \cup {NoEntry}]
    /\ \A p \in Paths : Base[p].oid # Candidate[p].oid
    /\ MaxEvents \in Nat /\ MaxFaults \in Nat

VARIABLES action,             \* "apply" or "rollback"
          pc,
          call,               \* who called restore_exact_tree
          handlers,           \* a catchable signal raises, or is ignored
          \* the repository
          worktree, index,    \* by path
          parent,             \* which directory holds the path
          rootBound,          \* the name of the repository still leads to it
          outside,            \* what is not a patch path
          lock,               \* a killed git left index.lock behind
          \* what the transaction remembers
          before, parents, effect, inverseEffect,
          line,               \* the status line on stdout
          outcome,
          \* for the bounds and the properties
          events, faults, killed, drifted,
          rebound             \* paths changed by others since the last check

repository == <<worktree, index, parent, rootBound, outside, lock>>
records == <<before, parents, effect, inverseEffect>>
history == <<events, faults, killed, drifted>>
vars == <<action, pc, call, handlers, repository, records, line, outcome, history, rebound>>

NotCaptured == [p \in Paths |-> [NoObject EXCEPT !.inode = "uncaptured"]]

From == IF action = "apply" THEN Base ELSE Candidate
To == IF action = "apply" THEN Candidate ELSE Base

Undecided == [exit |-> 0, says |-> "undecided"]

-----------------------------------------------------------------------------
(***************************************************************************)
(* What the tool asks of the repository.                                   *)
(***************************************************************************)
StateMatches(object, entry) ==
    /\ Entry(object) = entry
    /\ entry # NoEntry => object.links = 1

ScopeMatches(tree) ==
    index = tree /\ \A p \in Paths : StateMatches(worktree[p], tree[p])

\* git write-tree answers with the tree; it needs the index lock.
WritesTree(tree) == ~lock /\ index = tree /\ outside # "staged"

TrackedClean == outside # "unstaged" /\ \A p \in Paths : Entry(worktree[p]) = index[p]

ExactTreeState(tree) == WritesTree(tree) /\ TrackedClean

\* logical_base_state and candidate_state
InState(tree) == rootBound /\ ExactTreeState(tree) /\ ScopeMatches(tree)

LinksAdded(current, expected) ==
    /\ current.links > expected.links /\ expected.links >= 1
    /\ [current EXCEPT !.links = 0] = [expected EXCEPT !.links = 0]

\* Defects: no identity is compared once the effect is known, or a file of
\* the effect is not known for one before it is captured.
ObjectSafeByPlace(p, desired, alternate, captured, original) ==
    captured # NotCaptured \/ worktree[p] = original[p]

ObjectSafeAsCaptured(p, desired, alternate, captured, original) ==
    IF captured # NotCaptured THEN worktree[p] = captured[p] ELSE worktree[p] = original[p]

ObjectSafe(p, desired, alternate, captured, original) ==
    IF captured # NotCaptured
    THEN worktree[p] = captured[p] \/ LinksAdded(worktree[p], captured[p])
    ELSE \/ worktree[p] = original[p]
         \/ StateMatches(worktree[p], alternate[p]) \/ StateMatches(worktree[p], desired[p])

IndexSafe(p, desired, alternate, normalizes) ==
    \/ index[p] \in {desired[p], alternate[p]}
    \/ normalizes /\ NoEntry \notin {index[p], desired[p]} /\ index[p].oid = desired[p].oid

ScopeSafe(desired, alternate, captured, original, normalizes) ==
    \A p \in Paths : /\ ObjectSafe(p, desired, alternate, captured, original)
                     /\ IndexSafe(p, desired, alternate, normalizes)

-----------------------------------------------------------------------------
(***************************************************************************)
(* git, as the tool uses it.  A file git writes is a new inode; git apply  *)
(* may lose the executable bit of what it writes, and refuses files that   *)
(* do not hold what the patch or the index says.                           *)
(***************************************************************************)
Placed(entry, maker) ==
    IF entry = NoEntry THEN NoObject
    ELSE [oid |-> entry.oid, exec |-> entry.exec, inode |-> maker, links |-> 1]

PatchApplies(source) ==
    ~lock /\ \A p \in Paths : index[p].oid = source[p].oid /\ Entry(worktree[p]) = index[p]

Writes(tree, maker) ==
    /\ index' = tree
    /\ worktree' = [p \in Paths |-> Placed(tree[p], maker)]

GitApplies(source, target, maker) ==
    /\ PatchApplies(source)
    /\ \E lost \in SUBSET {p \in Paths : target[p].exec} :
          /\ Writes([p \in Paths |-> [target[p] EXCEPT !.exec = @ /\ p \notin lost]], maker)
          /\ drifted' = (drifted \/ lost # {})
    /\ UNCHANGED <<parent, rootBound, outside, lock>>

\* git restore --staged --worktree; a file that is right already stays as it is.
GitRestores(tree, scope) ==
    /\ ~lock
    /\ index' = [p \in Paths |-> IF p \in scope THEN tree[p] ELSE index[p]]
    /\ worktree' = [p \in Paths |-> IF p \in scope /\ Entry(worktree[p]) # tree[p]
                                    THEN Placed(tree[p], "restore") ELSE worktree[p]]
    /\ UNCHANGED <<parent, rootBound, outside, lock>>

\* git ends in the middle, killed by subprocess.run or on its own: any files may
\* be written, or torn, and the index is written whole or not at all.
GitEndsEarly(target, scope, maker) ==
    /\ ~lock
    /\ \E written \in [scope -> {"no", "torn", "yes"}] :
          /\ worktree' = [p \in Paths |->
                IF p \notin scope \/ written[p] = "no" THEN worktree[p]
                ELSE IF written[p] = "yes" \/ target[p] = NoEntry THEN Placed(target[p], maker)
                ELSE Placed([oid |-> "torn", exec |-> FALSE], maker)]
          /\ \/ index' = index /\ lock' \in BOOLEAN
             \/ /\ \A p \in scope : written[p] = "yes"
                /\ index' = [p \in Paths |-> IF p \in scope THEN target[p] ELSE index[p]]
                /\ lock' = FALSE
    /\ killed' = TRUE
    /\ UNCHANGED <<parent, rootBound, outside>>

-----------------------------------------------------------------------------
Finish(exit, says) ==
    /\ pc' = "done"
    /\ outcome' = [exit |-> exit, says |-> says]

\* The state before the transaction, read before anything is promised.
Classify ==
    /\ pc = "classify"
    /\ IF InState(From) THEN pc' = "capture" /\ UNCHANGED outcome
       ELSE IF InState(To) THEN Finish(3, "already") ELSE Finish(1, "refused")
    /\ UNCHANGED <<action, call, handlers, repository, records, line, history, rebound>>

Capture ==
    /\ pc = "capture"
    /\ before' = worktree /\ parents' = parent
    /\ pc' = "check"
    /\ UNCHANGED <<action, call, handlers, repository, effect, inverseEffect, line, outcome,
                   history, rebound>>

\* git apply --check
CheckPatch ==
    /\ pc = "check"
    /\ pc' = IF PatchApplies(From) THEN "prebind" ELSE "recover"
    /\ UNCHANGED <<action, call, handlers, repository, records, line, outcome, history, rebound>>

PreEffectBindings ==
    /\ pc = "prebind"
    /\ pc' = IF rootBound /\ parent = parents /\ worktree = before THEN "effect" ELSE "recover"
    /\ rebound' = {}
    /\ UNCHANGED <<action, call, handlers, repository, records, line, outcome, history>>

Effect ==
    /\ pc = "effect"
    /\ \/ GitApplies(From, To, "apply") /\ pc' = "captureEffect"
       \/ ~PatchApplies(From) /\ pc' = "recover" /\ UNCHANGED <<repository, drifted>>
    /\ UNCHANGED <<action, call, handlers, records, line, outcome, events, faults, killed, rebound>>

CaptureEffect ==
    /\ pc \in {"captureEffect", "captureAgain"}
    /\ effect' = worktree
    /\ pc' = IF pc = "captureEffect" THEN "normalize" ELSE "verify"
    /\ UNCHANGED <<action, call, handlers, repository, before, parents, inverseEffect, line,
                   outcome, history, rebound>>

\* The mode that git apply lost is put back before the effect is believed.
Normalize ==
    /\ pc = "normalize"
    /\ IF WritesTree(To) /\ ScopeMatches(To)
       THEN pc' = "captureAgain" /\ UNCHANGED call
       ELSE IF lock THEN pc' = "recover" /\ UNCHANGED call
       ELSE pc' = "safe" /\ call' = "normalize"
    /\ UNCHANGED <<action, handlers, repository, records, line, outcome, history, rebound>>

Verify ==
    /\ pc = "verify"
    /\ pc' = IF parent = parents /\ worktree = effect /\ InState(To) THEN "publish" ELSE "recover"
    /\ rebound' = {}
    /\ UNCHANGED <<action, call, handlers, repository, records, line, outcome, history>>

\* Defect: signals still raise while the status line is written.
PublishArmed ==
    /\ pc = "publish"
    /\ pc' = "status"
    /\ UNCHANGED <<action, call, handlers, repository, records, line, outcome, history, rebound>>

\* publish_terminal_success: from here on signals are discarded.
Publish ==
    /\ pc = "publish"
    /\ handlers' = "ignore"
    /\ pc' = "status"
    /\ UNCHANGED <<action, call, repository, records, line, outcome, history, rebound>>

\* write_all; the last write and the mark of success are two steps.
WriteStatus ==
    /\ pc = "status"
    /\ line' = "whole"
    /\ pc' = "committed"
    /\ UNCHANGED <<action, call, handlers, repository, records, outcome, history, rebound>>

Commit ==
    /\ pc = "committed"
    /\ Finish(0, "applied")
    /\ UNCHANGED <<action, call, handlers, repository, records, line, history, rebound>>

-----------------------------------------------------------------------------
(***************************************************************************)
(* recover_after_effect and restore_with_inverse: back to From.            *)
(***************************************************************************)
Recover ==
    /\ pc = "recover"
    /\ IF ExactTreeState(From) THEN Finish(1, "restored") ELSE pc' = "inspect" /\ UNCHANGED outcome
    /\ UNCHANGED <<action, call, handlers, repository, records, line, history, rebound>>

Inspect ==
    /\ pc = "inspect"
    /\ IF lock THEN Finish(1, "not restored") /\ UNCHANGED call
       ELSE IF WritesTree(To) THEN pc' = "inverse" /\ UNCHANGED <<call, outcome>>
       ELSE pc' = "safe" /\ call' = "recover" /\ UNCHANGED outcome
    /\ UNCHANGED <<action, handlers, repository, records, line, history, rebound>>

InverseSafe ==
    /\ pc = "inverse"
    /\ IF ScopeSafe(From, To, effect, before, FALSE)
       THEN pc' = "inverseCheck" /\ UNCHANGED outcome
       ELSE Finish(1, "not restored")
    /\ rebound' = {}
    /\ UNCHANGED <<action, call, handlers, repository, records, line, history>>

\* Defect: an inverse that fails is tried again.
InverseRetried == pc' = "inspect" /\ UNCHANGED call

\* An inverse that fails for no foreign object is followed by restore_exact_tree.
InverseFails == pc' = "safe" /\ call' = "recover"

InverseCheck ==
    /\ pc = "inverseCheck"
    /\ IF PatchApplies(To) THEN pc' = "inverseApply" /\ UNCHANGED call ELSE InverseFails
    /\ UNCHANGED <<action, handlers, repository, records, line, outcome, history, rebound>>

InverseApply ==
    /\ pc = "inverseApply"
    /\ \/ GitApplies(To, From, "inverse") /\ pc' = "inverseCapture" /\ UNCHANGED call
       \/ ~PatchApplies(To) /\ InverseFails /\ UNCHANGED <<repository, drifted>>
    /\ UNCHANGED <<action, handlers, records, line, outcome, events, faults, killed, rebound>>

InverseCapture ==
    /\ pc = "inverseCapture"
    /\ inverseEffect' = worktree
    /\ pc' = "inverseNormalize"
    /\ UNCHANGED <<action, call, handlers, repository, before, parents, effect, line, outcome,
                   history, rebound>>

InverseNormalize ==
    /\ pc = "inverseNormalize"
    /\ IF lock THEN InverseFails
       ELSE IF WritesTree(From) /\ ScopeMatches(From) THEN pc' = "inverseConfirm" /\ UNCHANGED call
       ELSE pc' = "safe" /\ call' = "inverse"
    /\ UNCHANGED <<action, handlers, repository, records, line, outcome, history, rebound>>

InverseConfirm ==
    /\ pc = "inverseConfirm"
    /\ IF rootBound /\ ScopeMatches(From)
       THEN Finish(1, IF ExactTreeState(From) THEN "restored" ELSE "not restored")
            /\ UNCHANGED call
       ELSE InverseFails /\ UNCHANGED outcome
    /\ UNCHANGED <<action, handlers, repository, records, line, history, rebound>>

-----------------------------------------------------------------------------
(***************************************************************************)
(* restore_exact_tree, for its three callers.                              *)
(***************************************************************************)
Desired == IF call = "normalize" THEN To ELSE From
Alternate == IF call = "normalize" THEN From ELSE To
Known == IF call = "inverse" THEN inverseEffect ELSE effect
Original == IF call = "recover" THEN before ELSE NotCaptured

\* The caller sees the message; a foreign object or a divergence ends recovery.
RestoreFails(foreign) ==
    /\ CASE call = "normalize" -> pc' = "recover" /\ UNCHANGED <<call, outcome>>
         [] call = "inverse" /\ ~foreign -> InverseFails /\ UNCHANGED outcome
         [] OTHER -> Finish(1, "not restored") /\ UNCHANGED call

RestoreSafe ==
    /\ pc = "safe"
    /\ IF ScopeSafe(Desired, Alternate, Known, Original, TRUE)
       THEN pc' = "detach" /\ UNCHANGED <<call, outcome>>
       ELSE RestoreFails(TRUE)
    /\ rebound' = {}
    /\ UNCHANGED <<action, handlers, repository, records, line, history>>

\* detach_owned_hardlink_alias: only the name goes, the other link stays.
Detach ==
    /\ pc = "detach"
    /\ worktree' = [p \in Paths |-> IF Known # NotCaptured /\ LinksAdded(worktree[p], Known[p])
                                    THEN NoObject ELSE worktree[p]]
    /\ pc' = "restore"
    /\ UNCHANGED <<action, call, handlers, index, parent, rootBound, outside, lock, records, line,
                   outcome, history, rebound>>

Present == {p \in Paths : Desired[p] # NoEntry}

RestorePresent ==
    /\ pc = "restore"
    /\ \/ /\ Present # {}
          /\ GitRestores(Desired, Present)
          /\ pc' = "unlink"
          /\ UNCHANGED <<call, outcome>>
       \/ Present = {} /\ pc' = "unlink" /\ UNCHANGED <<call, outcome, repository>>
       \/ Present # {} /\ lock /\ RestoreFails(FALSE) /\ UNCHANGED repository
    /\ UNCHANGED <<action, handlers, records, line, history, rebound>>

\* _unlink_bound_path is bound to what is there now, whatever that is; the
\* index entry goes after the file.
RemoveAbsent ==
    /\ pc = "unlink"
    /\ \/ /\ lock
          /\ \E p \in Paths \ Present : worktree' = [worktree EXCEPT ![p] = NoObject]
          /\ RestoreFails(FALSE)
          /\ UNCHANGED index
       \/ /\ ~lock \/ Present = Paths
          /\ worktree' = [p \in Paths |-> IF p \in Present THEN worktree[p] ELSE NoObject]
          /\ index' = [p \in Paths |-> IF p \in Present THEN index[p] ELSE NoEntry]
          /\ pc' = "confirm"
          /\ UNCHANGED <<call, outcome>>
    /\ UNCHANGED <<action, handlers, parent, rootBound, outside, lock, records, line, history,
                   rebound>>

RestoreConfirm ==
    /\ pc = "confirm"
    /\ IF rootBound /\ ScopeMatches(Desired) /\ ExactTreeState(Desired)
       THEN CASE call = "normalize" -> pc' = "captureAgain" /\ UNCHANGED <<call, outcome>>
              [] call = "inverse" -> pc' = "inverseConfirm" /\ UNCHANGED <<call, outcome>>
              [] call = "recover" -> Finish(1, "restored") /\ UNCHANGED call
       ELSE RestoreFails(rootBound /\ ScopeMatches(Desired))
    /\ UNCHANGED <<action, handlers, repository, records, line, history, rebound>>

-----------------------------------------------------------------------------
(***************************************************************************)
(* A step that fails, and a signal.                                        *)
(***************************************************************************)
TryRegion == {"check", "prebind", "effect", "captureEffect", "normalize", "captureAgain",
              "verify", "publish", "status", "committed"}
InverseRegion == {"inverse", "inverseCheck", "inverseApply", "inverseCapture",
                  "inverseNormalize", "inverseConfirm"}
RestoreRegion == {"safe", "detach", "restore", "unlink", "confirm"}

\* Where an exception at this point of the routine goes.
Raises ==
    \/ /\ pc \in {"classify", "capture"}
       /\ IF pc = "classify" /\ InState(To) THEN Finish(3, "already") ELSE Finish(1, "refused")
       /\ UNCHANGED call
    \/ pc \in TryRegion /\ pc' = "recover" /\ UNCHANGED <<call, outcome>>
    \/ pc = "recover" /\ pc' = "inspect" /\ UNCHANGED <<call, outcome>>
    \/ pc = "inspect" /\ Finish(1, "not restored") /\ UNCHANGED call
    \/ pc \in InverseRegion /\ InverseFails /\ UNCHANGED outcome
    \/ pc \in RestoreRegion /\ RestoreFails(FALSE)

\* A git command or a read fails, or a hook does.  A status line that could not
\* be written gives the signals their handlers back.
StepFails ==
    /\ faults < MaxFaults
    /\ pc # "committed"
    /\ Raises
    /\ faults' = faults + 1
    /\ IF pc = "status" THEN handlers' = "raise" /\ line' \in {"none", "partial"}
       ELSE UNCHANGED <<handlers, line>>
    /\ UNCHANGED <<action, repository, records, events, killed, drifted, rebound>>

\* Between the except clause and the try blocks of recovery nothing catches.
Recovering ==
    \/ pc \in {"recover", "inspect"} \cup InverseRegion
    \/ pc \in RestoreRegion /\ call # "normalize"

\* The handler runs between two steps, and ignores the signals after it.
SignalRaises ==
    /\ faults < MaxFaults
    /\ handlers = "raise"
    /\ \/ Raises
       \/ Recovering /\ Finish(1, "interrupted") /\ UNCHANGED call
    /\ handlers' = "ignore"
    /\ faults' = faults + 1
    /\ UNCHANGED <<action, repository, records, line, events, killed, drifted, rebound>>

Mutating ==
    \/ pc = "effect" /\ PatchApplies(From) /\ GitEndsEarly(To, Paths, "apply")
    \/ pc = "inverseApply" /\ PatchApplies(To) /\ GitEndsEarly(From, Paths, "inverse")
    \/ pc = "restore" /\ Present # {} /\ GitEndsEarly(Desired, Present, "restore")

\* Only a killed git leaves its lock.
GitInterrupted ==
    /\ faults < MaxFaults
    /\ Mutating
    /\ Raises
    /\ \/ handlers = "raise" /\ handlers' = "ignore"
       \/ lock' = lock /\ UNCHANGED handlers
    /\ faults' = faults + 1
    /\ UNCHANGED <<action, records, line, events, drifted, rebound>>

-----------------------------------------------------------------------------
(***************************************************************************)
(* The other processes.                                                    *)
(***************************************************************************)
ForeignObject == [oid |-> "foreign", exec |-> FALSE, inode |-> "foreign", links |-> 1]

Disturbs ==
    /\ pc # "done" /\ events < MaxEvents
    /\ events' = events + 1
    /\ UNCHANGED <<action, pc, call, handlers, lock, records, line, outcome, faults, killed, drifted>>

Rebinds(p, object) ==
    /\ worktree' = [worktree EXCEPT ![p] = object]
    /\ rebound' = rebound \cup {p}
    /\ UNCHANGED <<index, parent, rootBound, outside>>

\* A file is replaced, by foreign bytes or by a copy, or given another link.
RebindPath ==
    /\ Disturbs
    /\ \E p \in Paths :
          \/ Rebinds(p, ForeignObject)
          \/ worktree[p] # NoObject /\ Rebinds(p, [worktree[p] EXCEPT !.inode = "foreign"])
          \/ worktree[p] # NoObject /\ Rebinds(p, [worktree[p] EXCEPT !.links = @ + 1])

StageForeign ==
    /\ Disturbs
    /\ \E p \in Paths :
          index' = [index EXCEPT ![p] = Entry(ForeignObject)] /\ rebound' = rebound \cup {p}
    /\ UNCHANGED <<worktree, parent, rootBound, outside>>

\* A directory is replaced and the files are moved into the new one.
RebindParent ==
    /\ Disturbs
    /\ \E p \in Paths : parent' = [parent EXCEPT ![p] = "foreign"] /\ rebound' = rebound \cup {p}
    /\ UNCHANGED <<worktree, index, rootBound, outside>>

RebindRoot ==
    /\ Disturbs
    /\ rootBound' = FALSE
    /\ UNCHANGED <<worktree, index, parent, outside, rebound>>

ChangeElsewhere ==
    /\ Disturbs
    /\ outside' \in {"unstaged", "staged"}
    /\ UNCHANGED <<worktree, index, parent, rootBound, rebound>>

-----------------------------------------------------------------------------
Done == pc = "done" /\ UNCHANGED vars

Init ==
    /\ action \in {"apply", "rollback"}
    /\ pc = "classify" /\ call = "none" /\ handlers = "raise"
    /\ \E tree \in {Base, Candidate} :
          /\ index = tree
          /\ worktree = [p \in Paths |-> Placed(tree[p], "checkout")]
    /\ parent = [p \in Paths |-> "checkout"]
    /\ rootBound = TRUE /\ outside \in {"clean", "unstaged"} /\ lock = FALSE
    /\ before = NotCaptured /\ parents = [p \in Paths |-> "none"]
    /\ effect = NotCaptured /\ inverseEffect = NotCaptured
    /\ line = "none" /\ outcome = Undecided
    /\ events = 0 /\ faults = 0 /\ killed = FALSE /\ drifted = FALSE
    /\ rebound = {}

Transaction ==
    \/ Classify \/ Capture \/ CheckPatch \/ PreEffectBindings \/ Effect \/ CaptureEffect
    \/ Normalize \/ Verify \/ Publish \/ WriteStatus \/ Commit

Recovery ==
    \/ Recover \/ Inspect
    \/ InverseSafe \/ InverseCheck \/ InverseApply \/ InverseCapture \/ InverseNormalize
    \/ InverseConfirm
    \/ RestoreSafe \/ Detach \/ RestorePresent \/ RemoveAbsent \/ RestoreConfirm

Step == Transaction \/ Recovery

Interruption == StepFails \/ SignalRaises \/ GitInterrupted

Others == RebindPath \/ StageForeign \/ RebindParent \/ RebindRoot \/ ChangeElsewhere

Next == Step \/ Interruption \/ Others \/ Done

\* One process: its next step is taken unless it fails.
Spec == Init /\ [][Next]_vars /\ WF_vars(Step)

-----------------------------------------------------------------------------
(***************************************************************************)
(* Applying, normalising and recovering take away no file of another       *)
(* process: what a step removes or overwrites holds the bytes of one of    *)
(* the two trees, or what git left of them, or was captured as the state   *)
(* before or as the effect, or was bound there after the last check.       *)
(***************************************************************************)
Owned(p) ==
    \/ worktree[p].oid # "foreign"
    \/ \E known \in {before[p], effect[p], inverseEffect[p]} :
          worktree[p] = known \/ LinksAdded(worktree[p], known)
    \/ p \in rebound

OnlyOwnedRemoved ==
    [][events' = events => \A p \in Paths : worktree'[p] # worktree[p] => Owned(p)]_vars

(***************************************************************************)
(* The outcome is true.  "restored" is said of the starting tree, in the   *)
(* index and in the files.  "applied" is said of the patched tree, of the  *)
(* very files the effect made, in the directories they were in before,     *)
(* unless another process came after the last check.  A complete status    *)
(* line is on stdout exactly when the exit status is 0.                    *)
(***************************************************************************)
HoldsTree(tree) ==
    /\ index = tree
    /\ \A p \in Paths : Entry(worktree[p]) = tree[p]

OutcomeIsTrue ==
    /\ pc = "done" => (line = "whole" <=> outcome.exit = 0)
    /\ outcome.says = "restored" /\ events = 0 => HoldsTree(From)
    /\ outcome.says = "applied" =>
          \A p \in Paths \ rebound : /\ index[p] = To[p]
                                    /\ StateMatches(worktree[p], To[p])
                                    /\ worktree[p] = effect[p] /\ parent[p] = parents[p]

(***************************************************************************)
(* One failure is not too much: when nobody else touches the repository    *)
(* and git neither dies in the middle nor loses an executable bit, a step  *)
(* that fails or a signal, wherever it comes, leaves the tree patched and  *)
(* reported so, or back where it was.                                      *)
(***************************************************************************)
OneFailureRecovered ==
    pc = "done" /\ events = 0 /\ faults <= 1 /\ ~killed /\ ~drifted =>
       \/ outcome.exit = 0
       \/ outcome.says \in {"refused", "already"}
       \/ outcome.says = "restored" /\ \A p \in Paths : StateMatches(worktree[p], From[p])

(***************************************************************************)
(* Recovery calls normalisation and normalisation fails into recovery, but *)
(* every transaction ends with an outcome.                                 *)
(***************************************************************************)
AlwaysEnds == <>(pc = "done")

(***************************************************************************)
(* "A late foreign replacement or unrelated tracked/untracked divergence   *)
(* is preserved and causes fail-closed recovery rather than deletion"      *)
(* (src/tools/git-patch-transaction.py:788).                               *)
(***************************************************************************)
LateForeignPreserved ==
    [][events' = events =>
          \A p \in Paths : worktree[p].oid = "foreign" => worktree'[p] = worktree[p]]_vars
=============================================================================
