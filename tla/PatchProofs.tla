---------------------------- MODULE PatchProofs ----------------------------
(***************************************************************************)
(* Proofs about git-patch-transaction.py: for every set of paths, every    *)
(* pair of trees and every number of failures, signals and changes by      *)
(* other processes, the outcome is true, one failure is recovered from,    *)
(* and nothing of another process is taken away.                           *)
(***************************************************************************)
EXTENDS PatchTransaction, TLAPS

-----------------------------------------------------------------------------
(* What the variables hold.                                                *)

Blobs == {"none", "base", "candidate", "torn", "foreign"}
Makers == {"none", "checkout", "apply", "inverse", "restore", "foreign", "uncaptured"}

Objects == [oid : Blobs, exec : BOOLEAN, inode : Makers, links : Nat]
Entries == [oid : Blobs, exec : BOOLEAN]

Points == {"classify", "capture", "recover", "inspect", "done"}
             \cup TryRegion \cup InverseRegion \cup RestoreRegion

RepositoryTyped ==
    /\ worktree \in [Paths -> Objects] /\ index \in [Paths -> Entries]
    /\ parent \in [Paths -> {"checkout", "foreign"}]
    /\ rootBound \in BOOLEAN /\ lock \in BOOLEAN
    /\ outside \in {"clean", "unstaged", "staged"}

HistoryTyped ==
    /\ events \in Nat /\ faults \in Nat
    /\ killed \in BOOLEAN /\ drifted \in BOOLEAN
    /\ rebound \subseteq Paths

ControlTyped ==
    /\ action \in {"apply", "rollback"}
    /\ pc \in Points
    /\ call \in {"none", "normalize", "inverse", "recover"}
    /\ pc \in RestoreRegion => call # "none"
    /\ handlers \in {"raise", "ignore"}
    /\ line \in {"none", "partial", "whole"}

RecordsTyped ==
    /\ before \in [Paths -> Objects] /\ effect \in [Paths -> Objects]
    /\ inverseEffect \in [Paths -> Objects]

-----------------------------------------------------------------------------
(* The trees.                                                              *)

LEMMA TreeTyped ==
    ASSUME NEW tree \in {Base, Candidate}
    PROVE  /\ tree \in [Paths -> Entries]
           /\ \A p \in Paths : tree[p].oid \in {"none", "base", "candidate"}
  <1>1. tree \in [Paths -> [oid : {"base", "candidate"}, exec : BOOLEAN] \cup {NoEntry}]
    BY PatchAssumption
  <1>2. NoEntry = [oid |-> "none", exec |-> FALSE]
    BY DEF NoEntry, NoObject, Entry
  <1>3. ASSUME NEW p \in Paths
        PROVE  tree[p] \in Entries /\ tree[p].oid \in {"none", "base", "candidate"}
    <2>1. tree[p] \in [oid : {"base", "candidate"}, exec : BOOLEAN] \/ tree[p] = NoEntry
      BY <1>1
    <2>2. NoEntry \in Entries /\ NoEntry.oid = "none"
      BY <1>2 DEF Entries, Blobs
    <2>3. [oid : {"base", "candidate"}, exec : BOOLEAN] \subseteq Entries
      BY DEF Entries, Blobs
    <2>4. tree[p] \in [oid : {"base", "candidate"}, exec : BOOLEAN] =>
             tree[p].oid \in {"base", "candidate"}
      OBVIOUS
    <2> QED BY <2>1, <2>2, <2>3, <2>4
  <1> QED BY <1>1, <1>3

LEMMA SidesAreTrees ==
    /\ From \in {Base, Candidate} /\ To \in {Base, Candidate}
    /\ Desired \in {Base, Candidate} /\ Alternate \in {Base, Candidate}
  BY DEF From, To, Desired, Alternate

LEMMA PlacedTyped ==
    ASSUME NEW entry \in Entries, NEW maker \in Makers
    PROVE  /\ Placed(entry, maker) \in Objects
           /\ Placed(entry, maker).oid = entry.oid
           /\ Entry(Placed(entry, maker)) = entry
           /\ StateMatches(Placed(entry, maker), entry)
  <1>1. entry.oid \in Blobs /\ entry.exec \in BOOLEAN /\ entry = [oid |-> entry.oid, exec |-> entry.exec]
    BY DEF Entries
  <1>2. NoObject \in Objects /\ NoObject.oid = "none" /\ Entry(NoObject) = NoEntry
        /\ NoEntry.oid = "none"
    BY DEF NoObject, Objects, Blobs, Makers, NoEntry, Entry
  <1>3. CASE entry = NoEntry
    BY <1>2, <1>3 DEF Placed, StateMatches
  <1>4. CASE entry # NoEntry
    <2> DEFINE object == [oid |-> entry.oid, exec |-> entry.exec, inode |-> maker, links |-> 1]
    <2>1. Placed(entry, maker) = object
      BY <1>4 DEF Placed
    <2>2. object \in Objects /\ object.oid = entry.oid /\ object.links = 1
      BY <1>1 DEF Objects
    <2>3. Entry(object) = entry
      BY <1>1 DEF Entry
    <2> QED BY <2>1, <2>2, <2>3 DEF StateMatches
  <1> QED BY <1>3, <1>4

LEMMA PlacedTree ==
    ASSUME NEW tree \in [Paths -> Entries], NEW maker \in Makers
    PROVE  [p \in Paths |-> Placed(tree[p], maker)] \in [Paths -> Objects]
  BY PlacedTyped

LEMMA NotCapturedTyped == NotCaptured \in [Paths -> Objects]
  BY DEF NotCaptured, NoObject, Objects, Blobs, Makers

-----------------------------------------------------------------------------
(* Where a failure leads.                                                  *)

\* The end, and what is said there.
LEMMA Finishes ==
    ASSUME NEW says, NEW exit \in {1, 3}, Finish(exit, says)
    PROVE  pc' = "done" /\ outcome'.exit # 0 /\ outcome'.says = says
  <1>1. pc' = "done" /\ outcome' = [exit |-> exit, says |-> says]
    BY DEF Finish
  <1>2. outcome'.exit = exit /\ outcome'.says = says
    BY <1>1
  <1>3. exit # 0
    OBVIOUS
  <1> QED BY <1>1, <1>2, <1>3

\* A restore that fails: normalisation goes to recovery, the others to a second
\* restore or to the end.
LEMMA RestoreFailsLeads ==
    ASSUME NEW foreign, RestoreFails(foreign)
    PROVE  \/ pc' = "recover" /\ UNCHANGED <<call, outcome>>
           \/ pc' = "safe" /\ call' = "recover" /\ UNCHANGED outcome
           \/ /\ pc' = "done" /\ UNCHANGED call
              /\ outcome'.exit # 0 /\ outcome'.says = "not restored"
  <1>1. \/ pc' = "recover" /\ UNCHANGED <<call, outcome>>
        \/ pc' = "safe" /\ call' = "recover" /\ UNCHANGED outcome
        \/ Finish(1, "not restored") /\ UNCHANGED call
    BY DEF RestoreFails, InverseFails
  <1> QED BY <1>1, Finishes

LEMMA RaisesLeads ==
    ASSUME Raises
    PROVE  \/ /\ pc \in {"classify", "capture"} /\ pc' = "done" /\ UNCHANGED call
              /\ outcome'.exit # 0 /\ outcome'.says \in {"already", "refused"}
           \/ pc \in TryRegion /\ pc' = "recover" /\ UNCHANGED <<call, outcome>>
           \/ /\ pc \in {"recover", "inspect"} \cup InverseRegion \cup RestoreRegion
              /\ \/ pc' = "recover" /\ UNCHANGED <<call, outcome>>
                 \/ pc' = "inspect" /\ UNCHANGED <<call, outcome>>
                 \/ pc' = "safe" /\ call' = "recover" /\ UNCHANGED outcome
                 \/ /\ pc' = "done" /\ UNCHANGED call
                    /\ outcome'.exit # 0 /\ outcome'.says = "not restored"
  <1>1. CASE pc \in {"classify", "capture"}
    <2>1. UNCHANGED call /\ (Finish(3, "already") \/ Finish(1, "refused"))
      BY <1>1 DEF Raises, TryRegion, InverseRegion, RestoreRegion
    <2> QED BY <1>1, <2>1, Finishes
  <1>2. CASE pc \in TryRegion
    BY <1>2 DEF Raises, TryRegion, InverseRegion, RestoreRegion
  <1>3. CASE pc \in RestoreRegion
    <2>1. RestoreFails(FALSE)
      BY <1>3 DEF Raises, TryRegion, InverseRegion, RestoreRegion
    <2> QED BY <1>3, <2>1, RestoreFailsLeads
  <1>4. CASE pc \in {"recover", "inspect"} \cup InverseRegion
    BY <1>4, Finishes DEF Raises, InverseFails, TryRegion, InverseRegion, RestoreRegion
  <1> QED BY <1>1, <1>2, <1>3, <1>4 DEF Raises

-----------------------------------------------------------------------------
(* Types.                                                                  *)

TypeInv == RepositoryTyped /\ HistoryTyped /\ ControlTyped /\ RecordsTyped

LEMMA TypedAtStart == Init => TypeInv
  <1> SUFFICES ASSUME Init PROVE TypeInv
    OBVIOUS
  <1>1. RepositoryTyped
    <2>1. PICK tree \in {Base, Candidate} :
             index = tree /\ worktree = [p \in Paths |-> Placed(tree[p], "checkout")]
      BY DEF Init
    <2>2. index \in [Paths -> Entries] /\ worktree \in [Paths -> Objects]
      BY <2>1, TreeTyped, PlacedTree DEF Makers
    <2> QED BY <2>2 DEF Init, RepositoryTyped
  <1>2. RecordsTyped
    BY NotCapturedTyped DEF Init, RecordsTyped
  <1>3. HistoryTyped /\ ControlTyped
    BY DEF Init, HistoryTyped, ControlTyped, Points, RestoreRegion
  <1> QED BY <1>1, <1>2, <1>3 DEF TypeInv

LEMMA ControlStep == ControlTyped /\ [Next]_vars => ControlTyped'
  <1> SUFFICES ASSUME ControlTyped, [Next]_vars PROVE ControlTyped'
    OBVIOUS
  <1> USE DEF ControlTyped, Points, TryRegion, InverseRegion, RestoreRegion
  <1>1. CASE Transaction
    BY <1>1 DEF Transaction, Classify, Capture, CheckPatch, PreEffectBindings, Effect,
                CaptureEffect, Normalize, Verify, Publish, WriteStatus, Commit, Finish
  <1>2. CASE Recover \/ Inspect \/ InverseSafe \/ InverseCheck \/ InverseApply \/ InverseCapture
             \/ InverseNormalize \/ InverseConfirm
    BY <1>2 DEF Recover, Inspect, InverseSafe, InverseCheck, InverseApply, InverseCapture,
                InverseNormalize, InverseConfirm, InverseFails, Finish
  <1>3. CASE RestoreSafe
    BY <1>3, RestoreFailsLeads DEF RestoreSafe
  <1>4. CASE Detach
    BY <1>4 DEF Detach
  <1>5. CASE RestorePresent
    BY <1>5, RestoreFailsLeads DEF RestorePresent
  <1>6. CASE RemoveAbsent
    BY <1>6, RestoreFailsLeads DEF RemoveAbsent
  <1>7. CASE RestoreConfirm
    <2>1. CASE RestoreFails(rootBound /\ ScopeMatches(Desired))
      BY <1>7, <2>1, RestoreFailsLeads DEF RestoreConfirm
    <2>2. CASE CASE call = "normalize" -> pc' = "captureAgain" /\ UNCHANGED <<call, outcome>>
                 [] call = "inverse" -> pc' = "inverseConfirm" /\ UNCHANGED <<call, outcome>>
                 [] call = "recover" -> Finish(1, "restored") /\ UNCHANGED call
      BY <1>7, <2>2 DEF RestoreConfirm, Finish
    <2> QED BY <1>7, <2>1, <2>2 DEF RestoreConfirm
  <1>8. CASE StepFails
    BY <1>8, RaisesLeads DEF StepFails
  <1>9. CASE SignalRaises
    BY <1>9, RaisesLeads, Finishes DEF SignalRaises
  <1>10. CASE GitInterrupted
    BY <1>10, RaisesLeads DEF GitInterrupted
  <1>11. CASE Others
    BY <1>11 DEF Others, RebindPath, StageForeign, RebindParent, RebindRoot, ChangeElsewhere, Disturbs
  <1>12. CASE UNCHANGED vars
    BY <1>12 DEF vars
  <1> QED BY <1>1, <1>2, <1>3, <1>4, <1>5, <1>6, <1>7, <1>8, <1>9, <1>10, <1>11, <1>12
          DEF Next, Step, Recovery, Interruption, Done

\* What git writes has the shape of a repository.
LEMMA GitTyped ==
    ASSUME RepositoryTyped, NEW tree \in {Base, Candidate}, NEW maker \in Makers,
           NEW scope \in SUBSET Paths
    PROVE  /\ GitRestores(tree, scope) => RepositoryTyped'
           /\ GitEndsEarly(tree, scope, maker) => RepositoryTyped'
  <1>1. tree \in [Paths -> Entries]
    BY TreeTyped
  <1>2. "restore" \in Makers
    BY DEF Makers
  <1>3. \A p \in Paths : Placed(tree[p], "restore") \in Objects /\ Placed(tree[p], maker) \in Objects
    BY <1>1, <1>2, PlacedTyped
  <1>4. ASSUME GitRestores(tree, scope) PROVE RepositoryTyped'
    <2>1. worktree' = [p \in Paths |-> IF p \in scope /\ Entry(worktree[p]) # tree[p]
                                    THEN Placed(tree[p], "restore") ELSE worktree[p]]
      BY <1>4 DEF GitRestores
    <2>2. index' = [p \in Paths |-> IF p \in scope THEN tree[p] ELSE index[p]]
      BY <1>4 DEF GitRestores
    <2>3. worktree' \in [Paths -> Objects]
      BY <1>3, <2>1 DEF RepositoryTyped
    <2>4. index' \in [Paths -> Entries]
      BY <1>1, <2>2 DEF RepositoryTyped
    <2> QED BY <1>4, <2>3, <2>4 DEF GitRestores, RepositoryTyped
  <1>5. ASSUME GitEndsEarly(tree, scope, maker) PROVE RepositoryTyped'
    <2>1. PICK written \in [scope -> {"no", "torn", "yes"}] :
          /\ worktree' = [p \in Paths |->
                IF p \notin scope \/ written[p] = "no" THEN worktree[p]
                ELSE IF written[p] = "yes" \/ tree[p] = NoEntry THEN Placed(tree[p], maker)
                ELSE Placed([oid |-> "torn", exec |-> FALSE], maker)]
          /\ \/ index' = index /\ lock' \in BOOLEAN
             \/ /\ \A p \in scope : written[p] = "yes"
                /\ index' = [p \in Paths |-> IF p \in scope THEN tree[p] ELSE index[p]]
                /\ lock' = FALSE
      BY <1>5 DEF GitEndsEarly
    <2>2. [oid |-> "torn", exec |-> FALSE] \in Entries
      BY DEF Entries, Blobs
    <2>3. Placed([oid |-> "torn", exec |-> FALSE], maker) \in Objects
      BY <2>2, PlacedTyped
    <2>4. worktree' \in [Paths -> Objects]
      BY <1>3, <2>1, <2>3 DEF RepositoryTyped
    <2>5. index' \in [Paths -> Entries] /\ lock' \in BOOLEAN
      BY <1>1, <2>1 DEF RepositoryTyped
    <2> QED BY <1>5, <2>4, <2>5 DEF GitEndsEarly, RepositoryTyped
  <1> QED BY <1>4, <1>5

\* A tree of which git apply has lost some executable bits.
Without(tree, lost) == [p \in Paths |-> [tree[p] EXCEPT !.exec = @ /\ p \notin lost]]

LEMMA WithoutTyped ==
    ASSUME NEW tree \in {Base, Candidate}, NEW lost \in SUBSET Paths
    PROVE  /\ Without(tree, lost) \in [Paths -> Entries]
           /\ lost = {} => Without(tree, lost) = tree
  <1>1. tree \in [Paths -> Entries]
    BY TreeTyped
  <1>2. ASSUME NEW p \in Paths
        PROVE  /\ [tree[p] EXCEPT !.exec = @ /\ p \notin lost] \in Entries
               /\ lost = {} => [tree[p] EXCEPT !.exec = @ /\ p \notin lost] = tree[p]
    <2>1. tree[p] \in Entries
      BY <1>1
    <2> DEFINE bit == tree[p].exec /\ p \notin lost
    <2>2. bit \in BOOLEAN
      OBVIOUS
    <2>3. tree[p].exec \in BOOLEAN /\ tree[p] = [oid |-> tree[p].oid, exec |-> tree[p].exec]
          /\ tree[p].oid \in Blobs
      BY <2>1 DEF Entries
    <2>4. [tree[p] EXCEPT !.exec = @ /\ p \notin lost] = [oid |-> tree[p].oid, exec |-> bit]
      <3> HIDE DEF bit
      <3>1. [tree[p] EXCEPT !.exec = bit] = [oid |-> tree[p].oid, exec |-> bit]
        BY <2>1 DEF Entries
      <3> QED BY <3>1 DEF bit
    <2>5. lost = {} => bit = tree[p].exec
      BY <2>3
    <2> HIDE DEF bit
    <2>6. [oid |-> tree[p].oid, exec |-> bit] \in Entries
      BY <2>2, <2>3 DEF Entries
    <2> QED BY <2>3, <2>4, <2>5, <2>6
  <1> QED BY <1>1, <1>2 DEF Without

LEMMA GitAppliesWrites ==
    ASSUME NEW source, NEW target \in {Base, Candidate}, NEW maker \in Makers,
           GitApplies(source, target, maker)
    PROVE  \E lost \in SUBSET Paths :
              /\ index' = Without(target, lost)
              /\ worktree' = [p \in Paths |-> Placed(Without(target, lost)[p], maker)]
              /\ drifted' = (drifted \/ lost # {})
              /\ UNCHANGED <<parent, rootBound, outside, lock>>
  BY DEF GitApplies, Writes, Without

LEMMA GitAppliesTyped ==
    ASSUME RepositoryTyped, NEW source, NEW target \in {Base, Candidate}, NEW maker \in Makers,
           GitApplies(source, target, maker)
    PROVE  RepositoryTyped'
  <1>1. PICK lost \in SUBSET Paths :
              /\ index' = Without(target, lost)
              /\ worktree' = [p \in Paths |-> Placed(Without(target, lost)[p], maker)]
              /\ UNCHANGED <<parent, rootBound, outside, lock>>
    BY GitAppliesWrites
  <1>2. Without(target, lost) \in [Paths -> Entries]
    BY WithoutTyped
  <1>3. [p \in Paths |-> Placed(Without(target, lost)[p], maker)] \in [Paths -> Objects]
    BY <1>2, PlacedTree
  <1> QED BY <1>1, <1>2, <1>3 DEF RepositoryTyped

\* What another process puts in the place of a file.
LEMMA RebindsTyped ==
    ASSUME TypeInv, NEW p \in Paths, NEW object \in Objects, Rebinds(p, object), UNCHANGED lock
    PROVE  RepositoryTyped' /\ rebound' \subseteq Paths
  BY DEF TypeInv, HistoryTyped, RepositoryTyped, Rebinds

LEMMA OthersTyped == TypeInv /\ Others => RepositoryTyped' /\ rebound' \subseteq Paths
  <1> SUFFICES ASSUME TypeInv, Others PROVE RepositoryTyped' /\ rebound' \subseteq Paths
    OBVIOUS
  <1>1. CASE RebindPath
    <2>1. UNCHANGED lock
      BY <1>1 DEF RebindPath, Disturbs
    <2>2. PICK p \in Paths :
             \/ Rebinds(p, ForeignObject)
             \/ Rebinds(p, [worktree[p] EXCEPT !.inode = "foreign"])
             \/ Rebinds(p, [worktree[p] EXCEPT !.links = @ + 1])
      BY <1>1 DEF RebindPath
    <2>3. worktree[p] \in Objects
      BY DEF TypeInv, RepositoryTyped
    <2>4. ForeignObject \in Objects
      BY DEF ForeignObject, Objects, Blobs, Makers
    <2>5. [worktree[p] EXCEPT !.inode = "foreign"] \in Objects
      BY <2>3 DEF Objects, Makers
    <2>6. [worktree[p] EXCEPT !.links = @ + 1] \in Objects
      BY <2>3 DEF Objects
    <2> QED BY <2>1, <2>2, <2>4, <2>5, <2>6, RebindsTyped
  <1>2. CASE StageForeign
    <2>1. Entry(ForeignObject) \in Entries
      BY DEF Entry, ForeignObject, Entries, Blobs
    <2> QED BY <1>2, <2>1 DEF StageForeign, Disturbs, TypeInv, HistoryTyped, RepositoryTyped
  <1>3. CASE RebindParent
    BY <1>3 DEF RebindParent, Disturbs, TypeInv, HistoryTyped, RepositoryTyped
  <1>4. CASE RebindRoot
    BY <1>4 DEF RebindRoot, Disturbs, TypeInv, HistoryTyped, RepositoryTyped
  <1>5. CASE ChangeElsewhere
    BY <1>5 DEF ChangeElsewhere, Disturbs, TypeInv, HistoryTyped, RepositoryTyped
  <1> QED BY <1>1, <1>2, <1>3, <1>4, <1>5 DEF Others

\* What restore_exact_tree writes and removes.
LEMMA RestoreTyped ==
    ASSUME TypeInv, RestorePresent \/ RemoveAbsent \/ Detach
    PROVE  RepositoryTyped'
  <1>1. RepositoryTyped
    BY DEF TypeInv
  <1>2. NoObject \in Objects
    BY DEF NoObject, Objects, Blobs, Makers
  <1>3. NoEntry \in Entries
    BY DEF NoEntry, NoObject, Entry, Entries, Blobs
  <1>4. CASE RestorePresent
    <2>1. Present \in SUBSET Paths /\ "restore" \in Makers
      BY DEF Present, Makers
    <2>2. GitRestores(Desired, Present) => RepositoryTyped'
      BY <1>1, <2>1, GitTyped, SidesAreTrees
    <2> QED BY <1>1, <1>4, <2>2 DEF RestorePresent, repository, RepositoryTyped
  <1>5. CASE Detach
    BY <1>1, <1>2, <1>5 DEF Detach, RepositoryTyped
  <1>6. CASE RemoveAbsent
    <2>1. UNCHANGED <<parent, rootBound, outside, lock>>
      BY <1>6 DEF RemoveAbsent
    <2>2. CASE \E p \in Paths \ Present : worktree' = [worktree EXCEPT ![p] = NoObject] /\ UNCHANGED index
      BY <1>1, <1>2, <2>1, <2>2 DEF RepositoryTyped
    <2>3. CASE /\ worktree' = [p \in Paths |-> IF p \in Present THEN worktree[p] ELSE NoObject]
               /\ index' = [p \in Paths |-> IF p \in Present THEN index[p] ELSE NoEntry]
      BY <1>1, <1>2, <1>3, <2>1, <2>3 DEF RepositoryTyped
    <2> QED BY <1>6, <2>2, <2>3 DEF RemoveAbsent
  <1> QED BY <1>4, <1>5, <1>6

\* The steps that leave the repository alone.
Quiet == Classify \/ Capture \/ CheckPatch \/ PreEffectBindings \/ CaptureEffect \/ Normalize
         \/ Verify \/ Publish \/ WriteStatus \/ Commit \/ Recover \/ Inspect \/ InverseSafe
         \/ InverseCheck \/ InverseCapture \/ InverseNormalize \/ InverseConfirm
         \/ RestoreSafe \/ RestoreConfirm \/ StepFails \/ SignalRaises \/ Done

LEMMA QuietKeeps == Quiet => UNCHANGED <<repository, events, killed, drifted>>
  BY DEF Quiet, Classify, Capture, CheckPatch, PreEffectBindings, CaptureEffect, Normalize,
         Verify, Publish, WriteStatus, Commit, Recover, Inspect, InverseSafe, InverseCheck,
         InverseCapture, InverseNormalize, InverseConfirm, RestoreSafe, RestoreConfirm, StepFails,
         SignalRaises, Done, vars, repository, history

\* Every step is one of these.
LEMMA Steps ==
    ASSUME [Next]_vars
    PROVE  Quiet \/ Effect \/ InverseApply \/ Detach \/ RestorePresent \/ RemoveAbsent
           \/ GitInterrupted \/ Others \/ UNCHANGED vars
  BY DEF Next, Step, Transaction, Recovery, Interruption, Quiet

LEMMA RepositoryStep == TypeInv /\ [Next]_vars => RepositoryTyped'
  <1> SUFFICES ASSUME TypeInv, [Next]_vars PROVE RepositoryTyped'
    OBVIOUS
  <1>1. RepositoryTyped
    BY DEF TypeInv
  <1>2. UNCHANGED repository => RepositoryTyped'
    BY <1>1 DEF repository, RepositoryTyped
  <1>3. CASE Quiet
    BY <1>2, <1>3, QuietKeeps
  <1>4. CASE Effect
    <2>1. "apply" \in Makers
      BY DEF Makers
    <2> QED BY <1>1, <1>2, <1>4, <2>1, GitAppliesTyped, SidesAreTrees DEF Effect
  <1>5. CASE InverseApply
    <2>1. "inverse" \in Makers
      BY DEF Makers
    <2> QED BY <1>1, <1>2, <1>5, <2>1, GitAppliesTyped, SidesAreTrees DEF InverseApply
  <1>6. CASE GitInterrupted
    <2>1. Paths \in SUBSET Paths /\ Present \in SUBSET Paths
          /\ "apply" \in Makers /\ "inverse" \in Makers /\ "restore" \in Makers
      BY DEF Present, Makers
    <2> QED BY <1>1, <1>6, <2>1, GitTyped, SidesAreTrees DEF GitInterrupted, Mutating
  <1>7. CASE Others
    BY <1>7, OthersTyped
  <1>8. CASE UNCHANGED vars
    BY <1>2, <1>8 DEF vars
  <1> QED BY <1>3, <1>4, <1>5, <1>6, <1>7, <1>8, RestoreTyped, Steps

LEMMA RecordsStep == TypeInv /\ [Next]_vars => RecordsTyped'
  <1> SUFFICES ASSUME TypeInv, [Next]_vars PROVE RecordsTyped'
    OBVIOUS
  <1>1. UNCHANGED <<before, effect, inverseEffect>> => RecordsTyped'
    BY DEF TypeInv, RecordsTyped
  <1>2. CASE Capture \/ CaptureEffect \/ InverseCapture
    BY <1>2 DEF Capture, CaptureEffect, InverseCapture, TypeInv, RecordsTyped, RepositoryTyped
  <1>3. CASE Transaction /\ ~Capture /\ ~CaptureEffect
    BY <1>1, <1>3 DEF Transaction, Classify, CheckPatch, PreEffectBindings, Effect, Normalize,
                Verify, Publish, WriteStatus, Commit, records
  <1>4. CASE Recovery /\ ~InverseCapture
    BY <1>1, <1>4 DEF Recovery, Recover, Inspect, InverseSafe, InverseCheck, InverseApply,
                InverseNormalize, InverseConfirm, RestoreSafe, Detach, RestorePresent,
                RemoveAbsent, RestoreConfirm, records
  <1>5. CASE Interruption
    BY <1>1, <1>5 DEF Interruption, StepFails, SignalRaises, GitInterrupted, records
  <1>6. CASE Others
    BY <1>1, <1>6 DEF Others, RebindPath, StageForeign, RebindParent, RebindRoot, ChangeElsewhere,
                Disturbs, records
  <1>7. CASE UNCHANGED vars
    BY <1>1, <1>7 DEF vars, records
  <1> QED BY <1>2, <1>3, <1>4, <1>5, <1>6, <1>7 DEF Next, Step, Done

LEMMA HistoryStep == TypeInv /\ [Next]_vars => HistoryTyped'
  <1> SUFFICES ASSUME TypeInv, [Next]_vars PROVE HistoryTyped'
    OBVIOUS
  <1>1. HistoryTyped
    BY DEF TypeInv
  <1>2. CASE Quiet
    <2>1. events' = events /\ killed' = killed /\ drifted' = drifted
      BY <1>2, QuietKeeps
    <2>2. faults' \in {faults, faults + 1} /\ rebound' \in {rebound, {}}
      BY <1>2 DEF Quiet, Classify, Capture, CheckPatch, PreEffectBindings, CaptureEffect, Normalize,
         Verify, Publish, WriteStatus, Commit, Recover, Inspect, InverseSafe, InverseCheck,
         InverseCapture, InverseNormalize, InverseConfirm, RestoreSafe, RestoreConfirm, StepFails,
         SignalRaises, Done, vars, history
    <2> QED BY <1>1, <2>1, <2>2 DEF HistoryTyped
  <1>3. CASE Effect \/ InverseApply
    <2>1. drifted' \in BOOLEAN
      BY <1>1, <1>3 DEF Effect, InverseApply, GitApplies, HistoryTyped
    <2> QED BY <1>1, <1>3, <2>1 DEF Effect, InverseApply, HistoryTyped
  <1>4. CASE Detach \/ RestorePresent \/ RemoveAbsent
    BY <1>1, <1>4 DEF Detach, RestorePresent, RemoveAbsent, history, HistoryTyped
  <1>5. CASE GitInterrupted
    <2>1. killed' = TRUE
      BY <1>5 DEF GitInterrupted, Mutating, GitEndsEarly
    <2>2. events' = events /\ faults' = faults + 1 /\ drifted' = drifted /\ rebound' = rebound
      BY <1>5 DEF GitInterrupted
    <2> QED BY <1>1, <2>1, <2>2 DEF HistoryTyped
  <1>6. CASE Others
    <2>1. rebound' \subseteq Paths
      BY <1>6, OthersTyped
    <2> QED BY <1>1, <1>6, <2>1 DEF Others, RebindPath, StageForeign, RebindParent, RebindRoot,
                ChangeElsewhere, Disturbs, HistoryTyped
  <1>7. CASE UNCHANGED vars
    BY <1>1, <1>7 DEF vars, history, HistoryTyped
  <1> QED BY <1>2, <1>3, <1>4, <1>5, <1>6, <1>7, Steps

LEMMA TypedStep == TypeInv /\ [Next]_vars => TypeInv'
  BY ControlStep, RepositoryStep, RecordsStep, HistoryStep DEF TypeInv

-----------------------------------------------------------------------------
(***************************************************************************)
(* The inductive invariant.  Settled follows the status line, Believed the *)
(* claim that the patch is applied and Vetted the files that restoring may *)
(* write over.  Undisturbed is where a transaction is that nobody has      *)
(* disturbed and that has failed at most once: the tree it stands on, what *)
(* it has captured, and that recovery means there has been a failure.      *)
(***************************************************************************)
Settled ==
    /\ pc \in {"status", "committed"} => handlers = "ignore"
    /\ pc = "committed" => line = "whole"
    /\ line = "whole" => pc = "committed" \/ (pc = "done" /\ outcome.exit = 0)
    /\ pc = "done" => (outcome.exit = 0 => line = "whole")
    /\ pc = "done" \/ outcome = Undecided

Confirmed(p) ==
    /\ index[p] = To[p] /\ StateMatches(worktree[p], To[p])
    /\ worktree[p] = effect[p] /\ parent[p] = parents[p]

Believed ==
    pc \in {"publish", "status", "committed"} \/ outcome.says = "applied" =>
       \A p \in Paths \ rebound : Confirmed(p)

Returned == outcome.says = "restored" => HoldsTree(From)

Vetted == pc \in {"detach", "restore", "unlink"} => \A p \in Paths : Owned(p)

MadeBy(tree, maker) == [p \in Paths |-> Placed(tree[p], maker)]

Stands(tree, maker) == index = tree /\ worktree = MadeBy(tree, maker)

Undisturbed == events = 0 /\ faults <= 1 /\ ~killed /\ ~drifted

BeforeEffect == {"capture", "check", "prebind", "effect"}
WithEffect == {"captureEffect", "normalize", "captureAgain", "verify", "publish", "status",
               "committed", "inspect", "inverse", "inverseCheck", "inverseApply"}
Undone == {"inverseCapture", "inverseNormalize", "inverseConfirm"}

Position ==
    /\ pc = "classify" => \E tree \in {Base, Candidate} : Stands(tree, "checkout")
    /\ pc \in BeforeEffect => Stands(From, "checkout")
    /\ pc \in WithEffect => Stands(To, "apply")
    /\ pc \in Undone => Stands(From, "inverse")
    /\ pc = "recover" => Stands(From, "checkout") \/ Stands(To, "apply")
    /\ pc = "done" /\ outcome.exit # 0 /\ outcome.says \notin {"refused", "already"} =>
          /\ outcome.says = "restored"
          /\ \A p \in Paths : StateMatches(worktree[p], From[p])

Captured ==
    /\ pc \notin {"classify", "capture", "done"} => parents = parent /\ before = MadeBy(From, "checkout")
    /\ effect \in {NotCaptured, MadeBy(To, "apply")}
    /\ pc \in {"normalize", "verify", "publish"} => effect = MadeBy(To, "apply")

OnCourse ==
    /\ rootBound /\ ~lock
    /\ outside \in {"clean", "unstaged"}
    /\ pc \in {"classify", "done"} \/ outside = "clean"
    /\ pc \notin RestoreRegion
    /\ pc \in {"recover", "inspect"} \cup InverseRegion => faults = 1
    /\ Position /\ Captured

IInv == TypeInv /\ Settled /\ Believed /\ Returned /\ Vetted /\ (Undisturbed => OnCourse)

LEMMA SidesKept ==
    ASSUME [Next]_vars
    PROVE  action' = action /\ From' = From /\ To' = To
  <1>1. action' = action
    <2>1. CASE Quiet
      BY <2>1 DEF Quiet, Classify, Capture, CheckPatch, PreEffectBindings, CaptureEffect,
         Normalize, Verify, Publish, WriteStatus, Commit, Recover, Inspect, InverseSafe,
         InverseCheck, InverseCapture, InverseNormalize, InverseConfirm, RestoreSafe,
         RestoreConfirm, StepFails, SignalRaises, Done, vars
    <2>2. CASE Effect \/ InverseApply \/ Detach \/ RestorePresent \/ RemoveAbsent
               \/ GitInterrupted
      BY <2>2 DEF Effect, InverseApply, Detach, RestorePresent, RemoveAbsent, GitInterrupted
    <2>3. CASE Others
      BY <2>3 DEF Others, RebindPath, StageForeign, RebindParent, RebindRoot, ChangeElsewhere,
                  Disturbs
    <2>4. CASE UNCHANGED vars
      BY <2>4 DEF vars
    <2> QED BY <2>1, <2>2, <2>3, <2>4, Steps
  <1> QED BY <1>1 DEF From, To

-----------------------------------------------------------------------------
(* The status line.                                                        *)

LEMMA SettledStep == TypeInv /\ Settled /\ [Next]_vars => Settled'
  <1> SUFFICES ASSUME TypeInv, Settled, [Next]_vars PROVE Settled'
    OBVIOUS
  <1> USE DEF Settled, TryRegion, InverseRegion, RestoreRegion, Undecided
  <1>1. CASE Transaction
    BY <1>1 DEF Transaction, Classify, Capture, CheckPatch, PreEffectBindings, Effect,
                CaptureEffect, Normalize, Verify, Publish, WriteStatus, Commit, Finish
  <1>2. CASE Recover \/ Inspect \/ InverseSafe \/ InverseCheck \/ InverseApply \/ InverseCapture
             \/ InverseNormalize \/ InverseConfirm
    BY <1>2, Finishes DEF Recover, Inspect, InverseSafe, InverseCheck, InverseApply, InverseCapture,
                InverseNormalize, InverseConfirm, InverseFails
  <1>3. CASE RestoreSafe
    BY <1>3, RestoreFailsLeads DEF RestoreSafe
  <1>4. CASE Detach
    BY <1>4 DEF Detach
  <1>5. CASE RestorePresent
    BY <1>5, RestoreFailsLeads DEF RestorePresent
  <1>6. CASE RemoveAbsent
    BY <1>6, RestoreFailsLeads DEF RemoveAbsent
  <1>7. CASE RestoreConfirm
    <2>1. CASE RestoreFails(rootBound /\ ScopeMatches(Desired))
      BY <1>7, <2>1, RestoreFailsLeads DEF RestoreConfirm
    <2>2. CASE CASE call = "normalize" -> pc' = "captureAgain" /\ UNCHANGED <<call, outcome>>
                 [] call = "inverse" -> pc' = "inverseConfirm" /\ UNCHANGED <<call, outcome>>
                 [] call = "recover" -> Finish(1, "restored") /\ UNCHANGED call
      BY <1>7, <2>2, Finishes DEF RestoreConfirm, TypeInv, ControlTyped
    <2> QED BY <1>7, <2>1, <2>2 DEF RestoreConfirm
  <1>8. CASE StepFails
    BY <1>8, RaisesLeads DEF StepFails
  <1>9. CASE SignalRaises
    BY <1>9, RaisesLeads, Finishes DEF SignalRaises, Recovering
  <1>10. CASE GitInterrupted
    BY <1>10, RaisesLeads DEF GitInterrupted, Mutating
  <1>11. CASE Others
    BY <1>11 DEF Others, RebindPath, StageForeign, RebindParent, RebindRoot, ChangeElsewhere, Disturbs
  <1>12. CASE UNCHANGED vars
    BY <1>12 DEF vars
  <1> QED BY <1>1, <1>2, <1>3, <1>4, <1>5, <1>6, <1>7, <1>8, <1>9, <1>10, <1>11, <1>12
          DEF Next, Step, Recovery, Interruption, Done

-----------------------------------------------------------------------------
(* The claim of success, and the claim of restoration.                     *)

\* Others change a path only by marking it.
LEMMA OthersMark ==
    ASSUME TypeInv, Others, NEW p \in Paths \ rebound'
    PROVE  /\ p \notin rebound
           /\ index'[p] = index[p] /\ worktree'[p] = worktree[p] /\ parent'[p] = parent[p]
  <1>1. worktree \in [Paths -> Objects] /\ index \in [Paths -> Entries]
        /\ parent \in [Paths -> {"checkout", "foreign"}]
    BY DEF TypeInv, RepositoryTyped
  <1>2. CASE RebindPath
    <2>1. \E q \in Paths : \E object : Rebinds(q, object)
      BY <1>2 DEF RebindPath
    <2>2. PICK q \in Paths : \E object : Rebinds(q, object)
      BY <2>1
    <2> QED BY <1>1, <2>2 DEF Rebinds
  <1>3. CASE StageForeign
    BY <1>1, <1>3 DEF StageForeign
  <1>4. CASE RebindParent
    BY <1>1, <1>4 DEF RebindParent
  <1>5. CASE RebindRoot
    BY <1>5 DEF RebindRoot
  <1>6. CASE ChangeElsewhere
    BY <1>6 DEF ChangeElsewhere
  <1> QED BY <1>2, <1>3, <1>4, <1>5, <1>6 DEF Others

LEMMA OthersKeep ==
    ASSUME Others
    PROVE  /\ UNCHANGED <<action, pc, call, handlers, lock, records, line, outcome, faults, killed,
                          drifted>>
           /\ pc # "done" /\ events' = events + 1
  BY DEF Others, RebindPath, StageForeign, RebindParent, RebindRoot, ChangeElsewhere, Disturbs

\* Before the end nothing is said.
LEMMA Silent ==
    ASSUME Settled, pc # "done"
    PROVE  outcome.says = "undecided"
  BY DEF Settled, Undecided

\* Which steps lead to belief.
LEMMA BelievedStep == TypeInv /\ Settled /\ Believed /\ [Next]_vars => Believed'
  <1> SUFFICES ASSUME TypeInv, Settled, Believed, [Next]_vars,
                      pc' \in {"publish", "status", "committed"} \/ outcome'.says = "applied",
                      NEW p \in Paths \ rebound'
               PROVE  Confirmed(p)'
    BY DEF Believed
  <1> USE DEF TryRegion, InverseRegion, RestoreRegion
  <1>1. To' = To
    BY SidesKept
  <1>2. UNCHANGED <<index, worktree, effect, parent, parents>> /\ Confirmed(p) => Confirmed(p)'
    BY <1>1 DEF Confirmed, StateMatches, Entry
  <1>3. CASE Verify
    <2>1. parent = parents /\ worktree = effect /\ InState(To)
      BY <1>3, Silent DEF Verify
    <2>2. Confirmed(p)
      BY <2>1 DEF InState, ScopeMatches, Confirmed
    <2> QED BY <1>2, <1>3, <2>2 DEF Verify, repository, records
  <1>4. CASE Publish \/ WriteStatus \/ Commit \/ Done \/ UNCHANGED vars
    <2>1. UNCHANGED <<index, worktree, effect, parent, parents, rebound>>
      BY <1>4 DEF Publish, WriteStatus, Commit, Done, vars, repository, records
    <2>2. pc \in {"publish", "status", "committed"} \/ outcome.says = "applied"
      BY <1>4 DEF Publish, WriteStatus, Commit, Done, vars, Finish
    <2> QED BY <1>2, <2>1, <2>2 DEF Believed
  <1>5. CASE Others
    <2>1. pc' = pc /\ outcome' = outcome /\ effect' = effect /\ parents' = parents
      BY <1>5, OthersKeep DEF records
    <2>2. Confirmed(p)
      BY <1>5, <2>1, OthersMark DEF Believed
    <2> QED BY <1>1, <1>5, <2>1, <2>2, OthersMark DEF Confirmed, StateMatches, Entry
  <1>6. CASE Classify \/ Capture \/ CheckPatch \/ PreEffectBindings \/ Effect \/ CaptureEffect
             \/ Normalize
    BY <1>6, Silent DEF Classify, Capture, CheckPatch, PreEffectBindings, Effect, CaptureEffect, Normalize,
                Finish
  <1>7. CASE Recover \/ Inspect \/ InverseSafe \/ InverseCheck \/ InverseApply \/ InverseCapture
             \/ InverseNormalize \/ InverseConfirm
    <2>1. /\ pc # "done" /\ pc' \notin {"publish", "status", "committed"}
          /\ \/ outcome' = outcome
             \/ \E says \in {"restored", "not restored"} : Finish(1, says)
      BY <1>7 DEF Recover, Inspect, InverseSafe, InverseCheck, InverseApply, InverseCapture,
                  InverseNormalize, InverseConfirm, InverseFails, Finish
    <2> QED BY <2>1, Silent, Finishes
  <1>8. CASE RestoreSafe \/ Detach \/ RestorePresent \/ RemoveAbsent
    BY <1>8, Silent, RestoreFailsLeads
       DEF RestoreSafe, Detach, RestorePresent, RemoveAbsent
  <1>9. CASE RestoreConfirm
    <2>1. CASE RestoreFails(rootBound /\ ScopeMatches(Desired))
      BY <1>9, <2>1, Silent, RestoreFailsLeads DEF RestoreConfirm
    <2>2. CASE CASE call = "normalize" -> pc' = "captureAgain" /\ UNCHANGED <<call, outcome>>
                 [] call = "inverse" -> pc' = "inverseConfirm" /\ UNCHANGED <<call, outcome>>
                 [] call = "recover" -> Finish(1, "restored") /\ UNCHANGED call
      <3>1. /\ pc # "done" /\ pc' \notin {"publish", "status", "committed"}
            /\ outcome' = outcome \/ Finish(1, "restored")
        BY <1>9, <2>2 DEF RestoreConfirm, TypeInv, ControlTyped, Finish
      <3> QED BY <3>1, Silent, Finishes
    <2> QED BY <1>9, <2>1, <2>2 DEF RestoreConfirm
  <1>10. CASE StepFails
    BY <1>10, Silent, RaisesLeads DEF StepFails
  <1>11. CASE SignalRaises
    <2>1. Raises \/ (Recovering /\ Finish(1, "interrupted"))
      BY <1>11 DEF SignalRaises
    <2>2. CASE Raises
      BY <2>2, Silent, RaisesLeads
    <2>3. CASE Recovering /\ Finish(1, "interrupted")
      BY <2>3, Finishes
    <2> QED BY <2>1, <2>2, <2>3
  <1>12. CASE GitInterrupted
    BY <1>12, Silent, RaisesLeads DEF GitInterrupted, Mutating
  <1> QED BY <1>3, <1>4, <1>5, <1>6, <1>7, <1>8, <1>9, <1>10, <1>11, <1>12
          DEF Next, Step, Transaction, Recovery, Interruption

\* A tree that git has just written out is the tree the index and the files hold.
LEMMA ExactHolds ==
    ASSUME NEW tree, ExactTreeState(tree)
    PROVE  HoldsTree(tree)
  BY DEF ExactTreeState, WritesTree, TrackedClean, HoldsTree

LEMMA ReturnedStep == TypeInv /\ Settled /\ Returned /\ [Next]_vars => Returned'
  <1> SUFFICES ASSUME TypeInv, Settled, Returned, [Next]_vars, outcome'.says = "restored"
               PROVE  HoldsTree(From)'
    BY DEF Returned
  <1> USE DEF TryRegion, InverseRegion, RestoreRegion
  <1>1. From' = From
    BY SidesKept
  <1>2. UNCHANGED <<index, worktree>> /\ HoldsTree(From) => HoldsTree(From)'
    BY <1>1 DEF HoldsTree, Entry
  <1>3. CASE Recover
    <2>1. ExactTreeState(From)
      BY <1>3, Silent DEF Recover
    <2> QED BY <1>2, <1>3, <2>1, ExactHolds DEF Recover, repository
  <1>4. CASE InverseConfirm
    <2>1. \/ outcome' = outcome
          \/ Finish(1, IF ExactTreeState(From) THEN "restored" ELSE "not restored")
      BY <1>4 DEF InverseConfirm
    <2>2. ~ExactTreeState(From) => outcome' = outcome \/ Finish(1, "not restored")
      BY <2>1
    <2>3. pc # "done" /\ (ExactTreeState(From) \/ outcome' = outcome \/ Finish(1, "not restored"))
      BY <1>4, <2>2 DEF InverseConfirm
    <2>4. outcome' # outcome
      BY <2>3, Silent
    <2>5. ASSUME Finish(1, "not restored") PROVE FALSE
      BY <2>5 DEF Finish
    <2> QED BY <1>2, <1>4, <2>3, <2>4, <2>5, ExactHolds DEF InverseConfirm, repository
  <1>5. CASE RestoreConfirm
    <2>1. ~RestoreFails(rootBound /\ ScopeMatches(Desired))
      BY <1>5, Silent, RestoreFailsLeads DEF RestoreConfirm
    <2>2. /\ ExactTreeState(Desired)
          /\ CASE call = "normalize" -> pc' = "captureAgain" /\ UNCHANGED <<call, outcome>>
               [] call = "inverse" -> pc' = "inverseConfirm" /\ UNCHANGED <<call, outcome>>
               [] call = "recover" -> Finish(1, "restored") /\ UNCHANGED call
      BY <1>5, <2>1 DEF RestoreConfirm
    <2>3. call = "recover"
      BY <1>5, <2>2, Silent DEF RestoreConfirm, TypeInv, ControlTyped
    <2>4. ExactTreeState(From)
      BY <2>2, <2>3 DEF Desired
    <2> QED BY <1>2, <1>5, <2>4, ExactHolds DEF RestoreConfirm, repository
  <1>6. CASE Done \/ UNCHANGED vars
    BY <1>2, <1>6 DEF Done, vars, repository, Returned
  <1>7. CASE Others
    BY <1>7, Silent, OthersKeep DEF Settled, Undecided
  <1>8. CASE Transaction
    BY <1>8, Silent DEF Transaction, Classify, Capture, CheckPatch, PreEffectBindings, Effect,
                CaptureEffect, Normalize, Verify, Publish, WriteStatus, Commit, Finish
  <1>9. CASE Inspect \/ InverseSafe \/ InverseCheck \/ InverseApply \/ InverseCapture
             \/ InverseNormalize
    <2>1. pc # "done" /\ (outcome' = outcome \/ Finish(1, "not restored"))
      BY <1>9 DEF Inspect, InverseSafe, InverseCheck, InverseApply, InverseCapture,
                  InverseNormalize, InverseFails, Finish
    <2>2. CASE outcome' = outcome
      BY <2>1, <2>2, Silent
    <2>3. CASE Finish(1, "not restored")
      BY <2>3 DEF Finish
    <2> QED BY <2>1, <2>2, <2>3
  <1>10. CASE RestoreSafe \/ Detach \/ RestorePresent \/ RemoveAbsent
    BY <1>10, Silent, RestoreFailsLeads
       DEF RestoreSafe, Detach, RestorePresent, RemoveAbsent
  <1>11. CASE StepFails
    BY <1>11, Silent, RaisesLeads DEF StepFails
  <1>12. CASE SignalRaises
    BY <1>12, Silent, RaisesLeads, Finishes DEF SignalRaises, Recovering
  <1>13. CASE GitInterrupted
    BY <1>13, Silent, RaisesLeads DEF GitInterrupted, Mutating
  <1> QED BY <1>3, <1>4, <1>5, <1>6, <1>7, <1>8, <1>9, <1>10, <1>11, <1>12, <1>13
          DEF Next, Step, Recovery, Interruption

-----------------------------------------------------------------------------
(* What may be written over.                                               *)

Recognized(p) ==
    \/ worktree[p].oid # "foreign"
    \/ \E known \in {before[p], effect[p], inverseEffect[p]} :
          worktree[p] = known \/ LinksAdded(worktree[p], known)

LEMMA RecognizedIsOwned ==
    ASSUME NEW p \in Paths
    PROVE  Owned(p) <=> Recognized(p) \/ p \in rebound
  BY DEF Owned, Recognized

\* A file that the checks of restore_exact_tree find safe is recognized.
LEMMA SafeIsRecognized ==
    ASSUME TypeInv, NEW p \in Paths,
           ObjectSafe(p, Desired, Alternate, Known, Original)
    PROVE  Recognized(p)
  <1>1. Known = inverseEffect \/ Known = effect
    BY DEF Known
  <1>2. CASE Known # NotCaptured
    <2>1. worktree[p] = Known[p] \/ LinksAdded(worktree[p], Known[p])
      BY <1>2 DEF ObjectSafe
    <2> QED BY <1>1, <2>1 DEF Recognized
  <1>3. CASE Known = NotCaptured
    <2>1. \/ worktree[p] = Original[p]
          \/ StateMatches(worktree[p], Alternate[p]) \/ StateMatches(worktree[p], Desired[p])
      BY <1>3 DEF ObjectSafe
    <2>2. CASE worktree[p] = Original[p]
      <3>1. Original = before \/ Original = NotCaptured
        BY DEF Original
      <3>2. NotCaptured[p].oid = "none"
        BY DEF NotCaptured, NoObject
      <3> QED BY <2>2, <3>1, <3>2 DEF Recognized
    <2>3. CASE StateMatches(worktree[p], Alternate[p]) \/ StateMatches(worktree[p], Desired[p])
      <3>1. worktree[p].oid = Alternate[p].oid \/ worktree[p].oid = Desired[p].oid
        BY <2>3 DEF StateMatches, Entry
      <3>2. Alternate[p].oid # "foreign" /\ Desired[p].oid # "foreign"
        BY SidesAreTrees, TreeTyped
      <3> QED BY <3>1, <3>2 DEF Recognized
    <2> QED BY <2>1, <2>2, <2>3
  <1> QED BY <1>2, <1>3

\* A file that git apply accepts is owned.
LEMMA AppliedIsOwned ==
    ASSUME NEW tree \in {Base, Candidate}, PatchApplies(tree), NEW p \in Paths
    PROVE  Owned(p)
  <1>1. index[p].oid = tree[p].oid /\ Entry(worktree[p]) = index[p]
    BY DEF PatchApplies
  <1>2. worktree[p].oid = tree[p].oid
    BY <1>1 DEF Entry
  <1>3. tree[p].oid # "foreign"
    BY TreeTyped
  <1> QED BY <1>2, <1>3 DEF Owned

LEMMA OwnedKept ==
    ASSUME NEW p \in Paths, Owned(p), p \in rebound => p \in rebound',
           UNCHANGED <<before, effect, inverseEffect>>, worktree'[p] = worktree[p]
    PROVE  Owned(p)'
  BY DEF Owned, LinksAdded

LEMMA WrittenIsOwned ==
    ASSUME NEW p \in Paths, worktree'[p].oid # "foreign"
    PROVE  Owned(p)'
  BY DEF Owned

LEMMA VettedStep == TypeInv /\ Vetted /\ [Next]_vars => Vetted'
  <1> SUFFICES ASSUME TypeInv, Vetted, [Next]_vars, pc' \in {"detach", "restore", "unlink"},
                      NEW p \in Paths
               PROVE  Owned(p)'
    BY DEF Vetted
  <1> USE DEF TryRegion, InverseRegion, RestoreRegion
  <1>1. worktree \in [Paths -> Objects]
    BY DEF TypeInv, RepositoryTyped
  <1>2. CASE RestoreSafe
    <2>1. ScopeSafe(Desired, Alternate, Known, Original, TRUE)
      BY <1>2, RestoreFailsLeads DEF RestoreSafe
    <2>2. ObjectSafe(p, Desired, Alternate, Known, Original)
      BY <2>1 DEF ScopeSafe
    <2>3. Recognized(p)
      BY <2>2, SafeIsRecognized
    <2>4. UNCHANGED <<worktree, before, effect, inverseEffect>>
      BY <1>2 DEF RestoreSafe, records, repository
    <2>5. Recognized(p)'
      BY <2>3, <2>4 DEF Recognized, LinksAdded
    <2> QED BY <2>5 DEF Owned, Recognized
  <1>3. CASE Detach
    <2>1. Owned(p)
      BY <1>3 DEF Detach, Vetted
    <2>2. CASE worktree'[p] = worktree[p]
      BY <1>3, <2>1, <2>2, OwnedKept DEF Detach, records
    <2>3. CASE worktree'[p] = NoObject
      BY <2>3, WrittenIsOwned DEF NoObject
    <2> QED BY <1>3, <2>2, <2>3 DEF Detach
  <1>4. CASE RestorePresent
    <2>1. Owned(p) /\ pc' # "safe"
      BY <1>4 DEF RestorePresent, Vetted
    <2>2. UNCHANGED worktree \/ GitRestores(Desired, Present)
      BY <1>4 DEF RestorePresent, repository
    <2>3. worktree'[p] = worktree[p] \/ (p \in Present /\ worktree'[p] = Placed(Desired[p], "restore"))
      BY <2>2 DEF GitRestores
    <2>4. CASE worktree'[p] = worktree[p]
      BY <1>4, <2>1, <2>4, OwnedKept DEF RestorePresent, records
    <2>5. CASE worktree'[p] = Placed(Desired[p], "restore")
      <3>1. worktree'[p].oid = Desired[p].oid
        BY <2>5, SidesAreTrees, TreeTyped, PlacedTyped DEF Makers
      <3> QED BY <3>1, SidesAreTrees, TreeTyped, WrittenIsOwned
    <2> QED BY <2>3, <2>4, <2>5
  <1>5. CASE RemoveAbsent
    BY <1>5, RestoreFailsLeads DEF RemoveAbsent
  <1>6. CASE RestoreConfirm
    <2>1. CASE RestoreFails(rootBound /\ ScopeMatches(Desired))
      BY <1>6, <2>1, RestoreFailsLeads DEF RestoreConfirm
    <2>2. CASE CASE call = "normalize" -> pc' = "captureAgain" /\ UNCHANGED <<call, outcome>>
                 [] call = "inverse" -> pc' = "inverseConfirm" /\ UNCHANGED <<call, outcome>>
                 [] call = "recover" -> Finish(1, "restored") /\ UNCHANGED call
      BY <1>6, <2>2 DEF RestoreConfirm, Finish, TypeInv, ControlTyped
    <2> QED BY <1>6, <2>1, <2>2 DEF RestoreConfirm
  <1>7. CASE Others
    <2>1. Owned(p)
      BY <1>7, OthersKeep DEF Vetted
    <2>2. UNCHANGED <<before, effect, inverseEffect>>
      BY <1>7, OthersKeep DEF records
    <2>3. rebound \subseteq rebound'
      BY <1>7 DEF Others, RebindPath, Rebinds, StageForeign, RebindParent, RebindRoot, ChangeElsewhere
    <2>4. CASE p \in rebound'
      BY <2>4 DEF Owned
    <2>5. CASE p \notin rebound'
      BY <1>7, <2>1, <2>2, <2>3, <2>5, OthersMark, OwnedKept
    <2> QED BY <2>4, <2>5
  <1>8. CASE UNCHANGED vars
    BY <1>8, OwnedKept DEF vars, records, repository, Vetted
  <1>9. CASE Transaction
    BY <1>9 DEF Transaction, Classify, Capture, CheckPatch, PreEffectBindings, Effect,
                CaptureEffect, Normalize, Verify, Publish, WriteStatus, Commit, Finish
  <1>10. CASE Recover \/ Inspect \/ InverseSafe \/ InverseCheck \/ InverseApply \/ InverseCapture
             \/ InverseNormalize \/ InverseConfirm
    BY <1>10 DEF Recover, Inspect, InverseSafe, InverseCheck, InverseApply, InverseCapture,
                InverseNormalize, InverseConfirm, InverseFails, Finish
  <1>11. CASE Interruption
    <2>1. Raises \/ pc' = "done"
      BY <1>11 DEF Interruption, StepFails, SignalRaises, GitInterrupted, Finish
    <2> QED BY <2>1, RaisesLeads
  <1> QED BY <1>2, <1>3, <1>4, <1>5, <1>6, <1>7, <1>8, <1>9, <1>10, <1>11
          DEF Next, Step, Recovery, Done

-----------------------------------------------------------------------------
(* The undisturbed transaction.                                            *)

\* A tree that stands in the index and in the files passes every check.
LEMMA StandsExactly ==
    ASSUME NEW tree \in {Base, Candidate}, NEW maker \in Makers, Stands(tree, maker),
           ~lock, outside = "clean"
    PROVE  /\ \A p \in Paths : Entry(worktree[p]) = tree[p] /\ StateMatches(worktree[p], tree[p])
           /\ ScopeMatches(tree) /\ ExactTreeState(tree) /\ PatchApplies(tree)
  <1>1. index = tree /\ worktree = [p \in Paths |-> Placed(tree[p], maker)]
    BY DEF Stands, MadeBy
  <1>2. \A p \in Paths : Entry(worktree[p]) = tree[p] /\ StateMatches(worktree[p], tree[p])
    BY <1>1, TreeTyped, PlacedTyped
  <1>3. ScopeMatches(tree)
    BY <1>1, <1>2 DEF ScopeMatches
  <1>4. ExactTreeState(tree)
    BY <1>1, <1>2 DEF ExactTreeState, WritesTree, TrackedClean
  <1>5. PatchApplies(tree)
    BY <1>1, <1>2 DEF PatchApplies
  <1> QED BY <1>2, <1>3, <1>4, <1>5

\* git apply that loses no bit leaves the tree standing.
LEMMA AppliesExactly ==
    ASSUME NEW source, NEW target \in {Base, Candidate}, NEW maker \in Makers,
           GitApplies(source, target, maker), ~drifted'
    PROVE  /\ index' = target /\ worktree' = MadeBy(target, maker)
           /\ UNCHANGED <<parent, rootBound, outside, lock>>
  <1>1. PICK lost \in SUBSET Paths :
              /\ index' = Without(target, lost)
              /\ worktree' = [p \in Paths |-> Placed(Without(target, lost)[p], maker)]
              /\ drifted' = (drifted \/ lost # {})
              /\ UNCHANGED <<parent, rootBound, outside, lock>>
    BY GitAppliesWrites
  <1>2. lost = {}
    BY <1>1
  <1>3. Without(target, lost) = target
    BY <1>2, WithoutTyped
  <1> QED BY <1>1, <1>3 DEF MadeBy

\* Once disturbed, always disturbed.
LEMMA DisturbedStays ==
    ASSUME TypeInv, [Next]_vars, Undisturbed'
    PROVE  /\ Undisturbed /\ ~Others /\ ~GitInterrupted
           /\ faults' = faults \/ (faults = 0 /\ faults' = 1)
  <1>1. events \in Nat /\ faults \in Nat /\ killed \in BOOLEAN /\ drifted \in BOOLEAN
        /\ events' = 0 /\ faults' <= 1 /\ ~killed' /\ ~drifted'
    BY DEF TypeInv, HistoryTyped, Undisturbed
  <1>2. ~Others
    BY <1>1, OthersKeep
  <1>3. ~GitInterrupted
    BY <1>1 DEF GitInterrupted, Mutating, GitEndsEarly
  <1>4. CASE Quiet
    <2>1. events' = events /\ killed' = killed /\ drifted' = drifted
      BY <1>4, QuietKeeps
    <2>2. faults' \in {faults, faults + 1}
      BY <1>4 DEF Quiet, Classify, Capture, CheckPatch, PreEffectBindings, CaptureEffect, Normalize,
         Verify, Publish, WriteStatus, Commit, Recover, Inspect, InverseSafe, InverseCheck,
         InverseCapture, InverseNormalize, InverseConfirm, RestoreSafe, RestoreConfirm, StepFails,
         SignalRaises, Done, vars, history
    <2> QED BY <1>1, <1>2, <1>3, <2>1, <2>2 DEF Undisturbed
  <1>5. CASE Effect \/ InverseApply
    <2>1. events' = events /\ killed' = killed /\ faults' = faults
      BY <1>5 DEF Effect, InverseApply
    <2>2. ~drifted
      BY <1>1, <1>5 DEF Effect, InverseApply, GitApplies
    <2> QED BY <1>1, <1>2, <1>3, <2>1, <2>2 DEF Undisturbed
  <1>6. CASE Detach \/ RestorePresent \/ RemoveAbsent \/ UNCHANGED vars
    <2>1. UNCHANGED history
      BY <1>6 DEF Detach, RestorePresent, RemoveAbsent, vars
    <2> QED BY <1>1, <1>2, <1>3, <2>1 DEF Undisturbed, history
  <1> QED BY <1>2, <1>3, <1>4, <1>5, <1>6, Steps

\* Where the repository and the records stay, so does the tree that stands.
LEMMA StandsKept ==
    ASSUME [Next]_vars, UNCHANGED <<worktree, index>>
    PROVE  /\ Stands(From, "checkout") => Stands(From, "checkout")'
           /\ Stands(To, "apply") => Stands(To, "apply")'
           /\ Stands(From, "inverse") => Stands(From, "inverse")'
  BY SidesKept DEF Stands, MadeBy

LEMMA CapturedKept ==
    ASSUME [Next]_vars, Captured, UNCHANGED <<parent, before, parents, effect>>,
           pc' \notin {"classify", "capture", "done"} => pc \notin {"classify", "capture", "done"},
           pc' \in {"normalize", "verify", "publish"} => effect = MadeBy(To, "apply")
    PROVE  Captured'
  BY SidesKept DEF Captured, MadeBy, NotCaptured

\* The last conjunct of Position, for a step that says why nothing was done.
LEMMA NothingDone ==
    ASSUME TypeInv, [Next]_vars, OnCourse, UNCHANGED <<parent, rootBound, outside, lock>>,
           UNCHANGED <<before, parents, effect>>, pc' = "done",
           outcome'.says \in {"refused", "already"} \/ outcome'.exit = 0
    PROVE  OnCourse'
  <1>1. Captured'
    BY CapturedKept DEF OnCourse
  <1>2. Position'
    BY DEF Position, BeforeEffect, WithEffect, Undone
  <1> QED BY <1>1, <1>2 DEF OnCourse, RestoreRegion, InverseRegion

\* A step of the patch that changes nothing but the place it is at.
LEMMA Advances ==
    ASSUME TypeInv, [Next]_vars, OnCourse, UNCHANGED <<parent, rootBound, outside, lock>>,
           UNCHANGED <<before, parents, effect>>, UNCHANGED <<worktree, index, faults>>,
           outside = "clean",
           \/ pc' \in BeforeEffect /\ Stands(From, "checkout")
           \/ pc' \in WithEffect /\ Stands(To, "apply")
           \/ pc' \in Undone /\ Stands(From, "inverse"),
           pc' \in {"inspect"} \cup InverseRegion => faults = 1,
           pc \notin {"classify", "capture", "done"},
           pc' \in {"normalize", "verify", "publish"} => effect = MadeBy(To, "apply")
    PROVE  OnCourse'
  <1>1. Captured'
    BY CapturedKept DEF OnCourse
  <1>2. pc' \notin {"classify", "done", "recover"} \cup RestoreRegion
    BY DEF BeforeEffect, WithEffect, Undone, RestoreRegion
  <1>3. Position'
    BY <1>2, StandsKept DEF Position, BeforeEffect, WithEffect, Undone
  <1> QED BY <1>1, <1>2, <1>3 DEF OnCourse, RestoreRegion, InverseRegion

LEMMA CourseTransaction ==
    ASSUME TypeInv, Settled, [Next]_vars, OnCourse, Undisturbed', Transaction
    PROVE  OnCourse'
  <1> USE DEF TryRegion, InverseRegion, RestoreRegion, BeforeEffect, WithEffect, Undone
  <1>0. /\ rootBound /\ ~lock /\ outside \in {"clean", "unstaged"} /\ Position /\ Captured
        /\ pc \in {"classify", "done"} \/ outside = "clean"
    BY DEF OnCourse
  <1>1. From \in {Base, Candidate} /\ To \in {Base, Candidate}
        /\ "checkout" \in Makers /\ "apply" \in Makers
    BY SidesAreTrees DEF Makers
  <1>2. CASE Classify
    <2>1. UNCHANGED <<repository, records, faults>> /\ pc = "classify"
      BY <1>2 DEF Classify, history
    <2>2. CASE ~InState(From)
      <3>1. pc' = "done" /\ outcome'.says \in {"refused", "already"}
        BY <1>2, <2>2, Finishes DEF Classify
      <3> QED BY <2>1, <3>1, NothingDone DEF repository, records
    <2>3. CASE InState(From)
      <3>1. PICK tree \in {Base, Candidate} : Stands(tree, "checkout")
        BY <1>0, <2>1 DEF Position
      <3>2. tree = From
        BY <2>3, <3>1 DEF InState, ScopeMatches, Stands
      <3>3. outside = "clean"
        BY <1>0, <2>3 DEF InState, ExactTreeState, TrackedClean
      <3>4. pc' = "capture"
        BY <1>2, <2>3 DEF Classify
      <3>5. Position'
        BY <2>1, <3>1, <3>2, <3>4, StandsKept DEF Position, repository
      <3>6. Captured'
        BY <1>0, <2>1, <3>4, CapturedKept DEF repository, records
      <3> QED BY <1>0, <2>1, <3>3, <3>4, <3>5, <3>6 DEF OnCourse, repository
    <2> QED BY <2>2, <2>3
  <1>3. CASE Capture
    <2>1. /\ UNCHANGED repository /\ UNCHANGED effect /\ pc = "capture" /\ pc' = "check"
          /\ before' = worktree /\ parents' = parent
      BY <1>3 DEF Capture
    <2>2. Stands(From, "checkout")
      BY <1>0, <2>1 DEF Position
    <2>3. Position'
      BY <2>1, <2>2, StandsKept DEF Position, repository
    <2>4. before = before /\ before' = MadeBy(From, "checkout") /\ parents' = parent'
      BY <2>1, <2>2 DEF Stands, repository
    <2>5. Captured'
      BY <1>0, <2>1, <2>4, SidesKept DEF Captured, MadeBy, NotCaptured
    <2> QED BY <1>0, <2>1, <2>3, <2>5 DEF OnCourse, repository
  <1>4. CASE CheckPatch
    <2>1. UNCHANGED <<repository, records, faults>> /\ pc = "check"
      BY <1>4 DEF CheckPatch, history
    <2>2. Stands(From, "checkout") /\ PatchApplies(From)
      BY <1>0, <1>1, <2>1, StandsExactly DEF Position
    <2>3. pc' = "prebind"
      BY <1>4, <2>2 DEF CheckPatch
    <2> QED BY <1>0, <2>1, <2>2, <2>3, Advances DEF repository, records
  <1>5. CASE PreEffectBindings
    <2>1. UNCHANGED <<repository, records, faults>> /\ pc = "prebind"
      BY <1>5 DEF PreEffectBindings, history
    <2>2. Stands(From, "checkout") /\ parents = parent /\ before = MadeBy(From, "checkout")
      BY <1>0, <2>1 DEF Position, Captured
    <2>3. pc' = "effect"
      BY <1>0, <1>5, <2>2 DEF PreEffectBindings, Stands
    <2> QED BY <1>0, <2>1, <2>2, <2>3, Advances DEF repository, records
  <1>6. CASE Effect
    <2>1. UNCHANGED <<records, faults>> /\ pc = "effect"
      BY <1>6 DEF Effect
    <2>2. PatchApplies(From)
      BY <1>0, <1>1, <2>1, StandsExactly DEF Position
    <2>3. GitApplies(From, To, "apply") /\ pc' = "captureEffect"
      BY <1>6, <2>2 DEF Effect
    <2>4. /\ index' = To /\ worktree' = MadeBy(To, "apply")
          /\ UNCHANGED <<parent, rootBound, outside, lock>>
      BY <1>1, <2>3, AppliesExactly DEF Undisturbed
    <2>5. Stands(To, "apply")'
      BY <2>4, SidesKept DEF Stands, MadeBy
    <2>6. Position'
      BY <2>3, <2>5 DEF Position
    <2>7. Captured'
      BY <1>0, <2>1, <2>3, <2>4, CapturedKept DEF records
    <2> QED BY <1>0, <2>1, <2>3, <2>4, <2>6, <2>7 DEF OnCourse
  <1>7. CASE CaptureEffect
    <2>1. /\ UNCHANGED <<repository, before, parents>> /\ UNCHANGED faults
          /\ effect' = worktree
          /\ \/ pc = "captureEffect" /\ pc' = "normalize"
             \/ pc = "captureAgain" /\ pc' = "verify"
      BY <1>7 DEF CaptureEffect, history
    <2>2. Stands(To, "apply")
      BY <1>0, <2>1 DEF Position
    <2>3. Position'
      BY <2>1, <2>2, StandsKept DEF Position, repository
    <2>4. effect' = MadeBy(To, "apply")
      BY <2>1, <2>2 DEF Stands
    <2>5. Captured'
      BY <1>0, <2>1, <2>4, SidesKept DEF Captured, MadeBy, repository
    <2> QED BY <1>0, <2>1, <2>3, <2>5 DEF OnCourse, repository
  <1>8. CASE Normalize
    <2>1. UNCHANGED <<repository, records, faults>> /\ pc = "normalize"
      BY <1>8 DEF Normalize, history
    <2>2. Stands(To, "apply") /\ ScopeMatches(To) /\ ExactTreeState(To)
      BY <1>0, <1>1, <2>1, StandsExactly DEF Position
    <2>3. pc' = "captureAgain"
      BY <1>8, <2>2 DEF Normalize, ExactTreeState
    <2> QED BY <1>0, <2>1, <2>2, <2>3, Advances DEF repository, records
  <1>9. CASE Verify
    <2>1. UNCHANGED <<repository, records, faults>> /\ pc = "verify"
      BY <1>9 DEF Verify, history
    <2>2. /\ Stands(To, "apply") /\ ScopeMatches(To) /\ ExactTreeState(To)
          /\ parents = parent /\ effect = MadeBy(To, "apply")
      BY <1>0, <1>1, <2>1, StandsExactly DEF Position, Captured
    <2>3. InState(To) /\ worktree = effect
      BY <1>0, <2>2 DEF InState, Stands
    <2>4. pc' = "publish"
      BY <1>9, <2>2, <2>3 DEF Verify
    <2> QED BY <1>0, <2>1, <2>2, <2>4, Advances DEF repository, records
  <1>10. CASE Publish \/ WriteStatus
    <2>1. /\ UNCHANGED <<repository, records, faults>>
          /\ pc \in {"publish", "status"} /\ pc' \in {"status", "committed"}
      BY <1>10 DEF Publish, WriteStatus, history
    <2>2. Stands(To, "apply")
      BY <1>0, <2>1 DEF Position
    <2> QED BY <1>0, <2>1, <2>2, Advances DEF repository, records
  <1>11. CASE Commit
    <2>1. UNCHANGED <<repository, records>> /\ pc' = "done" /\ outcome'.exit = 0
      BY <1>11 DEF Commit, Finish
    <2> QED BY <2>1, NothingDone DEF repository, records
  <1> QED BY <1>2, <1>3, <1>4, <1>5, <1>6, <1>7, <1>8, <1>9, <1>10, <1>11 DEF Transaction

\* Recovery that is undisturbed restores.
LEMMA Restores ==
    ASSUME TypeInv, [Next]_vars, OnCourse, UNCHANGED <<repository, records>>,
           pc # "done", pc' = "done", outcome'.says = "restored",
           \A p \in Paths : StateMatches(worktree[p], From[p])
    PROVE  OnCourse'
  <1>1. Captured'
    BY CapturedKept DEF OnCourse, repository, records
  <1>2. \A p \in Paths : StateMatches(worktree'[p], From'[p])
    BY SidesKept DEF repository, StateMatches, Entry
  <1>3. Position'
    BY <1>2 DEF Position, BeforeEffect, WithEffect, Undone, StateMatches, Entry
  <1> QED BY <1>1, <1>3 DEF OnCourse, RestoreRegion, InverseRegion, repository

LEMMA CourseRecovery ==
    ASSUME TypeInv, Settled, [Next]_vars, OnCourse, Undisturbed', Recovery
    PROVE  OnCourse'
  <1> USE DEF TryRegion, InverseRegion, RestoreRegion, BeforeEffect, WithEffect, Undone
  <1>0. /\ rootBound /\ ~lock /\ outside \in {"clean", "unstaged"} /\ Position /\ Captured
        /\ pc \in {"classify", "done"} \/ outside = "clean"
        /\ pc \notin RestoreRegion
        /\ pc \in {"recover", "inspect"} \cup InverseRegion => faults = 1
    BY DEF OnCourse
  <1>1. From \in {Base, Candidate} /\ To \in {Base, Candidate}
        /\ "checkout" \in Makers /\ "apply" \in Makers /\ "inverse" \in Makers
    BY SidesAreTrees DEF Makers
  <1>2. CASE Recover
    <2>1. UNCHANGED <<repository, records, faults>> /\ pc = "recover"
      BY <1>2 DEF Recover, history
    <2>2. CASE ExactTreeState(From)
      <3>1. Finish(1, "restored")
        BY <1>2, <2>2 DEF Recover
      <3>2. \A p \in Paths : StateMatches(worktree[p], From[p])
        <4>1. CASE Stands(From, "checkout")
          BY <1>0, <1>1, <2>1, <4>1, StandsExactly
        <4>2. CASE Stands(To, "apply")
          <5>1. To = From
            BY <2>2, <4>2 DEF ExactTreeState, WritesTree, Stands
          <5> QED BY <1>0, <1>1, <2>1, <4>2, <5>1, StandsExactly
        <4> QED BY <1>0, <2>1, <4>1, <4>2 DEF Position
      <3> QED BY <2>1, <3>1, <3>2, Finishes, Restores
    <2>3. CASE ~ExactTreeState(From)
      <3>1. Stands(To, "apply")
        BY <1>0, <1>1, <2>1, <2>3, StandsExactly DEF Position
      <3>2. pc' = "inspect"
        BY <1>2, <2>3 DEF Recover
      <3> QED BY <1>0, <2>1, <3>1, <3>2, Advances DEF repository, records
    <2> QED BY <2>2, <2>3
  <1>3. CASE Inspect
    <2>1. UNCHANGED <<repository, records, faults>> /\ pc = "inspect"
      BY <1>3 DEF Inspect, history
    <2>2. Stands(To, "apply") /\ ExactTreeState(To)
      BY <1>0, <1>1, <2>1, StandsExactly DEF Position
    <2>3. pc' = "inverse"
      BY <1>0, <1>3, <2>2 DEF Inspect, ExactTreeState
    <2> QED BY <1>0, <2>1, <2>2, <2>3, Advances DEF repository, records
  <1>4. CASE InverseSafe
    <2>1. UNCHANGED <<repository, records, faults>> /\ pc = "inverse"
      BY <1>4 DEF InverseSafe, history
    <2>2. Stands(To, "apply")
          /\ \A p \in Paths : Entry(worktree[p]) = To[p] /\ StateMatches(worktree[p], To[p])
      BY <1>0, <1>1, <2>1, StandsExactly DEF Position
    <2>3. effect = NotCaptured \/ effect = worktree
      BY <1>0, <2>2 DEF Captured, Stands
    <2>4. \A p \in Paths : ObjectSafe(p, From, To, effect, before)
      BY <2>2, <2>3 DEF ObjectSafe
    <2>5. \A p \in Paths : IndexSafe(p, From, To, FALSE)
      BY <2>2 DEF IndexSafe, Stands
    <2>6. pc' = "inverseCheck"
      BY <1>4, <2>4, <2>5 DEF InverseSafe, ScopeSafe
    <2> QED BY <1>0, <2>1, <2>2, <2>6, Advances DEF repository, records
  <1>5. CASE InverseCheck
    <2>1. UNCHANGED <<repository, records, faults>> /\ pc = "inverseCheck"
      BY <1>5 DEF InverseCheck, history
    <2>2. Stands(To, "apply") /\ PatchApplies(To)
      BY <1>0, <1>1, <2>1, StandsExactly DEF Position
    <2>3. pc' = "inverseApply"
      BY <1>5, <2>2 DEF InverseCheck
    <2> QED BY <1>0, <2>1, <2>2, <2>3, Advances DEF repository, records
  <1>6. CASE InverseApply
    <2>1. UNCHANGED <<records, faults>> /\ pc = "inverseApply"
      BY <1>6 DEF InverseApply
    <2>2. PatchApplies(To)
      BY <1>0, <1>1, <2>1, StandsExactly DEF Position
    <2>3. GitApplies(To, From, "inverse") /\ pc' = "inverseCapture"
      BY <1>6, <2>2 DEF InverseApply
    <2>4. /\ index' = From /\ worktree' = MadeBy(From, "inverse")
          /\ UNCHANGED <<parent, rootBound, outside, lock>>
      BY <1>1, <2>3, AppliesExactly DEF Undisturbed
    <2>5. Stands(From, "inverse")'
      BY <2>4, SidesKept DEF Stands, MadeBy
    <2>6. Position'
      BY <2>3, <2>5 DEF Position
    <2>7. Captured'
      BY <1>0, <2>1, <2>3, <2>4, CapturedKept DEF records
    <2> QED BY <1>0, <2>1, <2>3, <2>4, <2>6, <2>7 DEF OnCourse
  <1>7. CASE InverseCapture
    <2>1. UNCHANGED <<repository, before, parents, effect, faults>> /\ pc = "inverseCapture"
          /\ pc' = "inverseNormalize"
      BY <1>7 DEF InverseCapture, history
    <2>2. Stands(From, "inverse")
      BY <1>0, <2>1 DEF Position
    <2> QED BY <1>0, <2>1, <2>2, Advances DEF repository
  <1>8. CASE InverseNormalize
    <2>1. UNCHANGED <<repository, records, faults>> /\ pc = "inverseNormalize"
      BY <1>8 DEF InverseNormalize, history
    <2>2. Stands(From, "inverse") /\ ScopeMatches(From) /\ ExactTreeState(From)
      BY <1>0, <1>1, <2>1, StandsExactly DEF Position
    <2>3. pc' = "inverseConfirm"
      BY <1>0, <1>8, <2>2 DEF InverseNormalize, ExactTreeState
    <2> QED BY <1>0, <2>1, <2>2, <2>3, Advances DEF repository, records
  <1>9. CASE InverseConfirm
    <2>1. UNCHANGED <<repository, records, faults>> /\ pc = "inverseConfirm"
      BY <1>9 DEF InverseConfirm, history
    <2>2. /\ ScopeMatches(From) /\ ExactTreeState(From)
          /\ \A p \in Paths : StateMatches(worktree[p], From[p])
      BY <1>0, <1>1, <2>1, StandsExactly DEF Position
    <2>3. Finish(1, "restored")
      BY <1>0, <1>9, <2>2 DEF InverseConfirm
    <2> QED BY <2>1, <2>2, <2>3, Finishes, Restores
  <1>10. CASE RestoreSafe \/ Detach \/ RestorePresent \/ RemoveAbsent \/ RestoreConfirm
    BY <1>0, <1>10 DEF RestoreSafe, Detach, RestorePresent, RemoveAbsent, RestoreConfirm
  <1> QED BY <1>2, <1>3, <1>4, <1>5, <1>6, <1>7, <1>8, <1>9, <1>10 DEF Recovery

LEMMA CourseFailure ==
    ASSUME TypeInv, Settled, [Next]_vars, OnCourse, Undisturbed', StepFails \/ SignalRaises
    PROVE  OnCourse'
  <1> USE DEF TryRegion, InverseRegion, RestoreRegion, BeforeEffect, WithEffect, Undone
  <1>1. UNCHANGED <<repository, records>> /\ faults' = faults + 1 /\ faults \in Nat
    BY DEF StepFails, SignalRaises, TypeInv, HistoryTyped
  <1>2. faults = 0 /\ faults' = 1
    BY <1>1, DisturbedStays
  <1>3. pc \notin {"recover", "inspect"} \cup InverseRegion \cup RestoreRegion
    BY <1>2 DEF OnCourse
  <1>4. Raises
    BY <1>3 DEF StepFails, SignalRaises, Recovering
  <1>5. CASE pc' = "done" /\ outcome'.says \in {"already", "refused"}
    BY <1>1, <1>5, NothingDone DEF repository, records
  <1>6. CASE pc \in TryRegion /\ pc' = "recover"
    <2>1. Stands(From, "checkout") \/ Stands(To, "apply")
      BY <1>6 DEF OnCourse, Position
    <2>2. Position'
      BY <1>1, <1>6, <2>1, StandsKept DEF Position, repository
    <2>3. Captured'
      BY <1>1, <1>6, CapturedKept DEF OnCourse, repository, records
    <2> QED BY <1>1, <1>2, <1>6, <2>2, <2>3 DEF OnCourse, repository
  <1> QED BY <1>3, <1>4, <1>5, <1>6, RaisesLeads

LEMMA CourseStep == TypeInv /\ Settled /\ (Undisturbed => OnCourse) /\ [Next]_vars
                       => (Undisturbed => OnCourse)'
  <1> SUFFICES ASSUME TypeInv, Settled, Undisturbed => OnCourse, [Next]_vars, Undisturbed'
               PROVE  OnCourse'
    OBVIOUS
  <1>1. OnCourse /\ ~Others /\ ~GitInterrupted
    BY DisturbedStays
  <1>2. CASE Done \/ UNCHANGED vars
    <2>1. UNCHANGED <<pc, outcome, faults>> /\ UNCHANGED <<repository, records>>
      BY <1>2 DEF Done, vars, history
    <2>2. Position'
      <3>1. (\E tree \in {Base, Candidate} : Stands(tree, "checkout"))
               => \E tree \in {Base, Candidate} : Stands(tree, "checkout")'
        BY <2>1 DEF Stands, MadeBy, repository
      <3>2. (\A p \in Paths : StateMatches(worktree[p], From[p]))
               => \A p \in Paths : StateMatches(worktree[p], From[p])'
        BY <2>1, SidesKept DEF StateMatches, Entry, repository
      <3>3. /\ Stands(From, "checkout") => Stands(From, "checkout")'
            /\ Stands(To, "apply") => Stands(To, "apply")'
            /\ Stands(From, "inverse") => Stands(From, "inverse")'
        BY <2>1, StandsKept DEF repository
      <3> QED BY <1>1, <2>1, <3>1, <3>2, <3>3 DEF OnCourse, Position
    <2>3. Captured'
      BY <1>1, <2>1, CapturedKept DEF OnCourse, Captured, repository, records
    <2> QED BY <1>1, <2>1, <2>2, <2>3 DEF OnCourse, repository
  <1> QED BY <1>1, <1>2, CourseTransaction, CourseRecovery, CourseFailure
          DEF Next, Step, Interruption

-----------------------------------------------------------------------------
(* The theorems.                                                           *)

LEMMA InvariantAtStart == Init => IInv
  <1> SUFFICES ASSUME Init PROVE IInv
    OBVIOUS
  <1>1. TypeInv
    BY TypedAtStart
  <1>2. /\ pc = "classify" /\ line = "none" /\ outcome = Undecided /\ rootBound /\ lock = FALSE
        /\ outside \in {"clean", "unstaged"} /\ effect = NotCaptured
    BY DEF Init
  <1>3. outcome.says = "undecided"
    BY <1>2 DEF Undecided
  <1>4. Settled
    BY <1>2 DEF Settled
  <1>5. Believed /\ Returned /\ Vetted
    BY <1>2, <1>3 DEF Believed, Returned, Vetted
  <1>6. Position
    <2>1. \E tree \in {Base, Candidate} : Stands(tree, "checkout")
      BY DEF Init, Stands, MadeBy
    <2> QED BY <1>2, <2>1 DEF Position, BeforeEffect, WithEffect, Undone
  <1>7. Captured
    BY <1>2 DEF Captured
  <1>8. OnCourse
    BY <1>2, <1>6, <1>7 DEF OnCourse, RestoreRegion, InverseRegion
  <1> QED BY <1>1, <1>4, <1>5, <1>8 DEF IInv

LEMMA InvariantStep == IInv /\ [Next]_vars => IInv'
  BY TypedStep, SettledStep, BelievedStep, ReturnedStep, VettedStep, CourseStep DEF IInv

(***************************************************************************)
(* The invariant that the claims of the tool rest on: the status line is   *)
(* whole exactly from its last write to exit status 0, what is said to be  *)
(* applied or restored was checked and has not been changed since by the   *)
(* tool, what restoring writes over was recognized, and a transaction that *)
(* nobody disturbed stands on one of the two trees wherever it is.         *)
(***************************************************************************)
THEOREM PatchInvariant == Spec => []IInv
  BY InvariantAtStart, InvariantStep, PTL DEF Spec

(***************************************************************************)
(* What git-patch-transaction.py says at its end is true, whatever fails   *)
(* and whatever other processes do.                                        *)
(***************************************************************************)
THEOREM OutcomeTheorem == Spec => []OutcomeIsTrue
  <1>1. IInv => OutcomeIsTrue
    BY DEF IInv, Settled, Believed, Returned, OutcomeIsTrue, Confirmed
  <1> QED BY <1>1, PatchInvariant, PTL

(***************************************************************************)
(* After one failure or one signal, wherever it comes, the tree is patched *)
(* and said to be, or is back where it was.                                *)
(***************************************************************************)
THEOREM OneFailureTheorem == Spec => []OneFailureRecovered
  <1>1. IInv => OneFailureRecovered
    <2> SUFFICES ASSUME IInv, pc = "done", Undisturbed,
                        outcome.exit # 0, outcome.says \notin {"refused", "already"}
                 PROVE  outcome.says = "restored" /\ \A p \in Paths : StateMatches(worktree[p], From[p])
      BY DEF OneFailureRecovered, Undisturbed
    <2> QED BY DEF IInv, OnCourse, Position
  <1> QED BY <1>1, PatchInvariant, PTL

\* The steps that touch the files.
LEMMA TouchesOwned ==
    ASSUME IInv, [Next]_vars, events' = events, NEW p \in Paths, worktree'[p] # worktree[p]
    PROVE  Owned(p)
  <1> USE DEF IInv
  <1>1. CASE Quiet \/ UNCHANGED vars
    BY <1>1, QuietKeeps DEF vars, repository
  <1>2. CASE Effect
    <2>1. PatchApplies(From)
      BY <1>2 DEF Effect, GitApplies, repository
    <2> QED BY <2>1, SidesAreTrees, AppliedIsOwned
  <1>3. CASE InverseApply
    <2>1. PatchApplies(To)
      BY <1>3 DEF InverseApply, GitApplies, repository
    <2> QED BY <2>1, SidesAreTrees, AppliedIsOwned
  <1>4. CASE Detach \/ RestorePresent \/ RemoveAbsent
    BY <1>4 DEF Detach, RestorePresent, RemoveAbsent, Vetted
  <1>5. CASE GitInterrupted
    <2>1. PatchApplies(From) \/ PatchApplies(To) \/ pc = "restore"
      BY <1>5 DEF GitInterrupted, Mutating
    <2> QED BY <2>1, SidesAreTrees, AppliedIsOwned DEF Vetted
  <1>6. ~Others
    <2>1. events \in Nat
      BY DEF TypeInv, HistoryTyped
    <2> QED BY <2>1, OthersKeep
  <1> QED BY <1>1, <1>2, <1>3, <1>4, <1>5, <1>6, Steps

(***************************************************************************)
(* Applying, normalising and recovering take away no file that is another  *)
(* process's, unless it came after the last check of the files.            *)
(***************************************************************************)
THEOREM OwnedTheorem == Spec => OnlyOwnedRemoved
  <1>1. IInv /\ [Next]_vars =>
           [events' = events => \A p \in Paths : worktree'[p] # worktree[p] => Owned(p)]_vars
    BY TouchesOwned
  <1> QED BY <1>1, PatchInvariant, PTL DEF Spec, OnlyOwnedRemoved
=============================================================================
