---------------------------- MODULE CustodyProofs ----------------------------
(***************************************************************************)
(* Proofs about the tools that publish, remove or repair what others can   *)
(* reach by name: for every archive, every delivery, every member list and *)
(* every number of acts of other processes.  A run is a run of one tool,   *)
(* so there is an invariant for each, and the variables of the others say  *)
(* nothing.                                                                *)
(***************************************************************************)
EXTENDS Custody, SequenceTheorems, TLAPS

-----------------------------------------------------------------------------
(* The names and what others do to them.                                   *)

Things == {None, "own", "file", "tree", "hollow"}

\* Whatever others do with the names, they put nothing of the tool's anywhere.
LEMMA OthersBringNothing ==
    ASSUME NEW T, Things \subseteq T, entry \in [Names -> T], OthersActOnNames
    PROVE  /\ entry' \in [Names -> T]
           /\ \A n \in Names : entry'[n] = "own" => entry[n] = "own"
  <1>1. CASE Rebinds
    BY <1>1 DEF Rebinds
  <1>2. ASSUME NEW n \in Names, Takes(n)
        PROVE  /\ entry' \in [Names -> T]
               /\ \A m \in Names : entry'[m] = "own" => entry[m] = "own"
    BY <1>2 DEF Takes, Things, None
  <1>3. ASSUME NEW n \in Names, Replaces(n)
        PROVE  /\ entry' \in [Names -> T]
               /\ \A m \in Names : entry'[m] = "own" => entry[m] = "own"
    <2>1. PICK s \in Strangers : entry' = [entry EXCEPT ![n] = s]
      BY <1>3 DEF Replaces
    <2>2. s \in T /\ s # "own"
      BY StrangersAssumption DEF Things
    <2> QED BY <2>1, <2>2
  <1> QED BY <1>1, <1>2, <1>3 DEF OthersActOnNames

\* A rename moves what the name holds and leaves the other names alone.
LEMMA MovesOne ==
    ASSUME NEW T, Things \subseteq T, entry \in [Names -> T], NEW m \in Names, NEW n \in Names,
           m # n, CanMove(m, n), Move(m, n)
    PROVE  /\ entry' \in [Names -> T]
           /\ entry'[n] = entry[m] /\ entry'[m] = None
           /\ \A k \in Names \ {m, n} : entry'[k] = entry[k]
  BY DEF Move, Things, None

-----------------------------------------------------------------------------
(* recover-candidate-source.py.                                            *)

BeforeOpen == {"manifest", "parent", "vacant", "make", "identify", "open"}
RootOpen   == {"archive", "member", "create", "record", "write", "digests", "seal", "verify",
               "verify again", "publish", "verify target", "sync", "return", "recovered"}
Cleaning   == {"take", "first", "second", "delete", "rmdir", "synced"}

RecoverPoints == BeforeOpen \cup RootOpen \cup Cleaning \cup {"handler", "unopened", "failed"}

RecoverTyped ==
    /\ pc \in RecoverPoints
    /\ entry \in [Names -> Things]
    /\ reported \in BOOLEAN /\ late \in BOOLEAN
    /\ request \in Requests /\ current \in {"stage", "target"}
    /\ tree = [p \in Paths |-> tree[p]]

\* The directory that was opened stays open.
RootHeld ==
    /\ identity \in Things /\ held \in Things \ {"file"}
    /\ pc \in BeforeOpen \cup {"unopened"} => held = None
    /\ pc \in RootOpen \cup Cleaning => held # None

ManifestChecked == pc \notin {"manifest", "failed"} => Accepted(Manifest)

TargetVerified ==
    pc \in {"sync", "return", "recovered"} /\ ~touched =>
       tree = ExpectedTree /\ entry["target"] = held

\* Where the directory made here can be, and what the tool knows of it then.
OwnRoot ==
    /\ \A m, n \in Names : entry[m] = "own" /\ entry[n] = "own" => m = n
    /\ \A n \in Names : entry[n] = "own" =>
          /\ pc \notin {"manifest", "parent", "vacant", "make", "synced"}
          /\ staged
          /\ pc = "identify" \/ identity = "own"
          /\ held \in {None, "own"}
          /\ held = None => n = "stage"
          /\ pc = "failed" => reported \/ late

\* A directory with entries is never taken for an empty one.
NothingLost ==
    /\ lost \subseteq {"hollow"}
    /\ held = "tree" => \E p \in Paths : tree[p] = "strange"

RecoverInv ==
    tool = "recover" =>
       RecoverTyped /\ RootHeld /\ ManifestChecked /\ TargetVerified /\ OwnRoot /\ NothingLost

LEMMA RecoverSteps ==
    ASSUME tool = "recover", [Next]_custodySpace
    PROVE  /\ tool' = tool
           /\ \/ RecoveryStep
              \/ InterruptRecovery
              \/ /\ OthersActOnNames /\ touched' = TRUE
                 /\ UNCHANGED <<request, members, tree, records, staged, identity, current, altered>>
              \/ OthersActOnTree
              \/ UNCHANGED <<pc, nameVars, noteVars, recoveryVars>>
  BY DEF Next, custodySpace, ToolStep, Recovers, Attests, Removes, Normalizes, Repairs, Interrupt,
         Others, OthersOnNames, OthersOnTree, OthersOnDelivery, OthersInside, OthersOnModes, OnModes,
         OnNames, AtEnd, nameVars, noteVars, recoveryVars

\* Where a failure leads.
LEMMA FailLeads ==
    ASSUME Fail, reported \in BOOLEAN
    PROVE  /\ reported' \in BOOLEAN
           /\ \/ pc \in {"manifest", "parent"} /\ pc' = "failed" /\ reported' = reported
              \/ pc \in CleaningUp /\ pc' = "failed" /\ reported' = TRUE
              \/ pc \notin Before \cup CleaningUp /\ pc' = "handler" /\ reported' = reported
  BY DEF Fail, Before, Go

RecoverState ==
    RecoverTyped /\ RootHeld /\ ManifestChecked /\ TargetVerified /\ OwnRoot /\ NothingLost

\* A failure that changes nothing else.
LEMMA FailKeeps ==
    ASSUME RecoverState, Fail, pc # "failed", pc = "identify" => entry["stage"] = None,
           UNCHANGED <<nameVars, late, request, members, tree, records, staged, identity, current, altered>>
    PROVE  RecoverState'
  <1>1. /\ reported' \in BOOLEAN
        /\ pc' \in {"failed", "handler"}
        /\ pc' = "failed" => reported' \/ pc \in {"manifest", "parent"}
        /\ pc \in {"manifest", "parent"} => pc' = "failed"
    BY FailLeads DEF RecoverState, RecoverTyped, Before, CleaningUp
  <1>2. RecoverTyped'
    BY <1>1 DEF RecoverState, RecoverTyped, RecoverPoints, nameVars, Paths
  <1>3. RootHeld'
    BY <1>1 DEF RecoverState, RootHeld, nameVars, BeforeOpen, RootOpen, Cleaning
  <1>4. ManifestChecked'
    BY <1>1 DEF RecoverState, ManifestChecked, Manifest
  <1>5. TargetVerified'
    BY <1>1 DEF TargetVerified
  <1>6. OwnRoot'
    <2>1. \A n \in Names : entry[n] = "own" => pc # "identify" /\ (pc' = "failed" => reported')
      BY <1>1 DEF RecoverState, OwnRoot, RootHeld, BeforeOpen, None
    <2> QED BY <1>1, <2>1 DEF RecoverState, OwnRoot, nameVars
  <1>7. NothingLost'
    BY DEF RecoverState, NothingLost, nameVars, Paths
  <1> QED BY <1>2, <1>3, <1>4, <1>5, <1>6, <1>7 DEF RecoverState

\* A step to another point that changes nothing else.
LEMMA GoKeeps ==
    ASSUME RecoverState, NEW q \in RecoverPoints, Go(q), pc # "failed",
           UNCHANGED <<nameVars, late, reported, recoveryVars>>,
           q \in BeforeOpen \cup {"unopened"} => held = None,
           q \in RootOpen \cup Cleaning => held # None,
           q # "failed" => Accepted(Manifest),
           q \in {"sync", "return", "recovered"} /\ ~touched => tree = ExpectedTree /\ entry["target"] = held,
           q \in {"manifest", "parent", "vacant", "make"} => \A n \in Names : entry[n] # "own",
           q = "failed" => reported \/ late \/ \A n \in Names : entry[n] # "own",
           q \notin {"identify", "synced"}, pc # "identify"
    PROVE  RecoverState'
  <1>1. RecoverTyped'
    BY DEF RecoverState, RecoverTyped, nameVars, recoveryVars, Paths, Go
  <1>2. RootHeld'
    BY DEF RecoverState, RootHeld, nameVars, BeforeOpen, RootOpen, Cleaning, recoveryVars, Go
  <1>3. ManifestChecked'
    BY DEF RecoverState, ManifestChecked, Manifest, recoveryVars, Go
  <1>4. TargetVerified'
    BY DEF TargetVerified, Go, ExpectedTree, Manifest, recoveryVars, nameVars, Paths
  <1>5. OwnRoot'
    BY DEF RecoverState, OwnRoot, nameVars, recoveryVars, Go
  <1>6. NothingLost'
    BY DEF RecoverState, NothingLost, nameVars, Paths, recoveryVars
  <1> QED BY <1>1, <1>2, <1>3, <1>4, <1>5, <1>6 DEF RecoverState

\* The steps that only look.
LEMMA LooksKeep ==
    ASSUME RecoverState, pc # "failed",
           \/ LoadManifest \/ OpenParentChain \/ DestinationFree \/ OpenArchive \/ AdmitMember
           \/ Complete \/ SealRoot \/ VerifyStage \/ VerifyStageAgain \/ SyncParent \/ Recovered
           \/ Handle \/ CompareMembers \/ AllDeleted \/ SyncRemoval \/ Fails
    PROVE  RecoverState'
  <1> DEFINE Leads(q) == /\ q \in BeforeOpen \cup {"unopened"} => held = None
                         /\ q \in RootOpen \cup Cleaning => held # None
                         /\ q # "failed" => Accepted(Manifest)
                         /\ q \in {"sync", "return", "recovered"} => pc \in {"sync", "return"}
                         /\ q \in {"manifest", "parent", "vacant", "make"} => pc \in {"manifest", "parent", "vacant"}
                         /\ q = "failed" => reported \/ late \/ \A n \in Names : entry[n] # "own"
                         /\ q \notin {"identify", "synced"}
  <1>1. ASSUME NEW q \in RecoverPoints, pc # "identify", Go(q) /\ UNCHANGED reported, Leads(q),
               UNCHANGED <<nameVars, recoveryVars, interrupted, late, acts>>
        PROVE  RecoverState'
    <2>1. q \in {"sync", "return", "recovered"} /\ ~touched => tree = ExpectedTree /\ entry["target"] = held
      BY <1>1 DEF RecoverState, TargetVerified
    <2>2. q \in {"manifest", "parent", "vacant", "make"} => \A n \in Names : entry[n] # "own"
      BY <1>1 DEF RecoverState, OwnRoot
    <2> QED BY <1>1, <2>1, <2>2, GoKeeps
  <1>2. ASSUME pc # "identify", Fail, UNCHANGED <<nameVars, recoveryVars, interrupted, late, acts>>
        PROVE  RecoverState'
    BY <1>2, FailKeeps DEF recoveryVars
  <1>3. /\ pc \in BeforeOpen => held = None
        /\ pc \in RootOpen \cup Cleaning => held # None
        /\ pc # "manifest" => Accepted(Manifest)
    BY DEF RecoverState, RootHeld, ManifestChecked
  <1>4. CASE LoadManifest
    <2>1. pc = "manifest"
      BY <1>4 DEF LoadManifest, Checks, At
    <2>2. "parent" \in RecoverPoints /\ (Accepted(Manifest) => Leads("parent"))
      BY <1>3, <2>1 DEF RecoverPoints, BeforeOpen, RootOpen, Cleaning
    <2> QED BY <1>1, <1>2, <1>4, <2>1, <2>2 DEF LoadManifest, Checks
  <1>5. CASE OpenParentChain
    <2>1. pc = "parent"
      BY <1>5 DEF OpenParentChain, Checks, At
    <2>2. "vacant" \in RecoverPoints /\ Leads("vacant")
      BY <1>3, <2>1 DEF RecoverPoints, BeforeOpen, RootOpen, Cleaning
    <2> QED BY <1>1, <1>2, <1>5, <2>1, <2>2 DEF OpenParentChain, Checks
  <1>6. CASE DestinationFree
    <2>1. pc = "vacant"
      BY <1>6 DEF DestinationFree, Checks, At
    <2>2. "make" \in RecoverPoints /\ Leads("make")
      BY <1>3, <2>1 DEF RecoverPoints, BeforeOpen, RootOpen, Cleaning
    <2> QED BY <1>1, <1>2, <1>6, <2>1, <2>2 DEF DestinationFree, Checks
  <1>7. CASE OpenArchive
    <2>1. pc = "archive"
      BY <1>7 DEF OpenArchive, Checks, At
    <2>2. "member" \in RecoverPoints /\ Leads("member")
      BY <1>3, <2>1 DEF RecoverPoints, BeforeOpen, RootOpen, Cleaning
    <2> QED BY <1>1, <1>2, <1>7, <2>1, <2>2 DEF OpenArchive, Checks
  <1>8. CASE AdmitMember
    <2>1. pc = "member"
      BY <1>8 DEF AdmitMember, Checks, At
    <2>2. "create" \in RecoverPoints /\ Leads("create")
      BY <1>3, <2>1 DEF RecoverPoints, BeforeOpen, RootOpen, Cleaning
    <2> QED BY <1>1, <1>2, <1>8, <2>1, <2>2 DEF AdmitMember, Checks
  <1>9. CASE Complete
    <2>1. pc = "member"
      BY <1>9 DEF Complete, Checks, At
    <2>2. "seal" \in RecoverPoints /\ Leads("seal")
      BY <1>3, <2>1 DEF RecoverPoints, BeforeOpen, RootOpen, Cleaning
    <2> QED BY <1>1, <1>2, <1>9, <2>1, <2>2 DEF Complete, Checks
  <1>10. CASE SealRoot
    <2>1. pc = "seal"
      BY <1>10 DEF SealRoot, Checks, At
    <2>2. "verify" \in RecoverPoints /\ Leads("verify")
      BY <1>3, <2>1 DEF RecoverPoints, BeforeOpen, RootOpen, Cleaning
    <2> QED BY <1>1, <1>2, <1>10, <2>1, <2>2 DEF SealRoot, Checks
  <1>11. CASE VerifyStage
    <2>1. pc = "verify"
      BY <1>11 DEF VerifyStage, Checks, At
    <2>2. "verify again" \in RecoverPoints /\ Leads("verify again")
      BY <1>3, <2>1 DEF RecoverPoints, BeforeOpen, RootOpen, Cleaning
    <2> QED BY <1>1, <1>2, <1>11, <2>1, <2>2 DEF VerifyStage, Checks
  <1>12. CASE VerifyStageAgain
    <2>1. pc = "verify again"
      BY <1>12 DEF VerifyStageAgain, Checks, At
    <2>2. "publish" \in RecoverPoints /\ Leads("publish")
      BY <1>3, <2>1 DEF RecoverPoints, BeforeOpen, RootOpen, Cleaning
    <2> QED BY <1>1, <1>2, <1>12, <2>1, <2>2 DEF VerifyStageAgain, Checks
  <1>13. CASE SyncParent
    <2>1. pc = "sync"
      BY <1>13 DEF SyncParent, Checks, At
    <2>2. "return" \in RecoverPoints /\ Leads("return")
      BY <1>3, <2>1 DEF RecoverPoints, BeforeOpen, RootOpen, Cleaning
    <2> QED BY <1>1, <1>2, <1>13, <2>1, <2>2 DEF SyncParent, Checks
  <1>14. CASE Recovered
    <2>1. pc = "return"
      BY <1>14 DEF Recovered, Checks, At
    <2>2. "recovered" \in RecoverPoints /\ Leads("recovered")
      BY <1>3, <2>1 DEF RecoverPoints, BeforeOpen, RootOpen, Cleaning
    <2> QED BY <1>1, <1>2, <1>14, <2>1, <2>2 DEF Recovered, Checks
  <1>15. CASE Handle
    <2>1. pc = "handler"
      BY <1>15 DEF Handle, Checks, At
    <2>2. CASE held # None
      <3>1. "take" \in RecoverPoints /\ Leads("take")
        BY <1>3, <2>1, <2>2 DEF RecoverPoints, BeforeOpen, RootOpen, Cleaning
      <3> QED BY <1>1, <1>2, <1>15, <2>1, <2>2, <3>1 DEF Handle, Checks
    <2>3. CASE held = None /\ staged /\ identity # None
      <3>1. "unopened" \in RecoverPoints /\ Leads("unopened")
        BY <1>3, <2>1, <2>3 DEF RecoverPoints, BeforeOpen, RootOpen, Cleaning
      <3> QED BY <1>1, <1>2, <1>15, <2>1, <2>3, <3>1 DEF Handle, Checks
    <2>4. CASE held = None /\ ~(staged /\ identity # None)
      <3>1. \A n \in Names : entry[n] # "own"
        BY <2>1, <2>4 DEF RecoverState, OwnRoot, None
      <3>2. "failed" \in RecoverPoints /\ Leads("failed")
        BY <3>1 DEF RecoverPoints, BeforeOpen, RootOpen, Cleaning
      <3> QED BY <1>1, <1>2, <1>15, <2>1, <2>4, <3>2 DEF Handle, Checks
    <2> QED BY <2>2, <2>3, <2>4
  <1>16. CASE CompareMembers
    <2>1. pc = "second"
      BY <1>16 DEF CompareMembers, Checks, At
    <2>2. "delete" \in RecoverPoints /\ Leads("delete")
      BY <1>3, <2>1 DEF RecoverPoints, BeforeOpen, RootOpen, Cleaning
    <2> QED BY <1>1, <1>2, <1>16, <2>1, <2>2 DEF CompareMembers, Checks
  <1>17. CASE AllDeleted
    <2>1. pc = "delete"
      BY <1>17 DEF AllDeleted, Checks, At
    <2>2. "rmdir" \in RecoverPoints /\ Leads("rmdir")
      BY <1>3, <2>1 DEF RecoverPoints, BeforeOpen, RootOpen, Cleaning
    <2> QED BY <1>1, <1>2, <1>17, <2>1, <2>2 DEF AllDeleted, Checks
  <1>18. CASE SyncRemoval
    <2>1. pc = "synced" /\ \A n \in Names : entry[n] # "own"
      BY <1>18 DEF SyncRemoval, Checks, At, RecoverState, OwnRoot
    <2>2. "failed" \in RecoverPoints /\ Leads("failed")
      BY <2>1 DEF RecoverPoints, BeforeOpen, RootOpen, Cleaning
    <2> QED BY <1>1, <1>2, <1>18, <2>1, <2>2 DEF SyncRemoval, Checks
  <1>19. CASE Fails
    BY <1>19, <1>2 DEF Fails
  <1> QED BY <1>4, <1>5, <1>6, <1>7, <1>8, <1>9, <1>10, <1>11, <1>12, <1>13, <1>14, <1>15, <1>16, <1>17,
     <1>18, <1>19

LEMMA MakeStageKeeps ==
    ASSUME RecoverState, MakeStage PROVE RecoverState'
  <1>1. RecoverTyped'
    <2>1. "stage" \in Names /\ "own" \in Things
      BY DEF Names, Things
    <2> QED BY <2>1 DEF MakeStage, Go, At, RecoverState, RecoverTyped, RecoverPoints, BeforeOpen,
       noteVars, Paths
  <1>2. RootHeld'
    BY DEF MakeStage, Go, At, nameVars, recoveryVars, RecoverState, RootHeld, RecoverPoints, BeforeOpen,
       RootOpen, Cleaning, Things, None
  <1>3. ManifestChecked'
    BY DEF MakeStage, Go, At, nameVars, recoveryVars, RecoverState, ManifestChecked, Manifest
  <1>4. TargetVerified'
    BY DEF MakeStage, Go, At, nameVars, recoveryVars, RecoverState, TargetVerified, ExpectedTree,
       Manifest, Paths
  <1>5. OwnRoot'
    BY DEF MakeStage, Go, At, nameVars, recoveryVars, RecoverState, OwnRoot, RootHeld, Names, None,
       Things, RecoverPoints, BeforeOpen, RootOpen, Cleaning
  <1>6. NothingLost'
    BY DEF MakeStage, Go, At, nameVars, recoveryVars, RecoverState, NothingLost, Paths
  <1> QED BY <1>1, <1>2, <1>3, <1>4, <1>5, <1>6 DEF RecoverState

LEMMA IdentifyStageKeeps ==
    ASSUME RecoverState, IdentifyStage PROVE RecoverState'
  <1>1. CASE ~(entry["stage"] # None)
    BY <1>1, FailKeeps DEF IdentifyStage, Go, At, nameVars, recoveryVars, RecoverState, None
  <1>2. CASE entry["stage"] # None
    <2>1. RecoverTyped'
      BY <1>2 DEF IdentifyStage, Go, At, nameVars, recoveryVars, RecoverState, RecoverTyped,
         RecoverPoints, BeforeOpen, RootOpen, Cleaning, Names, None, Things, Paths
    <2>2. RootHeld'
      <3>1. \A n \in Names : entry[n] \in Things
        BY DEF RecoverState, RecoverTyped
      <3>2. "stage" \in Names
        BY DEF Names
      <3> QED BY <1>2, <3>1, <3>2 DEF IdentifyStage, Go, At, nameVars, RecoverState, RootHeld,
         BeforeOpen, RootOpen, Cleaning, Things, None
    <2>3. ManifestChecked'
      BY <1>2 DEF IdentifyStage, Go, At, nameVars, recoveryVars, RecoverState, ManifestChecked, Manifest
    <2>4. TargetVerified'
      BY <1>2 DEF IdentifyStage, Go, At, nameVars, recoveryVars, RecoverState, TargetVerified,
         ExpectedTree, Manifest, Paths
    <2>5. OwnRoot'
      BY <1>2 DEF IdentifyStage, Go, At, nameVars, recoveryVars, RecoverState, OwnRoot, RootHeld, Names,
         None, Things, RecoverPoints, BeforeOpen, RootOpen, Cleaning
    <2>6. NothingLost'
      BY <1>2 DEF IdentifyStage, Go, At, nameVars, recoveryVars, RecoverState, NothingLost, Paths
    <2> QED BY <2>1, <2>2, <2>3, <2>4, <2>5, <2>6 DEF RecoverState
  <1> QED BY <1>1, <1>2

LEMMA OpenRootKeeps ==
    ASSUME RecoverState, OpenRoot PROVE RecoverState'
  <1>1. CASE ~(IsDirectory(identity) /\ IsDirectory(entry["stage"]))
    BY <1>1, FailKeeps DEF OpenRoot, Go, At, nameVars, recoveryVars, IsDirectory, RecoverState, None
  <1>2. CASE IsDirectory(identity) /\ IsDirectory(entry["stage"])
    <2>1. RecoverTyped'
      BY <1>2 DEF OpenRoot, Go, At, nameVars, recoveryVars, IsDirectory, RecoverState, RecoverTyped,
         RecoverPoints, BeforeOpen, RootOpen, Cleaning, Names, None, Things, Paths
    <2>2. RootHeld'
      <3>1. \A n \in Names : entry[n] \in Things
        BY DEF RecoverState, RecoverTyped
      <3>2. "stage" \in Names
        BY DEF Names
      <3> QED BY <1>2, <3>1, <3>2 DEF OpenRoot, IsDirectory, Go, At, RecoverState, RootHeld, BeforeOpen,
         RootOpen, Cleaning, Things, None
    <2>3. ManifestChecked'
      BY <1>2 DEF OpenRoot, Go, At, nameVars, recoveryVars, IsDirectory, RecoverState, ManifestChecked,
         Manifest
    <2>4. TargetVerified'
      BY <1>2 DEF OpenRoot, Go, At, nameVars, recoveryVars, IsDirectory, RecoverState, TargetVerified,
         ExpectedTree, Manifest, Paths
    <2>5. OwnRoot'
      BY <1>2 DEF OpenRoot, Go, At, nameVars, recoveryVars, IsDirectory, RecoverState, OwnRoot, RootHeld,
         Names, None, Things, RecoverPoints, BeforeOpen, RootOpen, Cleaning
    <2>6. NothingLost'
      <3>1. PICK p \in Paths : p \notin Declared
        BY RecoveryAssumption DEF RecoverState, RecoverTyped, Declared, Manifest, Paths
      <3> QED BY <1>2, <3>1 DEF OpenRoot, RecoverState, NothingLost, Paths
    <2> QED BY <2>1, <2>2, <2>3, <2>4, <2>5, <2>6 DEF RecoverState
  <1> QED BY <1>1, <1>2

LEMMA MakeMemberKeeps ==
    ASSUME RecoverState, MakeMember PROVE RecoverState'
  <1>1. CASE ~(tree[Member.path] = "nothing")
    BY <1>1, FailKeeps DEF MakeMember, Go, At, nameVars, recoveryVars, Member, RecoverState, None
  <1>2. CASE tree[Member.path] = "nothing"
    <2>1. RecoverTyped'
      BY <1>2 DEF MakeMember, Go, At, nameVars, recoveryVars, Member, RecoverState, RecoverTyped,
         RecoverPoints, BeforeOpen, RootOpen, Cleaning, Names, None, Things, Paths
    <2>2. RootHeld'
      BY <1>2 DEF MakeMember, Go, At, nameVars, recoveryVars, Member, RecoverState, RootHeld,
         RecoverPoints, BeforeOpen, RootOpen, Cleaning, Things, None
    <2>3. ManifestChecked'
      BY <1>2 DEF MakeMember, Go, At, nameVars, recoveryVars, Member, RecoverState, ManifestChecked,
         Manifest
    <2>4. TargetVerified'
      BY <1>2 DEF MakeMember, Go, At, nameVars, recoveryVars, Member, RecoverState, TargetVerified,
         ExpectedTree, Manifest, Paths
    <2>5. OwnRoot'
      BY <1>2 DEF MakeMember, Go, At, nameVars, recoveryVars, Member, RecoverState, OwnRoot, RootHeld,
         Names, None, Things, RecoverPoints, BeforeOpen, RootOpen, Cleaning
    <2>6. NothingLost'
      <3>1. ASSUME NEW p \in Paths, tree[p] = "strange" PROVE tree'[p] = "strange"
        BY <1>2, <3>1 DEF MakeMember, RecoverState, RecoverTyped, Paths
      <3> QED BY <1>2, <3>1 DEF MakeMember, nameVars, RecoverState, NothingLost, Paths
    <2> QED BY <2>1, <2>2, <2>3, <2>4, <2>5, <2>6 DEF RecoverState
  <1> QED BY <1>1, <1>2

LEMMA RecordMemberKeeps ==
    ASSUME RecoverState, RecordMember PROVE RecoverState'
  <1>1. CASE ~(tree[Member.path] \in {"begun", "directory"})
    BY <1>1, FailKeeps DEF RecordMember, Go, At, nameVars, recoveryVars, Member, RecoverState, None
  <1>2. CASE tree[Member.path] \in {"begun", "directory"}
    <2>1. RecoverTyped'
      BY <1>2 DEF RecordMember, Go, At, nameVars, recoveryVars, Member, RecoverState, RecoverTyped,
         RecoverPoints, BeforeOpen, RootOpen, Cleaning, Names, None, Things, Paths
    <2>2. RootHeld'
      BY <1>2 DEF RecordMember, Go, At, nameVars, recoveryVars, Member, RecoverState, RootHeld,
         RecoverPoints, BeforeOpen, RootOpen, Cleaning, Things, None
    <2>3. ManifestChecked'
      BY <1>2 DEF RecordMember, Go, At, nameVars, recoveryVars, Member, RecoverState, ManifestChecked,
         Manifest
    <2>4. TargetVerified'
      BY <1>2 DEF RecordMember, Go, At, nameVars, recoveryVars, Member, RecoverState, TargetVerified,
         ExpectedTree, Manifest, Paths
    <2>5. OwnRoot'
      BY <1>2 DEF RecordMember, Go, At, nameVars, recoveryVars, Member, RecoverState, OwnRoot, RootHeld,
         Names, None, Things, RecoverPoints, BeforeOpen, RootOpen, Cleaning
    <2>6. NothingLost'
      BY <1>2 DEF RecordMember, Go, At, nameVars, recoveryVars, Member, RecoverState, NothingLost, Paths
    <2> QED BY <2>1, <2>2, <2>3, <2>4, <2>5, <2>6 DEF RecoverState
  <1> QED BY <1>1, <1>2

LEMMA WriteMemberKeeps ==
    ASSUME RecoverState, WriteMember PROVE RecoverState'
  <1>1. RecoverTyped'
    BY DEF WriteMember, Go, At, nameVars, recoveryVars, Member, noteVars, RecoverState, RecoverTyped,
       RecoverPoints, BeforeOpen, RootOpen, Cleaning, Names, None, Things, Paths
  <1>2. RootHeld'
    BY DEF WriteMember, Go, At, nameVars, recoveryVars, Member, noteVars, RecoverState, RootHeld,
       RecoverPoints, BeforeOpen, RootOpen, Cleaning, Things, None
  <1>3. ManifestChecked'
    BY DEF WriteMember, Go, At, nameVars, recoveryVars, Member, noteVars, RecoverState, ManifestChecked,
       Manifest
  <1>4. TargetVerified'
    BY DEF WriteMember, Go, At, nameVars, recoveryVars, Member, noteVars, RecoverState, TargetVerified,
       ExpectedTree, Manifest, Paths
  <1>5. OwnRoot'
    BY DEF WriteMember, Go, At, nameVars, recoveryVars, Member, noteVars, RecoverState, OwnRoot,
       RootHeld, Names, None, Things, RecoverPoints, BeforeOpen, RootOpen, Cleaning
  <1>6. NothingLost'
    <2>1. ASSUME NEW p \in Paths, tree[p] = "strange" PROVE tree'[p] = "strange"
      BY <2>1 DEF WriteMember, RecoverState, RecoverTyped, Paths
    <2> QED BY <2>1 DEF WriteMember, nameVars, RecoverState, NothingLost, Paths
  <1> QED BY <1>1, <1>2, <1>3, <1>4, <1>5, <1>6 DEF RecoverState

LEMMA SealMemberKeeps ==
    ASSUME RecoverState, SealMember PROVE RecoverState'
  <1>1. CASE ~(tree[Member.path] \notin {"nothing", "strange"} /\ Member.bytes)
    BY <1>1, FailKeeps DEF SealMember, Go, At, nameVars, recoveryVars, Member, RecoverState, None
  <1>2. CASE tree[Member.path] \notin {"nothing", "strange"} /\ Member.bytes
    <2>1. RecoverTyped'
      BY <1>2 DEF SealMember, Go, At, nameVars, recoveryVars, Member, RecoverState, RecoverTyped,
         RecoverPoints, BeforeOpen, RootOpen, Cleaning, Names, None, Things, Paths
    <2>2. RootHeld'
      BY <1>2 DEF SealMember, Go, At, nameVars, recoveryVars, Member, RecoverState, RootHeld,
         RecoverPoints, BeforeOpen, RootOpen, Cleaning, Things, None
    <2>3. ManifestChecked'
      BY <1>2 DEF SealMember, Go, At, nameVars, recoveryVars, Member, RecoverState, ManifestChecked,
         Manifest
    <2>4. TargetVerified'
      BY <1>2 DEF SealMember, Go, At, nameVars, recoveryVars, Member, RecoverState, TargetVerified,
         ExpectedTree, Manifest, Paths
    <2>5. OwnRoot'
      BY <1>2 DEF SealMember, Go, At, nameVars, recoveryVars, Member, RecoverState, OwnRoot, RootHeld,
         Names, None, Things, RecoverPoints, BeforeOpen, RootOpen, Cleaning
    <2>6. NothingLost'
      BY <1>2 DEF SealMember, Go, At, nameVars, recoveryVars, Member, RecoverState, NothingLost, Paths
    <2> QED BY <2>1, <2>2, <2>3, <2>4, <2>5, <2>6 DEF RecoverState
  <1> QED BY <1>1, <1>2

LEMMA PublishStageKeeps ==
    ASSUME RecoverState, PublishStage PROVE RecoverState'
  <1>1. CASE ~(CanMove("stage", "target"))
    BY <1>1, FailKeeps DEF PublishStage, Go, At, nameVars, recoveryVars, Move, CanMove, RecoverState,
       None
  <1>2. CASE CanMove("stage", "target")
    <2>1. RecoverTyped'
      <3>1. /\ entry' \in [Names -> Things]
            /\ entry'["target"] = entry["stage"] /\ entry'["stage"] = None
            /\ \A k \in Names \ {"stage", "target"} : entry'[k] = entry[k]
            /\ "stage" \in Names /\ "target" \in Names
        <4>1. "stage" \in Names /\ "target" \in Names /\ "stage" # "target"
          BY DEF RecoverState, RecoverTyped, Names
        <4> QED BY <1>2, <4>1, MovesOne DEF PublishStage, RecoverState, RecoverTyped
      <3> QED BY <1>2, <3>1 DEF PublishStage, Go, At, recoveryVars, RecoverState, RecoverTyped,
         RecoverPoints, RootOpen, Cleaning, Paths
    <2>2. RootHeld'
      BY <1>2 DEF PublishStage, Go, At, nameVars, recoveryVars, Move, CanMove, RecoverState, RootHeld,
         RecoverPoints, BeforeOpen, RootOpen, Cleaning, Things, None
    <2>3. ManifestChecked'
      BY <1>2 DEF PublishStage, Go, At, nameVars, recoveryVars, Move, CanMove, RecoverState,
         ManifestChecked, Manifest
    <2>4. TargetVerified'
      BY <1>2 DEF PublishStage, Go, At, nameVars, recoveryVars, Move, CanMove, RecoverState,
         TargetVerified, ExpectedTree, Manifest, Paths
    <2>5. OwnRoot'
      <3>1. /\ entry' \in [Names -> Things]
            /\ entry'["target"] = entry["stage"] /\ entry'["stage"] = None
            /\ \A k \in Names \ {"stage", "target"} : entry'[k] = entry[k]
            /\ "stage" \in Names /\ "target" \in Names
        <4>1. "stage" \in Names /\ "target" \in Names /\ "stage" # "target"
          BY DEF RecoverState, RecoverTyped, Names
        <4> QED BY <1>2, <4>1, MovesOne DEF PublishStage, RecoverState, RecoverTyped
      <3>2. pc' \in {"verify target", "first", "second"} /\ held # None /\ pc \in RootOpen \cup Cleaning
        BY <1>2 DEF PublishStage, Go, At, RecoverState, RootHeld, RootOpen, Cleaning
      <3>3. UNCHANGED <<staged, identity, held, late>>
        BY <1>2 DEF PublishStage, recoveryVars
      <3>4. ASSUME NEW k \in Names, entry'[k] = "own" PROVE entry[IF k = "target" THEN "stage" ELSE k] = "own" /\ k # "stage"
        BY <3>1, <3>4 DEF None
      <3>5. \A j, k \in Names : entry'[j] = "own" /\ entry'[k] = "own" => j = k
        BY <3>1, <3>4 DEF RecoverState, OwnRoot
      <3>6. ASSUME NEW k \in Names, entry'[k] = "own"
            PROVE  staged /\ identity = "own" /\ held \in {None, "own"}
        BY <3>1, <3>2, <3>4, <3>6 DEF RecoverState, OwnRoot, RootOpen, Cleaning
      <3> QED BY <3>2, <3>3, <3>5, <3>6 DEF OwnRoot
    <2>6. NothingLost'
      BY <1>2 DEF PublishStage, Go, At, nameVars, recoveryVars, Move, CanMove, RecoverState, NothingLost,
         Paths
    <2> QED BY <2>1, <2>2, <2>3, <2>4, <2>5, <2>6 DEF RecoverState
  <1> QED BY <1>1, <1>2

LEMMA VerifyTargetKeeps ==
    ASSUME RecoverState, VerifyTarget PROVE RecoverState'
  <1>1. CASE ~(FinalVerify("target"))
    BY <1>1, FailKeeps DEF VerifyTarget, Go, At, nameVars, recoveryVars, RecoverState, None
  <1>2. CASE FinalVerify("target")
    <2>1. RecoverTyped'
      BY <1>2 DEF VerifyTarget, Go, At, nameVars, recoveryVars, RecoverState, RecoverTyped,
         RecoverPoints, BeforeOpen, RootOpen, Cleaning, Names, None, Things, Paths
    <2>2. RootHeld'
      BY <1>2 DEF VerifyTarget, Go, At, nameVars, recoveryVars, RecoverState, RootHeld, RecoverPoints,
         BeforeOpen, RootOpen, Cleaning, Things, None
    <2>3. ManifestChecked'
      BY <1>2 DEF VerifyTarget, Go, At, nameVars, recoveryVars, RecoverState, ManifestChecked, Manifest
    <2>4. TargetVerified'
      BY <1>2 DEF VerifyTarget, FinalVerify, nameVars, TargetVerified, ExpectedTree, Manifest, Paths
    <2>5. OwnRoot'
      BY <1>2 DEF VerifyTarget, Go, At, nameVars, recoveryVars, RecoverState, OwnRoot, RootHeld, Names,
         None, Things, RecoverPoints, BeforeOpen, RootOpen, Cleaning
    <2>6. NothingLost'
      BY <1>2 DEF VerifyTarget, Go, At, nameVars, recoveryVars, RecoverState, NothingLost, Paths
    <2> QED BY <2>1, <2>2, <2>3, <2>4, <2>5, <2>6 DEF RecoverState
  <1> QED BY <1>1, <1>2

LEMMA TakeRootKeeps ==
    ASSUME RecoverState, TakeRoot PROVE RecoverState'
  <1>1. CASE ~(CanMove(current, "first"))
    BY <1>1, FailKeeps DEF TakeRoot, Go, At, nameVars, recoveryVars, QuarantineRoot, Move, CanMove,
       RecoverState, None
  <1>2. CASE CanMove(current, "first")
    <2>1. RecoverTyped'
      <3>1. /\ entry' \in [Names -> Things]
            /\ entry'["first"] = entry[current] /\ entry'[current] = None
            /\ \A k \in Names \ {current, "first"} : entry'[k] = entry[k]
            /\ current \in Names /\ "first" \in Names
        <4>1. current \in Names /\ "first" \in Names /\ current # "first"
          BY DEF RecoverState, RecoverTyped, Names
        <4> QED BY <1>2, <4>1, MovesOne DEF TakeRoot, RecoverState, RecoverTyped, QuarantineRoot
      <3> QED BY <1>2, <3>1 DEF TakeRoot, Go, At, recoveryVars, RecoverState, RecoverTyped,
         RecoverPoints, RootOpen, Cleaning, Paths, QuarantineRoot
    <2>2. RootHeld'
      BY <1>2 DEF TakeRoot, Go, At, nameVars, recoveryVars, QuarantineRoot, Move, CanMove, RecoverState,
         RootHeld, RecoverPoints, BeforeOpen, RootOpen, Cleaning, Things, None
    <2>3. ManifestChecked'
      BY <1>2 DEF TakeRoot, Go, At, nameVars, recoveryVars, QuarantineRoot, Move, CanMove, RecoverState,
         ManifestChecked, Manifest
    <2>4. TargetVerified'
      BY <1>2 DEF TakeRoot, Go, At, nameVars, recoveryVars, QuarantineRoot, Move, CanMove, RecoverState,
         TargetVerified, ExpectedTree, Manifest, Paths
    <2>5. OwnRoot'
      <3>1. /\ entry' \in [Names -> Things]
            /\ entry'["first"] = entry[current] /\ entry'[current] = None
            /\ \A k \in Names \ {current, "first"} : entry'[k] = entry[k]
            /\ current \in Names /\ "first" \in Names
        <4>1. current \in Names /\ "first" \in Names /\ current # "first"
          BY DEF RecoverState, RecoverTyped, Names
        <4> QED BY <1>2, <4>1, MovesOne DEF TakeRoot, RecoverState, RecoverTyped, QuarantineRoot
      <3>2. pc' \in {"verify target", "first", "second"} /\ held # None /\ pc \in RootOpen \cup Cleaning
        BY <1>2 DEF TakeRoot, Go, At, RecoverState, RootHeld, RootOpen, Cleaning, QuarantineRoot
      <3>3. UNCHANGED <<staged, identity, held, late>>
        BY <1>2 DEF TakeRoot, recoveryVars, QuarantineRoot
      <3>4. ASSUME NEW k \in Names, entry'[k] = "own" PROVE entry[IF k = "first" THEN current ELSE k] = "own" /\ k # current
        BY <3>1, <3>4 DEF None
      <3>5. \A j, k \in Names : entry'[j] = "own" /\ entry'[k] = "own" => j = k
        BY <3>1, <3>4 DEF RecoverState, OwnRoot
      <3>6. ASSUME NEW k \in Names, entry'[k] = "own"
            PROVE  staged /\ identity = "own" /\ held \in {None, "own"}
        BY <3>1, <3>2, <3>4, <3>6 DEF RecoverState, OwnRoot, RootOpen, Cleaning
      <3> QED BY <3>2, <3>3, <3>5, <3>6 DEF OwnRoot
    <2>6. NothingLost'
      BY <1>2 DEF TakeRoot, Go, At, nameVars, recoveryVars, QuarantineRoot, Move, CanMove, RecoverState,
         NothingLost, Paths
    <2> QED BY <2>1, <2>2, <2>3, <2>4, <2>5, <2>6 DEF RecoverState
  <1> QED BY <1>1, <1>2

LEMMA TakeAgainKeeps ==
    ASSUME RecoverState, TakeAgain PROVE RecoverState'
  <1>1. CASE ~(CanMove("first", "second") /\ entry["first"] = held)
    BY <1>1, FailKeeps DEF TakeAgain, Go, At, nameVars, recoveryVars, QuarantineRoot, Move, CanMove,
       RecoverState, None
  <1>2. CASE CanMove("first", "second") /\ entry["first"] = held
    <2>1. RecoverTyped'
      <3>1. /\ entry' \in [Names -> Things]
            /\ entry'["second"] = entry["first"] /\ entry'["first"] = None
            /\ \A k \in Names \ {"first", "second"} : entry'[k] = entry[k]
            /\ "first" \in Names /\ "second" \in Names
        <4>1. "first" \in Names /\ "second" \in Names /\ "first" # "second"
          BY DEF RecoverState, RecoverTyped, Names
        <4> QED BY <1>2, <4>1, MovesOne DEF TakeAgain, RecoverState, RecoverTyped, QuarantineRoot
      <3> QED BY <1>2, <3>1 DEF TakeAgain, Go, At, recoveryVars, RecoverState, RecoverTyped,
         RecoverPoints, RootOpen, Cleaning, Paths, QuarantineRoot
    <2>2. RootHeld'
      BY <1>2 DEF TakeAgain, Go, At, nameVars, recoveryVars, QuarantineRoot, Move, CanMove, RecoverState,
         RootHeld, RecoverPoints, BeforeOpen, RootOpen, Cleaning, Things, None
    <2>3. ManifestChecked'
      BY <1>2 DEF TakeAgain, Go, At, nameVars, recoveryVars, QuarantineRoot, Move, CanMove, RecoverState,
         ManifestChecked, Manifest
    <2>4. TargetVerified'
      BY <1>2 DEF TakeAgain, Go, At, nameVars, recoveryVars, QuarantineRoot, Move, CanMove, RecoverState,
         TargetVerified, ExpectedTree, Manifest, Paths
    <2>5. OwnRoot'
      <3>1. /\ entry' \in [Names -> Things]
            /\ entry'["second"] = entry["first"] /\ entry'["first"] = None
            /\ \A k \in Names \ {"first", "second"} : entry'[k] = entry[k]
            /\ "first" \in Names /\ "second" \in Names
        <4>1. "first" \in Names /\ "second" \in Names /\ "first" # "second"
          BY DEF RecoverState, RecoverTyped, Names
        <4> QED BY <1>2, <4>1, MovesOne DEF TakeAgain, RecoverState, RecoverTyped, QuarantineRoot
      <3>2. pc' \in {"verify target", "first", "second"} /\ held # None /\ pc \in RootOpen \cup Cleaning
        BY <1>2 DEF TakeAgain, Go, At, RecoverState, RootHeld, RootOpen, Cleaning, QuarantineRoot
      <3>3. UNCHANGED <<staged, identity, held, late>>
        BY <1>2 DEF TakeAgain, recoveryVars, QuarantineRoot
      <3>4. ASSUME NEW k \in Names, entry'[k] = "own" PROVE entry[IF k = "second" THEN "first" ELSE k] = "own" /\ k # "first"
        BY <3>1, <3>4 DEF None
      <3>5. \A j, k \in Names : entry'[j] = "own" /\ entry'[k] = "own" => j = k
        BY <3>1, <3>4 DEF RecoverState, OwnRoot
      <3>6. ASSUME NEW k \in Names, entry'[k] = "own"
            PROVE  staged /\ identity = "own" /\ held \in {None, "own"}
        BY <3>1, <3>2, <3>4, <3>6 DEF RecoverState, OwnRoot, RootOpen, Cleaning
      <3> QED BY <3>2, <3>3, <3>5, <3>6 DEF OwnRoot
    <2>6. NothingLost'
      BY <1>2 DEF TakeAgain, Go, At, nameVars, recoveryVars, QuarantineRoot, Move, CanMove, RecoverState,
         NothingLost, Paths
    <2> QED BY <2>1, <2>2, <2>3, <2>4, <2>5, <2>6 DEF RecoverState
  <1> QED BY <1>1, <1>2

LEMMA RemoveUnopenedKeeps ==
    ASSUME RecoverState, RemoveUnopened PROVE RecoverState'
  <1>1. CASE ~(bound /\ entry["stage"] = identity /\ identity \in {"own", "hollow"})
    BY <1>1, FailKeeps DEF RemoveUnopened, Go, At, nameVars, recoveryVars, RecoverState, None
  <1>2. CASE bound /\ entry["stage"] = identity /\ identity \in {"own", "hollow"}
    <2>1. RecoverTyped'
      BY <1>2 DEF RemoveUnopened, Go, At, nameVars, recoveryVars, RecoverState, RecoverTyped,
         RecoverPoints, BeforeOpen, RootOpen, Cleaning, Names, None, Things, Paths
    <2>2. RootHeld'
      BY <1>2 DEF RemoveUnopened, Go, At, nameVars, recoveryVars, RecoverState, RootHeld, RecoverPoints,
         BeforeOpen, RootOpen, Cleaning, Things, None
    <2>3. ManifestChecked'
      BY <1>2 DEF RemoveUnopened, Go, At, nameVars, recoveryVars, RecoverState, ManifestChecked, Manifest
    <2>4. TargetVerified'
      BY <1>2 DEF RemoveUnopened, Go, At, nameVars, recoveryVars, RecoverState, TargetVerified,
         ExpectedTree, Manifest, Paths
    <2>5. OwnRoot'
      <3>1. held = None /\ pc' = "failed"
        BY <1>2 DEF RemoveUnopened, Go, At, RecoverState, RootHeld
      <3>2. \A n \in Names : entry'[n] # "own"
        BY <1>2, <3>1 DEF RemoveUnopened, RecoverState, RecoverTyped, OwnRoot, None
      <3> QED BY <3>2 DEF OwnRoot
    <2>6. NothingLost'
      BY <1>2 DEF RemoveUnopened, Go, At, nameVars, recoveryVars, RecoverState, NothingLost, Paths
    <2> QED BY <2>1, <2>2, <2>3, <2>4, <2>5, <2>6 DEF RecoverState
  <1> QED BY <1>1, <1>2

LEMMA DeleteMemberKeeps ==
    ASSUME RecoverState, DeleteMember PROVE RecoverState'
  <1>1. PICK p \in records : DeletedNext(p) /\
             IF Removable(p) THEN /\ tree' = [tree EXCEPT ![p] = "nothing"]
                                  /\ lost' = IF tree[p] = "strange" THEN lost \cup {p} ELSE lost
                                  /\ UNCHANGED <<pc, reported>>
                             ELSE Fail /\ UNCHANGED <<tree, records, lost>>
    BY DEF DeleteMember
  <1>2. /\ pc = "delete"
        /\ UNCHANGED <<entry, elsewhere, bound, held, late, request, members, staged, identity,
                       current, altered, touched>>
    BY DEF DeleteMember, At
  <1>3. CASE ~Removable(p)
    BY <1>1, <1>2, <1>3, FailKeeps DEF nameVars
  <1>4. CASE Removable(p)
    <2>1. UNCHANGED <<pc, reported, lost>>
      BY <1>1, <1>4 DEF Removable
    <2>2. \A q \in Paths : tree[q] = "strange" => tree'[q] = "strange"
      BY <1>1, <1>4 DEF Removable, RecoverState, RecoverTyped, Paths
    <2>3. RecoverTyped'
      BY <1>1, <1>2, <1>4, <2>1 DEF RecoverState, RecoverTyped, Paths
    <2>4. RootHeld' /\ ManifestChecked' /\ TargetVerified'
      BY <1>2, <2>1 DEF RecoverState, RootHeld, ManifestChecked, Manifest, TargetVerified
    <2>5. OwnRoot'
      BY <1>2, <2>1 DEF RecoverState, OwnRoot
    <2>6. NothingLost'
      BY <1>2, <2>1, <2>2 DEF RecoverState, NothingLost, Paths
    <2> QED BY <2>3, <2>4, <2>5, <2>6 DEF RecoverState
  <1> QED BY <1>3, <1>4

\* rmdir takes the root, or the empty directory that has its name by now.
LEMMA RemoveRootKeeps ==
    ASSUME RecoverState, RemoveRoot PROVE RecoverState'
  <1> DEFINE o == entry["second"]
  <1>1. /\ pc = "rmdir" /\ held \in Things \ {"file", None} /\ o \in Things /\ "second" \in Names
        /\ UNCHANGED <<elsewhere, bound, held, late, recoveryVars>>
    BY DEF RemoveRoot, At, RecoverState, RecoverTyped, RootHeld, Cleaning, Names
  <1>2. CASE ~((o = held /\ tree = Bare) \/ (o # held /\ o = "hollow"))
    BY <1>1, <1>2, FailKeeps DEF RemoveRoot, nameVars, recoveryVars
  <1>3. CASE (o = held /\ tree = Bare) \/ (o # held /\ o = "hollow")
    <2>1. o \in {"own", "hollow"}
      <3>1. held = "tree" => tree # Bare
        BY DEF RecoverState, NothingLost, Bare
      <3> QED BY <1>1, <1>3, <3>1 DEF Things
    <2>2. /\ entry' = [entry EXCEPT !["second"] = None]
          /\ lost' = lost \cup ({o} \ {"own"})
          /\ IF o = held THEN Go("synced") /\ UNCHANGED reported ELSE Fail
      BY <1>3 DEF RemoveRoot
    <2>3. /\ entry' \in [Names -> Things]
          /\ \A n \in Names : entry'[n] = "own" => entry[n] = "own" /\ n # "second"
      BY <1>1, <2>2 DEF RecoverState, RecoverTyped, Things, None
    <2>4. /\ pc' \in {"synced", "failed"} /\ reported' \in BOOLEAN
          /\ pc' = "failed" => reported'
          /\ pc' = "synced" => o = held
      <3>1. CASE o = held
        BY <2>2, <3>1 DEF Go, RecoverState, RecoverTyped
      <3>2. CASE o # held
        BY <1>1, <2>2, <3>2, FailLeads DEF CleaningUp, Before, RecoverState, RecoverTyped
      <3> QED BY <3>1, <3>2
    <2>5. RecoverTyped'
      BY <1>1, <2>3, <2>4 DEF RecoverState, RecoverTyped, RecoverPoints, Cleaning, recoveryVars, Paths
    <2>6. RootHeld'
      BY <1>1, <2>4 DEF RecoverState, RootHeld, recoveryVars, BeforeOpen, RootOpen, Cleaning
    <2>7. ManifestChecked'
      BY <1>1 DEF RecoverState, ManifestChecked, Manifest, recoveryVars
    <2>8. TargetVerified'
      BY <2>4 DEF TargetVerified
    <2>9. OwnRoot'
      <3>1. ASSUME NEW n \in Names, entry'[n] = "own" PROVE pc' = "failed"
        <4>1. SUFFICES ASSUME pc' # "failed" PROVE FALSE
          OBVIOUS
        <4>2. entry[n] = "own" /\ n # "second" /\ o = held
          BY <2>3, <2>4, <3>1, <4>1
        <4>3. held = "own"
          BY <1>1, <4>2 DEF RecoverState, OwnRoot
        <4> QED BY <1>1, <4>2, <4>3 DEF RecoverState, OwnRoot
      <3> QED BY <1>1, <2>3, <2>4, <3>1 DEF RecoverState, OwnRoot, recoveryVars
    <2>10. NothingLost'
      BY <1>1, <2>1, <2>2 DEF RecoverState, NothingLost, recoveryVars, Paths
    <2> QED BY <2>5, <2>6, <2>7, <2>8, <2>9, <2>10 DEF RecoverState
  <1> QED BY <1>2, <1>3

\* A signal is one more failure, but that no handler is left at two points.
LEMMA InterruptKeeps ==
    ASSUME RecoverState, InterruptRecovery PROVE RecoverState'
  <1>1. UNCHANGED <<nameVars, recoveryVars>> /\ pc # "failed" /\ pc # "identify"
    BY DEF InterruptRecovery, Masked
  <1>2. CASE pc \notin {"handler", "return"}
    BY <1>1, <1>2, FailKeeps DEF InterruptRecovery, recoveryVars
  <1>3. CASE pc \in {"handler", "return"}
    <2>1. pc' = "failed" /\ late' = TRUE /\ reported' = reported
      BY <1>3 DEF InterruptRecovery, Go
    <2>2. RecoverTyped'
      BY <1>1, <2>1 DEF RecoverState, RecoverTyped, RecoverPoints, nameVars, recoveryVars, Paths
    <2>3. RootHeld'
      BY <1>1, <2>1 DEF RecoverState, RootHeld, nameVars, recoveryVars, BeforeOpen, RootOpen, Cleaning
    <2>4. ManifestChecked' /\ TargetVerified'
      BY <2>1 DEF ManifestChecked, TargetVerified
    <2>5. OwnRoot'
      BY <1>1, <1>3, <2>1 DEF RecoverState, OwnRoot, nameVars, recoveryVars
    <2>6. NothingLost'
      BY <1>1 DEF RecoverState, NothingLost, nameVars, recoveryVars, Paths
    <2> QED BY <2>2, <2>3, <2>4, <2>5, <2>6 DEF RecoverState
  <1> QED BY <1>2, <1>3

\* Others take nothing from the tool but what it has to look at again.
LEMMA OthersOnNamesKeep ==
    ASSUME RecoverState, OthersActOnNames, touched' = TRUE,
           UNCHANGED <<request, members, tree, records, staged, identity, current, altered>>
    PROVE  RecoverState'
  <1>1. /\ entry' \in [Names -> Things]
        /\ \A n \in Names : entry'[n] = "own" => entry[n] = "own"
    BY OthersBringNothing DEF RecoverState, RecoverTyped
  <1>2. UNCHANGED <<pc, held, lost, late, reported>>
    BY DEF OthersActOnNames
  <1>3. RecoverTyped'
    BY <1>1, <1>2 DEF RecoverState, RecoverTyped, Paths
  <1>4. RootHeld' /\ ManifestChecked' /\ TargetVerified'
    BY <1>2 DEF RecoverState, RootHeld, ManifestChecked, Manifest, TargetVerified
  <1>5. OwnRoot'
    BY <1>1, <1>2 DEF RecoverState, OwnRoot
  <1>6. NothingLost'
    BY <1>2 DEF RecoverState, NothingLost, Paths
  <1> QED BY <1>3, <1>4, <1>5, <1>6 DEF RecoverState

LEMMA OthersOnTreeKeep ==
    ASSUME RecoverState, OthersActOnTree PROVE RecoverState'
  <1>1. /\ touched' = TRUE
        /\ UNCHANGED <<pc, nameVars, late, reported, request, members, records, staged, identity, current>>
    BY DEF OthersActOnTree
  <1>2. /\ tree' = [p \in Paths |-> tree'[p]]
        /\ \A p \in Paths : tree[p] = "strange" => tree'[p] = "strange"
    BY DEF OthersActOnTree, RecoverState, RecoverTyped, Paths
  <1>3. RecoverTyped'
    BY <1>1, <1>2 DEF RecoverState, RecoverTyped, Paths, nameVars
  <1>4. RootHeld' /\ ManifestChecked' /\ TargetVerified'
    BY <1>1 DEF RecoverState, RootHeld, ManifestChecked, Manifest, TargetVerified, nameVars
  <1>5. OwnRoot'
    BY <1>1 DEF RecoverState, OwnRoot, nameVars
  <1>6. NothingLost'
    BY <1>1, <1>2 DEF RecoverState, NothingLost, Paths, nameVars
  <1> QED BY <1>3, <1>4, <1>5, <1>6 DEF RecoverState

LEMMA RecoverStart ==
    ASSUME Init, tool = "recover" PROVE RecoverState
  <1>1. /\ entry = [n \in Names |-> None] /\ pc = "manifest" /\ held = None /\ lost = {}
        /\ reported = FALSE /\ late = FALSE /\ identity = None /\ current = "stage"
        /\ request \in Requests /\ tree = Bare
    BY DEF Init, Begins, NamesInit, RecoveryInit
  <1>2. RecoverTyped
    BY <1>1 DEF RecoverTyped, RecoverPoints, BeforeOpen, Things, Bare, Paths
  <1> QED
    BY <1>1, <1>2 DEF RecoverState, RootHeld, ManifestChecked, TargetVerified, OwnRoot, NothingLost,
                      BeforeOpen, RootOpen, Cleaning, Things, None

LEMMA RecoverStepKeeps ==
    ASSUME RecoverState, RecoveryStep PROVE RecoverState'
  <1>1. ASSUME \/ LoadManifest \/ OpenParentChain \/ DestinationFree \/ OpenArchive \/ AdmitMember
               \/ Complete \/ SealRoot \/ VerifyStage \/ VerifyStageAgain \/ SyncParent \/ Recovered
               \/ Handle \/ CompareMembers \/ AllDeleted \/ SyncRemoval \/ Fails
        PROVE  RecoverState'
    <2>1. pc # "failed"
      BY <1>1 DEF LoadManifest, OpenParentChain, DestinationFree, OpenArchive, AdmitMember, Complete,
         SealRoot, VerifyStage, VerifyStageAgain, SyncParent, Recovered, Handle, CompareMembers,
         AllDeleted, SyncRemoval, Fails, Checks, At
    <2> QED BY <1>1, <2>1, LooksKeep
  <1> QED
    BY <1>1, MakeStageKeeps, IdentifyStageKeeps, OpenRootKeeps, MakeMemberKeeps, RecordMemberKeeps,
       WriteMemberKeeps, SealMemberKeeps, PublishStageKeeps, VerifyTargetKeeps, TakeRootKeeps,
       TakeAgainKeeps, DeleteMemberKeeps, RemoveRootKeeps, RemoveUnopenedKeeps DEF RecoveryStep

(***************************************************************************)
(* What is known of a recovery holds in every state of every run of it.    *)
(***************************************************************************)
LEMMA RecoverInvariant == Spec => []RecoverInv
  <1>1. Init => RecoverInv
    BY RecoverStart DEF RecoverInv, RecoverState
  <1>2. RecoverInv /\ [Next]_custodySpace => RecoverInv'
    <2>1. SUFFICES ASSUME RecoverInv, [Next]_custodySpace, tool' = "recover" PROVE RecoverState'
      BY DEF RecoverInv, RecoverState
    <2>2. tool = "recover"
      BY <2>1 DEF Next, custodySpace, ToolStep, Recovers, Attests, Removes, Normalizes, Repairs,
         Interrupt,
                  Others, OthersOnNames, OthersOnTree, OthersOnDelivery, OthersInside, OthersOnModes, AtEnd
    <2>3. RecoverState
      BY <2>1, <2>2 DEF RecoverInv, RecoverState
    <2>4. CASE UNCHANGED <<pc, nameVars, noteVars, recoveryVars>>
      BY <2>3, <2>4 DEF RecoverState, RecoverTyped, RootHeld, ManifestChecked, Manifest, TargetVerified,
         ExpectedTree, OwnRoot, NothingLost, nameVars, noteVars, recoveryVars, Paths
    <2> QED
      BY <2>1, <2>2, <2>3, <2>4, RecoverSteps, RecoverStepKeeps, InterruptKeeps, OthersOnNamesKeep,
         OthersOnTreeKeep
  <1> QED BY <1>1, <1>2, PTL DEF Spec

-----------------------------------------------------------------------------
(* Directories.                                                            *)

\* Above a path of an accepted manifest there are only its directories.
LEMMA AncestorsDeclared ==
    ASSUME NEW m, NEW p \in m.directories \cup m.files, ParentsDeclared(m),
           m.directories \cup m.files \subseteq Paths
    PROVE  Ancestors(p) \subseteq {p} \cup m.directories
  <1>1. ASSUME NEW a \in Ancestors(p) PROVE a \in {p} \cup m.directories
    <2> DEFINE s == {p} \cup m.directories
    <2>1. s \in SUBSET Paths /\ p \in s
      OBVIOUS
    <2>2. \A q \in s : Above[q] \in s \cup {""}
      BY DEF ParentsDeclared
    <2> QED BY <1>1, <2>1, <2>2 DEF Ancestors
  <1> QED BY <1>1

\* A path is above itself, and what is above a path is above what that path is above of.
LEMMA AncestorsClosed ==
    /\ \A p \in Paths : p \in Ancestors(p)
    /\ \A p, a \in Paths : a \in Ancestors(p) /\ Above[a] # "" => Above[a] \in Ancestors(p)
  <1>1. ASSUME NEW p \in Paths PROVE p \in Ancestors(p)
    BY DEF Ancestors
  <1>2. ASSUME NEW p \in Paths, NEW a \in Paths, a \in Ancestors(p), Above[a] # ""
        PROVE  Above[a] \in Ancestors(p)
    <2>1. Above[a] \in Paths
      BY <1>2, RecoveryAssumption DEF Paths
    <2>2. ASSUME NEW s \in SUBSET Paths, p \in s, \A q \in s : Above[q] \in s \cup {""}
          PROVE  Above[a] \in s
      BY <1>2, <2>2 DEF Ancestors
    <2> QED BY <2>1, <2>2 DEF Ancestors
  <1> QED BY <1>1, <1>2

\* Every directory of an accepted manifest is above one of its files.
LEMMA DirectoriesAbove ==
    ASSUME NEW m, ParentsDeclared(m), NoEmptyDirectory(m), m.directories \cap m.files = {},
           m.directories \cup m.files \subseteq Paths
    PROVE  (UNION {Ancestors(p) : p \in m.files}) \ m.files = m.directories
  <1>1. ASSUME NEW a \in (UNION {Ancestors(p) : p \in m.files}) \ m.files PROVE a \in m.directories
    <2>1. PICK p \in m.files : a \in Ancestors(p)
      BY <1>1
    <2>2. Ancestors(p) \subseteq {p} \cup m.directories
      BY AncestorsDeclared
    <2>3. a \notin m.files
      BY <1>1
    <2> QED BY <2>1, <2>2, <2>3
  <1>2. ASSUME NEW d \in m.directories PROVE d \in UNION {Ancestors(p) : p \in m.files}
    <2> DEFINE s == {b \in m.directories : b \notin UNION {Ancestors(p) : p \in m.files}}
    <2>1. SUFFICES ASSUME d \in s PROVE FALSE
      BY <1>2
    <2>2. PICK b \in s : \A q \in s : Above[q] # b
      BY <2>1, RecoveryAssumption DEF Paths
    <2>3. PICK q \in m.directories \cup m.files : Above[q] = b
      BY DEF NoEmptyDirectory
    <2>4. q \notin s
      BY <2>2, <2>3
    <2>5. PICK f \in m.files : q \in Ancestors(f)
      BY <2>3, <2>4, AncestorsClosed
    <2>6. b # "" /\ b \in Paths /\ f \in Paths
      BY RecoveryAssumption DEF Paths
    <2>7. b \in Ancestors(f)
      BY <2>3, <2>5, <2>6, AncestorsClosed
    <2> QED BY <2>7
  <1>3. \A d \in m.directories : d \notin m.files
    OBVIOUS
  <1> DEFINE above == UNION {Ancestors(p) : p \in m.files}
  <1>4. /\ \A a \in above \ m.files : a \in m.directories
        /\ \A d \in m.directories : d \in above
    BY <1>1, <1>2
  <1> HIDE DEF above
  <1>5. above \ m.files = m.directories
    BY <1>3, <1>4
  <1> QED BY <1>5 DEF above

\* A tree with what the manifest declares is the tree of the manifest.
LEMMA VerifiedIsTheTree ==
    ASSUME Accepted(Manifest), request \in Requests, tree = ExpectedTree
    PROVE  /\ {p \in Paths : tree[p] = "whole"} = Manifest.candidate
           /\ {p \in Paths : tree[p] = "directory"} =
                 (UNION {Ancestors(p) : p \in Manifest.candidate}) \ Manifest.candidate
           /\ \A p \in Paths : tree[p] \in {"whole", "directory", "nothing"}
  <1>1. Manifest.directories \cup Manifest.files \subseteq Paths
    BY RecoveryAssumption DEF Manifest, Paths
  <1>2. /\ Manifest.directories \cap Manifest.files = {} /\ Manifest.candidate = Manifest.files
        /\ ParentsDeclared(Manifest) /\ NoEmptyDirectory(Manifest)
    BY DEF Accepted
  <1>3. \A p \in Paths : tree[p] = IF p \in Manifest.directories THEN "directory"
                                    ELSE IF p \in Manifest.files THEN "whole" ELSE "nothing"
    BY <1>2 DEF ExpectedTree
  <1>4. {p \in Paths : tree[p] = "whole"} = Manifest.files
    BY <1>1, <1>2, <1>3
  <1>5. {p \in Paths : tree[p] = "directory"} = Manifest.directories
    BY <1>1, <1>2, <1>3
  <1>6. (UNION {Ancestors(p) : p \in Manifest.files}) \ Manifest.files = Manifest.directories
    BY <1>1, <1>2, DirectoriesAbove
  <1> QED BY <1>2, <1>3, <1>4, <1>5, <1>6

\* What the invariant of a recovery says of its end.
LEMMA RecoveredByInv ==
    ASSUME RecoverInv, tool = "recover" PROVE RecoveredIsTheTree
  <1>1. SUFFICES ASSUME pc = "recovered", ~touched
                 PROVE  Accepted(Manifest) /\ request \in Requests /\ tree = ExpectedTree /\ entry["target"] = held
    BY VerifiedIsTheTree DEF RecoveredIsTheTree
  <1> QED BY <1>1 DEF RecoverInv, RecoverTyped, ManifestChecked, TargetVerified

-----------------------------------------------------------------------------
(* verify-delivery-custody.py.                                             *)

Preparing == {"root", "list", "scan", "close", "agreed", "returning", "created", "begin", "create temporary"}
Undoing   == {"undo", "undo temporary", "undo sync"}
Agreed    == {"agreed", "returning", "created", "verified"}

AttestPoints == Preparing \cup Publishing \cup InCall \cup Undoing \cup RollBacks
                  \cup {"returned", "caught", "verified", "failed"}

\* The four calls of _unlink_owned_name.
Calls == {[name |-> "stage", done |-> "check", failed |-> "undo"],
          [name |-> "target", done |-> "undo temporary", failed |-> "undo temporary"],
          [name |-> "stage", done |-> "undo sync", failed |-> "undo sync"],
          [name |-> "target", done |-> "sync rollback", failed |-> "failed"]}

AttestTyped ==
    /\ pc \in AttestPoints
    /\ entry \in [Names -> Things] /\ lost = {}
    /\ creating \in BOOLEAN /\ published \in BOOLEAN /\ reported \in BOOLEAN /\ late \in BOOLEAN
    /\ made \in [temporary : BOOLEAN, published : BOOLEAN]
    /\ pc \in InCall => call \in Calls
    /\ pc \in {"grab again", "remove"} => entry[call.name] # "own"
    /\ pc = "verified" => ~creating

Data == [Files -> Contents \cup {None}]

DataTyped ==
    /\ payload \in Data /\ seen \in Data /\ value \in Data /\ instant.files \in Data
    /\ instant = [files |-> instant.files, manifest |-> instant.manifest]
    /\ listed \subseteq Files /\ next \in Nat \ {0}

\* The scan is true of what has not changed since it was made ...
Scanned ==
    pc = "scan" =>
       /\ "root" \notin changed => Present = listed
       /\ \A i \in 1 .. Len(FileOrder) :
             /\ i < next /\ FileOrder[i] \in listed \ changed => seen[FileOrder[i]] = payload[FileOrder[i]]
             /\ FileOrder[i] \notin listed => seen[FileOrder[i]] = None

\* ... and the closure finds what has not changed between its begin and then.
Closed ==
    pc = "close" =>
       /\ "root" \notin changed => {f \in Files : instant.files[f] # None} = listed
       /\ \A i \in 1 .. Len(FileOrder) : LET f == FileOrder[i] IN
             /\ f \in listed /\ (i < next \/ f \notin changed) => instant.files[f] = seen[f]
             /\ f \notin listed => seen[f] = None
       /\ ~Composing => seen = value /\ instant.manifest = "own"

SnapshotKept == pc \in Agreed => instant = [files |-> value, manifest |-> "own"]

OwnAt(n) == entry[n] = "own"
NothingThere  == reported \/ (~OwnAt("target") /\ ~OwnAt("stage"))

\* What the tool made is where its two flags say, and where a call has taken it from.
FlagsTrue ==
    /\ ~made.published => ~OwnAt("target")
    /\ ~made.temporary => ~OwnAt("stage")
    /\ pc \in Preparing /\ ~published => ~made.published /\ ~made.temporary
    /\ pc \in {"sync name", "returned"} \/ published => ~made.temporary
    /\ pc = "check" => ~OwnAt("stage")

\* A handler is at work on what it answers for.
Answered ==
    /\ published => pc \notin {"root", "begin", "create temporary", "returned"} \cup Publishing \cup Undoing
    /\ pc \in RollBacks => published
    /\ pc \in InCall => (published <=> call.done = "sync rollback")

\* What has been undone stays so, or is reported.
UndoneOrSaid ==
    /\ pc = "undo temporary" \/ (pc \in InCall /\ call.done = "undo sync") => reported \/ ~OwnAt("target")
    /\ pc = "undo sync" \/ (pc = "caught" /\ ~published) => NothingThere
    /\ pc = "sync rollback" => ~OwnAt("target")
    /\ pc = "failed" => late \/ NothingThere

AttestState ==
    /\ AttestTyped /\ DataTyped /\ Scanned /\ Closed /\ SnapshotKept
    /\ creating => FlagsTrue /\ Answered /\ UndoneOrSaid

LEMMA ListLength == Len(FileOrder) \in Nat /\ DOMAIN FileOrder = 1 .. Len(FileOrder)
  BY DeliveryAssumption, LenProperties

LEMMA FilesListed ==
    /\ \A i \in 1 .. Len(FileOrder) : FileOrder[i] \in Files
    /\ "root" \notin Files /\ "manifest" \notin Files /\ "observed manifest" \notin Files
  <1>1. FileOrder \in Seq(Files)
    BY DeliveryAssumption
  <1>2. \A i \in 1 .. Len(FileOrder) : FileOrder[i] \in Files
    BY <1>1, ElementOfSeq
  <1> QED BY <1>2, DeliveryAssumption

LEMMA FilesAll == ASSUME NEW f \in Files PROVE \E i \in 1 .. Len(FileOrder) : f = FileOrder[i]
  BY ListLength DEF Files

LEMMA CallsLead ==
    ASSUME NEW c \in Calls
    PROVE  /\ c.failed \in {"undo", "undo temporary", "undo sync", "failed"}
           /\ c.done \in {"check", "undo temporary", "undo sync", "sync rollback"}
           /\ c.name \in {"target", "stage"}
           /\ c.name = "stage" <=> c.done \in {"check", "undo sync"}
           /\ c.failed = IF c.done = "check" THEN "undo" ELSE IF c.done = "sync rollback" THEN "failed" ELSE c.done
  <1>1. CASE c = [name |-> "stage", done |-> "check", failed |-> "undo"]
    BY <1>1
  <1>2. CASE c = [name |-> "target", done |-> "undo temporary", failed |-> "undo temporary"]
    BY <1>2
  <1>3. CASE c = [name |-> "stage", done |-> "undo sync", failed |-> "undo sync"]
    BY <1>3
  <1>4. CASE c = [name |-> "target", done |-> "sync rollback", failed |-> "failed"]
    BY <1>4
  <1> QED BY <1>1, <1>2, <1>3, <1>4 DEF Calls

LEMMA RaiseLeads ==
    ASSUME Raise, AttestTyped
    PROVE  /\ reported' \in BOOLEAN /\ (reported => reported')
           /\ \/ pc \in Publishing /\ pc' = "undo"
              \/ /\ pc \in InCall /\ pc' = call.failed
                 /\ pc' \in {"undo", "undo temporary", "undo sync", "failed"}
                 /\ pc' # "undo" => reported'
              \/ pc \in RollBacks /\ pc' = "failed" /\ reported'
              \/ pc \notin Publishing \cup InCall \cup RollBacks /\ pc' = "caught"
  <1>1. CASE pc \in Publishing /\ Go("undo") /\ UNCHANGED reported
    BY <1>1 DEF Go, AttestTyped
  <1>2. CASE pc \in InCall /\ Go(call.failed) /\ reported' = (reported \/ call.failed # "undo")
    <2>1. call.failed \in {"undo", "undo temporary", "undo sync", "failed"}
      BY <1>2, CallsLead DEF AttestTyped
    <2>2. reported' \in BOOLEAN /\ (reported => reported') /\ (call.failed # "undo" => reported')
      BY <1>2 DEF AttestTyped
    <2> QED BY <1>2, <2>1, <2>2 DEF Go
  <1>3. CASE pc \in RollBacks /\ Go("failed") /\ reported' = TRUE
    BY <1>3 DEF Go
  <1>4. CASE pc \notin Publishing \cup InCall \cup RollBacks /\ Go("caught") /\ UNCHANGED reported
    BY <1>4 DEF Go, AttestTyped
  <1> QED BY <1>1, <1>2, <1>3, <1>4 DEF Raise

\* A failure that changes nothing else of what lies where.
LEMMA RaiseKeeps ==
    ASSUME AttestState, Raise, DataTyped', pc \notin Undoing \cup {"returned", "returning", "caught", "failed"},
           UNCHANGED <<entry, lost, late, creating, published>>,
           \/ UNCHANGED made
           \/ pc = "check" /\ made' = [made EXCEPT !.temporary = FALSE]
    PROVE  AttestState'
  <1>1. /\ reported' \in BOOLEAN /\ (reported => reported')
        /\ pc' \in {"undo", "undo temporary", "undo sync", "failed", "caught"}
    BY RaiseLeads DEF AttestState
  <1>2. AttestTyped'
    BY <1>1 DEF AttestState, AttestTyped, AttestPoints, Undoing, InCall
  <1>3. Scanned' /\ Closed' /\ SnapshotKept'
    BY <1>1 DEF Scanned, Closed, SnapshotKept, Agreed
  <1>4. ASSUME creating PROVE FlagsTrue' /\ Answered' /\ UndoneOrSaid'
    <2>1. FlagsTrue'
      BY <1>1, <1>4 DEF AttestState, AttestTyped, FlagsTrue, OwnAt, Preparing
    <2>2. Answered'
      <3>1. pc' \in Undoing => ~published
        <4>1. CASE pc \in Publishing
          BY <1>4, <4>1 DEF AttestState, Answered
        <4>2. CASE pc \in InCall
          <5>1. pc' = call.failed
            BY <4>2, RaiseLeads DEF AttestState, InCall, Publishing, RollBacks
          <5>2. call \in Calls /\ (published <=> call.done = "sync rollback")
            BY <1>4, <4>2 DEF AttestState, AttestTyped, Answered
          <5> QED BY <5>1, <5>2, CallsLead DEF Undoing
        <4> QED BY <4>1, <4>2, RaiseLeads DEF AttestState, Undoing
      <3> QED BY <1>1, <1>4, <3>1 DEF Answered, Publishing, Undoing, RollBacks, InCall
    <2>3. UndoneOrSaid'
      <3>1. pc' = "undo" \/ reported' \/ pc' = "caught"
        BY RaiseLeads DEF AttestState
      <3>2. pc' = "caught" /\ ~published => ~OwnAt("target") /\ ~OwnAt("stage")
        <4>1. SUFFICES ASSUME pc' = "caught", ~published PROVE pc \in Preparing
          BY <1>4 DEF AttestState, FlagsTrue
        <4>2. pc \notin Publishing \cup InCall \cup RollBacks
          BY <4>1, RaiseLeads DEF AttestState
        <4> QED BY <1>4, <4>2 DEF AttestState, AttestTyped, AttestPoints, Undoing
      <3> QED BY <1>1, <3>1, <3>2 DEF UndoneOrSaid, NothingThere, OwnAt, InCall
    <2> QED BY <2>1, <2>2, <2>3
  <1> QED BY <1>2, <1>3, <1>4 DEF AttestState

\* A call goes on, or comes to its end.
LEMMA CallKeeps ==
    ASSUME AttestState, pc \in InCall,
           pc' \in {"grab again", "remove"} \/ pc' = call.done,
           entry' \in [Names -> Things], entry'[call.name] # "own",
           \A n \in Names : n \in {"target", "stage"} /\ entry'[n] = "own" => entry[n] = "own",
           UNCHANGED <<lost, late, reported, creating, payload, listed, seen, next, value, made, published,
                       call, instant>>
    PROVE  AttestState'
  <1>1. /\ call \in Calls /\ "target" \in Names /\ "stage" \in Names
        /\ pc' \in {"grab again", "remove", "check", "undo temporary", "undo sync", "sync rollback"}
        /\ pc' \in {"grab again", "remove"} \/ pc' = call.done
        /\ call.name = IF call.done \in {"check", "undo sync"} THEN "stage" ELSE "target"
    BY CallsLead DEF AttestState, AttestTyped, Names
  <1>2. AttestTyped'
    BY <1>1 DEF AttestState, AttestTyped, AttestPoints, Publishing, Undoing, RollBacks, InCall
  <1>3. DataTyped' /\ Scanned' /\ Closed' /\ SnapshotKept'
    BY <1>1 DEF AttestState, DataTyped, Scanned, Closed, SnapshotKept, Agreed
  <1>4. ASSUME creating PROVE FlagsTrue' /\ Answered' /\ UndoneOrSaid'
    <2>1. FlagsTrue'
      BY <1>1, <1>4 DEF AttestState, FlagsTrue, OwnAt, Preparing
    <2>2. Answered'
      BY <1>1, <1>4 DEF AttestState, Answered, Publishing, Undoing, RollBacks, InCall
    <2>3. UndoneOrSaid'
      <3>1. published <=> call.done = "sync rollback"
        BY <1>4 DEF AttestState, Answered
      <3>2. (reported' <=> reported) /\ call' = call
        OBVIOUS
      <3>3. /\ ~OwnAt("target") => ~OwnAt("target")'
            /\ ~OwnAt("stage") => ~OwnAt("stage")'
        BY <1>1 DEF OwnAt
      <3>4. call.done = "undo sync" => reported \/ ~OwnAt("target")
        BY <1>4 DEF AttestState, UndoneOrSaid
      <3>5. CASE pc' \in {"grab again", "remove"}
        <4>1. pc' \notin {"undo temporary", "undo sync", "caught", "sync rollback", "failed"}
          BY <3>5
        <4>2. call'.done = "undo sync" => reported' \/ ~OwnAt("target")'
          BY <3>2, <3>3, <3>4, Zenon
        <4> QED BY <4>1, <4>2 DEF UndoneOrSaid
      <3>6. CASE pc' = call.done /\ pc' \notin {"grab again", "remove"}
        <4>1. ~(pc' \in InCall) /\ pc' # "caught" /\ pc' # "failed"
          BY <1>1, <3>6 DEF InCall
        <4>2. pc' \in {"undo temporary", "sync rollback"} => ~OwnAt("target")'
          BY <1>1, <3>6 DEF OwnAt
        <4>3. pc' = "undo sync" => NothingThere'
          <5>1. SUFFICES ASSUME pc' = "undo sync" PROVE reported \/ (~OwnAt("target")' /\ ~OwnAt("stage")')
            BY <3>2, Zenon DEF NothingThere
          <5>2. call.name = "stage"
            BY <1>1, <3>6, <5>1
          <5> QED BY <3>3, <3>4, <3>6, <5>1, <5>2 DEF OwnAt
        <4> QED BY <4>1, <4>2, <4>3 DEF UndoneOrSaid
      <3> QED BY <1>1, <3>5, <3>6
    <2> QED BY <2>1, <2>2, <2>3
  <1>5. creating' => FlagsTrue' /\ Answered' /\ UndoneOrSaid'
    BY <1>4
  <1> QED BY <1>2, <1>3, <1>5 DEF AttestState

LEMMA OpenCustodyRootKeeps ==
    ASSUME AttestState, OpenCustodyRoot PROVE AttestState'
  <1>1. CASE ~bound
    <2>1. /\ Raise /\ pc \notin Undoing \cup {"returned", "returning", "caught", "failed"}
          /\ UNCHANGED <<entry, lost, late, creating, published>>
          /\ UNCHANGED made \/ (pc = "check" /\ made' = [made EXCEPT !.temporary = FALSE])
      BY <1>1 DEF OpenCustodyRoot, At, Quiet, nameVars, noteVars, custodyVars, Undoing, Asserts
    <2>2. DataTyped'
      BY <1>1 DEF OpenCustodyRoot, Quiet, nameVars, noteVars, custodyVars, Asserts, AttestState,
         DataTyped
    <2> QED BY <2>1, <2>2, RaiseKeeps
  <1>2. CASE ~(~bound)
    <2>1. AttestTyped'
      BY <1>2 DEF OpenCustodyRoot, Go, At, Quiet, nameVars, noteVars, custodyVars, Asserts, AttestState,
         AttestTyped, AttestPoints, Preparing, Publishing, InCall, Undoing, RollBacks
    <2>2. DataTyped'
      BY <1>2 DEF OpenCustodyRoot, Go, At, Quiet, nameVars, noteVars, custodyVars, Asserts, AttestState,
         DataTyped, Unseen, Present, Data
    <2>3. Scanned'
      BY <1>2 DEF OpenCustodyRoot, Go, At, Quiet, nameVars, noteVars, custodyVars, Asserts, AttestState,
         Scanned, Present
    <2>4. Closed'
      BY <1>2 DEF OpenCustodyRoot, Go, At, Quiet, nameVars, noteVars, custodyVars, Asserts, AttestState,
         Closed, Composing
    <2>5. SnapshotKept'
      BY <1>2 DEF OpenCustodyRoot, Go, At, Quiet, nameVars, noteVars, custodyVars, Asserts, AttestState,
         SnapshotKept, Agreed
    <2>6. ASSUME creating PROVE FlagsTrue' /\ Answered' /\ UndoneOrSaid'
      <3>1. FlagsTrue'
        BY <1>2, <2>6 DEF OpenCustodyRoot, Go, At, Quiet, nameVars, noteVars, custodyVars, Asserts,
           AttestState, AttestTyped, FlagsTrue, Answered, OwnAt, AttestPoints, Preparing, Publishing,
           InCall, Undoing, RollBacks
      <3>2. Answered'
        BY <1>2, <2>6 DEF OpenCustodyRoot, Go, At, Quiet, nameVars, noteVars, custodyVars, Asserts,
           AttestState, AttestTyped, Answered, AttestPoints, Preparing, Publishing, InCall, Undoing,
           RollBacks
      <3>3. UndoneOrSaid'
        BY <1>2, <2>6 DEF OpenCustodyRoot, Go, At, Quiet, nameVars, noteVars, custodyVars, Asserts,
           AttestState, AttestTyped, FlagsTrue, Answered, UndoneOrSaid, NothingThere, OwnAt,
           AttestPoints, Preparing, Publishing, InCall, Undoing, RollBacks
      <3> QED BY <3>1, <3>2, <3>3
    <2>7. creating' = creating
      BY <1>2 DEF OpenCustodyRoot, Asserts, custodyVars
    <2> QED BY <2>1, <2>2, <2>3, <2>4, <2>5, <2>6, <2>7 DEF AttestState
  <1> QED BY <1>1, <1>2

LEMMA ListRootKeeps ==
    ASSUME AttestState, ListRoot PROVE AttestState'
  <1>1. AttestTyped'
    BY DEF ListRoot, Go, At, Quiet, nameVars, noteVars, custodyVars, AttestState, AttestTyped,
       AttestPoints, Preparing, Publishing, InCall, Undoing, RollBacks
  <1>2. DataTyped'
    BY DEF ListRoot, Go, At, Quiet, nameVars, noteVars, custodyVars, AttestState, DataTyped, Unseen,
       Present, Data
  <1>3. Scanned'
    <2>1. next' = 1 /\ seen' = [f \in Files |-> None] /\ listed' = Present /\ Present' = Present
      BY DEF ListRoot, Unseen, Present
    <2>2. \A i \in 1 .. Len(FileOrder) : FileOrder[i] \in Files /\ ~(i < 1)
      <3>1. ASSUME NEW i \in 1 .. Len(FileOrder) PROVE FileOrder[i] \in Files /\ ~(i < 1)
        <4>1. ~(i < 1)
          BY ListLength
        <4> QED BY <4>1, FilesListed
      <3> QED BY <3>1
    <2> QED BY <2>1, <2>2 DEF Scanned
  <1>4. Closed'
    BY DEF ListRoot, Go, At, Quiet, nameVars, noteVars, custodyVars, AttestState, Closed, Composing
  <1>5. SnapshotKept'
    BY DEF ListRoot, Go, At, Quiet, nameVars, noteVars, custodyVars, AttestState, SnapshotKept, Agreed
  <1>6. ASSUME creating PROVE FlagsTrue' /\ Answered' /\ UndoneOrSaid'
    <2>1. FlagsTrue'
      BY <1>6 DEF ListRoot, Go, At, Quiet, nameVars, noteVars, custodyVars, AttestState, AttestTyped,
         FlagsTrue, Answered, OwnAt, AttestPoints, Preparing, Publishing, InCall, Undoing, RollBacks
    <2>2. Answered'
      BY <1>6 DEF ListRoot, Go, At, Quiet, nameVars, noteVars, custodyVars, AttestState, AttestTyped,
         Answered, AttestPoints, Preparing, Publishing, InCall, Undoing, RollBacks
    <2>3. UndoneOrSaid'
      BY <1>6 DEF ListRoot, Go, At, Quiet, nameVars, noteVars, custodyVars, AttestState, AttestTyped,
         FlagsTrue, Answered, UndoneOrSaid, NothingThere, OwnAt, AttestPoints, Preparing, Publishing,
         InCall, Undoing, RollBacks
    <2> QED BY <2>1, <2>2, <2>3
  <1>7. creating' = creating
    BY DEF ListRoot, custodyVars
  <1> QED BY <1>1, <1>2, <1>3, <1>4, <1>5, <1>6, <1>7 DEF AttestState

LEMMA ScanFileKeeps ==
    ASSUME AttestState, ScanFile PROVE AttestState'
  <1>1. CASE File \in listed /\ payload[File] = None
    <2>1. /\ Raise /\ pc \notin Undoing \cup {"returned", "returning", "caught", "failed"}
          /\ UNCHANGED <<entry, lost, late, creating, published>>
          /\ UNCHANGED made \/ (pc = "check" /\ made' = [made EXCEPT !.temporary = FALSE])
      BY <1>1 DEF ScanFile, At, Quiet, nameVars, noteVars, custodyVars, Undoing, File
    <2>2. DataTyped'
      BY <1>1 DEF ScanFile, Quiet, nameVars, noteVars, custodyVars, File, AttestState, DataTyped
    <2> QED BY <2>1, <2>2, RaiseKeeps
  <1>2. CASE ~(File \in listed /\ payload[File] = None)
    <2>1. AttestTyped'
      BY <1>2 DEF ScanFile, Go, At, Quiet, nameVars, noteVars, custodyVars, File, AttestState,
         AttestTyped, AttestPoints, Preparing, Publishing, InCall, Undoing, RollBacks
    <2>2. DataTyped'
      <3>1. File \in Files
        <4>1. next \in 1 .. Len(FileOrder)
          <5>1. next \in Nat \ {0} /\ Len(FileOrder) \in Nat /\ next <= Len(FileOrder)
            BY ListLength DEF ScanFile, AttestState, DataTyped
          <5> QED BY <5>1
        <4> QED BY <4>1, FilesListed DEF File
      <3> QED BY <1>2, <3>1 DEF ScanFile, nameVars, AttestState, DataTyped, Data
    <2>3. Scanned'
      <3>1. /\ pc' = "scan" /\ pc = "scan" /\ next' = next + 1 /\ next <= Len(FileOrder)
            /\ UNCHANGED <<payload, listed>> /\ changed' = changed \ {File}
            /\ seen' = IF File \in listed THEN [seen EXCEPT ![File] = payload[File]] ELSE seen
        BY <1>2 DEF ScanFile, At
      <3>2. "root" \notin changed' => Present' = listed'
        <4>1. next \in 1 .. Len(FileOrder)
          <5>1. next \in Nat \ {0} /\ Len(FileOrder) \in Nat
            BY ListLength DEF AttestState, DataTyped
          <5> QED BY <3>1, <5>1
        <4>2. File # "root"
          BY <4>1, FilesListed DEF File
        <4> QED BY <3>1, <4>2 DEF AttestState, Scanned, Present
      <3>3. ASSUME NEW i \in 1 .. Len(FileOrder)
            PROVE  /\ i < next' /\ FileOrder[i] \in listed' \ changed' => seen'[FileOrder[i]] = payload'[FileOrder[i]]
                   /\ FileOrder[i] \notin listed' => seen'[FileOrder[i]] = None
        <4>1. next \in Nat \ {0} /\ seen \in Data
          BY DEF AttestState, DataTyped
        <4>2. i < next' => i < next \/ FileOrder[i] = File
          <5>1. Len(FileOrder) \in Nat /\ i \in Nat
            BY ListLength
          <5>2. i < next + 1 => i < next \/ i = next
            BY <4>1, <5>1
          <5> QED BY <3>1, <5>2 DEF File
        <4>3. /\ i < next /\ FileOrder[i] \in listed \ changed => seen[FileOrder[i]] = payload[FileOrder[i]]
              /\ FileOrder[i] \notin listed => seen[FileOrder[i]] = None
          BY <3>1 DEF AttestState, Scanned
        <4>4. FileOrder[i] \in Files
          BY FilesListed
        <4>5. CASE FileOrder[i] = File
          BY <3>1, <4>1, <4>3, <4>4, <4>5 DEF Data
        <4>6. CASE FileOrder[i] # File
          BY <3>1, <4>1, <4>2, <4>3, <4>4, <4>6 DEF Data
        <4> QED BY <4>5, <4>6
      <3> QED BY <3>2, <3>3 DEF Scanned
    <2>4. Closed'
      BY <1>2 DEF ScanFile, Go, At, Quiet, nameVars, noteVars, custodyVars, File, AttestState, Closed,
         Composing
    <2>5. SnapshotKept'
      BY <1>2 DEF ScanFile, Go, At, Quiet, nameVars, noteVars, custodyVars, File, AttestState,
         SnapshotKept, Agreed
    <2>6. ASSUME creating PROVE FlagsTrue' /\ Answered' /\ UndoneOrSaid'
      <3>1. FlagsTrue'
        BY <1>2, <2>6 DEF ScanFile, Go, At, Quiet, nameVars, noteVars, custodyVars, File, AttestState,
           AttestTyped, FlagsTrue, Answered, OwnAt, AttestPoints, Preparing, Publishing, InCall, Undoing,
           RollBacks
      <3>2. Answered'
        BY <1>2, <2>6 DEF ScanFile, Go, At, Quiet, nameVars, noteVars, custodyVars, File, AttestState,
           AttestTyped, Answered, AttestPoints, Preparing, Publishing, InCall, Undoing, RollBacks
      <3>3. UndoneOrSaid'
        BY <1>2, <2>6 DEF ScanFile, Go, At, Quiet, nameVars, noteVars, custodyVars, File, AttestState,
           AttestTyped, FlagsTrue, Answered, UndoneOrSaid, NothingThere, OwnAt, AttestPoints, Preparing,
           Publishing, InCall, Undoing, RollBacks
      <3> QED BY <3>1, <3>2, <3>3
    <2>7. creating' = creating
      BY <1>2 DEF ScanFile, custodyVars
    <2> QED BY <2>1, <2>2, <2>3, <2>4, <2>5, <2>6, <2>7 DEF AttestState
  <1> QED BY <1>1, <1>2

LEMMA ScanManifestKeeps ==
    ASSUME AttestState, ScanManifest PROVE AttestState'
  <1>1. CASE IF Composing THEN entry["target"] # None ELSE ~Agrees
    <2>1. /\ Raise /\ pc \notin Undoing \cup {"returned", "returning", "caught", "failed"}
          /\ UNCHANGED <<entry, lost, late, creating, published, made>>
      BY <1>1 DEF ScanManifest, Asserts, At, Quiet, nameVars, Undoing
    <2>2. DataTyped'
      <3>1. instant' = [files |-> payload, manifest |-> entry["target"]] /\ next' = 1
        BY DEF ScanManifest
      <3>2. instant'.files = payload /\ instant' = [files |-> instant'.files, manifest |-> instant'.manifest]
        BY <3>1
      <3>3. UNCHANGED <<payload, seen, value, listed>>
        BY DEF ScanManifest
      <3> QED BY <3>1, <3>2, <3>3 DEF AttestState, DataTyped
    <2> QED BY <2>1, <2>2, RaiseKeeps
  <1>2. CASE ~(IF Composing THEN entry["target"] # None ELSE ~Agrees)
    <2>1. /\ pc = "scan" /\ pc' = "close" /\ next' = 1 /\ next > Len(FileOrder)
          /\ instant' = [files |-> payload, manifest |-> entry["target"]]
          /\ changed' = changed \ {"observed manifest"}
          /\ UNCHANGED <<nameVars, creating, published, payload, listed, seen, value>>
      BY <1>2 DEF ScanManifest, Asserts, At, Go
    <2>2. DataTyped'
      <3>1. instant' = [files |-> payload, manifest |-> entry["target"]] /\ next' = 1
        BY DEF ScanManifest
      <3>2. instant'.files = payload /\ instant' = [files |-> instant'.files, manifest |-> instant'.manifest]
        BY <3>1
      <3>3. UNCHANGED <<payload, seen, value, listed>>
        BY DEF ScanManifest
      <3> QED BY <3>1, <3>2, <3>3 DEF AttestState, DataTyped
    <2>3. Scanned' /\ SnapshotKept'
      BY <2>1 DEF Scanned, SnapshotKept, Agreed
    <2>4. Closed'
      <3>1. "root" \notin changed' => {f \in Files : instant'.files[f] # None} = listed'
        <4>1. "root" \notin changed' => Present = listed
          BY <2>1 DEF AttestState, Scanned
        <4> QED BY <2>1, <4>1 DEF Present
      <3>2. ASSUME NEW i \in 1 .. Len(FileOrder), NEW f \in Files, f = FileOrder[i]
            PROVE  /\ f \in listed' /\ (i < next' \/ f \notin changed') => instant'.files[f] = seen'[f]
                   /\ f \notin listed' => seen'[f] = None
        <4>1. i < next /\ ~(i < next')
          <5>1. i \in 1 .. Len(FileOrder) /\ Len(FileOrder) \in Nat /\ next \in Nat
            BY ListLength DEF AttestState, DataTyped
          <5>2. next > Len(FileOrder) /\ next' = 1
            BY <2>1
          <5> QED BY <5>1, <5>2
        <4>2. f # "observed manifest"
          BY FilesListed
        <4>3. /\ f \in listed \ changed => seen[f] = payload[f]
              /\ f \notin listed => seen[f] = None
          BY <2>1, <3>2, <4>1 DEF AttestState, Scanned
        <4> QED BY <2>1, <4>1, <4>2, <4>3
      <3>3. ~Composing' => seen' = value' /\ instant'.manifest = "own"
        BY <1>2, <2>1 DEF Composing, Agrees
      <3> QED BY <3>1, <3>2, <3>3, FilesListed DEF Closed
    <2>6. AttestTyped'
      BY <1>2 DEF ScanManifest, Asserts, Go, At, Quiet, nameVars, AttestState, AttestTyped, AttestPoints,
         Preparing, InCall
    <2>7. ASSUME creating PROVE FlagsTrue' /\ Answered' /\ UndoneOrSaid'
      <3>1. FlagsTrue'
        BY <1>2, <2>7 DEF ScanManifest, Asserts, Go, At, Quiet, nameVars, AttestState, FlagsTrue, OwnAt,
           Preparing
      <3>2. Answered'
        BY <1>2, <2>7 DEF ScanManifest, Asserts, Go, At, Quiet, AttestState, Answered, Publishing,
           InCall, Undoing, RollBacks, Composing
      <3>3. UndoneOrSaid'
        BY <1>2, <2>7 DEF ScanManifest, Asserts, Go, At, Quiet, AttestState, UndoneOrSaid, InCall
      <3> QED BY <3>1, <3>2, <3>3
    <2>8. creating' => FlagsTrue' /\ Answered' /\ UndoneOrSaid'
      BY <2>7 DEF ScanManifest
    <2> QED BY <2>2, <2>3, <2>4, <2>6, <2>8 DEF AttestState
  <1> QED BY <1>1, <1>2

LEMMA CloseFileKeeps ==
    ASSUME AttestState, CloseFile PROVE AttestState'
  <1>1. CASE (next = 1 /\ ~Composing /\ "observed manifest" \in changed) \/ (File \in listed /\ (File \in changed \/ payload[File] = None))
    <2>1. /\ Raise /\ pc \notin Undoing \cup {"returned", "returning", "caught", "failed"}
          /\ UNCHANGED <<entry, lost, late, creating, published, made>>
      BY <1>1 DEF CloseFile, Asserts, At, Quiet, nameVars, Undoing
    <2>2. DataTyped'
      BY <1>1 DEF CloseFile, Asserts, AttestState, DataTyped
    <2> QED BY <2>1, <2>2, RaiseKeeps
  <1>2. CASE ~((next = 1 /\ ~Composing /\ "observed manifest" \in changed) \/ (File \in listed /\ (File \in changed \/ payload[File] = None)))
    <2>1. /\ pc = "close" /\ pc' = "close" /\ next' = next + 1 /\ reported' = reported
          /\ File \in listed => File \notin changed
          /\ UNCHANGED <<nameVars, late, creating, published, payload, changed, listed, seen, value, made, call, instant>>
      BY <1>2 DEF CloseFile, At, Quiet
    <2>2. DataTyped'
      BY <2>1 DEF AttestState, DataTyped
    <2>3. Scanned' /\ SnapshotKept'
      BY <2>1 DEF Scanned, SnapshotKept, Agreed
    <2>4. Closed'
      <3>1. ASSUME NEW i \in 1 .. Len(FileOrder), NEW f \in Files, f = FileOrder[i]
            PROVE  f \in listed /\ (i < next' \/ f \notin changed) => instant.files[f] = seen[f]
        <4>1. i < next' => i < next \/ i = next
          <5>1. i \in Nat /\ next \in Nat
            BY ListLength DEF AttestState, DataTyped
          <5> QED BY <2>1, <5>1
        <4>2. f \in listed /\ (i < next \/ f \notin changed) => instant.files[f] = seen[f]
          BY <2>1, <3>1 DEF AttestState, Closed
        <4> QED BY <2>1, <3>1, <4>1, <4>2 DEF File
      <3>2. /\ "root" \notin changed => {f \in Files : instant.files[f] # None} = listed
            /\ \A i \in 1 .. Len(FileOrder) : FileOrder[i] \notin listed => seen[FileOrder[i]] = None
            /\ ~Composing => seen = value /\ instant.manifest = "own"
        BY <2>1 DEF AttestState, Closed
      <3> QED BY <2>1, <3>1, <3>2, FilesListed DEF Closed, Composing
    <2>6. AttestTyped'
      BY <1>2 DEF CloseFile, Asserts, Go, At, Quiet, nameVars, AttestState, AttestTyped, AttestPoints,
         Preparing, InCall
    <2>7. ASSUME creating PROVE FlagsTrue' /\ Answered' /\ UndoneOrSaid'
      <3>1. FlagsTrue'
        BY <1>2, <2>7 DEF CloseFile, Asserts, Go, At, Quiet, nameVars, AttestState, FlagsTrue, OwnAt,
           Preparing
      <3>2. Answered'
        BY <1>2, <2>7 DEF CloseFile, Asserts, Go, At, Quiet, AttestState, Answered, Publishing, InCall,
           Undoing, RollBacks, Composing
      <3>3. UndoneOrSaid'
        BY <1>2, <2>7 DEF CloseFile, Asserts, Go, At, Quiet, AttestState, UndoneOrSaid, InCall
      <3> QED BY <3>1, <3>2, <3>3
    <2>8. creating' => FlagsTrue' /\ Answered' /\ UndoneOrSaid'
      BY <2>7 DEF CloseFile
    <2> QED BY <2>2, <2>3, <2>4, <2>6, <2>8 DEF AttestState
  <1> QED BY <1>1, <1>2

LEMMA CloseRootKeeps ==
    ASSUME AttestState, CloseRoot PROVE AttestState'
  <1>1. CASE ~(Present = listed /\ "root" \notin changed /\ bound)
    <2>1. /\ Raise /\ pc \notin Undoing \cup {"returned", "returning", "caught", "failed"}
          /\ UNCHANGED <<entry, lost, late, creating, published, made>>
      BY <1>1 DEF CloseRoot, Asserts, At, Quiet, nameVars, Undoing
    <2>2. DataTyped'
      BY <1>1 DEF CloseRoot, Asserts, AttestState, DataTyped
    <2> QED BY <2>1, <2>2, RaiseKeeps
  <1>2. CASE ~(~(Present = listed /\ "root" \notin changed /\ bound))
    <2>1. /\ pc = "close" /\ next > Len(FileOrder) /\ "root" \notin changed
          /\ pc' = IF Composing THEN "begin" ELSE "agreed"
          /\ value' = IF Composing THEN seen ELSE value
          /\ UNCHANGED <<nameVars, creating, published, payload, listed, seen, next, instant>>
      BY <1>2 DEF CloseRoot, Asserts, At, Go
    <2>2. DataTyped'
      BY <2>1 DEF AttestState, DataTyped
    <2>3. Scanned' /\ Closed'
      BY <2>1 DEF Scanned, Closed
    <2>4. SnapshotKept'
      <3>1. ASSUME NEW f \in Files PROVE instant.files[f] = seen[f]
        <4>1. PICK i \in 1 .. Len(FileOrder) : f = FileOrder[i]
          BY FilesAll
        <4>2. i < next
          BY <2>1, ListLength DEF AttestState, DataTyped
        <4>3. /\ f \in listed => instant.files[f] = seen[f]
              /\ f \notin listed => seen[f] = None
          BY <2>1, <4>1, <4>2 DEF AttestState, Closed
        <4>4. {g \in Files : instant.files[g] # None} = listed
          BY <2>1 DEF AttestState, Closed
        <4> QED BY <4>3, <4>4
      <3>2. instant.files = seen
        BY <3>1 DEF AttestState, DataTyped, Data
      <3>3. ~Composing => instant = [files |-> value, manifest |-> "own"]
        BY <2>1, <3>2 DEF AttestState, DataTyped, Closed
      <3> QED BY <2>1, <3>3 DEF SnapshotKept, Agreed
    <2>6. AttestTyped'
      BY <1>2 DEF CloseRoot, Asserts, Go, At, Quiet, nameVars, AttestState, AttestTyped, AttestPoints,
         Preparing, InCall, Composing
    <2>7. ASSUME creating PROVE FlagsTrue' /\ Answered' /\ UndoneOrSaid'
      <3>1. FlagsTrue'
        BY <1>2, <2>7 DEF CloseRoot, Asserts, Go, At, Quiet, nameVars, AttestState, FlagsTrue, OwnAt,
           Preparing, Composing
      <3>2. Answered'
        BY <1>2, <2>7 DEF CloseRoot, Asserts, Go, At, Quiet, AttestState, Answered, Publishing, InCall,
           Undoing, RollBacks, Composing
      <3>3. UndoneOrSaid'
        BY <1>2, <2>7 DEF CloseRoot, Asserts, Go, At, Quiet, AttestState, UndoneOrSaid, InCall, Composing
      <3> QED BY <3>1, <3>2, <3>3
    <2>8. creating' => FlagsTrue' /\ Answered' /\ UndoneOrSaid'
      BY <2>7 DEF CloseRoot
    <2> QED BY <2>2, <2>3, <2>4, <2>6, <2>8 DEF AttestState
  <1> QED BY <1>1, <1>2

LEMMA AgreeKeeps ==
    ASSUME AttestState, Agree PROVE AttestState'
  <1>1. CASE ~bound
    <2>1. /\ Raise /\ pc \notin Undoing \cup {"returned", "returning", "caught", "failed"}
          /\ UNCHANGED <<entry, lost, late, creating, published>>
          /\ UNCHANGED made \/ (pc = "check" /\ made' = [made EXCEPT !.temporary = FALSE])
      BY <1>1 DEF Agree, At, Quiet, nameVars, noteVars, custodyVars, Undoing, Asserts
    <2>2. DataTyped'
      BY <1>1 DEF Agree, Quiet, nameVars, noteVars, custodyVars, Asserts, AttestState, DataTyped
    <2> QED BY <2>1, <2>2, RaiseKeeps
  <1>2. CASE ~(~bound)
    <2>1. AttestTyped'
      BY <1>2 DEF Agree, Go, At, Quiet, nameVars, noteVars, custodyVars, Asserts, AttestState,
         AttestTyped, AttestPoints, Preparing, Publishing, InCall, Undoing, RollBacks
    <2>2. DataTyped'
      BY <1>2 DEF Agree, Go, At, Quiet, nameVars, noteVars, custodyVars, Asserts, AttestState, DataTyped,
         Unseen, Present, Data
    <2>3. Scanned'
      BY <1>2 DEF Agree, Go, At, Quiet, nameVars, noteVars, custodyVars, Asserts, AttestState, Scanned,
         Present
    <2>4. Closed'
      BY <1>2 DEF Agree, Go, At, Quiet, nameVars, noteVars, custodyVars, Asserts, AttestState, Closed,
         Composing
    <2>5. SnapshotKept'
      BY <1>2 DEF Agree, Go, At, Quiet, nameVars, noteVars, custodyVars, Asserts, AttestState,
         SnapshotKept, Agreed
    <2>6. ASSUME creating PROVE FlagsTrue' /\ Answered' /\ UndoneOrSaid'
      <3>1. FlagsTrue'
        BY <1>2, <2>6 DEF Agree, Go, At, Quiet, nameVars, noteVars, custodyVars, Asserts, AttestState,
           AttestTyped, FlagsTrue, Answered, OwnAt, AttestPoints, Preparing, Publishing, InCall, Undoing,
           RollBacks
      <3>2. Answered'
        BY <1>2, <2>6 DEF Agree, Go, At, Quiet, nameVars, noteVars, custodyVars, Asserts, AttestState,
           AttestTyped, Answered, AttestPoints, Preparing, Publishing, InCall, Undoing, RollBacks
      <3>3. UndoneOrSaid'
        BY <1>2, <2>6 DEF Agree, Go, At, Quiet, nameVars, noteVars, custodyVars, Asserts, AttestState,
           AttestTyped, FlagsTrue, Answered, UndoneOrSaid, NothingThere, OwnAt, AttestPoints, Preparing,
           Publishing, InCall, Undoing, RollBacks
      <3> QED BY <3>1, <3>2, <3>3
    <2>7. creating' = creating
      BY <1>2 DEF Agree, Asserts, custodyVars
    <2> QED BY <2>1, <2>2, <2>3, <2>4, <2>5, <2>6, <2>7 DEF AttestState
  <1> QED BY <1>1, <1>2

LEMMA CreatedKeeps ==
    ASSUME AttestState, Created PROVE AttestState'
  <1>1. AttestTyped'
    BY DEF Created, Go, At, Quiet, nameVars, noteVars, custodyVars, AttestState, AttestTyped,
       AttestPoints, Preparing, Publishing, InCall, Undoing, RollBacks
  <1>2. DataTyped'
    BY DEF Created, Go, At, Quiet, nameVars, noteVars, custodyVars, AttestState, DataTyped, Unseen,
       Present, Data
  <1>3. Scanned'
    BY DEF Created, Go, At, Quiet, nameVars, noteVars, custodyVars, AttestState, Scanned, Present
  <1>4. Closed'
    BY DEF Created, Go, At, Quiet, nameVars, noteVars, custodyVars, AttestState, Closed, Composing
  <1>5. SnapshotKept'
    BY DEF Created, Go, At, Quiet, nameVars, noteVars, custodyVars, AttestState, SnapshotKept, Agreed
  <1>6. ASSUME creating PROVE FlagsTrue' /\ Answered' /\ UndoneOrSaid'
    <2>1. FlagsTrue'
      BY <1>6 DEF Created, Go, At, Quiet, nameVars, noteVars, custodyVars, AttestState, AttestTyped,
         FlagsTrue, Answered, OwnAt, AttestPoints, Preparing, Publishing, InCall, Undoing, RollBacks
    <2>2. Answered'
      BY <1>6 DEF Created, Go, At, Quiet, nameVars, noteVars, custodyVars, AttestState, AttestTyped,
         Answered, AttestPoints, Preparing, Publishing, InCall, Undoing, RollBacks
    <2>3. UndoneOrSaid'
      BY <1>6 DEF Created, Go, At, Quiet, nameVars, noteVars, custodyVars, AttestState, AttestTyped,
         FlagsTrue, Answered, UndoneOrSaid, NothingThere, OwnAt, AttestPoints, Preparing, Publishing,
         InCall, Undoing, RollBacks
    <2> QED BY <2>1, <2>2, <2>3
  <1>7. creating' = creating
    BY DEF Created, custodyVars
  <1> QED BY <1>1, <1>2, <1>3, <1>4, <1>5, <1>6, <1>7 DEF AttestState

LEMMA BeginWriteKeeps ==
    ASSUME AttestState, BeginWrite PROVE AttestState'
  <1>1. CASE ~(bound /\ entry["target"] = None)
    <2>1. /\ Raise /\ pc \notin Undoing \cup {"returned", "returning", "caught", "failed"}
          /\ UNCHANGED <<entry, lost, late, creating, published>>
          /\ UNCHANGED made \/ (pc = "check" /\ made' = [made EXCEPT !.temporary = FALSE])
      BY <1>1 DEF BeginWrite, At, Quiet, nameVars, noteVars, custodyVars, Undoing, Asserts
    <2>2. DataTyped'
      BY <1>1 DEF BeginWrite, Quiet, nameVars, noteVars, custodyVars, Asserts, AttestState, DataTyped
    <2> QED BY <2>1, <2>2, RaiseKeeps
  <1>2. CASE ~(~(bound /\ entry["target"] = None))
    <2>1. AttestTyped'
      BY <1>2 DEF BeginWrite, Go, At, Quiet, nameVars, noteVars, custodyVars, Asserts, AttestState,
         AttestTyped, AttestPoints, Preparing, Publishing, InCall, Undoing, RollBacks
    <2>2. DataTyped'
      BY <1>2 DEF BeginWrite, Go, At, Quiet, nameVars, noteVars, custodyVars, Asserts, AttestState,
         DataTyped, Unseen, Present, Data
    <2>3. Scanned'
      BY <1>2 DEF BeginWrite, Go, At, Quiet, nameVars, noteVars, custodyVars, Asserts, AttestState,
         Scanned, Present
    <2>4. Closed'
      BY <1>2 DEF BeginWrite, Go, At, Quiet, nameVars, noteVars, custodyVars, Asserts, AttestState,
         Closed, Composing
    <2>5. SnapshotKept'
      BY <1>2 DEF BeginWrite, Go, At, Quiet, nameVars, noteVars, custodyVars, Asserts, AttestState,
         SnapshotKept, Agreed
    <2>6. ASSUME creating PROVE FlagsTrue' /\ Answered' /\ UndoneOrSaid'
      <3>1. FlagsTrue'
        BY <1>2, <2>6 DEF BeginWrite, Go, At, Quiet, nameVars, noteVars, custodyVars, Asserts,
           AttestState, AttestTyped, FlagsTrue, Answered, OwnAt, AttestPoints, Preparing, Publishing,
           InCall, Undoing, RollBacks
      <3>2. Answered'
        BY <1>2, <2>6 DEF BeginWrite, Go, At, Quiet, nameVars, noteVars, custodyVars, Asserts,
           AttestState, AttestTyped, Answered, AttestPoints, Preparing, Publishing, InCall, Undoing,
           RollBacks
      <3>3. UndoneOrSaid'
        BY <1>2, <2>6 DEF BeginWrite, Go, At, Quiet, nameVars, noteVars, custodyVars, Asserts,
           AttestState, AttestTyped, FlagsTrue, Answered, UndoneOrSaid, NothingThere, OwnAt,
           AttestPoints, Preparing, Publishing, InCall, Undoing, RollBacks
      <3> QED BY <3>1, <3>2, <3>3
    <2>7. creating' = creating
      BY <1>2 DEF BeginWrite, Asserts, custodyVars
    <2> QED BY <2>1, <2>2, <2>3, <2>4, <2>5, <2>6, <2>7 DEF AttestState
  <1> QED BY <1>1, <1>2

LEMMA CreateTemporaryKeeps ==
    ASSUME AttestState, CreateTemporary PROVE AttestState'
  <1>1. AttestTyped'
    <2>1. "own" \in Things /\ made' \in [temporary : BOOLEAN, published : BOOLEAN]
      BY DEF CreateTemporary, Things, AttestState, AttestTyped
    <2> QED BY <2>1 DEF CreateTemporary, Go, At, noteVars, AttestState, AttestTyped, AttestPoints,
       Publishing, InCall
  <1>2. DataTyped'
    BY DEF CreateTemporary, Go, At, Quiet, nameVars, noteVars, custodyVars, AttestState, DataTyped,
       Unseen, Present, Data
  <1>3. Scanned'
    BY DEF CreateTemporary, Go, At, Quiet, nameVars, noteVars, custodyVars, AttestState, Scanned, Present
  <1>4. Closed'
    BY DEF CreateTemporary, Go, At, Quiet, nameVars, noteVars, custodyVars, AttestState, Closed,
       Composing
  <1>5. SnapshotKept'
    BY DEF CreateTemporary, Go, At, Quiet, nameVars, noteVars, custodyVars, AttestState, SnapshotKept,
       Agreed
  <1>6. ASSUME creating PROVE FlagsTrue' /\ Answered' /\ UndoneOrSaid'
    <2>1. FlagsTrue'
      <3>1. made'.temporary = TRUE /\ made'.published = made.published /\ pc' = "write manifest"
        BY DEF CreateTemporary, Go, AttestState, AttestTyped
      <3>2. entry'["target"] = entry["target"] /\ ~published
        BY <1>6 DEF CreateTemporary, At, AttestState, AttestTyped, Answered, Names
      <3> QED BY <1>6, <3>1, <3>2 DEF CreateTemporary, AttestState, FlagsTrue, OwnAt, Preparing
    <2>2. Answered'
      BY <1>6 DEF CreateTemporary, Go, At, Quiet, nameVars, noteVars, custodyVars, AttestState,
         AttestTyped, Answered, AttestPoints, Preparing, Publishing, InCall, Undoing, RollBacks
    <2>3. UndoneOrSaid'
      BY <1>6 DEF CreateTemporary, Go, At, Quiet, nameVars, noteVars, custodyVars, AttestState,
         AttestTyped, FlagsTrue, Answered, UndoneOrSaid, NothingThere, OwnAt, AttestPoints, Preparing,
         Publishing, InCall, Undoing, RollBacks
    <2> QED BY <2>1, <2>2, <2>3
  <1>7. creating' = creating
    BY DEF CreateTemporary, custodyVars
  <1> QED BY <1>1, <1>2, <1>3, <1>4, <1>5, <1>6, <1>7 DEF AttestState

LEMMA WriteTemporaryKeeps ==
    ASSUME AttestState, WriteTemporary PROVE AttestState'
  <1>1. AttestTyped'
    BY DEF WriteTemporary, Go, At, Quiet, nameVars, noteVars, custodyVars, AttestState, AttestTyped,
       AttestPoints, Preparing, Publishing, InCall, Undoing, RollBacks
  <1>2. DataTyped'
    BY DEF WriteTemporary, Go, At, Quiet, nameVars, noteVars, custodyVars, AttestState, DataTyped,
       Unseen, Present, Data
  <1>3. Scanned'
    BY DEF WriteTemporary, Go, At, Quiet, nameVars, noteVars, custodyVars, AttestState, Scanned, Present
  <1>4. Closed'
    BY DEF WriteTemporary, Go, At, Quiet, nameVars, noteVars, custodyVars, AttestState, Closed, Composing
  <1>5. SnapshotKept'
    BY DEF WriteTemporary, Go, At, Quiet, nameVars, noteVars, custodyVars, AttestState, SnapshotKept,
       Agreed
  <1>6. ASSUME creating PROVE FlagsTrue' /\ Answered' /\ UndoneOrSaid'
    <2>1. FlagsTrue'
      BY <1>6 DEF WriteTemporary, Go, At, Quiet, nameVars, noteVars, custodyVars, AttestState,
         AttestTyped, FlagsTrue, Answered, OwnAt, AttestPoints, Preparing, Publishing, InCall, Undoing,
         RollBacks
    <2>2. Answered'
      BY <1>6 DEF WriteTemporary, Go, At, Quiet, nameVars, noteVars, custodyVars, AttestState,
         AttestTyped, Answered, AttestPoints, Preparing, Publishing, InCall, Undoing, RollBacks
    <2>3. UndoneOrSaid'
      BY <1>6 DEF WriteTemporary, Go, At, Quiet, nameVars, noteVars, custodyVars, AttestState,
         AttestTyped, FlagsTrue, Answered, UndoneOrSaid, NothingThere, OwnAt, AttestPoints, Preparing,
         Publishing, InCall, Undoing, RollBacks
    <2> QED BY <2>1, <2>2, <2>3
  <1>7. creating' = creating
    BY DEF WriteTemporary, custodyVars
  <1> QED BY <1>1, <1>2, <1>3, <1>4, <1>5, <1>6, <1>7 DEF AttestState

LEMMA LinkManifestKeeps ==
    ASSUME AttestState, LinkManifest PROVE AttestState'
  <1>1. CASE ~(entry["stage"] \notin {None, "tree", "hollow"} /\ entry["target"] = None)
    <2>1. /\ Raise /\ pc \notin Undoing \cup {"returned", "returning", "caught", "failed"}
          /\ UNCHANGED <<entry, lost, late, creating, published>>
          /\ UNCHANGED made \/ (pc = "check" /\ made' = [made EXCEPT !.temporary = FALSE])
      BY <1>1 DEF LinkManifest, At, Quiet, nameVars, noteVars, custodyVars, Undoing
    <2>2. DataTyped'
      BY <1>1 DEF LinkManifest, Quiet, nameVars, noteVars, custodyVars, Calls, AttestState, DataTyped
    <2> QED BY <2>1, <2>2, RaiseKeeps
  <1>2. CASE ~(~(entry["stage"] \notin {None, "tree", "hollow"} /\ entry["target"] = None))
    <2>1. AttestTyped'
      <3>1. entry["stage"] \in Things /\ made' \in [temporary : BOOLEAN, published : BOOLEAN] /\ call' \in Calls
        BY <1>2 DEF LinkManifest, Names, Calls, AttestState, AttestTyped
      <3> QED BY <1>2, <3>1 DEF LinkManifest, Go, Quiet, AttestState, AttestTyped, AttestPoints, InCall
    <2>2. DataTyped'
      BY <1>2 DEF LinkManifest, Go, At, Quiet, nameVars, noteVars, custodyVars, Calls, AttestState,
         DataTyped, Unseen, Present, Data
    <2>3. Scanned'
      BY <1>2 DEF LinkManifest, Go, At, Quiet, nameVars, noteVars, custodyVars, Calls, AttestState,
         Scanned, Present
    <2>4. Closed'
      BY <1>2 DEF LinkManifest, Go, At, Quiet, nameVars, noteVars, custodyVars, Calls, AttestState,
         Closed, Composing
    <2>5. SnapshotKept'
      BY <1>2 DEF LinkManifest, Go, At, Quiet, nameVars, noteVars, custodyVars, Calls, AttestState,
         SnapshotKept, Agreed
    <2>6. ASSUME creating PROVE FlagsTrue' /\ Answered' /\ UndoneOrSaid'
      <3>1. FlagsTrue'
        <4>1. /\ made'.temporary = made.temporary /\ made'.published = TRUE /\ pc' = "grab" /\ call'.done = "check"
              /\ UNCHANGED <<published, late, reported>> /\ ~published
          <5>1. ~published
            BY <2>6 DEF LinkManifest, At, AttestState, Answered, Publishing
          <5>2. made' = [made EXCEPT !.published = TRUE] /\ call' = [name |-> "stage", done |-> "check", failed |-> "undo"]
            BY <1>2 DEF LinkManifest
          <5>3. made'.temporary = made.temporary /\ made'.published = TRUE
            BY <5>2 DEF AttestState, AttestTyped
          <5> QED BY <1>2, <5>1, <5>2, <5>3 DEF LinkManifest, Go, Quiet
        <4>2. entry'["stage"] = entry["stage"]
        BY <1>2 DEF LinkManifest, AttestState, AttestTyped, Names
        <4> QED BY <2>6, <4>1, <4>2 DEF AttestState, FlagsTrue, OwnAt, Preparing
      <3>2. Answered'
        <4>1. /\ made'.temporary = made.temporary /\ made'.published = TRUE /\ pc' = "grab" /\ call'.done = "check"
              /\ UNCHANGED <<published, late, reported>> /\ ~published
          <5>1. ~published
            BY <2>6 DEF LinkManifest, At, AttestState, Answered, Publishing
          <5>2. made' = [made EXCEPT !.published = TRUE] /\ call' = [name |-> "stage", done |-> "check", failed |-> "undo"]
            BY <1>2 DEF LinkManifest
          <5>3. made'.temporary = made.temporary /\ made'.published = TRUE
            BY <5>2 DEF AttestState, AttestTyped
          <5> QED BY <1>2, <5>1, <5>2, <5>3 DEF LinkManifest, Go, Quiet
        <4> QED BY <4>1 DEF Answered, Publishing, Undoing, RollBacks, InCall
      <3>3. UndoneOrSaid'
        <4>1. /\ made'.temporary = made.temporary /\ made'.published = TRUE /\ pc' = "grab" /\ call'.done = "check"
              /\ UNCHANGED <<published, late, reported>> /\ ~published
          <5>1. ~published
            BY <2>6 DEF LinkManifest, At, AttestState, Answered, Publishing
          <5>2. made' = [made EXCEPT !.published = TRUE] /\ call' = [name |-> "stage", done |-> "check", failed |-> "undo"]
            BY <1>2 DEF LinkManifest
          <5>3. made'.temporary = made.temporary /\ made'.published = TRUE
            BY <5>2 DEF AttestState, AttestTyped
          <5> QED BY <1>2, <5>1, <5>2, <5>3 DEF LinkManifest, Go, Quiet
        <4> QED BY <4>1 DEF UndoneOrSaid, InCall
      <3> QED BY <3>1, <3>2, <3>3
    <2>7. creating' = creating
      BY <1>2 DEF LinkManifest, custodyVars
    <2> QED BY <2>1, <2>2, <2>3, <2>4, <2>5, <2>6, <2>7 DEF AttestState
  <1> QED BY <1>1, <1>2

LEMMA CheckPublishedKeeps ==
    ASSUME AttestState, CheckPublished PROVE AttestState'
  <1>1. CASE ~(entry["target"] = "own" /\ Links("own") = 1)
    <2>1. /\ Raise /\ pc \notin Undoing \cup {"returned", "returning", "caught", "failed"}
          /\ UNCHANGED <<entry, lost, late, creating, published>>
          /\ UNCHANGED made \/ (pc = "check" /\ made' = [made EXCEPT !.temporary = FALSE])
      BY <1>1 DEF CheckPublished, At, Quiet, nameVars, noteVars, custodyVars, Undoing, Asserts
    <2>2. DataTyped'
      BY <1>1 DEF CheckPublished, Quiet, nameVars, noteVars, custodyVars, Asserts, AttestState, DataTyped
    <2> QED BY <2>1, <2>2, RaiseKeeps
  <1>2. CASE ~(~(entry["target"] = "own" /\ Links("own") = 1))
    <2>1. AttestTyped'
      BY <1>2 DEF CheckPublished, Go, At, Quiet, nameVars, noteVars, custodyVars, Asserts, AttestState,
         AttestTyped, AttestPoints, Preparing, Publishing, InCall, Undoing, RollBacks
    <2>2. DataTyped'
      BY <1>2 DEF CheckPublished, Go, At, Quiet, nameVars, noteVars, custodyVars, Asserts, AttestState,
         DataTyped, Unseen, Present, Data
    <2>3. Scanned'
      BY <1>2 DEF CheckPublished, Go, At, Quiet, nameVars, noteVars, custodyVars, Asserts, AttestState,
         Scanned, Present
    <2>4. Closed'
      BY <1>2 DEF CheckPublished, Go, At, Quiet, nameVars, noteVars, custodyVars, Asserts, AttestState,
         Closed, Composing
    <2>5. SnapshotKept'
      BY <1>2 DEF CheckPublished, Go, At, Quiet, nameVars, noteVars, custodyVars, Asserts, AttestState,
         SnapshotKept, Agreed
    <2>6. ASSUME creating PROVE FlagsTrue' /\ Answered' /\ UndoneOrSaid'
      <3>1. FlagsTrue'
        BY <1>2, <2>6 DEF CheckPublished, Go, At, Quiet, nameVars, noteVars, custodyVars, Asserts,
           AttestState, AttestTyped, FlagsTrue, Answered, OwnAt, AttestPoints, Preparing, Publishing,
           InCall, Undoing, RollBacks
      <3>2. Answered'
        BY <1>2, <2>6 DEF CheckPublished, Go, At, Quiet, nameVars, noteVars, custodyVars, Asserts,
           AttestState, AttestTyped, Answered, AttestPoints, Preparing, Publishing, InCall, Undoing,
           RollBacks
      <3>3. UndoneOrSaid'
        BY <1>2, <2>6 DEF CheckPublished, Go, At, Quiet, nameVars, noteVars, custodyVars, Asserts,
           AttestState, AttestTyped, FlagsTrue, Answered, UndoneOrSaid, NothingThere, OwnAt,
           AttestPoints, Preparing, Publishing, InCall, Undoing, RollBacks
      <3> QED BY <3>1, <3>2, <3>3
    <2>7. creating' = creating
      BY <1>2 DEF CheckPublished, Asserts, custodyVars
    <2> QED BY <2>1, <2>2, <2>3, <2>4, <2>5, <2>6, <2>7 DEF AttestState
  <1> QED BY <1>1, <1>2

LEMMA SyncNameKeeps ==
    ASSUME AttestState, SyncName PROVE AttestState'
  <1>1. CASE ~bound
    <2>1. /\ Raise /\ pc \notin Undoing \cup {"returned", "returning", "caught", "failed"}
          /\ UNCHANGED <<entry, lost, late, creating, published>>
          /\ UNCHANGED made \/ (pc = "check" /\ made' = [made EXCEPT !.temporary = FALSE])
      BY <1>1 DEF SyncName, At, Quiet, nameVars, noteVars, custodyVars, Undoing, Asserts
    <2>2. DataTyped'
      BY <1>1 DEF SyncName, Quiet, nameVars, noteVars, custodyVars, Asserts, AttestState, DataTyped
    <2> QED BY <2>1, <2>2, RaiseKeeps
  <1>2. CASE ~(~bound)
    <2>1. AttestTyped'
      BY <1>2 DEF SyncName, Go, At, Quiet, nameVars, noteVars, custodyVars, Asserts, AttestState,
         AttestTyped, AttestPoints, Preparing, Publishing, InCall, Undoing, RollBacks
    <2>2. DataTyped'
      BY <1>2 DEF SyncName, Go, At, Quiet, nameVars, noteVars, custodyVars, Asserts, AttestState,
         DataTyped, Unseen, Present, Data
    <2>3. Scanned'
      BY <1>2 DEF SyncName, Go, At, Quiet, nameVars, noteVars, custodyVars, Asserts, AttestState,
         Scanned, Present
    <2>4. Closed'
      BY <1>2 DEF SyncName, Go, At, Quiet, nameVars, noteVars, custodyVars, Asserts, AttestState, Closed,
         Composing
    <2>5. SnapshotKept'
      BY <1>2 DEF SyncName, Go, At, Quiet, nameVars, noteVars, custodyVars, Asserts, AttestState,
         SnapshotKept, Agreed
    <2>6. ASSUME creating PROVE FlagsTrue' /\ Answered' /\ UndoneOrSaid'
      <3>1. FlagsTrue'
        BY <1>2, <2>6 DEF SyncName, Go, At, Quiet, nameVars, noteVars, custodyVars, Asserts, AttestState,
           AttestTyped, FlagsTrue, Answered, OwnAt, AttestPoints, Preparing, Publishing, InCall, Undoing,
           RollBacks
      <3>2. Answered'
        BY <1>2, <2>6 DEF SyncName, Go, At, Quiet, nameVars, noteVars, custodyVars, Asserts, AttestState,
           AttestTyped, Answered, AttestPoints, Preparing, Publishing, InCall, Undoing, RollBacks
      <3>3. UndoneOrSaid'
        BY <1>2, <2>6 DEF SyncName, Go, At, Quiet, nameVars, noteVars, custodyVars, Asserts, AttestState,
           AttestTyped, FlagsTrue, Answered, UndoneOrSaid, NothingThere, OwnAt, AttestPoints, Preparing,
           Publishing, InCall, Undoing, RollBacks
      <3> QED BY <3>1, <3>2, <3>3
    <2>7. creating' = creating
      BY <1>2 DEF SyncName, Asserts, custodyVars
    <2> QED BY <2>1, <2>2, <2>3, <2>4, <2>5, <2>6, <2>7 DEF AttestState
  <1> QED BY <1>1, <1>2

LEMMA ReturnKeeps ==
    ASSUME AttestState, Return PROVE AttestState'
  <1>1. AttestTyped'
    BY DEF Return, Go, At, Quiet, nameVars, noteVars, custodyVars, AttestState, AttestTyped,
       AttestPoints, Preparing, Publishing, InCall, Undoing, RollBacks
  <1>2. DataTyped'
    BY DEF Return, Go, At, Quiet, nameVars, noteVars, custodyVars, AttestState, DataTyped, Unseen,
       Present, Data
  <1>3. Scanned'
    BY DEF Return, Go, At, Quiet, nameVars, noteVars, custodyVars, AttestState, Scanned, Present
  <1>4. Closed'
    BY DEF Return, Go, At, Quiet, nameVars, noteVars, custodyVars, AttestState, Closed, Composing
  <1>5. SnapshotKept'
    BY DEF Return, Go, At, Quiet, nameVars, noteVars, custodyVars, AttestState, SnapshotKept, Agreed
  <1>6. ASSUME creating PROVE FlagsTrue' /\ Answered' /\ UndoneOrSaid'
    <2>1. FlagsTrue'
      BY <1>6 DEF Return, Go, At, Quiet, nameVars, noteVars, custodyVars, AttestState, AttestTyped,
         FlagsTrue, Answered, OwnAt, AttestPoints, Preparing, Publishing, InCall, Undoing, RollBacks
    <2>2. Answered'
      BY <1>6 DEF Return, Go, At, Quiet, nameVars, noteVars, custodyVars, AttestState, AttestTyped,
         Answered, AttestPoints, Preparing, Publishing, InCall, Undoing, RollBacks
    <2>3. UndoneOrSaid'
      BY <1>6 DEF Return, Go, At, Quiet, nameVars, noteVars, custodyVars, AttestState, AttestTyped,
         FlagsTrue, Answered, UndoneOrSaid, NothingThere, OwnAt, AttestPoints, Preparing, Publishing,
         InCall, Undoing, RollBacks
    <2> QED BY <2>1, <2>2, <2>3
  <1>7. creating' = creating
    BY DEF Return, custodyVars
  <1> QED BY <1>1, <1>2, <1>3, <1>4, <1>5, <1>6, <1>7 DEF AttestState

LEMMA GrabKeeps ==
    ASSUME AttestState, Grab PROVE AttestState'
  <1>1. /\ pc \in InCall /\ call \in Calls /\ call.name \in {"target", "stage"}
        /\ UNCHANGED <<lost, late, reported, creating, payload, listed, seen, next, value, made, published,
                       call, instant>>
        /\ entry \in [Names -> Things] /\ None \in Things /\ None # "own"
    BY CallsLead DEF Grab, At, Quiet, InCall, AttestState, AttestTyped, Things, None
  <1>2. CASE entry[call.name] = None
    BY <1>1, <1>2, CallKeeps DEF Grab, Go
  <1>3. CASE entry[call.name] # None
    <2>1. pc' = "grab again" /\ entry' = [entry EXCEPT ![call.name] = None, !["first"] = entry[call.name],
                                                      !["second"] = None]
      BY <1>3 DEF Grab, Go
    <2>2. call.name \in Names /\ entry[call.name] \in Things
      BY <1>1 DEF Names
    <2>3. entry' \in [Names -> Things]
      BY <1>1, <2>1, <2>2
    <2>4. entry'[call.name] # "own"
      BY <1>1, <2>1, <2>2
    <2>5. \A n \in Names : n \in {"target", "stage"} /\ entry'[n] = "own" => entry[n] = "own"
      BY <1>1, <2>1, <2>2
    <2> QED BY <1>1, <2>1, <2>3, <2>4, <2>5, CallKeeps
  <1> QED BY <1>2, <1>3

LEMMA GrabAgainKeeps ==
    ASSUME AttestState, GrabAgain PROVE AttestState'
  <1>1. /\ pc = "grab again" /\ pc \in InCall /\ call \in Calls /\ call.name \in {"target", "stage"}
        /\ UNCHANGED <<late, custodyVars, lost>>
        /\ entry \in [Names -> Things] /\ None \in Things
    BY CallsLead DEF GrabAgain, At, Quiet, InCall, AttestState, AttestTyped, Things
  <1>2. CASE ~(entry["first"] = "own" /\ entry["second"] = None)
    <2>1. Raise /\ UNCHANGED entry
      BY <1>2 DEF GrabAgain
    <2>2. DataTyped'
      BY <1>1 DEF AttestState, DataTyped, custodyVars
    <2> QED BY <1>1, <2>1, <2>2, RaiseKeeps DEF custodyVars, Undoing
  <1>3. CASE entry["first"] = "own" /\ entry["second"] = None
    <2>1. pc' = "remove" /\ reported' = reported /\ entry' = [entry EXCEPT !["first"] = None, !["second"] = entry["first"]]
      BY <1>3 DEF GrabAgain, Go, Move
    <2>2. "first" \in Names /\ entry["first"] \in Things
      BY <1>1 DEF Names
    <2>3. /\ entry' \in [Names -> Things]
          /\ \A n \in Names : n \in {"target", "stage"} => entry'[n] = entry[n]
      BY <1>1, <2>1, <2>2
    <2>4. entry'[call.name] # "own"
      BY <1>1, <2>3 DEF AttestState, AttestTyped, Names
    <2> QED BY <1>1, <2>1, <2>3, <2>4, CallKeeps DEF custodyVars
  <1> QED BY <1>2, <1>3

LEMMA RemoveKeeps ==
    ASSUME AttestState, Remove PROVE AttestState'
  <1>1. /\ pc = "remove" /\ pc \in InCall /\ call \in Calls /\ call.name \in {"target", "stage"}
        /\ UNCHANGED <<late, custodyVars, lost>>
        /\ entry \in [Names -> Things] /\ None \in Things
    BY CallsLead DEF Remove, At, Quiet, InCall, AttestState, AttestTyped, Things
  <1>2. CASE entry["second"] # "own"
    <2>1. Raise /\ UNCHANGED entry
      BY <1>2 DEF Remove
    <2>2. DataTyped'
      BY <1>1 DEF AttestState, DataTyped, custodyVars
    <2> QED BY <1>1, <2>1, <2>2, RaiseKeeps DEF custodyVars, Undoing
  <1>3. CASE entry["second"] = "own"
    <2>1. pc' = call.done /\ reported' = reported /\ entry' = [entry EXCEPT !["second"] = None]
      BY <1>3 DEF Remove, Go
    <2>2. /\ entry' \in [Names -> Things]
          /\ \A n \in Names : n \in {"target", "stage"} => entry'[n] = entry[n]
      BY <1>1, <2>1
    <2>3. entry'[call.name] # "own"
      BY <1>1, <2>2 DEF AttestState, AttestTyped, Names
    <2> QED BY <1>1, <2>1, <2>2, <2>3, CallKeeps DEF custodyVars
  <1> QED BY <1>2, <1>3

LEMMA UndoPublishedKeeps ==
    ASSUME AttestState, UndoPublished PROVE AttestState'
  <1>1. AttestTyped'
    BY DEF UndoPublished, Go, At, Quiet, nameVars, noteVars, custodyVars, Unlinks, Calls, AttestState,
       AttestTyped, AttestPoints, Preparing, Publishing, InCall, Undoing, RollBacks
  <1>2. DataTyped'
    BY DEF UndoPublished, Go, At, Quiet, nameVars, noteVars, custodyVars, Unlinks, Calls, AttestState,
       DataTyped, Unseen, Present, Data
  <1>3. Scanned'
    BY DEF UndoPublished, Go, At, Quiet, nameVars, noteVars, custodyVars, Unlinks, Calls, AttestState,
       Scanned, Present
  <1>4. Closed'
    BY DEF UndoPublished, Go, At, Quiet, nameVars, noteVars, custodyVars, Unlinks, Calls, AttestState,
       Closed, Composing
  <1>5. SnapshotKept'
    BY DEF UndoPublished, Go, At, Quiet, nameVars, noteVars, custodyVars, Unlinks, Calls, AttestState,
       SnapshotKept, Agreed
  <1>6. ASSUME creating PROVE FlagsTrue' /\ Answered' /\ UndoneOrSaid'
    <2>1. FlagsTrue'
      BY <1>6 DEF UndoPublished, Go, At, Quiet, nameVars, noteVars, custodyVars, Unlinks, Calls,
         AttestState, AttestTyped, FlagsTrue, Answered, OwnAt, AttestPoints, Preparing, Publishing,
         InCall, Undoing, RollBacks
    <2>2. Answered'
      <3>1. /\ pc = "undo" /\ UNCHANGED <<entry, late, reported, made, published>> /\ ~published
            /\ (pc' = "grab" /\ call'.done = "undo temporary") \/ (pc' = "undo temporary" /\ ~made.published)
        <4>1. ~published
          BY <1>6 DEF UndoPublished, Unlinks, At, AttestState, Answered, Undoing
        <4>2. /\ pc = "undo"
              /\ UNCHANGED <<entry, late, reported, made, published>>
          BY DEF UndoPublished, Unlinks, At, Quiet, nameVars
        <4>3. CASE made.published
          <5>1. pc' = "grab" /\ call' = [name |-> "target", done |-> "undo temporary", failed |-> "undo temporary"]
            BY <4>3 DEF UndoPublished, Unlinks, Go
          <5> QED BY <4>1, <4>2, <5>1
        <4>4. CASE ~made.published
          BY <4>1, <4>2, <4>4 DEF UndoPublished, Unlinks, Go
        <4> QED BY <4>3, <4>4
      <3> QED BY <3>1 DEF Answered, Publishing, Undoing, RollBacks, InCall
    <2>3. UndoneOrSaid'
      <3>1. /\ pc = "undo" /\ UNCHANGED <<entry, late, reported, made, published>> /\ ~published
            /\ (pc' = "grab" /\ call'.done = "undo temporary") \/ (pc' = "undo temporary" /\ ~made.published)
        <4>1. ~published
          BY <1>6 DEF UndoPublished, Unlinks, At, AttestState, Answered, Undoing
        <4>2. /\ pc = "undo"
              /\ UNCHANGED <<entry, late, reported, made, published>>
          BY DEF UndoPublished, Unlinks, At, Quiet, nameVars
        <4>3. CASE made.published
          <5>1. pc' = "grab" /\ call' = [name |-> "target", done |-> "undo temporary", failed |-> "undo temporary"]
            BY <4>3 DEF UndoPublished, Unlinks, Go
          <5> QED BY <4>1, <4>2, <5>1
        <4>4. CASE ~made.published
          BY <4>1, <4>2, <4>4 DEF UndoPublished, Unlinks, Go
        <4> QED BY <4>3, <4>4
      <3> QED BY <1>6, <3>1 DEF AttestState, FlagsTrue, UndoneOrSaid, NothingThere, OwnAt, InCall
    <2> QED BY <2>1, <2>2, <2>3
  <1>7. creating' = creating
    BY DEF UndoPublished, Unlinks, custodyVars
  <1> QED BY <1>1, <1>2, <1>3, <1>4, <1>5, <1>6, <1>7 DEF AttestState

LEMMA UndoTemporaryKeeps ==
    ASSUME AttestState, UndoTemporary PROVE AttestState'
  <1>1. AttestTyped'
    BY DEF UndoTemporary, Go, At, Quiet, nameVars, noteVars, custodyVars, Unlinks, Calls, AttestState,
       AttestTyped, AttestPoints, Preparing, Publishing, InCall, Undoing, RollBacks
  <1>2. DataTyped'
    BY DEF UndoTemporary, Go, At, Quiet, nameVars, noteVars, custodyVars, Unlinks, Calls, AttestState,
       DataTyped, Unseen, Present, Data
  <1>3. Scanned'
    BY DEF UndoTemporary, Go, At, Quiet, nameVars, noteVars, custodyVars, Unlinks, Calls, AttestState,
       Scanned, Present
  <1>4. Closed'
    BY DEF UndoTemporary, Go, At, Quiet, nameVars, noteVars, custodyVars, Unlinks, Calls, AttestState,
       Closed, Composing
  <1>5. SnapshotKept'
    BY DEF UndoTemporary, Go, At, Quiet, nameVars, noteVars, custodyVars, Unlinks, Calls, AttestState,
       SnapshotKept, Agreed
  <1>6. ASSUME creating PROVE FlagsTrue' /\ Answered' /\ UndoneOrSaid'
    <2>1. FlagsTrue'
      BY <1>6 DEF UndoTemporary, Go, At, Quiet, nameVars, noteVars, custodyVars, Unlinks, Calls,
         AttestState, AttestTyped, FlagsTrue, Answered, OwnAt, AttestPoints, Preparing, Publishing,
         InCall, Undoing, RollBacks
    <2>2. Answered'
      <3>1. /\ pc = "undo temporary" /\ UNCHANGED <<entry, late, reported, made, published>> /\ ~published
            /\ (pc' = "grab" /\ call'.done = "undo sync") \/ (pc' = "undo sync" /\ ~made.temporary)
        <4>1. ~published
          BY <1>6 DEF UndoTemporary, Unlinks, At, AttestState, Answered, Undoing
        <4>2. /\ pc = "undo temporary"
              /\ UNCHANGED <<entry, late, reported, made, published>>
          BY DEF UndoTemporary, Unlinks, At, Quiet, nameVars
        <4>3. CASE made.temporary
          <5>1. pc' = "grab" /\ call' = [name |-> "stage", done |-> "undo sync", failed |-> "undo sync"]
            BY <4>3 DEF UndoTemporary, Unlinks, Go
          <5> QED BY <4>1, <4>2, <5>1
        <4>4. CASE ~made.temporary
          BY <4>1, <4>2, <4>4 DEF UndoTemporary, Unlinks, Go
        <4> QED BY <4>3, <4>4
      <3> QED BY <3>1 DEF Answered, Publishing, Undoing, RollBacks, InCall
    <2>3. UndoneOrSaid'
      <3>1. /\ pc = "undo temporary" /\ UNCHANGED <<entry, late, reported, made, published>> /\ ~published
            /\ (pc' = "grab" /\ call'.done = "undo sync") \/ (pc' = "undo sync" /\ ~made.temporary)
        <4>1. ~published
          BY <1>6 DEF UndoTemporary, Unlinks, At, AttestState, Answered, Undoing
        <4>2. /\ pc = "undo temporary"
              /\ UNCHANGED <<entry, late, reported, made, published>>
          BY DEF UndoTemporary, Unlinks, At, Quiet, nameVars
        <4>3. CASE made.temporary
          <5>1. pc' = "grab" /\ call' = [name |-> "stage", done |-> "undo sync", failed |-> "undo sync"]
            BY <4>3 DEF UndoTemporary, Unlinks, Go
          <5> QED BY <4>1, <4>2, <5>1
        <4>4. CASE ~made.temporary
          BY <4>1, <4>2, <4>4 DEF UndoTemporary, Unlinks, Go
        <4> QED BY <4>3, <4>4
      <3> QED BY <1>6, <3>1 DEF AttestState, FlagsTrue, UndoneOrSaid, NothingThere, OwnAt, InCall
    <2> QED BY <2>1, <2>2, <2>3
  <1>7. creating' = creating
    BY DEF UndoTemporary, Unlinks, custodyVars
  <1> QED BY <1>1, <1>2, <1>3, <1>4, <1>5, <1>6, <1>7 DEF AttestState

LEMMA UndoSyncKeeps ==
    ASSUME AttestState, UndoSync PROVE AttestState'
  <1>1. AttestTyped'
    BY DEF UndoSync, Go, At, Quiet, nameVars, noteVars, custodyVars, AttestState, AttestTyped,
       AttestPoints, Preparing, Publishing, InCall, Undoing, RollBacks
  <1>2. DataTyped'
    BY DEF UndoSync, Go, At, Quiet, nameVars, noteVars, custodyVars, AttestState, DataTyped, Unseen,
       Present, Data
  <1>3. Scanned'
    BY DEF UndoSync, Go, At, Quiet, nameVars, noteVars, custodyVars, AttestState, Scanned, Present
  <1>4. Closed'
    BY DEF UndoSync, Go, At, Quiet, nameVars, noteVars, custodyVars, AttestState, Closed, Composing
  <1>5. SnapshotKept'
    BY DEF UndoSync, Go, At, Quiet, nameVars, noteVars, custodyVars, AttestState, SnapshotKept, Agreed
  <1>6. ASSUME creating PROVE FlagsTrue' /\ Answered' /\ UndoneOrSaid'
    <2>1. FlagsTrue'
      BY <1>6 DEF UndoSync, Go, At, Quiet, nameVars, noteVars, custodyVars, AttestState, AttestTyped,
         FlagsTrue, Answered, OwnAt, AttestPoints, Preparing, Publishing, InCall, Undoing, RollBacks
    <2>2. Answered'
      BY <1>6 DEF UndoSync, Go, At, Quiet, nameVars, noteVars, custodyVars, AttestState, AttestTyped,
         Answered, AttestPoints, Preparing, Publishing, InCall, Undoing, RollBacks
    <2>3. UndoneOrSaid'
      BY <1>6 DEF UndoSync, Go, At, Quiet, nameVars, noteVars, custodyVars, AttestState, AttestTyped,
         FlagsTrue, Answered, UndoneOrSaid, NothingThere, OwnAt, AttestPoints, Preparing, Publishing,
         InCall, Undoing, RollBacks
    <2> QED BY <2>1, <2>2, <2>3
  <1>7. creating' = creating
    BY DEF UndoSync, custodyVars
  <1> QED BY <1>1, <1>2, <1>3, <1>4, <1>5, <1>6, <1>7 DEF AttestState

LEMMA CatchKeeps ==
    ASSUME AttestState, Catch PROVE AttestState'
  <1>1. AttestTyped'
    BY DEF Catch, Go, At, Quiet, nameVars, noteVars, custodyVars, AttestState, AttestTyped, AttestPoints,
       Preparing, Publishing, InCall, Undoing, RollBacks
  <1>2. DataTyped'
    BY DEF Catch, Go, At, Quiet, nameVars, noteVars, custodyVars, AttestState, DataTyped, Unseen,
       Present, Data
  <1>3. Scanned'
    BY DEF Catch, Go, At, Quiet, nameVars, noteVars, custodyVars, AttestState, Scanned, Present
  <1>4. Closed'
    BY DEF Catch, Go, At, Quiet, nameVars, noteVars, custodyVars, AttestState, Closed, Composing
  <1>5. SnapshotKept'
    BY DEF Catch, Go, At, Quiet, nameVars, noteVars, custodyVars, AttestState, SnapshotKept, Agreed
  <1>6. ASSUME creating PROVE FlagsTrue' /\ Answered' /\ UndoneOrSaid'
    <2>1. FlagsTrue'
      BY <1>6 DEF Catch, Go, At, Quiet, nameVars, noteVars, custodyVars, AttestState, AttestTyped,
         FlagsTrue, Answered, OwnAt, AttestPoints, Preparing, Publishing, InCall, Undoing, RollBacks
    <2>2. Answered'
      BY <1>6 DEF Catch, Go, At, Quiet, nameVars, noteVars, custodyVars, AttestState, AttestTyped,
         Answered, AttestPoints, Preparing, Publishing, InCall, Undoing, RollBacks
    <2>3. UndoneOrSaid'
      BY <1>6 DEF Catch, Go, At, Quiet, nameVars, noteVars, custodyVars, AttestState, AttestTyped,
         FlagsTrue, Answered, UndoneOrSaid, NothingThere, OwnAt, AttestPoints, Preparing, Publishing,
         InCall, Undoing, RollBacks
    <2> QED BY <2>1, <2>2, <2>3
  <1>7. creating' = creating
    BY DEF Catch, custodyVars
  <1> QED BY <1>1, <1>2, <1>3, <1>4, <1>5, <1>6, <1>7 DEF AttestState

LEMMA ReopenPublishedKeeps ==
    ASSUME AttestState, ReopenPublished PROVE AttestState'
  <1>1. CASE ~(entry["target"] = "own" /\ "manifest" \notin changed)
    <2>1. /\ Raise /\ pc \notin Undoing \cup {"returned", "returning", "caught", "failed"}
          /\ UNCHANGED <<entry, lost, late, creating, published>>
          /\ UNCHANGED made \/ (pc = "check" /\ made' = [made EXCEPT !.temporary = FALSE])
      BY <1>1 DEF ReopenPublished, At, Quiet, nameVars, noteVars, custodyVars, Undoing, Asserts, Calls
    <2>2. DataTyped'
      BY <1>1 DEF ReopenPublished, Quiet, nameVars, noteVars, custodyVars, Asserts, Calls, AttestState,
         DataTyped
    <2> QED BY <2>1, <2>2, RaiseKeeps
  <1>2. CASE ~(~(entry["target"] = "own" /\ "manifest" \notin changed))
    <2>1. AttestTyped'
      BY <1>2 DEF ReopenPublished, Go, At, Quiet, nameVars, noteVars, custodyVars, Asserts, Calls,
         AttestState, AttestTyped, AttestPoints, Preparing, Publishing, InCall, Undoing, RollBacks
    <2>2. DataTyped'
      BY <1>2 DEF ReopenPublished, Go, At, Quiet, nameVars, noteVars, custodyVars, Asserts, Calls,
         AttestState, DataTyped, Unseen, Present, Data
    <2>3. Scanned'
      BY <1>2 DEF ReopenPublished, Go, At, Quiet, nameVars, noteVars, custodyVars, Asserts, Calls,
         AttestState, Scanned, Present
    <2>4. Closed'
      BY <1>2 DEF ReopenPublished, Go, At, Quiet, nameVars, noteVars, custodyVars, Asserts, Calls,
         AttestState, Closed, Composing
    <2>5. SnapshotKept'
      BY <1>2 DEF ReopenPublished, Go, At, Quiet, nameVars, noteVars, custodyVars, Asserts, Calls,
         AttestState, SnapshotKept, Agreed
    <2>6. ASSUME creating PROVE FlagsTrue' /\ Answered' /\ UndoneOrSaid'
      <3>1. FlagsTrue'
        BY <1>2, <2>6 DEF ReopenPublished, Go, At, Quiet, nameVars, noteVars, custodyVars, Asserts,
           Calls, AttestState, AttestTyped, FlagsTrue, Answered, OwnAt, AttestPoints, Preparing,
           Publishing, InCall, Undoing, RollBacks
      <3>2. Answered'
        BY <1>2, <2>6 DEF ReopenPublished, Go, At, Quiet, nameVars, noteVars, custodyVars, Asserts,
           Calls, AttestState, AttestTyped, Answered, AttestPoints, Preparing, Publishing, InCall,
           Undoing, RollBacks
      <3>3. UndoneOrSaid'
        BY <1>2, <2>6 DEF ReopenPublished, Go, At, Quiet, nameVars, noteVars, custodyVars, Asserts,
           Calls, AttestState, AttestTyped, FlagsTrue, Answered, UndoneOrSaid, NothingThere, OwnAt,
           AttestPoints, Preparing, Publishing, InCall, Undoing, RollBacks
      <3> QED BY <3>1, <3>2, <3>3
    <2>7. creating' = creating
      BY <1>2 DEF ReopenPublished, Asserts, custodyVars
    <2> QED BY <2>1, <2>2, <2>3, <2>4, <2>5, <2>6, <2>7 DEF AttestState
  <1> QED BY <1>1, <1>2

LEMMA SyncRollbackKeeps ==
    ASSUME AttestState, SyncRollback PROVE AttestState'
  <1>1. CASE ~bound
    <2>1. /\ Raise /\ pc \notin Undoing \cup {"returned", "returning", "caught", "failed"}
          /\ UNCHANGED <<entry, lost, late, creating, published>>
          /\ UNCHANGED made \/ (pc = "check" /\ made' = [made EXCEPT !.temporary = FALSE])
      BY <1>1 DEF SyncRollback, At, Quiet, nameVars, noteVars, custodyVars, Undoing, Asserts
    <2>2. DataTyped'
      BY <1>1 DEF SyncRollback, Quiet, nameVars, noteVars, custodyVars, Asserts, AttestState, DataTyped
    <2> QED BY <2>1, <2>2, RaiseKeeps
  <1>2. CASE ~(~bound)
    <2>1. AttestTyped'
      BY <1>2 DEF SyncRollback, Go, At, Quiet, nameVars, noteVars, custodyVars, Asserts, AttestState,
         AttestTyped, AttestPoints, Preparing, Publishing, InCall, Undoing, RollBacks
    <2>2. DataTyped'
      BY <1>2 DEF SyncRollback, Go, At, Quiet, nameVars, noteVars, custodyVars, Asserts, AttestState,
         DataTyped, Unseen, Present, Data
    <2>3. Scanned'
      BY <1>2 DEF SyncRollback, Go, At, Quiet, nameVars, noteVars, custodyVars, Asserts, AttestState,
         Scanned, Present
    <2>4. Closed'
      BY <1>2 DEF SyncRollback, Go, At, Quiet, nameVars, noteVars, custodyVars, Asserts, AttestState,
         Closed, Composing
    <2>5. SnapshotKept'
      BY <1>2 DEF SyncRollback, Go, At, Quiet, nameVars, noteVars, custodyVars, Asserts, AttestState,
         SnapshotKept, Agreed
    <2>6. ASSUME creating PROVE FlagsTrue' /\ Answered' /\ UndoneOrSaid'
      <3>1. FlagsTrue'
        BY <1>2, <2>6 DEF SyncRollback, Go, At, Quiet, nameVars, noteVars, custodyVars, Asserts,
           AttestState, AttestTyped, FlagsTrue, Answered, OwnAt, AttestPoints, Preparing, Publishing,
           InCall, Undoing, RollBacks
      <3>2. Answered'
        BY <1>2, <2>6 DEF SyncRollback, Go, At, Quiet, nameVars, noteVars, custodyVars, Asserts,
           AttestState, AttestTyped, Answered, AttestPoints, Preparing, Publishing, InCall, Undoing,
           RollBacks
      <3>3. UndoneOrSaid'
        BY <1>2, <2>6 DEF SyncRollback, Go, At, Quiet, nameVars, noteVars, custodyVars, Asserts,
           AttestState, AttestTyped, FlagsTrue, Answered, UndoneOrSaid, NothingThere, OwnAt,
           AttestPoints, Preparing, Publishing, InCall, Undoing, RollBacks
      <3> QED BY <3>1, <3>2, <3>3
    <2>7. creating' = creating
      BY <1>2 DEF SyncRollback, Asserts, custodyVars
    <2> QED BY <2>1, <2>2, <2>3, <2>4, <2>5, <2>6, <2>7 DEF AttestState
  <1> QED BY <1>1, <1>2

LEMMA CallFailsKeeps ==
    ASSUME AttestState, CallFails PROVE AttestState'
  <1>1. /\ Raise /\ pc \notin Undoing \cup {"returned", "returning", "caught", "failed"}
        /\ UNCHANGED <<late, nameVars, custodyVars>>
    BY DEF CallFails, Quiet, Undoing, InCall
  <1>2. DataTyped'
    BY <1>1 DEF AttestState, DataTyped, custodyVars
  <1> QED BY <1>1, <1>2, RaiseKeeps DEF nameVars, custodyVars

\* A signal where no handler answers ends the run as it is.
LEMMA InterruptCustodyKeeps ==
    ASSUME AttestState, InterruptCustody PROVE AttestState'
  <1>1. creating /\ pc \notin {"failed", "created", "verified"} /\ UNCHANGED <<nameVars, custodyVars>>
    BY DEF InterruptCustody, AttestState, AttestTyped
  <1>2. DataTyped'
    BY <1>1 DEF AttestState, DataTyped, custodyVars
  <1>3. CASE pc \notin Unanswered
    BY <1>1, <1>2, <1>3, RaiseKeeps DEF InterruptCustody, Unanswered, Undoing, nameVars, custodyVars
  <1>4. CASE pc \in Unanswered
    <2>1. pc' = "failed" /\ late' = TRUE /\ reported' = reported
      BY <1>4 DEF InterruptCustody, Go
    <2>2. AttestTyped'
      BY <1>1, <2>1 DEF AttestState, AttestTyped, AttestPoints, InCall, nameVars, custodyVars
    <2>3. Scanned' /\ Closed' /\ SnapshotKept'
      BY <2>1 DEF Scanned, Closed, SnapshotKept, Agreed
    <2>4. FlagsTrue'
      BY <1>1, <2>1 DEF AttestState, FlagsTrue, OwnAt, Preparing, nameVars, custodyVars
    <2>5. Answered' /\ UndoneOrSaid'
      BY <1>1, <2>1 DEF Answered, UndoneOrSaid, Publishing, Undoing, RollBacks, InCall
    <2> QED BY <1>2, <2>2, <2>3, <2>4, <2>5 DEF AttestState
  <1> QED BY <1>3, <1>4

\* Others put nothing of the tool's anywhere, and every change of a name shows.
LEMMA OthersOnNamesAttested ==
    ASSUME AttestState, OthersActOnNames, changed \subseteq changed',
           UNCHANGED <<creating, payload, listed, seen, next, value, made, published, call, instant>>
    PROVE  AttestState'
  <1>1. /\ entry' \in [Names -> Things]
        /\ \A n \in Names : entry'[n] = "own" => entry[n] = "own"
    BY OthersBringNothing DEF AttestState, AttestTyped
  <1>2. UNCHANGED <<pc, lost, late, reported>>
    BY DEF OthersActOnNames
  <1>3. AttestTyped'
    <2>1. pc \in {"grab again", "remove"} => call.name \in Names
      BY CallsLead DEF AttestState, AttestTyped, InCall, Names
    <2> QED BY <1>1, <1>2, <2>1 DEF AttestState, AttestTyped
  <1>4. DataTyped' /\ Scanned' /\ Closed' /\ SnapshotKept'
    BY <1>2 DEF AttestState, DataTyped, Scanned, Closed, SnapshotKept, Present, Composing
  <1>5. ASSUME creating PROVE FlagsTrue' /\ Answered' /\ UndoneOrSaid'
    <2>1. /\ ~OwnAt("target") => ~OwnAt("target")'
          /\ ~OwnAt("stage") => ~OwnAt("stage")'
      BY <1>1 DEF OwnAt, Names
    <2>2. FlagsTrue'
      BY <1>2, <1>5, <2>1 DEF AttestState, FlagsTrue
    <2>3. Answered'
      BY <1>2, <1>5 DEF AttestState, Answered
    <2>4. NothingThere => NothingThere'
      BY <1>2, <2>1 DEF NothingThere
    <2>5. UndoneOrSaid'
      BY <1>2, <1>5, <2>1, <2>4 DEF AttestState, UndoneOrSaid
    <2> QED BY <2>2, <2>3, <2>5
  <1>6. creating' => FlagsTrue' /\ Answered' /\ UndoneOrSaid'
    BY <1>5
  <1> QED BY <1>3, <1>4, <1>6 DEF AttestState

LEMMA OthersOnDeliveryKeep ==
    ASSUME AttestState, OthersActOnDelivery PROVE AttestState'
  <1>1. UNCHANGED <<pc, nameVars, late, reported, creating, listed, seen, next, value, made, published, call, instant>>
    BY DEF OthersActOnDelivery
  <1>2. /\ changed \subseteq changed' /\ payload' \in Data
        /\ \A f \in Files : f \notin changed' => payload'[f] = payload[f]
        /\ "root" \notin changed' => Present' = Present
    <2>1. CASE UNCHANGED payload
      BY <2>1 DEF OthersActOnDelivery, AttestState, DataTyped, Present
    <2>2. ASSUME NEW f \in Files, NEW c \in Contents \cup {None}, payload' = [payload EXCEPT ![f] = c],
                 changed' = changed \cup {f} \cup (IF None \in {c, payload[f]} THEN {"root"} ELSE {})
          PROVE  /\ changed \subseteq changed' /\ payload' \in Data
                 /\ \A g \in Files : g \notin changed' => payload'[g] = payload[g]
                 /\ "root" \notin changed' => Present' = Present
      <3>1. payload \in Data
        BY DEF AttestState, DataTyped
      <3>2. "root" \notin changed' => Present' = Present
        BY <2>2, <3>1 DEF Present, Data
      <3> QED BY <2>2, <3>1, <3>2 DEF Data
    <2> QED BY <2>1, <2>2 DEF OthersActOnDelivery
  <1>3. AttestTyped'
    BY <1>1 DEF AttestState, AttestTyped, nameVars
  <1>4. DataTyped'
    BY <1>1, <1>2 DEF AttestState, DataTyped
  <1>5. Scanned'
    BY <1>1, <1>2, FilesListed DEF AttestState, Scanned
  <1>6. Closed' /\ SnapshotKept'
    BY <1>1, <1>2 DEF AttestState, Closed, SnapshotKept, Composing
  <1>7. creating' => FlagsTrue' /\ Answered' /\ UndoneOrSaid'
    BY <1>1 DEF AttestState, FlagsTrue, Answered, UndoneOrSaid, NothingThere, OwnAt, nameVars
  <1> QED BY <1>3, <1>4, <1>5, <1>6, <1>7 DEF AttestState

AttestInv == tool \in {"create", "verify"} => AttestState /\ creating = (tool = "create")

LEMMA AttestStart ==
    ASSUME Init, tool \in {"create", "verify"} PROVE AttestState /\ creating = (tool = "create")
  <1>1. /\ entry = [n \in Names |-> IF n = "target" /\ tool = "verify" THEN "own" ELSE None]
        /\ pc = "root" /\ lost = {} /\ reported = FALSE /\ late = FALSE
        /\ creating \in BOOLEAN /\ creating = (tool = "create")
    BY DEF Init, Begins, NamesInit, CustodyInit, None
  <1>2. /\ payload \in Data /\ value \in Data /\ seen = Unseen /\ Unseen \in Data /\ listed = {} /\ next = 1
        /\ made = [temporary |-> FALSE, published |-> FALSE] /\ published = FALSE
        /\ instant = [files |-> Unseen, manifest |-> None]
    BY DEF Init, CustodyInit, Data, Unseen
  <1>3. AttestTyped
    BY <1>1, <1>2 DEF AttestTyped, AttestPoints, Preparing, InCall, Things, Names, None
  <1>4. DataTyped
    BY <1>2 DEF DataTyped
  <1>5. Scanned /\ Closed /\ SnapshotKept
    BY <1>1 DEF Scanned, Closed, SnapshotKept, Agreed
  <1>6. creating => FlagsTrue /\ Answered /\ UndoneOrSaid
    BY <1>1, <1>2 DEF FlagsTrue, Answered, UndoneOrSaid, NothingThere, OwnAt, Preparing, Publishing,
       Undoing,
                      InCall, RollBacks, Names, None
  <1> QED BY <1>1, <1>3, <1>4, <1>5, <1>6 DEF AttestState

LEMMA CustodyStepKeeps ==
    ASSUME AttestState, CustodyStep PROVE AttestState'
  BY OpenCustodyRootKeeps, ListRootKeeps, ScanFileKeeps, ScanManifestKeeps, CloseFileKeeps,
     CloseRootKeeps,
     AgreeKeeps, CreatedKeeps, BeginWriteKeeps, CreateTemporaryKeeps, WriteTemporaryKeeps, LinkManifestKeeps,
     CheckPublishedKeeps, SyncNameKeeps, ReturnKeeps, GrabKeeps, GrabAgainKeeps, RemoveKeeps,
     UndoPublishedKeeps, UndoTemporaryKeeps, UndoSyncKeeps, CatchKeeps, ReopenPublishedKeeps,
     SyncRollbackKeeps, CallFailsKeeps
  DEF CustodyStep

LEMMA AttestSteps ==
    ASSUME tool' \in {"create", "verify"}, [Next]_custodySpace
    PROVE  /\ tool' = tool
           /\ \/ CustodyStep
              \/ InterruptCustody
              \/ /\ OthersActOnNames /\ NamesChange
                 /\ UNCHANGED <<creating, payload, listed, seen, next, value, made, published, call, instant>>
              \/ OthersActOnDelivery
              \/ UNCHANGED <<pc, nameVars, noteVars, custodyVars>>
  BY DEF Next, custodySpace, ToolStep, Recovers, Attests, Removes, Normalizes, Repairs, Interrupt,
         Others, OthersOnNames, OthersOnTree, OthersOnDelivery, OthersInside, OthersOnModes, OnModes, AtEnd

\* Nothing the tool does makes it another tool.
LEMMA CreatingKept ==
    ASSUME CustodyStep \/ InterruptCustody \/ OthersActOnDelivery PROVE creating' = creating
  <1>1. CASE OpenCustodyRoot \/ ListRoot \/ ScanFile \/ ScanManifest \/ CloseFile \/ CloseRoot
    BY <1>1 DEF OpenCustodyRoot, ListRoot, ScanFile, ScanManifest, CloseFile, CloseRoot
  <1>2. CASE Agree \/ Created \/ BeginWrite \/ CreateTemporary \/ WriteTemporary \/ LinkManifest
    BY <1>2 DEF Agree, Created, BeginWrite, CreateTemporary, WriteTemporary, LinkManifest, custodyVars
  <1>3. CASE CheckPublished \/ SyncName \/ Return \/ Grab \/ GrabAgain \/ Remove
    BY <1>3 DEF CheckPublished, SyncName, Return, Grab, GrabAgain, Remove, custodyVars
  <1>4. CASE UndoPublished \/ UndoTemporary \/ UndoSync \/ Catch \/ ReopenPublished \/ SyncRollback
    BY <1>4 DEF UndoPublished, UndoTemporary, Unlinks, UndoSync, Catch, ReopenPublished, SyncRollback,
                custodyVars
  <1>5. CASE CallFails \/ InterruptCustody \/ OthersActOnDelivery
    BY <1>5 DEF CallFails, InterruptCustody, OthersActOnDelivery, custodyVars
  <1> QED BY <1>1, <1>2, <1>3, <1>4, <1>5 DEF CustodyStep

(***************************************************************************)
(* What is known of a manifest being made or verified.                     *)
(***************************************************************************)
LEMMA AttestInvariant == Spec => []AttestInv
  <1>1. Init => AttestInv
    BY AttestStart DEF AttestInv
  <1>2. AttestInv /\ [Next]_custodySpace => AttestInv'
    <2>1. SUFFICES ASSUME AttestInv, [Next]_custodySpace, tool' \in {"create", "verify"}
                   PROVE  AttestState' /\ creating' = creating
      BY AttestSteps DEF AttestInv
    <2>2. AttestState
      BY <2>1, AttestSteps DEF AttestInv
    <2>3. changed \subseteq changed' \/ ~NamesChange
      BY DEF NamesChange
    <2>4. CASE UNCHANGED <<pc, nameVars, noteVars, custodyVars>>
      <3>1. UNCHANGED <<pc, entry, elsewhere, bound, held, lost, interrupted, late, reported, acts, creating,
                        payload, changed, listed, seen, next, value, manifest, made, published, call, stranded,
                        instant>>
        BY <2>4 DEF nameVars, noteVars, custodyVars
      <3>2. AttestTyped' /\ DataTyped'
        BY <2>2, <3>1 DEF AttestState, AttestTyped, DataTyped
      <3>3. Scanned' /\ Closed' /\ SnapshotKept'
        BY <2>2, <3>1 DEF AttestState, Scanned, Closed, SnapshotKept, Present, Composing
      <3>4. creating' => FlagsTrue' /\ Answered' /\ UndoneOrSaid'
        BY <2>2, <3>1 DEF AttestState, FlagsTrue, Answered, UndoneOrSaid, NothingThere, OwnAt
      <3> QED BY <3>1, <3>2, <3>3, <3>4 DEF AttestState
    <2> QED
      BY <2>1, <2>2, <2>3, <2>4, AttestSteps, CustodyStepKeeps, InterruptCustodyKeeps,
         OthersOnNamesAttested,
         OthersOnDeliveryKeep, CreatingKept
  <1> QED BY <1>1, <1>2, PTL DEF Spec

\* What that says of its end.
LEMMA AttestedByInv ==
    ASSUME AttestInv, tool \in {"create", "verify"}
    PROVE  ManifestIsASnapshot /\ FailureLeavesNoName /\ lost = {} /\ pc \in AttestPoints
  BY DEF AttestInv, AttestState, AttestTyped, SnapshotKept, Agreed, ManifestIsASnapshot,
     FailureLeavesNoName,
         UndoneOrSaid, NothingThere, OwnAt
-----------------------------------------------------------------------------
(* remove-owned-tree.py.                                                   *)

RemovalPoints ==
  {"open root", "move root", "compare root", "clear", "hold", "quarantine", "compare", "finish", "compare final",
   "unlink", "hide root", "compare hidden", "remove root", "removed root", "removed", "refused"}

\* From the moment the tree is open, the descriptor is that of the owned tree.
RemovalState ==
  /\ pc \in RemovalPoints
  /\ pc \notin {"open root", "refused"} => held = "own"
  /\ lost = {}

RemovalInv == tool = "remove" => RemovalState

LEMMA RemovalSteps ==
    ASSUME tool' = "remove", [Next]_custodySpace
    PROVE  /\ tool' = tool
           /\ RemovalStep \/ OthersActOnNames \/ OthersActInside \/ UNCHANGED <<pc, held, lost>>
  BY DEF Next, custodySpace, ToolStep, Recovers, Attests, Removes, Normalizes, Repairs, Interrupt,
         Others, OthersOnNames, OthersOnTree, OthersOnDelivery, OthersInside, OthersOnModes, OnModes, AtEnd,
         nameVars

LEMMA RemovalStepKeeps ==
    ASSUME RemovalState, RemovalStep PROVE RemovalState'
  <1>1. CASE OpenOwnedRoot
    BY <1>1 DEF RemovalState, RemovalPoints, OpenOwnedRoot, At, Go, Refuse, IdentityExpected
  <1>2. CASE MoveRoot \/ HideRoot \/ CompareHidden
    BY <1>2 DEF RemovalState, RemovalPoints, MoveRoot, HideRoot, CompareHidden, At, Go, Refuse
  <1>3. CASE CompareRoot \/ CompareMember \/ Cleared \/ Removed
    BY <1>3 DEF RemovalState, RemovalPoints, CompareRoot, CompareMember, Cleared, Removed, Requires, At,
       Go,
                Refuse, nameVars
  <1>4. CASE ListMembers \/ HoldMember \/ CompareFinal \/ UnlinkMember
    BY <1>4 DEF RemovalState, RemovalPoints, ListMembers, HoldMember, CompareFinal, UnlinkMember, At, Go,
       Refuse,
                nameVars
  <1>5. CASE QuarantineMember \/ FinishMember \/ RemovalCallFails
    BY <1>5 DEF RemovalState, RemovalPoints, QuarantineMember, FinishMember, MoveMember,
       RemovalCallFails, At, Go,
                Refuse, nameVars
  <1>6. CASE RemoveOwnedRoot
    BY <1>6 DEF RemovalState, RemovalPoints, RemoveOwnedRoot, At, Go, Refuse
  <1> QED BY <1>1, <1>2, <1>3, <1>4, <1>5, <1>6 DEF RemovalStep

(***************************************************************************)
(* What is known of an owned tree being removed.                           *)
(***************************************************************************)
LEMMA RemovalInvariant == Spec => []RemovalInv
  <1>1. Init => RemovalInv
    BY DEF Init, Begins, NamesInit, RemovalInv, RemovalState, RemovalPoints
  <1>2. RemovalInv /\ [Next]_custodySpace => RemovalInv'
    <2>1. SUFFICES ASSUME RemovalInv, [Next]_custodySpace, tool' = "remove" PROVE RemovalState'
      BY DEF RemovalInv
    <2>2. RemovalState
      BY <2>1, RemovalSteps DEF RemovalInv
    <2>3. CASE OthersActOnNames \/ OthersActInside \/ UNCHANGED <<pc, held, lost>>
      BY <2>2, <2>3 DEF RemovalState, OthersActOnNames, OthersActInside
    <2> QED BY <2>1, <2>2, <2>3, RemovalSteps, RemovalStepKeeps
  <1> QED BY <1>1, <1>2, PTL DEF Spec
-----------------------------------------------------------------------------
(* The loops over the tracked paths.                                       *)

LEMMA OrderIs ==
    ASSUME tracked = Tracked
    PROVE  /\ Len(Order) = 4
           /\ pc # "verify" => Order[1] = "top" /\ Order[2] = "dir" /\ Order[3] = "deep" /\ Order[4] = "file"
           /\ pc = "verify" => Order[1] = "deep" /\ Order[2] = "file" /\ Order[3] = "top" /\ Order[4] = "dir"
  <1>1. Listed = <<"deep", "file">>
    BY DEF Listed
  <1>2. Len(FoldersFirst) = 2 /\ FoldersFirst \in Seq(Corpus) /\ FoldersFirst[1] = "top" /\ FoldersFirst[2] = "dir"
    BY DEF FoldersFirst, Corpus, Folders
  <1>3. Len(Listed) = 2 /\ Listed \in Seq(Corpus) /\ Listed[1] = "deep" /\ Listed[2] = "file"
    BY <1>1 DEF Corpus, Tracked
  <1>4. ASSUME NEW s \in Seq(Corpus), NEW t \in Seq(Corpus), Len(s) = 2, Len(t) = 2
        PROVE  /\ Len(s \o t) = 4
               /\ (s \o t)[1] = s[1] /\ (s \o t)[2] = s[2] /\ (s \o t)[3] = t[1] /\ (s \o t)[4] = t[2]
    <2>1. /\ Len(s \o t) = Len(s) + Len(t)
          /\ \A i \in 1 .. Len(s) + Len(t) : (s \o t)[i] = IF i <= Len(s) THEN s[i] ELSE t[i - Len(s)]
      BY <1>4, ConcatProperties, Zenon
    <2>2. \A i \in 1 .. 4 : (s \o t)[i] = IF i <= 2 THEN s[i] ELSE t[i - 2]
      BY <1>4, <2>1
    <2> QED BY <1>4, <2>1, <2>2
  <1>5. pc = "verify" => Order = Listed \o FoldersFirst
    BY DEF Order, At
  <1>6. pc # "verify" => Order = FoldersFirst \o Listed
    BY DEF Order, At
  <1>7. Len(Listed \o FoldersFirst) = 4 /\ Len(FoldersFirst \o Listed) = 4
    BY <1>2, <1>3, <1>4
  <1>8. /\ (Listed \o FoldersFirst)[1] = "deep" /\ (Listed \o FoldersFirst)[2] = "file"
        /\ (Listed \o FoldersFirst)[3] = "top" /\ (Listed \o FoldersFirst)[4] = "dir"
    BY <1>2, <1>3, <1>4
  <1>9. /\ (FoldersFirst \o Listed)[1] = "top" /\ (FoldersFirst \o Listed)[2] = "dir"
        /\ (FoldersFirst \o Listed)[3] = "deep" /\ (FoldersFirst \o Listed)[4] = "file"
    BY <1>2, <1>3, <1>4
  <1> QED BY <1>5, <1>6, <1>7, <1>8, <1>9

\* Every tracked path is at exactly one place of a loop.
LEMMA PlacesOf ==
    ASSUME tracked = Tracked
    PROVE  /\ \A i \in 1 .. 4 : Order[i] \in Corpus
           /\ \A p \in Corpus : \E i \in 1 .. 4 : Order[i] = p
           /\ \A i, j \in 1 .. 4 : Order[i] = Order[j] => i = j
  <1>1. 1 .. 4 = {1, 2, 3, 4}
    OBVIOUS
  <1>2. CASE pc = "verify"
    BY <1>1, <1>2, OrderIs DEF Corpus, Folders, Tracked
  <1>3. CASE pc # "verify"
    BY <1>1, <1>3, OrderIs DEF Corpus, Folders, Tracked
  <1> QED BY <1>2, <1>3

\* While the tool is in its loop, its path is one of those.
LEMMA PathIs ==
    ASSUME tracked = Tracked, index \in Nat
    PROVE  /\ index > 0 /\ ~Finished => index \in 1 .. 4 /\ Path \in Corpus
           /\ Finished => index > 4
           /\ ~Finished => index <= 4
  <1>1. Finished <=> index > 4
    BY OrderIs DEF Finished
  <1> QED BY <1>1, PlacesOf DEF Path

LEMMA FoundIs ==
    ASSUME NEW p \in Corpus, named[p] \in {p, None, "recycled", "stranger"}
    PROVE  /\ Found(p) \in {p, None, "recycled", "stranger"}
           /\ Found(p) \in {named[p], None}
           /\ Found(p) # None => named[p] = Found(p) /\ \A d \in FoldersOn(p) : named[d] = d
           /\ p # None
  BY DEF Found, Corpus, Folders, Tracked, None
-----------------------------------------------------------------------------
(* normalize-tracked-permissions.py.                                       *)

Early       == {"records", "rebind", "preflight"}
NormPoints  == Early \cup {"change", "chmod", "record", "verify", "undo", "unchanged", "normalized"}

Shape ==
  /\ tracked = Tracked /\ index \in Nat \ {0} /\ lost = {}
  /\ reported \in BOOLEAN /\ late \in BOOLEAN /\ calm \in BOOLEAN
  /\ late => interrupted
  /\ named = [p \in Tree |-> named[p]]
  /\ \A p \in Tree : named[p] \in {p, None, "recycled", "stranger"}
  /\ expected \in [Tree -> Tree \cup {None, "recycled", "stranger"}]

\* Until the preflight is over nothing has been changed.
EarlyClean ==
  /\ pc \in Early => mutated = <<>> /\ chmodded = {} /\ ~reported /\ ~late
  /\ pc \in {"records", "rebind"} => drifted = {}
  /\ pc = "preflight" => \A i \in 1 .. 4 : i >= index => Order[i] \notin drifted
  /\ pc = "unchanged" /\ ~late => mutated = <<>>

\* The tool changes the mode of nothing but what it saw with a wrong one.
HeldKnown ==
  /\ pc \in {"chmod", "record"} =>
       /\ held \in {expected[p] : p \in Corpus} \cup {"recycled"}
       /\ held \in Tree \ meddled => held \in wasOff
  /\ \A p \in drifted : p \in Corpus /\ (expected[p] \in Tree \ meddled => expected[p] \in wasOff)
  /\ chmodded \subseteq {expected[p] : p \in Corpus} \cup {"recycled"}

\* What is not as it was is in the list of the rollback, or about to be.
Listing ==
  /\ mutated \in Seq(Tree \cup {None, "recycled", "stranger"})
  /\ ~reported /\ ~late =>
       \A o \in Tree \ meddled :
          o \in wasOff <=> \/ o \in off
                           \/ \E i \in 1 .. Len(mutated) : mutated[i] = o
                           \/ pc = "record" /\ o = held

AsDeclared(p) == authority = "manifest" => expected[p] = p

\* With a manifest, what the preflight found is what the names led to at first.
Known ==
  /\ pc = "preflight" => \A i \in 1 .. 4 : i < index /\ Order[i] \in Tracked => AsDeclared(Order[i])
  /\ pc \notin Early \cup {"unchanged"} => \A p \in Tracked : AsDeclared(p)

Looked(p) ==
  /\ SameIdentity(p) /\ Canonical(p)
  /\ authority = "manifest" => Found(p) = expected[p] /\ p \notin rewritten

\* How far the last look has come.
LastLook ==
  /\ pc = "verify" /\ calm => \A i \in 1 .. 4 : i < index => Looked(Order[i])
  /\ pc = "normalized" /\ calm => visible /\ \A p \in Corpus : Looked(p)

NormState ==
  /\ pc \in NormPoints /\ authority \in {"index", "manifest"}
  /\ Shape /\ EarlyClean /\ HeldKnown /\ Listing /\ Known /\ LastLook

NormInv == tool = "normalize" => NormState


\* A step that leaves the tree and the work alone changes no answer about a path.
LEMMA SameAnswers ==
    ASSUME UNCHANGED <<authority, named, off, relinked, rewritten, expected>>
    PROVE  \A p \in Tree : Found(p)' = Found(p) /\ Looked(p)' = Looked(p) /\ AsDeclared(p)' = AsDeclared(p)
  BY DEF Found, Looked, SameIdentity, SameNumbers, Canonical, AsDeclared

LEMMA SameOrder ==
    ASSUME tracked' = tracked, pc = "verify" <=> pc' = "verify" PROVE Order' = Order
  BY DEF Order, Listed, At

LEMMA ListingKept ==
    ASSUME Listing, UNCHANGED <<off, wasOff, meddled, mutated, reported, late>>, pc # "record", pc' # "record"
    PROVE  Listing'
  BY DEF Listing

LEMMA ReadRecordsKeeps ==
    ASSUME NormState, ReadRecords PROVE NormState'
  <1>1. /\ pc = "records" /\ pc' = "rebind" /\ tracked' = Tracked
        /\ UNCHANGED <<held, lost, interrupted, late, reported, authority, named, off, wasOff, relinked, rewritten, meddled,
                       visible, expected, drifted, index, mutated, chmodded, calm>>
    BY DEF ReadRecords, At, Go, nameVars, noteVars, workVars
  <1>2. Shape' /\ EarlyClean'
    BY <1>1 DEF NormState, Shape, EarlyClean, Early
  <1>3. HeldKnown' /\ Listing' /\ Known' /\ LastLook'
    BY <1>1, ListingKept DEF NormState, HeldKnown, Known, LastLook, Early
  <1> QED BY <1>1, <1>2, <1>3 DEF NormState, NormPoints, Early

LEMMA ReboundKeeps ==
    ASSUME NormState, Rebound PROVE NormState'
  <1>1. /\ pc = "rebind" /\ pc' \in {"preflight", "unchanged"} /\ index' = 1
        /\ UNCHANGED <<held, lost, interrupted, late, reported, authority, tracked, named, off, wasOff, relinked, rewritten,
                       meddled, visible, expected, drifted, mutated, chmodded, calm>>
    BY DEF Rebound, At, Go, nameVars, noteVars, treeVars
  <1>2. Shape' /\ EarlyClean'
    BY <1>1 DEF NormState, Shape, EarlyClean, Early
  <1>3. HeldKnown' /\ Listing' /\ Known' /\ LastLook'
    BY <1>1, ListingKept DEF NormState, HeldKnown, Known, LastLook, Early
  <1> QED BY <1>1, <1>2, <1>3 DEF NormState, NormPoints, Early

LEMMA PreflightKeeps ==
    ASSUME NormState, Preflight PROVE NormState'
  <1>1. /\ pc = "preflight" /\ ~Finished /\ pc' \in {"preflight", "unchanged"}
        /\ UNCHANGED <<held, lost, interrupted, late, reported, authority, tracked, named, off, wasOff, relinked, rewritten,
                       meddled, visible, mutated, chmodded, calm>>
    BY DEF Preflight, At, Go, nameVars, noteVars, treeVars
  <1>2. CASE pc' = "unchanged" /\ UNCHANGED <<expected, drifted, index>>
    <2>1. Shape' /\ EarlyClean'
      BY <1>1, <1>2 DEF NormState, Shape, EarlyClean, Early
    <2>2. HeldKnown' /\ Listing' /\ Known' /\ LastLook'
      BY <1>1, <1>2, ListingKept DEF NormState, HeldKnown, Known, LastLook, Early
    <2> QED BY <1>1, <1>2, <2>1, <2>2 DEF NormState, NormPoints, Early
  <1>3. CASE /\ Eligible(Path) /\ pc' = pc /\ index' = index + 1
             /\ expected' = [expected EXCEPT ![Path] = Found(Path)]
             /\ drifted' = IF Canonical(Path) THEN drifted ELSE drifted \cup {Path}
    <2>1. index \in 1 .. 4 /\ Path \in Corpus /\ Path \in Tree /\ index' \in Nat \ {0} /\ Path = Order[index]
      BY <1>1, <1>3, PathIs DEF NormState, Shape, Path, Corpus, Tree
    <2>2. Order' = Order
      BY <1>1, <1>3, SameOrder
    <2>3. Found(Path) \in Tree \cup {None, "recycled", "stranger"}
      BY <2>1, FoundIs DEF NormState, Shape
    <2>4. /\ expected' \in [Tree -> Tree \cup {None, "recycled", "stranger"}]
          /\ expected'[Path] = Found(Path) /\ \A p \in Tree : p # Path => expected'[p] = expected[p]
      BY <1>3, <2>1, <2>3 DEF NormState, Shape
    <2>5. \A i \in 1 .. 4 : i # index => Order[i] # Path
      BY <1>1, <2>1, PlacesOf DEF NormState, Shape
    <2>6. drifted' \subseteq drifted \cup {Path} /\ Path \notin drifted
      BY <1>1, <1>3, <2>1 DEF NormState, EarlyClean
    <2>7. Shape'
      BY <1>1, <2>1, <2>4 DEF NormState, Shape
    <2>8. EarlyClean'
      <3>1. \A i \in 1 .. 4 : i >= index' => i >= index /\ i # index
        BY <1>3, <2>1
      <3> QED BY <1>1, <1>3, <2>2, <2>5, <2>6, <3>1 DEF NormState, EarlyClean, Early
    <2>9. HeldKnown'
      <3>1. Found(Path) \in off /\ Found(Path) \in Tree \ meddled => Found(Path) \in wasOff
        BY <1>1 DEF NormState, Listing, EarlyClean, Early
      <3>2. Path \in drifted' => Found(Path) \in off
        BY <1>3, <2>6 DEF Canonical
      <3>3. \A p \in drifted' : p \in Corpus /\ (expected'[p] \in Tree \ meddled => expected'[p] \in wasOff)
        BY <2>1, <2>4, <2>6, <3>1, <3>2 DEF NormState, HeldKnown, Corpus, Tree
      <3> QED BY <1>1, <1>3, <3>3 DEF NormState, HeldKnown, EarlyClean, Early
    <2>10. Known'
      <3>1. Path \in Tracked /\ authority = "manifest" => expected'[Path] = Path
        BY <1>3, <2>4 DEF Eligible, Folders, Tracked
      <3>2. \A i \in 1 .. 4 : i < index' => i < index \/ i = index
        BY <1>3, <2>1
      <3>3. \A i \in 1 .. 4 : i < index => i # index /\ Order[i] # Path /\ Order[i] \in Tree
        BY <1>1, <2>1, <2>5, PlacesOf DEF NormState, Shape, Corpus, Tree
      <3>4. ASSUME NEW i \in 1 .. 4, i < index, Order[i] \in Tracked PROVE AsDeclared(Order[i])'
        BY <1>1, <2>2, <2>4, <3>3, <3>4 DEF NormState, Known, AsDeclared
      <3>5. \A i \in 1 .. 4 : i < index' /\ Order'[i] \in Tracked => AsDeclared(Order[i])'
        BY <1>1, <2>1, <2>2, <3>1, <3>2, <3>4 DEF AsDeclared
      <3> QED BY <1>1, <1>3, <3>5 DEF Known, Early
    <2>11. Listing' /\ LastLook'
      BY <1>1, <1>3, ListingKept DEF NormState, LastLook
    <2> QED BY <1>1, <1>3, <2>7, <2>8, <2>9, <2>10, <2>11 DEF NormState, NormPoints, Early
  <1> QED BY <1>2, <1>3 DEF Preflight, Go

LEMMA PreparedKeeps ==
    ASSUME NormState, Prepared PROVE NormState'
  <1>1. /\ pc = "preflight" /\ Finished /\ pc' = "change" /\ index' = 1
        /\ UNCHANGED <<held, lost, interrupted, late, reported, authority, tracked, named, off, wasOff, relinked, rewritten,
                       meddled, visible, expected, drifted, mutated, chmodded, calm>>
    BY DEF Prepared, At, Go, nameVars, noteVars, treeVars
  <1>2. Shape' /\ EarlyClean'
    BY <1>1 DEF NormState, Shape, EarlyClean, Early
  <1>3. HeldKnown' /\ Listing' /\ LastLook'
    BY <1>1, ListingKept DEF NormState, HeldKnown, LastLook, Early
  <1>4. Known'
    <2>1. \A i \in 1 .. 4 : i < index
      BY <1>1, PathIs DEF NormState, Shape
    <2>2. \A p \in Tracked : AsDeclared(p)
      BY <1>1, <2>1, PlacesOf DEF NormState, Shape, Known, Corpus
    <2> QED BY <1>1, <2>2 DEF Known, AsDeclared, Early
  <1> QED BY <1>1, <1>2, <1>3, <1>4 DEF NormState, NormPoints, Early

\* The steps of the transaction that change nothing the invariant speaks of but the step reached.
LEMMA SteppingKeeps ==
    ASSUME NormState, Skip \/ Undone \/ NormalizingFails PROVE NormState'
  <1>1. /\ UNCHANGED <<held, lost, interrupted, late, reported, authority, tracked, named, off, wasOff, relinked, rewritten,
                       meddled, visible, expected, drifted, mutated, chmodded, calm>>
        /\ \/ pc = "change" /\ pc' = "change" /\ index' = index + 1
           \/ pc = "undo" /\ pc' = "unchanged" /\ index' = index /\ mutated = <<>>
           \/ pc \in Early /\ pc' = "unchanged" /\ index' = index
           \/ pc \in {"change", "chmod", "verify"} /\ pc' = "undo" /\ index' = index
    BY DEF Skip, Undone, NormalizingFails, At, Go, nameVars, noteVars, treeVars, modeVars, workVars,
       Early
  <1>2. Shape'
    BY <1>1 DEF NormState, Shape
  <1>3. EarlyClean' /\ HeldKnown' /\ Listing'
    BY <1>1, ListingKept DEF NormState, EarlyClean, HeldKnown, Early
  <1>4. Known' /\ LastLook'
    BY <1>1 DEF NormState, Known, LastLook, AsDeclared, Early
  <1> QED BY <1>1, <1>2, <1>3, <1>4 DEF NormState, NormPoints, Early

LEMMA OpenPathKeeps ==
    ASSUME NormState, OpenPath PROVE NormState'
  <1>1. /\ pc = "change" /\ ~Finished /\ Path \in drifted
        /\ \/ pc' = "chmod" /\ Opens(Path) /\ held' = Found(Path)
           \/ pc' = "undo" /\ held' = held
        /\ UNCHANGED <<lost, interrupted, late, reported, authority, tracked, named, off, wasOff, relinked, rewritten, meddled,
                       visible, expected, drifted, index, mutated, chmodded, calm>>
    BY DEF OpenPath, At, Go, nameVars, noteVars, treeVars, modeVars, workVars
  <1>2. Shape' /\ EarlyClean' /\ Listing'
    BY <1>1, ListingKept DEF NormState, Shape, EarlyClean, Early
  <1>3. Known' /\ LastLook'
    BY <1>1 DEF NormState, Known, LastLook, AsDeclared, Early
  <1>4. HeldKnown'
    <2>1. Opens(Path) => Found(Path) \in {expected[Path], "recycled"}
      BY DEF Opens, SameIdentity, SameNumbers
    <2>2. Path \in Corpus /\ (expected[Path] \in Tree \ meddled => expected[Path] \in wasOff)
      BY <1>1 DEF NormState, HeldKnown
    <2>3. pc' = "chmod" => /\ held' \in {expected[p] : p \in Corpus} \cup {"recycled"}
                           /\ held' \in Tree \ meddled => held' \in wasOff
      BY <1>1, <2>1, <2>2 DEF Tree, Folders, Tracked
    <2> QED BY <1>1, <2>3 DEF NormState, HeldKnown
  <1> QED BY <1>1, <1>2, <1>3, <1>4 DEF NormState, NormPoints, Early

LEMMA ChmodKeeps ==
    ASSUME NormState, Chmod PROVE NormState'
  <1>1. /\ pc = "chmod" /\ pc' = "record" /\ off' = off \ {held} /\ chmodded' = chmodded \cup {held}
        /\ UNCHANGED <<held, lost, interrupted, late, reported, authority, tracked, named, wasOff, relinked, rewritten, meddled,
                       visible, expected, drifted, index, mutated, calm>>
    BY DEF Chmod, At, Go, nameVars, noteVars
  <1>2. Shape' /\ EarlyClean' /\ Known' /\ LastLook'
    BY <1>1 DEF NormState, Shape, EarlyClean, Known, LastLook, AsDeclared, Early
  <1>3. HeldKnown'
    BY <1>1 DEF NormState, HeldKnown
  <1>4. Listing'
    BY <1>1 DEF NormState, HeldKnown, Listing
  <1> QED BY <1>1, <1>2, <1>3, <1>4 DEF NormState, NormPoints, Early

\* A list with one more at its head, or one fewer.
LEMMA ListOfOneMore ==
    ASSUME NEW S, NEW s \in Seq(S), NEW h \in S
    PROVE  /\ <<h>> \o s \in Seq(S)
           /\ \A o : (\E i \in 1 .. Len(<<h>> \o s) : (<<h>> \o s)[i] = o)
                        <=> o = h \/ \E i \in 1 .. Len(s) : s[i] = o
  <1>1. <<h>> \in Seq(S) /\ Len(<<h>>) = 1 /\ <<h>>[1] = h
    OBVIOUS
  <1>2. DEFINE w == <<h>> \o s
  <1>3. /\ w \in Seq(S) /\ Len(w) = 1 + Len(s) /\ Len(s) \in Nat
        /\ \A i \in 1 .. 1 + Len(s) : w[i] = IF i <= 1 THEN h ELSE s[i - 1]
    <2>1. /\ w \in Seq(S) /\ Len(w) = Len(<<h>>) + Len(s)
          /\ \A i \in 1 .. Len(<<h>>) + Len(s) : w[i] = IF i <= Len(<<h>>) THEN <<h>>[i] ELSE s[i - Len(<<h>>)]
      BY <1>1, ConcatProperties, Zenon
    <2>2. Len(s) \in Nat
      BY LenProperties
    <2> QED BY <1>1, <2>1, <2>2
  <1> HIDE DEF w
  <1>4. w[1] = h /\ \A i \in 1 .. Len(s) : w[i + 1] = s[i]
    BY <1>3
  <1>5. ASSUME NEW o, \E i \in 1 .. Len(w) : w[i] = o PROVE o = h \/ \E i \in 1 .. Len(s) : s[i] = o
    <2>1. PICK i \in 1 .. Len(w) : w[i] = o
      BY <1>5
    <2>2. CASE i = 1
      BY <1>4, <2>1, <2>2
    <2>3. CASE i # 1
      <3>1. i - 1 \in 1 .. Len(s) /\ s[i - 1] = o
        BY <1>3, <2>1, <2>3
      <3> QED BY <3>1
    <2> QED BY <2>2, <2>3
  <1>6. ASSUME NEW o, o = h \/ \E i \in 1 .. Len(s) : s[i] = o PROVE \E i \in 1 .. Len(w) : w[i] = o
    <2>1. CASE o = h
      <3>1. 1 \in 1 .. Len(w) /\ w[1] = o
        BY <1>3, <1>4, <2>1
      <3> QED BY <3>1
    <2>2. ASSUME NEW i \in 1 .. Len(s), s[i] = o PROVE \E j \in 1 .. Len(w) : w[j] = o
      <3>1. i + 1 \in 1 .. Len(w) /\ w[i + 1] = o
        BY <1>3, <1>4, <2>2
      <3> QED BY <3>1
    <2> QED BY <1>6, <2>1, <2>2
  <1> QED BY <1>3, <1>5, <1>6 DEF w

LEMMA ListOfOneFewer ==
    ASSUME NEW S, NEW s \in Seq(S), s # <<>>
    PROVE  /\ Tail(s) \in Seq(S) /\ Head(s) \in S
           /\ \A o : (\E i \in 1 .. Len(s) : s[i] = o)
                        <=> o = Head(s) \/ \E i \in 1 .. Len(Tail(s)) : Tail(s)[i] = o
  <1>1. /\ Head(s) \in S /\ Tail(s) \in Seq(S) /\ Len(Tail(s)) = Len(s) - 1 /\ Len(s) \in Nat /\ Len(s) > 0
        /\ Head(s) = s[1] /\ \A i \in 1 .. Len(s) - 1 : Tail(s)[i] = s[i + 1]
    BY HeadTailProperties, LenProperties, EmptySeq
  <1>2. ASSUME NEW o, NEW i \in 1 .. Len(s), s[i] = o
        PROVE  o = Head(s) \/ \E j \in 1 .. Len(Tail(s)) : Tail(s)[j] = o
    <2>1. CASE i = 1
      BY <1>1, <1>2, <2>1
    <2>2. CASE i # 1
      <3>1. i - 1 \in 1 .. Len(Tail(s)) /\ Tail(s)[i - 1] = o
        BY <1>1, <1>2, <2>2
      <3> QED BY <3>1
    <2> QED BY <2>1, <2>2
  <1>3. ASSUME NEW o, o = Head(s) \/ \E j \in 1 .. Len(Tail(s)) : Tail(s)[j] = o
        PROVE  \E i \in 1 .. Len(s) : s[i] = o
    <2>1. CASE o = Head(s)
      BY <1>1, <2>1
    <2>2. ASSUME NEW j \in 1 .. Len(Tail(s)), Tail(s)[j] = o PROVE \E i \in 1 .. Len(s) : s[i] = o
      <3>1. j + 1 \in 1 .. Len(s) /\ s[j + 1] = o
        BY <1>1, <2>2
      <3> QED BY <3>1
    <2> QED BY <1>3, <2>1, <2>2
  <1> QED BY <1>1, <1>2, <1>3

LEMMA RecordMutationKeeps ==
    ASSUME NormState, RecordMutation PROVE NormState'
  <1>1. /\ pc = "record" /\ pc' = "change" /\ mutated' = <<held>> \o mutated /\ index' = index + 1
        /\ UNCHANGED <<held, lost, interrupted, late, reported, authority, tracked, named, off, wasOff, relinked, rewritten,
                       meddled, visible, expected, drifted, chmodded, calm>>
    BY DEF RecordMutation, At, Go, nameVars, noteVars, treeVars
  <1>2. Shape' /\ EarlyClean' /\ HeldKnown' /\ Known' /\ LastLook'
    BY <1>1 DEF NormState, Shape, EarlyClean, HeldKnown, Known, LastLook, AsDeclared, Early
  <1>3. Listing'
    <2>1. held \in Tree \cup {None, "recycled", "stranger"}
      BY <1>1 DEF NormState, HeldKnown, Shape, Corpus, Tree
    <2>2. /\ mutated' \in Seq(Tree \cup {None, "recycled", "stranger"})
          /\ \A o : (\E i \in 1 .. Len(mutated') : mutated'[i] = o)
                       <=> o = held \/ \E i \in 1 .. Len(mutated) : mutated[i] = o
      BY <1>1, <2>1, ListOfOneMore DEF NormState, Listing
    <2> QED BY <1>1, <2>2 DEF NormState, Listing
  <1> QED BY <1>1, <1>2, <1>3 DEF NormState, NormPoints, Early

LEMMA ChangedKeeps ==
    ASSUME NormState, Changed PROVE NormState'
  <1>1. /\ pc = "change" /\ pc' = "verify" /\ index' = 1 /\ calm' = TRUE
        /\ UNCHANGED <<held, lost, interrupted, late, reported, authority, tracked, named, off, wasOff, relinked, rewritten,
                       meddled, visible, expected, drifted, mutated, chmodded>>
    BY DEF Changed, At, Go, nameVars, noteVars, treeVars
  <1>2. Shape' /\ EarlyClean' /\ HeldKnown' /\ Known'
    BY <1>1 DEF NormState, Shape, EarlyClean, HeldKnown, Known, AsDeclared, Early
  <1>3. Listing' /\ LastLook'
    BY <1>1, ListingKept DEF NormState, LastLook
  <1> QED BY <1>1, <1>2, <1>3 DEF NormState, NormPoints, Early

LEMMA VerifyKeeps ==
    ASSUME NormState, Verify PROVE NormState'
  <1>1. /\ pc = "verify" /\ ~Finished
        /\ \/ pc' = "verify" /\ index' = index + 1 /\ Looked(Path)
           \/ pc' = "undo" /\ index' = index
        /\ UNCHANGED <<held, lost, interrupted, late, reported, authority, tracked, named, off, wasOff, relinked, rewritten,
                       meddled, visible, expected, drifted, mutated, chmodded, calm>>
    BY DEF Verify, At, Go, nameVars, noteVars, treeVars, Opens, Looked
  <1>2. Shape' /\ EarlyClean' /\ HeldKnown' /\ Known'
    BY <1>1 DEF NormState, Shape, EarlyClean, HeldKnown, Known, AsDeclared, Early
  <1>3. Listing'
    BY <1>1, ListingKept DEF NormState
  <1>4. LastLook'
    <2>1. SUFFICES ASSUME pc' = "verify", calm, NEW i \in 1 .. 4, i < index' PROVE Looked(Order[i])'
      BY <1>1 DEF LastLook
    <2>2. Order' = Order
      BY <1>1, <2>1, SameOrder
    <2>3. i < index \/ i = index
      BY <1>1, <2>1 DEF NormState, Shape
    <2>4. Looked(Order[i])
      BY <1>1, <2>1, <2>3 DEF NormState, LastLook, Path
    <2>6. UNCHANGED <<authority, named, off, relinked, rewritten, expected>>
      BY <1>1
    <2> QED BY <2>2, <2>4, <2>6 DEF Looked, SameIdentity, SameNumbers, Canonical, Found
  <1> QED BY <1>1, <1>2, <1>3, <1>4 DEF NormState, NormPoints, Early

LEMMA StillBoundKeeps ==
    ASSUME NormState, StillBound PROVE NormState'
  <1>1. /\ pc = "verify" /\ Finished
        /\ \/ pc' = "normalized" /\ visible
           \/ pc' = "undo"
        /\ UNCHANGED <<held, lost, interrupted, late, reported, authority, tracked, named, off, wasOff, relinked, rewritten,
                       meddled, visible, expected, drifted, index, mutated, chmodded, calm>>
    BY DEF StillBound, At, Go, nameVars, noteVars, treeVars, modeVars, workVars
  <1>2. Shape' /\ EarlyClean' /\ HeldKnown' /\ Known'
    BY <1>1 DEF NormState, Shape, EarlyClean, HeldKnown, Known, AsDeclared, Early
  <1>3. Listing'
    BY <1>1, ListingKept DEF NormState
  <1>4. LastLook'
    <2>1. SUFFICES ASSUME pc' = "normalized", calm, NEW p \in Corpus PROVE visible' /\ Looked(p)'
      BY <1>1 DEF LastLook
    <2>2. PICK i \in 1 .. 4 : Order[i] = p
      BY PlacesOf DEF NormState, Shape
    <2>3. i < index
      BY <1>1, PathIs DEF NormState, Shape
    <2>4. Looked(p)
      BY <1>1, <2>1, <2>2, <2>3 DEF NormState, LastLook
    <2>5. UNCHANGED <<authority, named, off, relinked, rewritten, expected>> /\ p \in Tree
      BY <1>1 DEF Corpus, Tree
    <2> QED BY <1>1, <2>1, <2>4, <2>5, SameAnswers
  <1> QED BY <1>1, <1>2, <1>3, <1>4 DEF NormState, NormPoints, Early

LEMMA UndoKeeps ==
    ASSUME NormState, Undo PROVE NormState'
  <1>1. /\ pc = "undo" /\ pc' = "undo" /\ mutated # <<>> /\ mutated' = Tail(mutated)
        /\ \/ off' = off \cup {Head(mutated)} /\ reported' = reported
           \/ reported' = TRUE /\ off' = off
        /\ UNCHANGED <<held, lost, interrupted, late, authority, tracked, named, wasOff, relinked, rewritten, meddled, visible,
                       expected, drifted, index, chmodded, calm>>
    BY DEF Undo, At, nameVars
  <1>2. Shape'
    BY <1>1 DEF NormState, Shape, At
  <1>4. EarlyClean' /\ HeldKnown'
    BY <1>1 DEF NormState, EarlyClean, HeldKnown, Early
  <1>5. Known' /\ LastLook'
    BY <1>1 DEF NormState, Known, LastLook, AsDeclared, Early
  <1>3. Listing'
    <2>1. /\ mutated' \in Seq(Tree \cup {None, "recycled", "stranger"})
          /\ \A o : (\E i \in 1 .. Len(mutated) : mutated[i] = o)
                       <=> o = Head(mutated) \/ \E i \in 1 .. Len(mutated') : mutated'[i] = o
      BY <1>1, ListOfOneFewer DEF NormState, Listing
    <2> QED BY <1>1, <2>1 DEF NormState, Listing
  <1> QED BY <1>1, <1>2, <1>3, <1>4, <1>5 DEF NormState, NormPoints, Early

LEMMA InterruptNormalizingKeeps ==
    ASSUME NormState, InterruptNormalizing PROVE NormState'
  <1>1. /\ ~interrupted /\ interrupted' = TRUE
        /\ \/ pc \in Early /\ pc' = "unchanged" /\ late' = late /\ reported' = reported /\ mutated' = mutated
           \/ /\ pc \in {"change", "chmod", "record", "verify"} /\ pc' = "undo" /\ late' = At("record")
              /\ reported' = reported /\ mutated' = mutated
           \/ /\ pc = "undo" /\ pc' = "undo" /\ mutated # <<>> /\ mutated' = Tail(mutated) /\ reported' = TRUE
              /\ late' = late
           \/ pc = "undo" /\ pc' = "unchanged" /\ late' = TRUE /\ mutated' = mutated /\ reported' = reported
        /\ UNCHANGED <<held, lost, authority, tracked, named, off, wasOff, relinked, rewritten, meddled, visible,
                       expected, drifted, index, chmodded, calm>>
    BY DEF InterruptNormalizing, At, Go, nameVars, treeVars, Early
  <1>2. Shape'
    BY <1>1 DEF NormState, Shape, At
  <1>4. EarlyClean' /\ HeldKnown'
    BY <1>1 DEF NormState, EarlyClean, HeldKnown, Early
  <1>5. Known' /\ LastLook'
    BY <1>1 DEF NormState, Known, LastLook, AsDeclared, Early
  <1>3. Listing'
    <2>1. mutated' \in Seq(Tree \cup {None, "recycled", "stranger"})
      BY <1>1, ListOfOneFewer DEF NormState, Listing
    <2>2. ~reported' /\ ~late' =>
            ~reported /\ ~late /\ pc # "record" /\ pc' # "record" /\ mutated' = mutated
      BY <1>1 DEF NormState, Shape, At, Early
    <2> QED BY <1>1, <2>1, <2>2 DEF NormState, Listing
  <1> QED BY <1>1, <1>2, <1>3, <1>4, <1>5 DEF NormState, NormPoints, Early

\* What others may make of the names.
OnlyRenamed ==
  /\ named' = [p \in Tree |-> named'[p]]
  /\ \A p \in Tree : /\ named'[p] \in {named[p], p, None, "stranger", "recycled"}
                     /\ authority = "corpus" => named'[p] \in {named[p], p, None, "stranger"}

LEMMA OthersRenameWithin ==
    ASSUME named = [p \in Tree |-> named[p]], OthersRename \/ OthersRecycle PROVE OnlyRenamed
  <1>1. ASSUME NEW p \in Tree, NEW o \in {None, p}, Renames(p, o)
        PROVE  /\ named' = [q \in Tree |-> named'[q]]
               /\ \A q \in Tree : named'[q] \in {named[q], q, None, "stranger"}
    BY <1>1 DEF Renames
  <1>2. ASSUME NEW p \in Tree, named' = [q \in Tree |-> IF q = p THEN "stranger"
                                               ELSE IF named[q] = "stranger" THEN None ELSE named[q]]
        PROVE  /\ named' = [q \in Tree |-> named'[q]]
               /\ \A q \in Tree : named'[q] \in {named[q], q, None, "stranger"}
    BY <1>2
  <1>3. ASSUME NEW p \in Tracked, authority # "corpus", Renames(p, "recycled")
        PROVE  /\ named' = [q \in Tree |-> named'[q]]
               /\ \A q \in Tree : named'[q] \in {named[q], "recycled"}
    BY <1>3 DEF Renames
  <1>4. CASE OthersRename
    <2>1. PICK p \in Tree : \/ Renames(p, None)
                            \/ Renames(p, p)
                            \/ named' = [q \in Tree |-> IF q = p THEN "stranger"
                                               ELSE IF named[q] = "stranger" THEN None ELSE named[q]]
      BY <1>4 DEF OthersRename
    <2>2. CASE Renames(p, None) \/ Renames(p, p)
      BY <1>1, <2>2 DEF OnlyRenamed
    <2> QED BY <1>2, <2>1, <2>2 DEF OnlyRenamed
  <1>5. CASE OthersRecycle
    <2>1. PICK p \in Tracked : authority # "corpus" /\ Renames(p, "recycled")
      BY <1>5 DEF OthersRecycle
    <2> QED BY <1>3, <2>1 DEF OnlyRenamed
  <1> QED BY <1>4, <1>5

\* Whose mode others change is known.
LEMMA OthersMeddle ==
    ASSUME OthersTouchTree
    PROVE  /\ meddled \subseteq meddled' /\ meddled' \subseteq meddled \cup Corpus
           /\ \A o : o \notin meddled' => (o \in off' <=> o \in off)
           /\ \/ OthersRename \/ OthersRecycle
              \/ named' = named
           /\ calm' = FALSE
           /\ UNCHANGED <<pc, held, lost, interrupted, late, reported, authority, tracked, wasOff, expected, drifted,
                          index, mutated, chmodded>>
  <1>1. ASSUME NEW o \in Folders \cup Tracked, off' = (off \ {o}) \cup ({o} \ off), meddled' = meddled \cup {o}
        PROVE  /\ meddled \subseteq meddled' /\ meddled' \subseteq meddled \cup Corpus
               /\ \A q : q \notin meddled' => (q \in off' <=> q \in off)
    BY <1>1 DEF Corpus
  <1>2. ASSUME UNCHANGED <<off, meddled>>
        PROVE  /\ meddled \subseteq meddled' /\ meddled' \subseteq meddled \cup Corpus
               /\ \A q : q \notin meddled' => (q \in off' <=> q \in off)
    BY <1>2
  <1>3. \/ UNCHANGED <<off, meddled>>
        \/ \E o \in Folders \cup Tracked : off' = (off \ {o}) \cup ({o} \ off) /\ meddled' = meddled \cup {o}
    BY DEF OthersTouchTree
  <1>4. named' = named \/ OthersRename \/ OthersRecycle
    BY DEF OthersTouchTree
  <1>5. calm' = FALSE /\ UNCHANGED <<pc, held, lost, interrupted, late, reported, authority, tracked, wasOff,
                                     expected, drifted, index, mutated, chmodded>>
    BY DEF OthersTouchTree, nameVars
  <1> QED BY <1>1, <1>2, <1>3, <1>4, <1>5

LEMMA OthersOnNormalizing ==
    ASSUME NormState, OthersTouchTree PROVE NormState'
  <1>1. Shape'
    <2>1. named' = [p \in Tree |-> named'[p]] /\ \A p \in Tree : named'[p] \in {p, None, "recycled", "stranger"}
      <3>1. named = [p \in Tree |-> named[p]] /\ \A p \in Tree : named[p] \in {p, None, "recycled", "stranger"}
        BY DEF NormState, Shape
      <3>2. CASE OthersRename \/ OthersRecycle
        <4>1. OnlyRenamed
          BY <3>1, <3>2, OthersRenameWithin
        <4> QED BY <3>1, <4>1 DEF OnlyRenamed
      <3>3. CASE named' = named
        BY <3>1, <3>3
      <3> QED BY <3>2, <3>3, OthersMeddle
    <2> QED BY <2>1, OthersMeddle DEF NormState, Shape
  <1>2. Order' = Order
    BY OthersMeddle, SameOrder
  <1>3. EarlyClean' /\ Known' /\ LastLook'
    BY <1>2, OthersMeddle DEF NormState, EarlyClean, Known, LastLook, AsDeclared
  <1>4. HeldKnown'
    BY OthersMeddle DEF NormState, HeldKnown
  <1>5. Listing'
    BY OthersMeddle DEF NormState, Listing
  <1> QED BY <1>1, <1>3, <1>4, <1>5, OthersMeddle DEF NormState

LEMMA NormalizeSteps ==
    ASSUME tool' = "normalize", [Next]_custodySpace
    PROVE  /\ tool' = tool
           /\ NormalizeStep \/ InterruptNormalizing \/ OthersTouchTree
                \/ UNCHANGED <<pc, nameVars, noteVars, modeVars>>
  BY DEF Next, custodySpace, ToolStep, Recovers, Attests, Removes, Normalizes, Repairs, Interrupt,
     allModes,
         Others, OthersOnNames, OthersOnTree, OthersOnDelivery, OthersInside, OthersOnModes, OnNames, AtEnd,
         OthersTouchCorpus

LEMMA NormalizeStart ==
    ASSUME Init, tool = "normalize" PROVE NormState
  <1>1. /\ pc = "records" /\ authority \in {"index", "manifest"} /\ tracked = Tracked /\ lost = {}
        /\ interrupted = FALSE /\ late = FALSE /\ reported = FALSE /\ calm = FALSE
        /\ named = [p \in Tree |-> IF p = "stray" /\ authority = "corpus" THEN None ELSE p]
        /\ off = wasOff /\ expected = [p \in Tree |-> None] /\ drifted = {} /\ index = 1
        /\ mutated = <<>> /\ chmodded = {}
    BY DEF Init, Begins, NamesInit, ModesInit
  <1>2. Shape
    <2>1. named = [p \in Tree |-> named[p]] /\ \A p \in Tree : named[p] \in {p, None, "recycled", "stranger"}
      BY <1>1
    <2>2. expected \in [Tree -> Tree \cup {None, "recycled", "stranger"}]
      BY <1>1
    <2>3. reported \in BOOLEAN /\ late \in BOOLEAN /\ calm \in BOOLEAN /\ (late => interrupted)
      BY <1>1
    <2> QED BY <1>1, <2>1, <2>2, <2>3 DEF Shape
  <1>3. EarlyClean /\ HeldKnown /\ Known /\ LastLook
    BY <1>1 DEF EarlyClean, HeldKnown, Known, LastLook, Early
  <1>4. Listing
    BY <1>1, EmptySeq DEF Listing
  <1> QED BY <1>1, <1>2, <1>3, <1>4 DEF NormState, NormPoints, Early

(***************************************************************************)
(* What is known of the modes of the tracked paths being made canonical.   *)
(***************************************************************************)
LEMMA NormalizeInvariant == Spec => []NormInv
  <1>1. Init => NormInv
    BY NormalizeStart DEF NormInv
  <1>2. NormInv /\ [Next]_custodySpace => NormInv'
    <2>1. SUFFICES ASSUME NormInv, [Next]_custodySpace, tool' = "normalize" PROVE NormState'
      BY DEF NormInv
    <2>2. NormState
      BY <2>1, NormalizeSteps DEF NormInv
    <2>3. CASE NormalizeStep
      BY <2>2, <2>3, ReadRecordsKeeps, ReboundKeeps, PreflightKeeps, PreparedKeeps, SteppingKeeps,
         OpenPathKeeps,
         ChmodKeeps, RecordMutationKeeps, ChangedKeeps, VerifyKeeps, StillBoundKeeps, UndoKeeps DEF NormalizeStep
    <2>4. CASE UNCHANGED <<pc, nameVars, noteVars, modeVars>>
      <3>1. UNCHANGED <<pc, held, lost, interrupted, late, reported, authority, tracked, named, off, wasOff, relinked,
                        rewritten, meddled, visible, expected, drifted, index, mutated, chmodded, calm>>
        BY <2>4 DEF nameVars, noteVars, modeVars, treeVars, workVars
      <3>2. Order' = Order
        BY <3>1, SameOrder
      <3>3. Shape' /\ EarlyClean' /\ HeldKnown' /\ Listing'
        BY <2>2, <3>1, <3>2 DEF NormState, Shape, EarlyClean, HeldKnown, Listing
      <3>4. Known' /\ LastLook'
        BY <2>2, <3>1, <3>2 DEF NormState, Known, LastLook, AsDeclared, Looked, SameIdentity,
           SameNumbers, Canonical, Found
      <3> QED BY <2>2, <3>1, <3>3, <3>4 DEF NormState
    <2> QED BY <2>1, <2>2, <2>3, <2>4, NormalizeSteps, InterruptNormalizingKeeps, OthersOnNormalizing
  <1> QED BY <1>1, <1>2, PTL DEF Spec

\* What that says of its end.
LEMMA NormalizedByInv ==
    ASSUME NormInv, tool = "normalize"
    PROVE  pc \in NormPoints /\ lost = {} /\ ForeignPreserved /\ ModesRestored /\ ModesNormalized
  <1>1. NormState
    BY DEF NormInv
  <1>2. ForeignPreserved
    BY <1>1 DEF NormState, Shape, HeldKnown, ForeignPreserved
  <1>3. ModesRestored
    BY <1>1 DEF NormState, EarlyClean, Listing, ModesRestored
  <1>4. ModesNormalized
    <2>1. pc # "repaired"
      BY <1>1 DEF NormState, NormPoints, Early
    <2>2. SUFFICES ASSUME pc = "normalized", calm
                   PROVE  /\ visible
                          /\ \A p \in Corpus : SameIdentity(p) /\ Canonical(p)
                          /\ authority # "index" => \A p \in Tracked : named[p] = p /\ p \notin rewritten
      BY <2>1 DEF ModesNormalized
    <2>3. visible /\ \A p \in Corpus : Looked(p)
      BY <1>1, <2>2 DEF NormState, LastLook
    <2>4. ASSUME NEW p \in Tracked, authority # "index" PROVE named[p] = p /\ p \notin rewritten
      <3>1. authority = "manifest" /\ p \in Corpus /\ p # None
        BY <1>1, <2>4 DEF NormState, Corpus, Tracked, None
      <3>2. expected[p] = p
        BY <1>1, <2>2, <3>1 DEF NormState, Known, AsDeclared, Early
      <3>3. Found(p) = p /\ p \notin rewritten
        BY <2>3, <3>1, <3>2 DEF Looked
      <3> QED BY <3>1, <3>3 DEF Found
    <2> QED BY <2>3, <2>4 DEF Looked
  <1> QED BY <1>1, <1>2, <1>3, <1>4 DEF NormState, Shape
-----------------------------------------------------------------------------
(* build-provisional-corpus.py --repair-modes.                             *)

RepairPoints ==
  {"retain root", "retain", "snapshot", "authenticate", "barrier", "barrier taken", "change member", "change taken",
   "mask", "restore", "unchanged", "repaired"}

RepairShape ==
  /\ tracked = Tracked /\ lost = {} /\ index \in Nat
  /\ reported \in BOOLEAN /\ late \in BOOLEAN /\ calm \in BOOLEAN
  /\ boundary \in {"semantic", "mutation", "success", "return"}
  /\ named = [p \in Tree |-> named[p]]
  /\ \A p \in Tree : named[p] \in {p, None, "stranger"}
  /\ pc \notin {"restore", "unchanged"} => index > 0
  /\ pc = "restore" => index <= 4

RepairPlaces ==
  /\ pc \in {"retain root", "retain"} => ~Started
  /\ pc \in {"barrier", "barrier taken"} => boundary = "mutation"
  /\ pc \in {"change member", "change taken"} => boundary = "success"
  /\ pc \in {"mask", "restore"} => Started
  /\ pc = "repaired" => boundary = "return"

Restored ==
  pc = "unchanged" /\ ~late /\ ~reported /\ Started => \A p \in Corpus : p \in off <=> p \in drifted

\* What is held open is what the names led to at first.
Retained ==
  /\ pc = "snapshot" => \A p \in Folders : expected[p] = p
  /\ pc \notin {"retain root", "retain", "snapshot", "unchanged"} \/ Started => \A p \in Corpus : expected[p] = p

\* The modes noted at first are those to go back to, where others keep off them.
Witnessed ==
  /\ meddled \subseteq Corpus /\ drifted \subseteq Corpus
  /\ "stray" \in off <=> "stray" \in wasOff
  /\ pc = "retain" /\ "top" \notin meddled => ("top" \in drifted <=> "top" \in wasOff)
  /\ pc \notin {"retain root", "retain", "unchanged"} \/ Started =>
       \A p \in Corpus \ meddled : expected[p] = p => (p \in drifted <=> p \in wasOff)
  /\ ~Started => chmodded = {} /\ \A o \in Tree \ meddled : o \in off <=> o \in wasOff
  /\ chmodded \subseteq Corpus

\* How far the last authentication has come.
Stood ==
  /\ pc = "authenticate" /\ boundary = "return" =>
       \A i \in 1 .. 4, p \in Corpus : i < index /\ Order[i] = p => p \notin stale /\ (calm => MemberStands(p))
  /\ pc = "repaired" => \A p \in Corpus : p \notin stale /\ (calm => MemberStands(p))

RepairState ==
  /\ pc \in RepairPoints /\ authority = "corpus"
  /\ RepairShape /\ RepairPlaces /\ Restored /\ Retained /\ Witnessed /\ Stood

RepairInv == tool = "repair" => RepairState

LEMMA SameMembers ==
    ASSUME UNCHANGED <<named, off, relinked, rewritten, visible, stale, expected, drifted, boundary>>
    PROVE  \A p \in Corpus : MemberStands(p)' = MemberStands(p)
  BY DEF MemberStands, TreeStands, Membership, Expected, Started, Found

LEMMA RetainRootKeeps ==
    ASSUME RepairState, RetainRoot PROVE RepairState'
  <1>1. /\ pc = "retain root" /\ pc' = "retain" /\ drifted' = off \cap {"top"} /\ stale' = {}
        /\ UNCHANGED <<lost, late, reported, authority, tracked, named, off, wasOff, meddled, index, chmodded, calm,
                       boundary>>
    BY DEF RetainRoot, At, Go, nameVars, noteVars, treeVars
  <1>2. RepairShape'
    BY <1>1 DEF RepairState, RepairShape
  <1>3. RepairPlaces'
    BY <1>1 DEF RepairState, RepairPlaces, Started, RepairShape
  <1>4. Restored'
    BY <1>1 DEF RepairState, RepairShape, RepairPlaces, Restored, Started
  <1>5. Retained' /\ Stood'
    BY <1>1 DEF RepairState, RepairShape, RepairPlaces, Retained, Stood, Started
  <1>6. Witnessed'
    BY <1>1 DEF RepairState, RepairShape, RepairPlaces, Witnessed, Started, Corpus, Folders, Tree
  <1> QED BY <1>1, <1>2, <1>3, <1>4, <1>5, <1>6 DEF RepairState, RepairPoints

LEMMA RetainMembersKeeps ==
    ASSUME RepairState, RetainMembers PROVE RepairState'
  <1>1. /\ pc = "retain"
        /\ \/ pc' = "snapshot" /\ Membership /\ expected' = [p \in Tree |-> Found(p)]
              /\ drifted' = (drifted \cap {"top"}) \cup {p \in Corpus \ {"top"} : ~Canonical(p)}
           \/ pc' = "unchanged" /\ drifted' = drifted
        /\ UNCHANGED <<lost, late, reported, authority, tracked, named, off, wasOff, meddled, index, chmodded, calm,
                       boundary>>
    BY DEF RetainMembers, At, Go, nameVars, noteVars, treeVars
  <1>2. RepairShape'
    BY <1>1 DEF RepairState, RepairShape
  <1>3. RepairPlaces'
    BY <1>1 DEF RepairState, RepairPlaces, Started
  <1>4. Stood'
    BY <1>1 DEF RepairState, RepairPlaces, Stood, Started
  <1>5. Restored'
    BY <1>1 DEF RepairState, RepairShape, RepairPlaces, Restored, Started
  <1>6. Retained'
    <2>1. SUFFICES ASSUME pc' = "snapshot" PROVE \A p \in Folders : expected'[p] = p
      BY <1>1 DEF RepairState, RepairShape, RepairPlaces, Retained, Started
    <2>2. named["top"] = "top" /\ named["dir"] = "dir"
      <3>1. Found("deep") # None
        BY <1>1, <2>1 DEF Membership, Corpus, Tree, Folders, Tracked
      <3> QED BY <3>1 DEF Found, FoldersOn, Folders
    <2>3. Found("top") = "top" /\ Found("dir") = "dir"
      BY <2>2 DEF Found, FoldersOn
    <2> QED BY <1>1, <2>1, <2>3 DEF Folders, Tree
  <1>7. Witnessed'
    <2>1. pc' = "snapshot" => \A p \in Corpus \ meddled : expected'[p] = p => (p \in drifted' <=> p \in wasOff)
      <3>1. SUFFICES ASSUME pc' = "snapshot", NEW p \in Corpus \ meddled, expected'[p] = p
                     PROVE  p \in drifted' <=> p \in wasOff
        OBVIOUS
      <3>2. CASE p = "top"
        BY <1>1, <3>1, <3>2 DEF RepairState, Witnessed
      <3>3. CASE p # "top"
        <4>1. p \in drifted' <=> Found(p) \in off
          BY <1>1, <3>1, <3>3 DEF Canonical
        <4>2. p \in Tree /\ Found(p) = p
          BY <1>1, <3>1 DEF Corpus, Tree
        <4> QED BY <1>1, <4>1, <4>2 DEF RepairState, RepairShape, RepairPlaces, Witnessed
      <3> QED BY <3>2, <3>3
    <2>2. drifted' \subseteq Corpus
      BY <1>1 DEF RepairState, Witnessed, Corpus
    <2> QED BY <1>1, <2>1, <2>2 DEF RepairState, RepairShape, RepairPlaces, Witnessed, Started
  <1> QED BY <1>1, <1>2, <1>3, <1>4, <1>5, <1>6, <1>7 DEF RepairState, RepairPoints

LEMMA SnapshotKeeps ==
    ASSUME RepairState, Snapshot PROVE RepairState'
  <1>1. /\ pc = "snapshot" /\ index' = 1 /\ calm' = TRUE
        /\ \/ pc' = "authenticate" /\ \A p \in Tracked : expected[p] = p
           \/ pc' = "mask" /\ Started
           \/ pc' = "unchanged" /\ ~Started
        /\ UNCHANGED <<lost, late, reported, authority, tracked, named, off, wasOff, relinked, rewritten, meddled,
                       visible, expected, drifted, chmodded, boundary, stale>>
    BY DEF Snapshot, Abandon, At, Go, nameVars, noteVars, treeVars, corpusVars
  <1>2. RepairShape'
    BY <1>1 DEF RepairState, RepairShape
  <1>3. RepairPlaces'
    BY <1>1 DEF RepairState, RepairPlaces, Started
  <1>4. Stood'
    BY <1>1 DEF RepairState, RepairPlaces, Stood, Started
  <1>5. Restored'
    BY <1>1 DEF RepairState, RepairShape, RepairPlaces, Restored, Started
  <1>6. Retained'
    BY <1>1 DEF RepairState, Retained, Started, Corpus
  <1>7. Witnessed'
    BY <1>1 DEF RepairState, Witnessed, Started
  <1> QED BY <1>1, <1>2, <1>3, <1>4, <1>5, <1>6, <1>7 DEF RepairState, RepairPoints

LEMMA AuthenticateKeeps ==
    ASSUME RepairState, Authenticate PROVE RepairState'
  <1>1. /\ pc = "authenticate" /\ ~Finished
        /\ \/ pc' = "authenticate" /\ MemberStands(Path) /\ index' = index + 1
           \/ pc' = "mask" /\ Started /\ index' = index
           \/ pc' = "unchanged" /\ ~Started /\ index' = index
        /\ UNCHANGED <<lost, late, reported, authority, tracked, named, off, wasOff, relinked, rewritten, meddled,
                       visible, expected, drifted, chmodded, calm, boundary, stale>>
    BY DEF Authenticate, Abandon, At, Go, nameVars, noteVars, treeVars, corpusVars
  <1>2. RepairShape'
    BY <1>1 DEF RepairState, RepairShape
  <1>3. RepairPlaces'
    BY <1>1 DEF RepairState, RepairPlaces, Started, RepairShape
  <1>4. Restored'
    BY <1>1 DEF RepairState, RepairShape, RepairPlaces, Restored, Started
  <1>5. Retained' /\ Witnessed'
    BY <1>1 DEF RepairState, Retained, Witnessed, Started
  <1>6. Stood'
    <2>1. SUFFICES ASSUME pc' = "authenticate", boundary = "return", NEW i \in 1 .. 4, NEW p \in Corpus, i < index',
                          Order'[i] = p
                   PROVE  p \notin stale /\ (calm => MemberStands(p)')
      BY <1>1 DEF Stood
    <2>2. Order' = Order
      BY <1>1, <2>1, SameOrder
    <2>3. i < index \/ i = index
      BY <1>1, <2>1 DEF RepairState, RepairShape
    <2>4. p \notin stale /\ (calm => MemberStands(p))
      BY <1>1, <2>1, <2>2, <2>3 DEF RepairState, Stood, Path, MemberStands
    <2> QED BY <1>1, <2>4, SameMembers
  <1> QED BY <1>1, <1>2, <1>3, <1>4, <1>5, <1>6 DEF RepairState, RepairPoints

LEMMA AuthenticatedKeeps ==
    ASSUME RepairState, Authenticated PROVE RepairState'
  <1>1. /\ pc = "authenticate" /\ Finished /\ index' = 1
        /\ UNCHANGED <<lost, late, reported, authority, tracked, named, off, wasOff, relinked, rewritten, meddled,
                       visible, expected, drifted, chmodded, calm, stale>>
    BY DEF Authenticated, At, Go, nameVars, noteVars, treeVars
  <1>2. \/ boundary = "semantic" /\ boundary' = "mutation" /\ pc' = "barrier"
        \/ boundary = "mutation" /\ boundary' = "success" /\ pc' = "change member"
        \/ boundary = "success" /\ boundary' = "return" /\ pc' = "snapshot"
        \/ boundary = "return" /\ boundary' = "return" /\ pc' = "repaired"
    BY DEF RepairState, RepairShape, Authenticated, Go
  <1>3. RepairShape'
    <2>1. boundary' \in {"semantic", "mutation", "success", "return"} /\ pc' \notin {"restore", "unchanged"}
      BY <1>2
    <2> QED BY <1>1, <2>1 DEF RepairState, RepairShape
  <1>4. RepairPlaces'
    BY <1>1, <1>2 DEF RepairState, RepairPlaces, Started, RepairShape
  <1>5. Restored'
    BY <1>1, <1>2 DEF RepairState, RepairShape, RepairPlaces, Restored, Started
  <1>6. Retained' /\ Witnessed'
    BY <1>1, <1>2 DEF RepairState, Retained, Witnessed, Started, Corpus
  <1>7. Stood'
    <2>1. SUFFICES ASSUME pc' = "repaired", NEW p \in Corpus PROVE p \notin stale /\ (calm => MemberStands(p)')
      BY <1>1, <1>2 DEF Stood
    <2>2. PICK i \in 1 .. 4 : Order[i] = p
      BY PlacesOf DEF RepairState, RepairShape
    <2>3. i < index
      BY <1>1, PathIs DEF RepairState, RepairShape
    <2>4. p \notin stale /\ (calm => MemberStands(p)) /\ boundary' = boundary
      BY <1>1, <1>2, <2>1, <2>2, <2>3 DEF RepairState, Stood
    <2> QED BY <1>1, <2>4, SameMembers
  <1> QED BY <1>1, <1>2, <1>3, <1>4, <1>5, <1>6, <1>7 DEF RepairState, RepairPoints

\* The steps that change nothing but the step reached and how far a loop has come.
LEMMA RepairSteppingKeeps ==
    ASSUME RepairState, TakeTime \/ MembersChanged \/ MaskSignals \/ RepairFails PROVE RepairState'
  <1>1. /\ UNCHANGED <<lost, late, reported, authority, tracked, named, off, wasOff, meddled, expected, drifted,
                       chmodded, calm, boundary>>
        /\ \/ pc = "barrier taken" /\ pc' = "authenticate" /\ index' = index
           \/ pc = "change taken" /\ pc' = "change member" /\ index' = index + 1
           \/ pc = "change member" /\ pc' = "authenticate" /\ index' = 1
           \/ pc = "mask" /\ pc' = "restore" /\ index' = Len(Order)
           \/ /\ pc \in {"retain root", "retain", "snapshot", "authenticate", "barrier", "change member"}
              /\ pc' = "mask" /\ Started /\ index' = index
           \/ /\ pc \in {"retain root", "retain", "snapshot", "authenticate", "barrier", "change member"}
              /\ pc' = "unchanged" /\ ~Started /\ index' = index
    BY DEF TakeTime, MembersChanged, MaskSignals, RepairFails, Abandon, At, Go, nameVars, noteVars,
       treeVars,
           modeVars, workVars, corpusVars, allModes
  <1>2. Len(Order) = 4
    BY OrderIs DEF RepairState, RepairShape
  <1>3. index' \in Nat /\ (pc' = "restore" => index' <= 4) /\ (pc' \notin {"restore", "unchanged"} => index' > 0)
    <2>1. index \in Nat /\ (pc \notin {"restore", "unchanged"} => index > 0)
      BY DEF RepairState, RepairShape
    <2>2. /\ index' \in {index, index + 1, 1, 4} /\ (pc' = "restore" => index' = 4)
          /\ pc \notin {"restore", "unchanged"}
      BY <1>1, <1>2
    <2> QED BY <2>1, <2>2
  <1>4. RepairShape'
    BY <1>1, <1>3 DEF RepairState, RepairShape
  <1>5. RepairPlaces'
    BY <1>1 DEF RepairState, RepairPlaces, Started
  <1>6. Restored'
    BY <1>1 DEF Restored, Started
  <1>7. Retained'
    BY <1>1 DEF RepairState, RepairPlaces, Retained, Started
  <1>8. Witnessed'
    BY <1>1 DEF RepairState, RepairPlaces, Witnessed, Started
  <1>9. Stood'
    BY <1>1 DEF RepairState, RepairPlaces, Stood
  <1> QED BY <1>1, <1>4, <1>5, <1>6, <1>7, <1>8, <1>9 DEF RepairState, RepairPoints

LEMMA BarrierKeeps ==
    ASSUME RepairState, Barrier PROVE RepairState'
  <1>1. /\ pc = "barrier" /\ pc' = "barrier taken"
        /\ off' = IF "top" \in drifted THEN off \cup {"top"} ELSE off \ {"top"}
        /\ UNCHANGED <<lost, late, reported, authority, tracked, named, wasOff, meddled, expected, drifted, index,
                       chmodded, calm, boundary>>
    BY DEF Barrier, SetMode, At, Go, nameVars, noteVars, workVars, corpusVars
  <1>2. RepairShape'
    BY <1>1 DEF RepairState, RepairShape
  <1>3. RepairPlaces' /\ Restored' /\ Stood'
    BY <1>1 DEF RepairState, RepairPlaces, Restored, Stood, Started
  <1>4. Retained'
    BY <1>1 DEF RepairState, Retained, Started
  <1>5. Witnessed'
    <2>1. "top" \notin meddled => ("top" \in drifted <=> "top" \in wasOff)
      BY <1>1 DEF RepairState, Retained, Witnessed, Corpus, Folders
    <2>2. \A o \in Tree \ meddled : o \in off' <=> o \in wasOff
      BY <1>1, <2>1 DEF RepairState, RepairPlaces, Witnessed, Started
    <2> QED BY <1>1, <2>2 DEF RepairState, Witnessed, Started
  <1> QED BY <1>1, <1>2, <1>3, <1>4, <1>5 DEF RepairState, RepairPoints

LEMMA ChangeMemberKeeps ==
    ASSUME RepairState, ChangeMember PROVE RepairState'
  <1>1. /\ pc = "change member" /\ ~Finished /\ pc' = "change taken"
        /\ off' = off \ {Path} /\ chmodded' = chmodded \cup {Path}
        /\ UNCHANGED <<lost, late, reported, authority, tracked, named, wasOff, meddled, expected, drifted, index,
                       calm, boundary>>
    BY DEF ChangeMember, SetMode, At, Go, nameVars, noteVars, corpusVars
  <1>2. Path \in Corpus
    BY <1>1, PathIs DEF RepairState, RepairShape
  <1>3. RepairShape'
    BY <1>1 DEF RepairState, RepairShape
  <1>4. RepairPlaces' /\ Restored' /\ Stood'
    BY <1>1 DEF RepairState, RepairPlaces, Restored, Stood, Started
  <1>5. Retained'
    BY <1>1 DEF RepairState, Retained, Started
  <1>6. Witnessed'
    BY <1>1, <1>2 DEF RepairState, RepairPlaces, Witnessed, Started, Corpus, Folders, Tracked
  <1> QED BY <1>1, <1>3, <1>4, <1>5, <1>6 DEF RepairState, RepairPoints

LEMMA RestoreMemberKeeps ==
    ASSUME RepairState, RestoreMember PROVE RepairState'
  <1>1. /\ pc = "restore" /\ pc' = "restore" /\ index > 0 /\ index' = index - 1
        /\ off' \in {off, off \cup {Path}, off \ {Path}} /\ reported' \in {reported, TRUE}
        /\ UNCHANGED <<lost, late, authority, tracked, named, wasOff, meddled, expected, drifted, chmodded, calm,
                       boundary>>
    BY DEF RestoreMember, SetMode, At, nameVars, corpusVars
  <1>2. Path \in Corpus
    BY <1>1, PlacesOf DEF RepairState, RepairShape, Path
  <1>3. RepairShape'
    <2>1. index \in Nat /\ index <= 4
      BY <1>1 DEF RepairState, RepairShape
    <2>2. index' \in Nat /\ index' <= 4
      BY <1>1, <2>1
    <2>3. reported' \in BOOLEAN
      BY <1>1 DEF RepairState, RepairShape
    <2> QED BY <1>1, <2>2, <2>3 DEF RepairState, RepairShape
  <1>4. RepairPlaces' /\ Restored' /\ Stood'
    BY <1>1 DEF RepairState, RepairPlaces, Restored, Stood, Started
  <1>5. Retained'
    BY <1>1 DEF RepairState, Retained, Started
  <1>6. Witnessed'
    BY <1>1, <1>2 DEF RepairState, RepairPlaces, Witnessed, Started, Corpus, Folders, Tracked
  <1> QED BY <1>1, <1>3, <1>4, <1>5, <1>6 DEF RepairState, RepairPoints

LEMMA CheckRestoredKeeps ==
    ASSUME RepairState, CheckRestored PROVE RepairState'
  <1>1. /\ pc = "restore" /\ pc' = "unchanged"
        /\ reported' = (reported \/ \E p \in Corpus : (p \in off) # (p \in drifted))
        /\ UNCHANGED <<lost, late, authority, tracked, named, off, wasOff, meddled, expected, drifted, index,
                       chmodded, calm, boundary>>
    BY DEF CheckRestored, At, Go, nameVars, allModes, modeVars, treeVars, workVars, corpusVars
  <1>2. reported' \in BOOLEAN /\ (~reported' => \A p \in Corpus : p \in off <=> p \in drifted)
    BY <1>1
  <1>3. RepairShape'
    BY <1>1, <1>2 DEF RepairState, RepairShape
  <1>4. RepairPlaces' /\ Restored' /\ Stood'
    BY <1>1, <1>2 DEF RepairState, RepairPlaces, Restored, Stood, Started
  <1>5. Retained' /\ Witnessed'
    BY <1>1 DEF RepairState, RepairPlaces, Retained, Witnessed, Started
  <1> QED BY <1>1, <1>3, <1>4, <1>5 DEF RepairState, RepairPoints

LEMMA InterruptRepairKeeps ==
    ASSUME RepairState, InterruptRepair, pc \notin {"unchanged", "repaired"} PROVE RepairState'
  <1>1. /\ \/ pc = "restore" /\ pc' = "restore" /\ late' = late
           \/ pc = "mask" /\ pc' = "unchanged" /\ late' = TRUE
           \/ pc \notin {"mask", "restore"} /\ pc' = "mask" /\ Started /\ late' = late
           \/ pc \notin {"mask", "restore"} /\ pc' = "unchanged" /\ ~Started /\ late' = late
        /\ UNCHANGED <<lost, reported, authority, tracked, named, off, wasOff, meddled, expected, drifted, index,
                       chmodded, calm, boundary>>
    BY DEF InterruptRepair, Abandon, At, Go, nameVars, allModes, modeVars, treeVars, workVars, corpusVars
  <1>2. RepairShape'
    <2>1. late' \in BOOLEAN
      BY <1>1 DEF RepairState, RepairShape
    <2> QED BY <1>1, <2>1 DEF RepairState, RepairShape
  <1>3. RepairPlaces'
    BY <1>1 DEF RepairState, RepairPlaces, Started
  <1>4. Restored' /\ Stood'
    BY <1>1 DEF Restored, Stood, Started
  <1>5. Retained'
    BY <1>1 DEF RepairState, Retained, Started
  <1>6. Witnessed'
    BY <1>1 DEF RepairState, RepairPlaces, Witnessed, Started
  <1> QED BY <1>1, <1>2, <1>3, <1>4, <1>5, <1>6 DEF RepairState, RepairPoints

\* What others touch while the last authentication is under way keeps the time it had.
LEMMA OthersLeaveTimes ==
    ASSUME OthersTouchCorpus, tracked = Tracked, pc = "authenticate", boundary = "return", index \in Nat,
           NEW i \in 1 .. 4, i < index, Order[i] \in Corpus, Order[i] \notin stale
    PROVE  Order[i] \notin stale'
  <1>1. LookedAt(Order[i])
    <2>1. i \in 1 .. index - 1 /\ i <= Len(Order)
      BY OrderIs
    <2> QED BY <2>1 DEF LookedAt, At
  <1>2. CASE stale' = stale \cup {"parent"}
    BY <1>2 DEF Corpus, Folders, Tracked
  <1>3. ASSUME NEW s, stale' = stale \cup {o \in s : ~LookedAt(o)} PROVE Order[i] \notin stale'
    BY <1>1, <1>3
  <1> QED BY <1>2, <1>3 DEF OthersTouchCorpus

LEMMA OthersOnRepairing ==
    ASSUME RepairState, OthersTouchCorpus, pc \notin {"unchanged", "repaired"} PROVE RepairState'
  <1>1. OthersTouchTree /\ boundary' = boundary
    BY DEF OthersTouchCorpus
  <1>2. /\ meddled \subseteq meddled' /\ meddled' \subseteq meddled \cup Corpus
        /\ \A o : o \notin meddled' => (o \in off' <=> o \in off)
        /\ OthersRename \/ OthersRecycle \/ named' = named
        /\ calm' = FALSE
        /\ UNCHANGED <<pc, lost, late, reported, authority, tracked, wasOff, expected, drifted, index, chmodded>>
    BY <1>1, OthersMeddle
  <1>3. RepairShape'
    <2>1. named = [p \in Tree |-> named[p]] /\ \A p \in Tree : named[p] \in {p, None, "stranger"}
      BY DEF RepairState, RepairShape
    <2>2. CASE OthersRename \/ OthersRecycle
      <3>1. OnlyRenamed
        BY <2>1, <2>2, OthersRenameWithin
      <3>2. named' = [p \in Tree |-> named'[p]] /\ \A p \in Tree : named'[p] \in {p, None, "stranger"}
        BY <2>1, <3>1 DEF OnlyRenamed, RepairState
      <3> QED BY <1>1, <1>2, <3>2 DEF RepairState, RepairShape
    <2>3. CASE named' = named
      BY <1>1, <1>2, <2>1, <2>3 DEF RepairState, RepairShape
    <2> QED BY <1>2, <2>2, <2>3
  <1>4. RepairPlaces' /\ Restored'
    BY <1>1, <1>2 DEF RepairState, RepairPlaces, Restored, Started
  <1>5. Retained'
    BY <1>1, <1>2 DEF RepairState, Retained, Started
  <1>6. Witnessed'
    <2>1. "stray" \notin meddled'
      BY <1>2 DEF RepairState, Witnessed, Corpus, Folders, Tracked
    <2> QED BY <1>1, <1>2, <2>1 DEF RepairState, Witnessed, Started
  <1>7. Stood'
    <2>1. SUFFICES ASSUME pc = "authenticate", boundary = "return", NEW i \in 1 .. 4, NEW p \in Corpus, i < index,
                          Order'[i] = p
                   PROVE  p \notin stale'
      BY <1>1, <1>2 DEF Stood
    <2>2. Order' = Order
      BY <1>2, SameOrder
    <2>3. p \notin stale
      BY <2>1, <2>2 DEF RepairState, Stood
    <2> QED BY <2>1, <2>2, <2>3, OthersLeaveTimes DEF RepairState, RepairShape
  <1> QED BY <1>2, <1>3, <1>4, <1>5, <1>6, <1>7 DEF RepairState

LEMMA RepairMoves ==
    ASSUME tool' = "repair", [Next]_custodySpace
    PROVE  /\ tool' = tool
           /\ \/ RepairStep
              \/ InterruptRepair /\ pc \notin {"unchanged", "repaired"}
              \/ OthersTouchCorpus /\ pc \notin {"unchanged", "repaired"}
              \/ UNCHANGED <<pc, nameVars, noteVars, allModes>>
  BY DEF Next, custodySpace, ToolStep, Recovers, Attests, Removes, Normalizes, Repairs, Interrupt,
         Others, OthersOnNames, OthersOnTree, OthersOnDelivery, OthersInside, OthersOnModes, OnNames, AtEnd, Ended

LEMMA RepairStart ==
    ASSUME Init, tool = "repair" PROVE RepairState
  <1>1. /\ pc = "retain root" /\ authority = "corpus" /\ tracked = Tracked /\ lost = {}
        /\ late = FALSE /\ reported = FALSE /\ calm = FALSE /\ boundary = "semantic"
        /\ named = [p \in Tree |-> IF p = "stray" /\ authority = "corpus" THEN None ELSE p]
        /\ off = wasOff /\ drifted = {} /\ index = 1 /\ chmodded = {} /\ meddled = {}
    BY DEF Init, Begins, NamesInit, ModesInit, CorpusInit
  <1>2. RepairShape
    <2>1. named = [p \in Tree |-> named[p]] /\ \A p \in Tree : named[p] \in {p, None, "stranger"}
      BY <1>1
    <2>2. reported \in BOOLEAN /\ late \in BOOLEAN /\ calm \in BOOLEAN
      BY <1>1
    <2>3. index = 1 /\ pc # "restore"
      BY <1>1
    <2>4. index \in Nat /\ index > 0
      BY <2>3
    <2> QED BY <1>1, <2>1, <2>2, <2>3, <2>4 DEF RepairShape
  <1>3. RepairPlaces /\ Restored /\ Retained /\ Witnessed /\ Stood
    BY <1>1 DEF RepairPlaces, Restored, Retained, Witnessed, Stood, Started
  <1> QED BY <1>1, <1>2, <1>3 DEF RepairState, RepairPoints

(***************************************************************************)
(* What is known of the modes of a corpus being repaired.                  *)
(***************************************************************************)
LEMMA RepairInvariant == Spec => []RepairInv
  <1>1. Init => RepairInv
    BY RepairStart DEF RepairInv
  <1>2. RepairInv /\ [Next]_custodySpace => RepairInv'
    <2>1. SUFFICES ASSUME RepairInv, [Next]_custodySpace, tool' = "repair" PROVE RepairState'
      BY DEF RepairInv
    <2>2. RepairState
      BY <2>1, RepairMoves DEF RepairInv
    <2>3. CASE RepairStep
      BY <2>2, <2>3, RetainRootKeeps, RetainMembersKeeps, SnapshotKeeps, AuthenticateKeeps,
         AuthenticatedKeeps,
         BarrierKeeps, ChangeMemberKeeps, RepairSteppingKeeps, RestoreMemberKeeps, CheckRestoredKeeps DEF RepairStep
    <2>4. CASE UNCHANGED <<pc, nameVars, noteVars, allModes>>
      <3>1. UNCHANGED <<pc, lost, late, reported, authority, tracked, named, off, wasOff, relinked, rewritten, meddled,
                        visible, expected, drifted, index, chmodded, calm, boundary, stale>>
        BY <2>4 DEF nameVars, noteVars, allModes, modeVars, treeVars, workVars, corpusVars
      <3>2. Order' = Order
        BY <3>1, SameOrder
      <3>3. RepairShape' /\ RepairPlaces' /\ Restored'
        BY <2>2, <3>1 DEF RepairState, RepairShape, RepairPlaces, Restored, Started
      <3>4. Retained' /\ Witnessed'
        BY <2>2, <3>1 DEF RepairState, Retained, Witnessed, Started
      <3>5. Stood'
        BY <2>2, <3>1, <3>2, SameMembers DEF RepairState, Stood
      <3> QED BY <2>2, <3>1, <3>3, <3>4, <3>5 DEF RepairState
    <2> QED BY <2>1, <2>2, <2>3, <2>4, RepairMoves, InterruptRepairKeeps, OthersOnRepairing
  <1> QED BY <1>1, <1>2, PTL DEF Spec

\* What that says of its end.
LEMMA RepairedByInv ==
    ASSUME RepairInv, tool = "repair"
    PROVE  pc \in RepairPoints /\ lost = {} /\ ForeignPreserved /\ ModesRestored /\ ModesNormalized
  <1>1. RepairState
    BY DEF RepairInv
  <1>2. ForeignPreserved
    BY <1>1 DEF RepairState, RepairShape, Retained, Witnessed, ForeignPreserved
  <1>3. ModesRestored
    <2>1. SUFFICES ASSUME pc = "unchanged", ~reported, ~late, Started, NEW o \in Tree \ meddled
                   PROVE  o \in off <=> o \in wasOff
      BY <1>1 DEF RepairState, Witnessed, ModesRestored
    <2>2. CASE o = "stray"
      BY <1>1, <2>2 DEF RepairState, Witnessed
    <2>3. CASE o \in Corpus
      BY <1>1, <2>1, <2>3 DEF RepairState, Restored, Retained, Witnessed
    <2> QED BY <2>2, <2>3 DEF Tree, Corpus
  <1>4. ModesNormalized
    <2>1. pc # "normalized"
      BY <1>1 DEF RepairState, RepairPoints
    <2>2. SUFFICES ASSUME pc = "repaired"
                   PROVE  /\ Corpus \cap stale = {}
                          /\ calm => /\ visible
                                     /\ \A p \in Corpus : SameIdentity(p) /\ Canonical(p)
                                     /\ \A p \in Tracked : named[p] = p /\ p \notin rewritten
      BY <2>1 DEF ModesNormalized
    <2>3. Started /\ \A p \in Corpus : p \notin stale /\ expected[p] = p /\ p # None
      BY <1>1, <2>2 DEF RepairState, RepairPlaces, Stood, Retained, Started, Corpus, Folders, Tracked,
         None
    <2>4. SUFFICES ASSUME calm
                   PROVE  /\ visible
                          /\ \A p \in Corpus : SameIdentity(p) /\ Canonical(p)
                          /\ \A p \in Tracked : named[p] = p /\ p \notin rewritten
      BY <2>3
    <2>5. \A p \in Corpus : MemberStands(p)
      BY <1>1, <2>2, <2>4 DEF RepairState, Stood
    <2>6. TreeStands
      BY <2>5 DEF MemberStands, Corpus, Folders
    <2>7. \A p \in Corpus : SameIdentity(p) /\ Canonical(p)
      BY <2>3, <2>5, <2>6 DEF TreeStands, MemberStands, Expected, SameIdentity, SameNumbers, Canonical
    <2>8. \A p \in Tracked : named[p] = p /\ p \notin rewritten
      <3>1. \A p \in Tracked : p \in Corpus /\ Found(p) = p /\ p \notin rewritten
        BY <2>3, <2>5 DEF MemberStands, Corpus
      <3> QED BY <2>3, <3>1 DEF Found
    <2> QED BY <2>6, <2>7, <2>8 DEF TreeStands
  <1> QED BY <1>1, <1>2, <1>3, <1>4 DEF RepairState, RepairShape

-----------------------------------------------------------------------------
(* All of the tools.                                                       *)

\* A run is of one tool, and those that work on names leave the modes alone.
ToolInv == tool \in OnNames \cup OnModes /\ (tool \in OnNames => chmodded = {})

LEMMA ToolInvariant == Spec => []ToolInv
  <1>1. Init => ToolInv
    BY DEF Init, ModesInit, ToolInv, OnNames, OnModes
  <1>2. ToolInv /\ [Next]_custodySpace => ToolInv'
    <2>1. SUFFICES ASSUME ToolInv, [Next]_custodySpace PROVE ToolInv'
      OBVIOUS
    <2>2. tool' = tool /\ (tool \in OnNames => chmodded' = chmodded)
      BY <2>1 DEF Next, custodySpace, ToolStep, Recovers, Attests, Removes, Normalizes, Repairs,
         Interrupt, Others,
                  OthersOnNames, OthersOnTree, OthersOnDelivery, OthersInside, OthersOnModes, OnNames, OnModes,
                  AtEnd, allModes, modeVars, workVars
    <2> QED BY <2>1, <2>2 DEF ToolInv
  <1> QED BY <1>1, <1>2, PTL DEF Spec

CustodyInv == ToolInv /\ RecoverInv /\ AttestInv /\ RemovalInv /\ NormInv /\ RepairInv

LEMMA CustodyInvariant == Spec => []CustodyInv
  BY ToolInvariant, RecoverInvariant, AttestInvariant, RemovalInvariant, NormalizeInvariant,
     RepairInvariant, PTL
  DEF CustodyInv

LEMMA CustodyByInv ==
    ASSUME CustodyInv
    PROVE  /\ RecoveredIsTheTree /\ ManifestIsASnapshot /\ ForeignPreserved /\ FailureLeavesNoName
           /\ ModesRestored /\ ModesNormalized
  <1>1. CASE tool = "recover"
    <2>1. RecoveredIsTheTree
      BY <1>1, RecoveredByInv DEF CustodyInv
    <2>2. /\ pc \in RecoverPoints /\ lost \subseteq {"hollow"} /\ chmodded = {}
          /\ pc = "failed" /\ ~reported /\ ~late => \A n \in Names : entry[n] # "own"
      BY <1>1 DEF CustodyInv, ToolInv, RecoverInv, RecoverTyped, NothingLost, OwnRoot, OnNames
    <2>3. pc \notin {"created", "verified", "unchanged", "normalized", "repaired"}
      BY <2>2 DEF RecoverPoints, BeforeOpen, RootOpen, Cleaning
    <2> QED BY <1>1, <2>1, <2>2, <2>3 DEF ManifestIsASnapshot, ForeignPreserved, FailureLeavesNoName,
       ModesRestored,
                                         ModesNormalized
  <1>2. CASE tool \in {"create", "verify"}
    <2>1. ManifestIsASnapshot /\ FailureLeavesNoName /\ lost = {} /\ pc \in AttestPoints /\ chmodded = {}
      BY <1>2, AttestedByInv DEF CustodyInv, ToolInv, OnNames
    <2>2. pc \notin {"recovered", "unchanged", "normalized", "repaired"}
      BY <2>1 DEF AttestPoints, Preparing, Publishing, InCall, Undoing, RollBacks
    <2> QED BY <1>2, <2>1, <2>2 DEF RecoveredIsTheTree, ForeignPreserved, ModesRestored, ModesNormalized
  <1>3. CASE tool = "remove"
    <2>1. pc \in RemovalPoints /\ lost = {} /\ chmodded = {}
      BY <1>3 DEF CustodyInv, ToolInv, RemovalInv, RemovalState, OnNames
    <2> QED BY <1>3, <2>1 DEF RemovalPoints, RecoveredIsTheTree, ManifestIsASnapshot, ForeignPreserved,
                              FailureLeavesNoName, ModesRestored, ModesNormalized
  <1>4. CASE tool = "normalize"
    <2>1. pc \in NormPoints /\ ForeignPreserved /\ ModesRestored /\ ModesNormalized
      BY <1>4, NormalizedByInv DEF CustodyInv
    <2> QED BY <2>1 DEF NormPoints, Early, RecoveredIsTheTree, ManifestIsASnapshot, FailureLeavesNoName
  <1>5. CASE tool = "repair"
    <2>1. pc \in RepairPoints /\ ForeignPreserved /\ ModesRestored /\ ModesNormalized
      BY <1>5, RepairedByInv DEF CustodyInv
    <2> QED BY <2>1 DEF RepairPoints, RecoveredIsTheTree, ManifestIsASnapshot, FailureLeavesNoName
  <1> QED BY <1>1, <1>2, <1>3, <1>4, <1>5 DEF CustodyInv, ToolInv, OnNames, OnModes

(***************************************************************************)
(* recover-candidate-source.py: for every manifest and every archive, what *)
(* it says it recovered is the tree that the manifest names.               *)
(***************************************************************************)
THEOREM RecoveryTheorem == Spec => []RecoveredIsTheTree
  BY CustodyInvariant, CustodyByInv, PTL

(***************************************************************************)
(* verify-delivery-custody.py: for every list of files, the manifest that  *)
(* it created or verified was true of the whole root at one instant.       *)
(***************************************************************************)
THEOREM SnapshotTheorem == Spec => []ManifestIsASnapshot
  BY CustodyInvariant, CustodyByInv, PTL

(***************************************************************************)
(* None of the tools removes, or changes the mode of, what it has not      *)
(* authenticated.                                                          *)
(***************************************************************************)
THEOREM ForeignTheorem == Spec => []ForeignPreserved
  BY CustodyInvariant, CustodyByInv, PTL

(***************************************************************************)
(* A recovery or a creation that fails leaves no name of its own behind    *)
(* without saying so.                                                      *)
(***************************************************************************)
THEOREM NoNameTheorem == Spec => []FailureLeavesNoName
  BY CustodyInvariant, CustodyByInv, PTL

(***************************************************************************)
(* A mode transaction that fails has restored every mode it had changed,   *)
(* or says which it could not.                                             *)
(***************************************************************************)
THEOREM RestoredTheorem == Spec => []ModesRestored
  BY CustodyInvariant, CustodyByInv, PTL

(***************************************************************************)
(* A mode transaction that succeeds leaves every path at the object it     *)
(* authenticated and canonical, however often others act.                  *)
(***************************************************************************)
THEOREM NormalizedTheorem == Spec => []ModesNormalized
  BY CustodyInvariant, CustodyByInv, PTL
=============================================================================
