---------------------------- MODULE SharedNames ----------------------------
(***************************************************************************)
(* The directory the custody tools work in and what other processes do to  *)
(* it.  Each tool publishes or removes one object of its own by name:      *)
(*   "target"   the destination, the manifest or the tree to be removed    *)
(*   "stage"    the private name it is prepared under                      *)
(*   "first", "second"   the names it is quarantined under before removal  *)
(* Between any two system calls others may move an entry elsewhere and put *)
(* an object of theirs where one was.  The private names are drawn at      *)
(* random, so nobody puts anything there before they are used.             *)
(*   A name is checked for the last time and unlinked in one step: Linux   *)
(* has no call that does both, and the tools document that gap.            *)
(***************************************************************************)
EXTENDS Naturals, FiniteSets

CONSTANTS Strangers,   \* objects of other processes
          MaxActs      \* bound: how often others act

VARIABLES pc,          \* the step the tool has reached
          entry,       \* name -> the object it names
          elsewhere,   \* objects that have a name outside the four
          bound,       \* the path above still leads to the open directory
          held,        \* the object the tool has a descriptor of
          lost,        \* objects removed that the tool had not authenticated
          interrupted, \* a termination signal has arrived
          late,        \* it arrived where no handler answers for the effects
          reported,    \* the error message says that something was left
          acts

nameVars == <<entry, elsewhere, bound, held, lost>>
noteVars == <<interrupted, late, reported, acts>>

Names == {"target", "stage", "first", "second"}
None  == "none"

\* Strangers are a file, a directory with entries or an empty directory.
ASSUME StrangersAssumption == Strangers \subseteq {"file", "tree", "hollow"}

IsDirectory(o) == o \notin {None, "file"}
Linked(o) == o \in elsewhere \/ \E n \in Names : entry[n] = o

At(p) == pc = p
Go(p) == pc' = p

(* renameat2 with RENAME_NOREPLACE takes whatever the name holds.          *)
CanMove(m, n) == entry[m] # None /\ entry[n] = None
Move(m, n) == entry' = [entry EXCEPT ![m] = None, ![n] = entry[m]]

NamesInit ==
  /\ elsewhere = {} /\ bound = TRUE /\ held = None /\ lost = {}
  /\ interrupted = FALSE /\ late = FALSE /\ reported = FALSE /\ acts = 0

-----------------------------------------------------------------------------
Takes(n) == /\ entry[n] # None
            /\ entry' = [entry EXCEPT ![n] = None]
            /\ elsewhere' = elsewhere \cup {entry[n]}

Replaces(n) == \E s \in Strangers :
    /\ ~Linked(s) /\ s \notin lost /\ s # held
    /\ entry[n] # None \/ n = "target"
    /\ entry' = [entry EXCEPT ![n] = s]
    /\ elsewhere' = elsewhere \cup ({entry[n]} \ {None})

Rebinds == /\ bound /\ bound' = FALSE
           /\ UNCHANGED <<entry, elsewhere>>

OthersActOnNames ==
  /\ acts < MaxActs /\ acts' = acts + 1
  /\ \/ \E n \in Names : (Takes(n) \/ Replaces(n)) /\ UNCHANGED bound
     \/ Rebinds
  /\ UNCHANGED <<pc, held, lost, interrupted, late, reported>>
=============================================================================
