------------------------------ MODULE ProcessTree ------------------------------
(***************************************************************************)
(* One supervised command as the kernel sees it: the main process, the     *)
(* helpers it leaves in its process group, the descendants that escape the *)
(* group with setsid and are adopted by the supervisor (a subreaper) when  *)
(* the main process is gone, and the two captured pipes; and the registers *)
(* every supervisor has.  The supervisors are MeasuredProcess (the         *)
(* diagnostic runner's) and CompilerCommand (the corpus builder's).        *)
(***************************************************************************)
EXTENDS Naturals, FiniteSets

CONSTANT Streams       \* the captured pipes

VARIABLES main,        \* "none", "running", "zombie", "reaped"
          ended,       \* how it ended: "none", "zero", "nonzero", "signal"
          kin,         \* live descendants: "group", "escaped"
          doomed,      \* processes a signal is about to end
          stubborn,    \* processes that survive SIGTERM
          excess,      \* pipes holding more than their limit, unread
          slow,        \* the kernel may not end a killed process in time
          px,          \* the supervisor's step
          interrupted, \* it has noted a signal
          run,         \* its locals
          outcome      \* what it recorded of the last command

worldVars == <<ended, kin, stubborn, excess, slow>>     \* what the supervisor never changes
treeVars  == <<main, doomed, worldVars>>
execVars  == <<treeVars, px, interrupted, run, outcome>>

Kin     == {"group", "escaped"}

NewRun == [status |-> "none",     \* what wait4 returned
           reason |-> "none",     \* termination_reason
           timer  |-> "off",      \* which deadline comes next
           over   |-> {},         \* output_limit_streams
           swept  |-> FALSE,      \* cleanup_done, cleanup_after_root_exit
           required |-> FALSE,    \* cleanup_required
           pass   |-> 0]          \* the call of terminate_process_tree

TreeInit ==
  /\ main = "none" /\ ended = "none" /\ kin = {} /\ doomed = {}
  /\ excess = {} /\ stubborn = {} /\ slow \in BOOLEAN
  /\ px = "idle" /\ interrupted = FALSE /\ run = NewRun /\ outcome = "none"

Step(from, to) == px = from /\ px' = to

Alive == kin \cup (IF main = "running" THEN {"main"} ELSE {})

(* killpg reaches the main process and its group, kill one adopted child.  *)
Terminate(procs) == doomed \cup ((procs \cap Alive) \ stubborn)
Kill(procs)      == doomed \cup (procs \cap Alive)
Group            == {"main", "group"}

(* The children the supervisor can see: a descendant is one only when the  *)
(* main process no longer stands between.                                  *)
Adopted == IF main \in {"running", "zombie"} THEN {"main"} ELSE kin

(* cleanup_process_group and cleanup_adopted_descendants kill what is left *)
(* until nothing is, or until a slow kernel makes them give up.            *)
Gone(procs)      == procs \cap Alive = {}
GivenUp(procs)   == slow /\ ~Gone(procs) /\ procs \cap Alive \subseteq doomed
KillAgain(procs) == ~(procs \cap Alive \subseteq doomed) /\ doomed' = Kill(procs)

(* A new command, whose group may ignore SIGTERM.                          *)
Starts ==
  /\ main' = "running" /\ ended' = "none" /\ excess' = {}
  /\ stubborn' \in {{}, {"main", "group"}}
  /\ UNCHANGED <<kin, doomed, slow>>

Exits ==
  /\ main = "running"
  /\ main' = "zombie" /\ doomed' = doomed \ {"main"}
  /\ \/ "main" \in doomed /\ ended' = "signal"
     \/ ended' \in {"zero", "nonzero"}
  /\ UNCHANGED <<kin, stubborn, excess, slow>>

KinExits ==
  \E k \in kin : /\ kin' = kin \ {k} /\ doomed' = doomed \ {k}
                 /\ UNCHANGED <<main, ended, stubborn, excess, slow>>

Forks ==
  /\ main = "running"
  /\ \E k \in Kin \ kin : kin' = kin \cup {k}
  /\ UNCHANGED <<main, ended, doomed, stubborn, excess, slow>>

WritesTooMuch ==
  /\ Alive # {}
  /\ \E s \in Streams \ excess : excess' = excess \cup {s}
  /\ UNCHANGED <<main, ended, kin, doomed, stubborn, slow>>

(* A doomed process does end; nothing else of the outside is promised.     *)
DoomedExit ==
  \/ "main" \in doomed /\ Exits
  \/ \E k \in kin \cap doomed : /\ kin' = kin \ {k} /\ doomed' = doomed \ {k}
                                /\ UNCHANGED <<main, ended, stubborn, excess, slow>>

World == Exits \/ KinExits \/ Forks \/ WritesTooMuch
===============================================================================
