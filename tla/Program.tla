------------------------------ MODULE Program ------------------------------
(***************************************************************************)
(* The x64lens process from exec to its exit status: _start of             *)
(* src/src/main.asm decides what the argument vector asks for (module      *)
(* CommandLine) and calls the command it names (module Command).           *)
(***************************************************************************)
EXTENDS Command

CONSTANTS ArgumentVectors, ArgumentSignedMax, ScanDepth, ScanDepthLimit,  \* see CommandLine
          ArgumentWordMax,  \* the words of the decimal parser
          Followed          \* bound: the vectors whose command is run to its end

VARIABLES words, reads, position, accumulated, decision,  \* of CommandLine, whose pc is reads
          calls,            \* the commands called
          exit              \* RDI of the exit system call, NoExit before

NoExit == -1
line == <<words, reads, position, accumulated, decision>>
commandVars == vars
programVars == <<vars, line, calls, exit>>

CL == INSTANCE CommandLine WITH
        Vectors <- ArgumentVectors, SignedMax <- ArgumentSignedMax, WordMax <- ArgumentWordMax,
        DefaultDepth <- ScanDepth, DepthLimit <- ScanDepthLimit,
        args <- words, pc <- reads, at <- position, rax <- accumulated, outcome <- decision

ASSUME ProgramAssumption ==
    /\ CL!CommandLineAssumption
    /\ Followed \subseteq ArgumentVectors

-----------------------------------------------------------------------------
ReadsArguments ==
    /\ CL!Step
    /\ UNCHANGED <<commandVars, calls, exit>>

\* .exit after a help text or a version.
ExitsAtOnce ==
    /\ reads = "done" /\ exit = NoExit
    /\ decision.does \in {"usage", "version"}
    /\ exit' = decision.exit
    /\ UNCHANGED <<commandVars, line, calls>>

CallsCommand ==
    /\ reads = "done" /\ exit = NoExit
    /\ calls = <<>>
    /\ words \in Followed
    /\ decision.does = "run"
    /\ command' = decision.command
    /\ calls' = <<decision>>
    /\ UNCHANGED <<pc, stage, status, complete, arena, target, length, output, line, exit>>

RunsCommand ==
    /\ calls # <<>>
    /\ Step
    /\ UNCHANGED <<line, calls, exit>>

\* Defect: the result of the last call of the command is lost on the way to exit.
ExitsWithNothing ==
    /\ calls # <<>>
    /\ pc = "returned" /\ exit = NoExit
    /\ exit' = IF stage = Len(Calls) THEN status ELSE EXIT_OK
    /\ UNCHANGED <<commandVars, line, calls>>

\* The code the command returned in RAX.
ExitsWithStatus ==
    /\ calls # <<>>
    /\ pc = "returned" /\ exit = NoExit
    /\ exit' = status
    /\ UNCHANGED <<commandVars, line, calls>>

OutsideActs ==
    /\ calls # <<>> /\ exit = NoExit
    /\ Truncate \/ ReadBeyondEnd \/ ReaderGone
    /\ UNCHANGED <<line, calls, exit>>

Unfollowed == reads = "done" /\ decision.does = "run" /\ words \notin Followed
Ended == (exit # NoExit \/ pc = "killed" \/ Unfollowed) /\ UNCHANGED programVars

ProgramInit ==
    /\ CL!Init /\ Init
    /\ command = CHOOSE c \in Commands : TRUE
    /\ words \notin Followed => length = 0
    /\ calls = <<>>
    /\ exit = NoExit

ProgramStep == ReadsArguments \/ ExitsAtOnce \/ CallsCommand \/ RunsCommand \/ ExitsWithStatus

ProgramNext == ProgramStep \/ OutsideActs \/ Ended

\* One sequential process, which only a signal stops.
ProgramSpec == ProgramInit /\ [][ProgramNext]_programVars /\ WF_programVars(ProgramStep)

-----------------------------------------------------------------------------
(***************************************************************************)
(* The branches of main.asm accept exactly the sentences of the grammar of *)
(* docs/cli-contract.md, and hand the command the format, the depth and    *)
(* the target that were written, whichever order the flags come in.        *)
(***************************************************************************)
AnswersTheGrammar == CL!AnswersTheGrammar

(***************************************************************************)
(* The exit status of the process says what happened: 2 or 0 without any   *)
(* command, otherwise the code of the first stage of the one command that  *)
(* failed, with exactly its diagnostic on stderr, and 0 only for a command *)
(* that ran all its stages.                                                *)
(***************************************************************************)
ExitSaysWhatHappened ==
    exit # NoExit =>
       \/ /\ calls = <<>> /\ stdout = <<>> /\ openFds = {} /\ ~mapped
          /\ exit = IF CL!Scans THEN 2 ELSE decision.exit
       \/ /\ calls # <<>> /\ exit = status
          /\ exit = EXIT_OK => stage = Len(Calls) /\ chunk = Chunks /\ stderr = <<>>
          /\ exit # EXIT_OK => chunk = 0 /\ stderr = <<exit>>

(***************************************************************************)
(* Every process ends: some branch takes every argument vector, the parser *)
(* of the depth stops, and whatever fails the command comes back.          *)
(***************************************************************************)
AlwaysExits == <>(exit # NoExit \/ pc = "killed" \/ Unfollowed)
=============================================================================
