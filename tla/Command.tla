------------------------------ MODULE Command ------------------------------
(***************************************************************************)
(* One x64lens command from open(2) to its exit status: analyze.asm,       *)
(* gadgets.asm, info.asm and mitigations.asm, with the target mapping of   *)
(* filemap.asm and the candidate arena of arena.asm (module Arena).  The   *)
(* analysis stages are calls that return one of the codes they can return; *)
(* what they compute is in the modules of their own.                       *)
(*                                                                         *)
(* The kernel, the file another process may truncate, and the reader of    *)
(* stdout are external.                                                    *)
(***************************************************************************)
EXTENDS CheckedRanges, Sequences, FiniteSets

CONSTANTS Commands,         \* the commands under study
          RecordMax,        \* GADGET_RECORD_MAX
          PageSize, Bases,  \* what an anonymous mmap returns: see Arena
          MaxLength,        \* bound: length of the target file
          Chunks            \* bound: the write(2) calls of one report

ASSUME CommandAssumption ==
    /\ Commands \subseteq {"info", "mitigations", "gadgets", "analyze"}
    /\ RecordMax \in Nat \ {0}
    /\ PageSize \in Nat \ {0}
    /\ \A b \in Bases : b \in Word /\ b # 0 /\ b % PageSize = 0
    /\ MaxLength \in Nat \ {0}
    /\ Chunks \in Nat \ {0}

VARIABLES command,
          pc,               \* the part of the routine that runs
          stage,            \* how many calls of the pipeline have returned OK
          status,           \* RAX, kept in R13 on the error path
          fileMap,          \* the FILEMAP record
          complete,         \* ANALYSIS_SUMMARY_COMPLETE
          \* the arena record and its users
          base, size, used, mappings, slices, answer,
          \* the kernel and the outside
          openFds, mapped,  \* what the process holds of the target
          length,           \* the target's length now
          stdout,           \* the report chunks the reader received, in order
          chunk,            \* report writes made
          stderr            \* diagnostics printed

arena == <<base, size, used, mappings, slices, answer>>
target == <<fileMap, openFds, mapped>>
output == <<stdout, chunk, stderr>>
vars == <<command, pc, stage, status, complete, arena, target, length, output>>

EXIT_OK == 0
EXIT_GENERAL == 1
EXIT_FILE == 3
EXIT_NOT_ELF64_X64 == 4
EXIT_MALFORMED_ELF == 5
EXIT_UNSUPPORTED == 6
EXIT_BOUNDS == 7

NoFd == -1

-----------------------------------------------------------------------------
(***************************************************************************)
(* The tables carved out of the arena, in order.                           *)
(***************************************************************************)
Tables ==
    [gadget_record             |-> [bytes |-> 112 * RecordMax, align |-> 16],
     candidate_evidence_record |-> [bytes |-> 56 * RecordMax, align |-> 16],
     memory_effect_record      |-> [bytes |-> 16 * RecordMax, align |-> 16],
     candidate_effect_record   |-> [bytes |-> 24 * RecordMax, align |-> 16],
     candidate_role_record     |-> [bytes |-> 8 * RecordMax, align |-> 8]]

\* Defect: the role table was added later and its bytes were not.
ArenaBytesWithoutRoles == (112 + 56 + 16 + 24) * RecordMax

ArenaBytes == (112 + 56 + 16 + 24 + 8) * RecordMax

\* 4096 records and 64-bit words.
ASSUME StorageAssumption == RecordMax % 2 = 0 /\ ArenaBytes + 15 <= WordMax

A == INSTANCE Arena WITH
        Sizes <- {ArenaBytes} \cup {Tables[t].bytes : t \in DOMAIN Tables},
        Aligns <- {Tables[t].align : t \in DOMAIN Tables}

(***************************************************************************)
(* The calls of each command, in order.                                    *)
(***************************************************************************)
LoaderFacts == <<"elf64_validate", "phdr_analyze", "binary_role_classify",
                 "shdr_classify_stripped">>

\* The mapping, then one arena_alloc for each table.
Storage == <<"arena_init", "gadget_record", "candidate_evidence_record", "memory_effect_record",
             "candidate_effect_record", "candidate_role_record">>

CandidateFacts == <<"find_ret_candidates", "match_exact", "classifier_apply",
                    "evidence_from_exact", "mapping_from_regions", "memory_effect",
                    "candidate_effect", "candidate_role", "scoring_apply",
                    "shdr_annotate_gadgets", "mark_complete">>

Pipeline ==
    [info        |-> <<"elf64_validate">>,
     mitigations |-> LoaderFacts \o <<"shdr_annotate_exec_regions">>,
     gadgets     |-> LoaderFacts \o Storage \o CandidateFacts,
     analyze     |-> LoaderFacts \o <<"shdr_annotate_exec_regions">> \o Storage
                        \o CandidateFacts]

Calls == Pipeline[command]
Call == Calls[stage + 1]
UsesArena == command \in {"gadgets", "analyze"}

\* The codes other than EXIT_OK a stage can return.
Refusals ==
    [elf64_validate             |-> {EXIT_NOT_ELF64_X64, EXIT_MALFORMED_ELF, EXIT_UNSUPPORTED},
     phdr_analyze               |-> {EXIT_MALFORMED_ELF, EXIT_UNSUPPORTED, EXIT_BOUNDS},
     binary_role_classify       |-> {EXIT_BOUNDS},
     shdr_classify_stripped     |-> {EXIT_MALFORMED_ELF},
     shdr_annotate_exec_regions |-> {EXIT_MALFORMED_ELF},
     find_ret_candidates        |-> {EXIT_MALFORMED_ELF, EXIT_UNSUPPORTED},
     match_exact                |-> {},
     classifier_apply           |-> {EXIT_BOUNDS},
     evidence_from_exact        |-> {EXIT_BOUNDS},
     mapping_from_regions       |-> {EXIT_BOUNDS},
     memory_effect              |-> {EXIT_BOUNDS},
     candidate_effect           |-> {EXIT_BOUNDS},
     candidate_role             |-> {EXIT_BOUNDS},
     scoring_apply              |-> {EXIT_BOUNDS},
     shdr_annotate_gadgets      |-> {EXIT_MALFORMED_ELF},
     mark_complete              |-> {EXIT_BOUNDS}]

\* The stages that read bytes of the target, and those that use the tables.
ReadsTarget == {"elf64_validate", "phdr_analyze", "shdr_classify_stripped",
                "shdr_annotate_exec_regions", "find_ret_candidates", "match_exact",
                "classifier_apply", "shdr_annotate_gadgets"}

Fails(rax) ==
    /\ status' = rax
    /\ pc' = "release"

-----------------------------------------------------------------------------
(***************************************************************************)
(* x64lens_file_map.  The record is made safe for unmap before the open.   *)
(***************************************************************************)
OpenTarget ==
    /\ pc = "open"
    /\ \/ /\ fileMap' = [fd |-> 3, size |-> 0, addr |-> 0]
          /\ openFds' = {3}
          /\ pc' = "stat"
          /\ UNCHANGED status
       \/ /\ fileMap' = [fd |-> NoFd, size |-> 0, addr |-> 0]
          /\ Fails(EXIT_FILE)
          /\ UNCHANGED openFds
    /\ UNCHANGED <<command, stage, complete, arena, mapped, length, output>>

\* Defect: the descriptor is closed and kept.
CloseFdKept == openFds' = openFds \ {fileMap.fd} /\ UNCHANGED fileMap

CloseFd ==
    /\ openFds' = openFds \ {fileMap.fd}
    /\ fileMap' = [fileMap EXCEPT !.fd = NoFd]

StatTarget ==
    /\ pc = "stat"
    /\ length > 0
    /\ fileMap' = [fileMap EXCEPT !.size = length]
    /\ pc' = "mmap"
    /\ UNCHANGED <<command, stage, status, complete, arena, openFds, mapped, length, output>>

StatRefused ==
    /\ pc = "stat"
    /\ \E rax \in {EXIT_FILE} \cup (IF length = 0 THEN {EXIT_MALFORMED_ELF} ELSE {}) :
          Fails(rax)
    /\ CloseFd
    /\ UNCHANGED <<command, stage, complete, arena, mapped, length, output>>

MapTarget ==
    /\ pc = "mmap"
    /\ openFds' = openFds \ {fileMap.fd}
    /\ fileMap' = [fileMap EXCEPT !.addr = 1, !.fd = NoFd]
    /\ mapped' = TRUE
    /\ pc' = "analyze"
    /\ UNCHANGED <<command, stage, status, complete, arena, length, output>>

MapRefused ==
    /\ pc = "mmap"
    /\ Fails(EXIT_FILE)
    /\ CloseFd
    /\ UNCHANGED <<command, stage, complete, arena, mapped, length, output>>

-----------------------------------------------------------------------------
Calling(calls) == pc = "analyze" /\ stage < Len(Calls) /\ Call \in calls

StageReturnsOK ==
    /\ Calling(DOMAIN Refusals)
    /\ stage' = stage + 1
    /\ complete' = (complete \/ Call = "mark_complete")
    /\ UNCHANGED <<command, pc, status, arena, target, length, output>>

StageRefuses ==
    /\ Calling(DOMAIN Refusals)
    /\ \E rax \in Refusals[Call] : Fails(rax)
    /\ UNCHANGED <<command, stage, complete, arena, target, length, output>>

ArenaReady ==
    /\ Calling({"arena_init"})
    /\ A!ArenaInitMaps(ArenaBytes)
    /\ stage' = stage + 1
    /\ UNCHANGED <<command, pc, status, complete, target, length, output>>

ArenaRefused ==
    /\ Calling({"arena_init"})
    /\ A!ArenaInitFails(ArenaBytes)
    /\ Fails(EXIT_GENERAL)
    /\ UNCHANGED <<command, stage, complete, target, length, output>>

Table == Tables[Call]

\* A null pointer goes to .arena_alloc_failed, which returns EXIT_BOUNDS.
AllocTable ==
    /\ Calling(DOMAIN Tables)
    /\ IF A!Allocates(Table.bytes, Table.align)
       THEN /\ A!ArenaAlloc(Table.bytes, Table.align)
            /\ stage' = stage + 1
            /\ UNCHANGED <<pc, status>>
       ELSE /\ A!ArenaAllocFails(Table.bytes, Table.align)
            /\ Fails(EXIT_BOUNDS)
            /\ UNCHANGED stage
    /\ UNCHANGED <<command, complete, target, length, output>>

-----------------------------------------------------------------------------
\* Defect: the report starts before the summary is marked complete.
BeginReportEarly ==
    /\ pc = "analyze"
    /\ stage >= Len(Calls) - 1
    /\ pc' = "report"
    /\ UNCHANGED <<command, stage, status, complete, arena, target, length, output>>

BeginReport ==
    /\ pc = "analyze"
    /\ stage = Len(Calls)
    /\ pc' = "report"
    /\ UNCHANGED <<command, stage, status, complete, arena, target, length, output>>

\* print_cstr: one write(2), whose result nobody looks at.  It may be delivered
\* whole, cut short, or not at all.
WriteChunk ==
    /\ pc = "report"
    /\ chunk < Chunks
    /\ chunk' = chunk + 1
    /\ \E delivered \in {"whole", "short", "none"} :
          stdout' = IF delivered = "none" THEN stdout
                    ELSE Append(stdout, [chunk |-> chunk + 1, delivered |-> delivered])
    /\ UNCHANGED <<command, pc, stage, status, complete, arena, target, length, stderr>>

\* Defect: one write too many is waited for.
ReportNeverWritten ==
    /\ pc = "report"
    /\ chunk > Chunks
    /\ pc' = "release"
    /\ UNCHANGED <<command, stage, status, complete, arena, target, length, output>>

ReportWritten ==
    /\ pc = "report"
    /\ chunk = Chunks
    /\ pc' = "release"
    /\ UNCHANGED <<command, stage, status, complete, arena, target, length, output>>

-----------------------------------------------------------------------------
\* Both exits of the routine: arena_destroy, then file_unmap.
ReleaseArena ==
    /\ pc = "release"
    /\ IF UsesArena THEN A!ArenaDestroy ELSE UNCHANGED arena
    /\ pc' = "unmap"
    /\ UNCHANGED <<command, stage, status, complete, target, length, output>>

UnmapTarget ==
    /\ pc = "unmap"
    /\ LET unmaps == fileMap.addr # 0 /\ fileMap.size > 0
       IN  /\ mapped' = (mapped /\ ~unmaps)
           /\ fileMap' = [fd |-> NoFd,
                          size |-> IF unmaps THEN 0 ELSE fileMap.size,
                          addr |-> IF unmaps THEN 0 ELSE fileMap.addr]
    /\ openFds' = openFds \ {fileMap.fd}
    /\ pc' = IF status = EXIT_OK THEN "returned" ELSE "diagnose"
    /\ UNCHANGED <<command, stage, status, complete, arena, length, output>>

\* Defect: the printer's result is returned for the command's.
PrintStatusReturned ==
    /\ pc = "diagnose"
    /\ stderr' = Append(stderr, status)
    /\ status' = EXIT_OK
    /\ pc' = "returned"
    /\ UNCHANGED <<command, stage, complete, arena, target, length, stdout, chunk>>

PrintStatus ==
    /\ pc = "diagnose"
    /\ stderr' = Append(stderr, status)
    /\ pc' = "returned"
    /\ UNCHANGED <<command, stage, status, complete, arena, target, length, stdout, chunk>>

Returned == pc \in {"returned", "killed"} /\ UNCHANGED vars

-----------------------------------------------------------------------------
(***************************************************************************)
(* The environment.                                                        *)
(***************************************************************************)
Truncate ==
    /\ pc \in {"open", "stat", "mmap", "analyze", "report"}
    /\ length > 0
    /\ length' \in 0 .. length - 1
    /\ UNCHANGED <<command, pc, stage, status, complete, arena, target, output>>

\* A signal ends the process, and the kernel takes back what it held.
Dies ==
    /\ pc' = "killed"
    /\ openFds' = {} /\ mapped' = FALSE /\ mappings' = {}
    /\ UNCHANGED <<command, stage, status, complete, fileMap, base, size, used, slices, answer,
                   length, output>>

\* SIGBUS: a read of the mapping beyond the end of a file that was truncated.
ReadBeyondEnd ==
    /\ \/ Calling(ReadsTarget)
       \/ pc = "report" /\ chunk < Chunks
    /\ length < fileMap.size
    /\ Dies

\* SIGPIPE: the reader of the report has gone.
ReaderGone ==
    /\ pc = "report" /\ chunk < Chunks
    /\ Dies

Init ==
    /\ command \in Commands
    /\ pc = "open" /\ stage = 0 /\ status = EXIT_OK
    /\ fileMap = [fd |-> NoFd, size |-> 0, addr |-> 0]
    /\ complete = FALSE
    /\ A!Init
    /\ openFds = {} /\ mapped = FALSE
    /\ length \in 0 .. MaxLength
    /\ stdout = <<>> /\ chunk = 0 /\ stderr = <<>>

Step ==
    \/ OpenTarget \/ StatTarget \/ StatRefused \/ MapTarget \/ MapRefused
    \/ StageReturnsOK \/ StageRefuses
    \/ ArenaReady \/ ArenaRefused \/ AllocTable
    \/ BeginReport \/ WriteChunk \/ ReportWritten
    \/ ReleaseArena \/ UnmapTarget \/ PrintStatus

Next == Step \/ Truncate \/ ReadBeyondEnd \/ ReaderGone \/ Returned

SafeSpec == Init /\ [][Next]_vars

\* One sequential process: its own next step is always taken unless a signal ends it.
Spec == SafeSpec /\ WF_vars(Step)

-----------------------------------------------------------------------------
TypeOK ==
    /\ command \in Commands
    /\ pc \in {"open", "stat", "mmap", "analyze", "report", "release", "unmap", "diagnose",
              "returned", "killed"}
    /\ stage \in 0 .. Len(Calls)
    /\ status \in {EXIT_OK, EXIT_GENERAL} \cup EXIT_FILE .. EXIT_BOUNDS
    /\ fileMap \in [fd : {NoFd, 3}, size : 0 .. MaxLength, addr : {0, 1}]
    /\ complete \in BOOLEAN
    /\ A!TypeOK
    /\ openFds \subseteq {3} /\ mapped \in BOOLEAN
    /\ length \in 0 .. MaxLength
    /\ chunk \in 0 .. Chunks
    /\ Len(stdout) <= chunk /\ Len(stderr) <= 1

(***************************************************************************)
(* A command that fails has printed nothing on stdout, and one that prints *)
(* has every fact it prints: all stages returned OK and, for the candidate *)
(* reports, the summary was marked complete before the first byte.         *)
(***************************************************************************)
FailsBeforeOutput ==
    chunk > 0 =>
        /\ status = EXIT_OK
        /\ stage = Len(Calls)
        /\ UsesArena => complete

(***************************************************************************)
(* The arena the five tables need is the arena the command asks for: once  *)
(* the mapping exists no table is ever refused.                            *)
(***************************************************************************)
TablesAlwaysFit == answer.call = "alloc" => answer.rax # 0

(***************************************************************************)
(* The two records describe what the kernel holds, on every path and after *)
(* each step of it, so no cleanup closes or unmaps what is not there, and  *)
(* a command that returns holds no descriptor and no mapping.              *)
(***************************************************************************)
RecordsMatchKernel ==
    pc # "killed" =>
        /\ openFds = IF fileMap.fd = NoFd THEN {} ELSE {fileMap.fd}
        /\ mapped <=> fileMap.addr # 0
        /\ A!MappingMatchesRecord
        /\ pc = "returned" => openFds = {} /\ ~mapped /\ mappings = {}

(***************************************************************************)
(* The first failure is the answer: once a stage has refused, cleanup and  *)
(* diagnostics never change the status the process exits with.             *)
(***************************************************************************)
FirstFailureKept == [][status # EXIT_OK => status' = status]_vars

(***************************************************************************)
(* "Silent truncation and syntactically incomplete JSON are prohibited"    *)
(* (docs/contracts/output-contract.md:85): exit status 0 means the reader  *)
(* has the whole report.                                                   *)
(***************************************************************************)
WholeReport == [i \in 1 .. Chunks |-> [chunk |-> i, delivered |-> "whole"]]

SuccessDeliversReport == pc = "returned" /\ status = EXIT_OK => stdout = WholeReport
=============================================================================
