---------------------------- MODULE ProgramProofs ----------------------------
(***************************************************************************)
(* Proofs about the commands, for every length of the target, every number *)
(* of report writes, every word size the arena fits in and every even      *)
(* number of records.                                                      *)
(***************************************************************************)
EXTENDS Program, WellFoundedInduction, TLAPS

-----------------------------------------------------------------------------
(* Where the calls of each pipeline are.                                   *)

\* The calls before arena_init.
Before(c) == IF c = "gadgets" THEN 4 ELSE 5

ArenaCalls == {"arena_init"} \cup DOMAIN Tables

CallNames == ArenaCalls \cup DOMAIN Refusals

LEMMA TableNames ==
    DOMAIN Tables = {"gadget_record", "candidate_evidence_record", "memory_effect_record",
                     "candidate_effect_record", "candidate_role_record"}
  BY DEF Tables

LEMMA StageNames ==
    DOMAIN Refusals =
      {"elf64_validate", "phdr_analyze", "binary_role_classify", "shdr_classify_stripped",
       "shdr_annotate_exec_regions", "find_ret_candidates", "match_exact", "classifier_apply",
       "evidence_from_exact", "mapping_from_regions", "memory_effect", "candidate_effect",
       "candidate_role", "scoring_apply", "shdr_annotate_gadgets", "mark_complete"}
  BY DEF Refusals

LEMMA SequenceLengths ==
    Len(LoaderFacts) = 4 /\ Len(Storage) = 6 /\ Len(CandidateFacts) = 11
  BY DEF LoaderFacts, Storage, CandidateFacts

LEMMA SequenceTypes ==
    /\ LoaderFacts \in Seq(CallNames)
    /\ Storage \in Seq(CallNames)
    /\ CandidateFacts \in Seq(CallNames)
  <1>1. LoaderFacts \in Seq(CallNames)
    BY StageNames DEF LoaderFacts, CallNames
  <1>2. Storage \in Seq(CallNames)
    BY TableNames DEF Storage, CallNames, ArenaCalls
  <1>3. CandidateFacts \in Seq(CallNames)
    BY StageNames DEF CandidateFacts, CallNames
  <1> QED BY <1>1, <1>2, <1>3

LEMMA OneCall ==
    ASSUME NEW call \in CallNames
    PROVE  <<call>> \in Seq(CallNames) /\ Len(<<call>>) = 1 /\ <<call>>[1] = call
  OBVIOUS

(***************************************************************************)
(* The calls of a concatenation, by position.  The lengths come last: the  *)
(* provers need them as terms while they expand \o.                        *)
(***************************************************************************)
Joined(whole, first, second, m, n) ==
    /\ whole \in Seq(CallNames)
    /\ Len(whole) = m + n
    /\ \A i \in 1 .. m : whole[i] = first[i]
    /\ \A i \in 1 .. n : whole[i + m] = second[i]

LEMMA JoinedCalls ==
    ASSUME NEW first, NEW second, first \in Seq(CallNames), second \in Seq(CallNames)
    PROVE  Joined(first \o second, first, second, Len(first), Len(second))
  BY DEF Joined

LEMMA GadgetsCalls ==
    /\ Len(Pipeline["gadgets"]) = 21
    /\ \A i \in 1 .. 4 : Pipeline["gadgets"][i] = LoaderFacts[i]
    /\ \A i \in 1 .. 6 : Pipeline["gadgets"][i + 4] = Storage[i]
    /\ \A i \in 1 .. 11 : Pipeline["gadgets"][i + 10] = CandidateFacts[i]
  <1> DEFINE facts == LoaderFacts \o Storage
             chain == facts \o CandidateFacts
  <1>1. Pipeline["gadgets"] = chain
    BY DEF Pipeline
  <1>2. Joined(facts, LoaderFacts, Storage, Len(LoaderFacts), Len(Storage))
    BY SequenceTypes, JoinedCalls
  <1> HIDE DEF facts
  <1>3. Joined(facts, LoaderFacts, Storage, 4, 6)
    BY <1>2, SequenceLengths
  <1>4. /\ facts \in Seq(CallNames) /\ Len(facts) = 10
        /\ \A i \in 1 .. 4 : facts[i] = LoaderFacts[i]
        /\ \A i \in 1 .. 6 : facts[i + 4] = Storage[i]
    BY <1>3 DEF Joined
  <1>5. Joined(chain, facts, CandidateFacts, Len(facts), Len(CandidateFacts))
    BY <1>4, SequenceTypes, JoinedCalls
  <1> HIDE DEF chain
  <1>6. Joined(chain, facts, CandidateFacts, 10, 11)
    BY <1>4, <1>5, SequenceLengths
  <1>7. /\ Len(chain) = 21
        /\ \A i \in 1 .. 10 : chain[i] = facts[i]
        /\ \A i \in 1 .. 11 : chain[i + 10] = CandidateFacts[i]
    BY <1>6 DEF Joined
  <1>8. /\ \A i \in 1 .. 4 : chain[i] = LoaderFacts[i]
        /\ \A i \in 1 .. 6 : chain[i + 4] = Storage[i]
    BY <1>4, <1>7
  <1> QED BY <1>1, <1>7, <1>8

LEMMA MitigationsCalls ==
    /\ Pipeline["mitigations"] \in Seq(CallNames)
    /\ Len(Pipeline["mitigations"]) = 5
    /\ \A i \in 1 .. 4 : Pipeline["mitigations"][i] = LoaderFacts[i]
    /\ Pipeline["mitigations"][5] = "shdr_annotate_exec_regions"
  <1> DEFINE annotate == <<"shdr_annotate_exec_regions">>
             chain == LoaderFacts \o annotate
  <1>1. Pipeline["mitigations"] = chain
    BY DEF Pipeline
  <1>2. /\ annotate \in Seq(CallNames) /\ Len(annotate) = 1
        /\ annotate[1] = "shdr_annotate_exec_regions"
    BY OneCall, StageNames DEF CallNames
  <1> HIDE DEF annotate
  <1>3. Joined(chain, LoaderFacts, annotate, Len(LoaderFacts), Len(annotate))
    BY <1>2, SequenceTypes, JoinedCalls
  <1> HIDE DEF chain
  <1>4. Joined(chain, LoaderFacts, annotate, 4, 1)
    BY <1>2, <1>3, SequenceLengths
  <1>5. /\ chain \in Seq(CallNames) /\ Len(chain) = 5
        /\ \A i \in 1 .. 4 : chain[i] = LoaderFacts[i]
        /\ chain[1 + 4] = annotate[1]
    BY <1>4 DEF Joined
  <1> QED BY <1>1, <1>2, <1>5

LEMMA AnalyzeCalls ==
    /\ Len(Pipeline["analyze"]) = 22
    /\ \A i \in 1 .. 4 : Pipeline["analyze"][i] = LoaderFacts[i]
    /\ Pipeline["analyze"][5] = "shdr_annotate_exec_regions"
    /\ \A i \in 1 .. 6 : Pipeline["analyze"][i + 5] = Storage[i]
    /\ \A i \in 1 .. 11 : Pipeline["analyze"][i + 11] = CandidateFacts[i]
  <1> DEFINE loader == Pipeline["mitigations"]
             facts == loader \o Storage
             chain == facts \o CandidateFacts
  <1>1. Pipeline["analyze"] = chain
    BY DEF Pipeline
  <1>2. /\ loader \in Seq(CallNames) /\ Len(loader) = 5
        /\ \A i \in 1 .. 4 : loader[i] = LoaderFacts[i]
        /\ loader[5] = "shdr_annotate_exec_regions"
    BY MitigationsCalls
  <1> HIDE DEF loader
  <1>3. Joined(facts, loader, Storage, Len(loader), Len(Storage))
    BY <1>2, SequenceTypes, JoinedCalls
  <1> HIDE DEF facts
  <1>4. Joined(facts, loader, Storage, 5, 6)
    BY <1>2, <1>3, SequenceLengths
  <1>5. /\ facts \in Seq(CallNames) /\ Len(facts) = 11
        /\ \A i \in 1 .. 5 : facts[i] = loader[i]
        /\ \A i \in 1 .. 6 : facts[i + 5] = Storage[i]
    BY <1>4 DEF Joined
  <1>6. Joined(chain, facts, CandidateFacts, Len(facts), Len(CandidateFacts))
    BY <1>5, SequenceTypes, JoinedCalls
  <1> HIDE DEF chain
  <1>7. Joined(chain, facts, CandidateFacts, 11, 11)
    BY <1>5, <1>6, SequenceLengths
  <1>8. /\ Len(chain) = 22
        /\ \A i \in 1 .. 11 : chain[i] = facts[i]
        /\ \A i \in 1 .. 11 : chain[i + 11] = CandidateFacts[i]
    BY <1>7 DEF Joined
  <1>9. /\ \A i \in 1 .. 4 : chain[i] = LoaderFacts[i]
        /\ chain[5] = "shdr_annotate_exec_regions"
        /\ \A i \in 1 .. 6 : chain[i + 5] = Storage[i]
    BY <1>2, <1>5, <1>8
  <1> QED BY <1>1, <1>8, <1>9

LEMMA NoArenaInFacts ==
    /\ \A i \in 1 .. 4 : LoaderFacts[i] \in DOMAIN Refusals \ {"mark_complete"}
    /\ \A i \in 1 .. 11 : CandidateFacts[i] \in DOMAIN Refusals
    /\ CandidateFacts[11] = "mark_complete"
    /\ DOMAIN Refusals \cap ArenaCalls = {}
    /\ "shdr_annotate_exec_regions" \in DOMAIN Refusals
  <1>1. \A i \in 1 .. 4 : i = 1 \/ i = 2 \/ i = 3 \/ i = 4
    OBVIOUS
  <1>2. \A i \in 1 .. 11 : \/ i = 1 \/ i = 2 \/ i = 3 \/ i = 4 \/ i = 5 \/ i = 6
                           \/ i = 7 \/ i = 8 \/ i = 9 \/ i = 10 \/ i = 11
    OBVIOUS
  <1>3. \A i \in 1 .. 4 : LoaderFacts[i] \in DOMAIN Refusals \ {"mark_complete"}
    BY <1>1, StageNames DEF LoaderFacts
  <1>4. /\ \A i \in 1 .. 11 : CandidateFacts[i] \in DOMAIN Refusals
        /\ CandidateFacts[11] = "mark_complete"
    BY <1>2, StageNames DEF CandidateFacts
  <1> QED BY <1>3, <1>4, StageNames, TableNames DEF ArenaCalls

\* Every position of every pipeline.
LEMMA CallKinds ==
    ASSUME NEW c \in {"info", "mitigations", "gadgets", "analyze"}
    PROVE  /\ Len(Pipeline[c]) \in Nat
           /\ c \in {"gadgets", "analyze"} =>
                /\ Len(Pipeline[c]) = Before(c) + 17
                /\ Pipeline[c][Before(c) + 17] = "mark_complete"
                /\ \A i \in 1 .. Before(c) : Pipeline[c][i] \in DOMAIN Refusals
                /\ \A i \in 1 .. 6 : Pipeline[c][i + Before(c)] = Storage[i]
                /\ \A i \in Before(c) + 7 .. Before(c) + 17 : Pipeline[c][i] \in DOMAIN Refusals
           /\ c \notin {"gadgets", "analyze"} =>
                \A i \in 1 .. Len(Pipeline[c]) : Pipeline[c][i] \in DOMAIN Refusals
  <1>1. CASE c = "info"
    <2>1. Len(Pipeline[c]) = 1 /\ Pipeline[c][1] = "elf64_validate"
      BY <1>1 DEF Pipeline
    <2> QED BY <1>1, <2>1, StageNames
  <1>2. CASE c = "mitigations"
    <2>1. \A i \in 1 .. 5 : i \in 1 .. 4 \/ i = 5
      OBVIOUS
    <2> QED BY <1>2, <2>1, MitigationsCalls, NoArenaInFacts
  <1>3. CASE c = "gadgets"
    <2>1. Before(c) = 4
      BY <1>3 DEF Before
    <2>2. \A i \in 11 .. 21 : i - 10 \in 1 .. 11 /\ (i - 10) + 10 = i
      OBVIOUS
    <2>3. \A i \in 11 .. 21 : Pipeline[c][i] = CandidateFacts[i - 10]
      BY <1>3, <2>2, GadgetsCalls
    <2>4. Pipeline[c][21] = CandidateFacts[11]
      BY <2>3
    <2> QED BY <1>3, <2>1, <2>2, <2>3, <2>4, GadgetsCalls, NoArenaInFacts
  <1>4. CASE c = "analyze"
    <2>1. Before(c) = 5
      BY <1>4 DEF Before
    <2>2. \A i \in 12 .. 22 : i - 11 \in 1 .. 11 /\ (i - 11) + 11 = i
      OBVIOUS
    <2>3. \A i \in 12 .. 22 : Pipeline[c][i] = CandidateFacts[i - 11]
      BY <1>4, <2>2, AnalyzeCalls
    <2>4. Pipeline[c][22] = CandidateFacts[11]
      BY <2>3
    <2>5. \A i \in 1 .. 5 : i \in 1 .. 4 \/ i = 5
      OBVIOUS
    <2> QED BY <1>4, <2>1, <2>2, <2>3, <2>4, <2>5, AnalyzeCalls, NoArenaInFacts
  <1> QED BY <1>1, <1>2, <1>3, <1>4

LEMMA PipelinesHaveCalls ==
    ASSUME NEW c \in {"info", "mitigations", "gadgets", "analyze"}
    PROVE  Len(Pipeline[c]) \in Nat \ {0}
  <1>1. CASE c \in {"gadgets", "analyze"}
    <2>1. Before(c) \in {4, 5}
      BY DEF Before
    <2>2. Len(Pipeline[c]) = Before(c) + 17
      BY <1>1, CallKinds
    <2> QED BY <2>1, <2>2
  <1>2. CASE c = "info"
    BY <1>2 DEF Pipeline
  <1>3. CASE c = "mitigations"
    BY <1>3, MitigationsCalls
  <1> QED BY <1>1, <1>2, <1>3

-----------------------------------------------------------------------------
(* What the program counter says.                                          *)

Running == {"open", "stat", "mmap", "analyze"}

ControlInv ==
    /\ command \in {"info", "mitigations", "gadgets", "analyze"}
    /\ stage \in Nat /\ chunk \in Nat
    /\ stage <= Len(Calls)
    /\ pc \in Running => status = EXIT_OK /\ chunk = 0
    /\ pc \in {"open", "stat", "mmap"} => stage = 0
    /\ pc = "report" \/ chunk > 0 => status = EXIT_OK /\ stage = Len(Calls)
    /\ UsesArena /\ stage = Len(Calls) => complete

\* The last call of a command with candidates marks the summary complete.
LEMMA LastCallCompletes ==
    ASSUME ControlInv
    PROVE  /\ Len(Calls) \in Nat
           /\ UsesArena => Len(Calls) > 0 /\ Calls[Len(Calls)] = "mark_complete"
           /\ UsesArena /\ stage + 1 = Len(Calls) => Call = "mark_complete"
  <1>1. /\ Len(Calls) \in Nat
        /\ UsesArena => /\ Len(Calls) = Before(command) + 17
                        /\ Calls[Before(command) + 17] = "mark_complete"
    BY CallKinds DEF ControlInv, Calls, UsesArena
  <1>2. Before(command) \in {4, 5}
    BY DEF Before
  <1> QED BY <1>1, <1>2 DEF Call

LEMMA ControlStep == ControlInv /\ [Next]_vars => ControlInv'
  <1> SUFFICES ASSUME ControlInv, [Next]_vars PROVE ControlInv'
    OBVIOUS
  <1> USE DEF EXIT_OK
  <1>0. /\ Len(Calls) \in Nat
        /\ UsesArena => Len(Calls) > 0 /\ Calls[Len(Calls)] = "mark_complete"
        /\ UsesArena /\ stage + 1 = Len(Calls) => Call = "mark_complete"
    BY LastCallCompletes
  <1>1. CASE OpenTarget
    BY <1>1, <1>0 DEF OpenTarget, Fails, ControlInv, Running, Calls, UsesArena, arena,
       target, output
  <1>2. CASE StatTarget
    BY <1>2, <1>0 DEF StatTarget, ControlInv, Running, Calls, UsesArena, arena, target, output
  <1>3. CASE StatRefused
    BY <1>3, <1>0 DEF StatRefused, Fails, CloseFd, ControlInv, Running, Calls, UsesArena,
       arena, target, output
  <1>4. CASE MapTarget
    BY <1>4, <1>0 DEF MapTarget, ControlInv, Running, Calls, UsesArena, arena, target, output
  <1>5. CASE MapRefused
    BY <1>5, <1>0 DEF MapRefused, Fails, CloseFd, ControlInv, Running, Calls, UsesArena,
       arena, target, output
  <1>6. CASE StageReturnsOK
    <2>1. /\ pc = "analyze" /\ stage < Len(Calls) /\ stage' = stage + 1
          /\ UNCHANGED <<command, pc, status, chunk>>
      BY <1>6 DEF StageReturnsOK, Calling, output
    <2>2. UsesArena /\ stage + 1 = Len(Calls) => complete'
      BY <1>0, <1>6, Zenon DEF StageReturnsOK
    <2>3. Calls' = Calls /\ (UsesArena' <=> UsesArena)
      BY <2>1 DEF Calls, UsesArena
    <2>4. UsesArena' /\ stage' = Len(Calls)' => complete'
      BY <2>1, <2>2, <2>3
    <2> QED BY <1>0, <2>1, <2>3, <2>4 DEF ControlInv, Running
  <1>7. CASE StageRefuses
    BY <1>7, <1>0 DEF StageRefuses, Fails, Calling, ControlInv, Running, Calls,
       UsesArena, arena, target, output
  <1>8. CASE ArenaReady
    <2>1. pc = "analyze" /\ stage < Len(Calls) /\ Call # "mark_complete"
      BY <1>8 DEF ArenaReady, Calling
    <2> QED BY <1>0, <1>8, <2>1 DEF ArenaReady, ControlInv, Running, Calls, UsesArena,
           target, output
  <1>9. CASE ArenaRefused
    BY <1>9, <1>0 DEF ArenaRefused, Calling, Fails, A!ArenaInitFails, ControlInv,
       Running, Calls, UsesArena, arena, target, output
  <1>10. CASE AllocTable
    <2>1. /\ pc = "analyze" /\ stage < Len(Calls) /\ Call # "mark_complete"
      BY <1>10, NoArenaInFacts, StageNames DEF AllocTable, Calling, ArenaCalls
    <2>2. /\ UNCHANGED <<command, complete, chunk>>
          /\ \/ stage' = stage + 1 /\ UNCHANGED <<pc, status>>
             \/ stage' = stage /\ pc' = "release"
      BY <1>10 DEF AllocTable, Fails, target, output
    <2> QED BY <1>0, <2>1, <2>2 DEF ControlInv, Running, Calls, UsesArena
  <1>11. CASE BeginReport
    BY <1>11, <1>0 DEF BeginReport, ControlInv, Running, Calls, UsesArena, arena, target, output
  <1>12. CASE WriteChunk
    BY <1>12, <1>0 DEF WriteChunk, ControlInv, Running, Calls, UsesArena, arena, target, output
  <1>13. CASE ReportWritten
    BY <1>13, <1>0 DEF ReportWritten, ControlInv, Running, Calls, UsesArena, arena, target, output
  <1>14. CASE ReleaseArena
    BY <1>14, <1>0 DEF ReleaseArena, A!ArenaDestroy, ControlInv, Running, Calls,
       UsesArena, arena, target, output
  <1>15. CASE UnmapTarget
    BY <1>15, <1>0 DEF UnmapTarget, ControlInv, Running, Calls, UsesArena, arena, target, output
  <1>16. CASE PrintStatus
    BY <1>16, <1>0 DEF PrintStatus, ControlInv, Running, Calls, UsesArena, arena, target, output
  <1>17. CASE Truncate
    BY <1>17, <1>0 DEF Truncate, ControlInv, Running, Calls, UsesArena, arena, target, output
  <1>18. CASE ReadBeyondEnd
    BY <1>18, <1>0 DEF ReadBeyondEnd, Dies, Calling, ControlInv, Running, Calls,
       UsesArena, arena, target, output
  <1>19. CASE ReaderGone
    BY <1>19, <1>0 DEF ReaderGone, Dies, ControlInv, Running, Calls, UsesArena, arena,
       target, output
  <1>20. CASE UNCHANGED vars
    BY <1>20, <1>0 DEF vars, ControlInv, Running, Calls, UsesArena, arena, target, output
  <1> QED BY <1>1, <1>2, <1>3, <1>4, <1>5, <1>6, <1>7, <1>8, <1>9, <1>10, <1>11, <1>12, <1>13,
          <1>14, <1>15, <1>16, <1>17, <1>18, <1>19, <1>20 DEF Next, Step, Returned

LEMMA ControlInit == Init => ControlInv
  <1> SUFFICES ASSUME Init PROVE ControlInv
    OBVIOUS
  <1>1. command \in {"info", "mitigations", "gadgets", "analyze"} /\ stage = 0
    BY CommandAssumption DEF Init
  <1>2. Len(Calls) \in Nat /\ (UsesArena => Len(Calls) # 0)
    <2>1. /\ Len(Calls) \in Nat
          /\ UsesArena => Len(Calls) = Before(command) + 17
      BY <1>1, CallKinds DEF Calls, UsesArena
    <2> QED BY <2>1 DEF Before
  <1> QED BY <1>1, <1>2 DEF Init, ControlInv

(***************************************************************************)
(* No command that fails has written to stdout, and a candidate report is  *)
(* written from a summary marked complete.                                 *)
(***************************************************************************)
THEOREM FailsBeforeOutputTheorem == SafeSpec => []FailsBeforeOutput
  <1>1. ControlInv => FailsBeforeOutput
    BY DEF ControlInv, FailsBeforeOutput
  <1> QED BY <1>1, ControlInit, ControlStep, PTL DEF SafeSpec

LEMMA FirstFailureStep == ControlInv /\ [Next]_vars => [status # EXIT_OK => status' = status]_vars
  <1> SUFFICES ASSUME ControlInv, Next, status # EXIT_OK PROVE status' = status
    BY DEF vars
  <1>1. pc \notin Running
    BY DEF ControlInv
  <1> QED BY <1>1 DEF Running, Next, Step, Returned, OpenTarget, StatTarget, StatRefused, MapTarget, MapRefused,
          StageReturnsOK, StageRefuses, ArenaReady, ArenaRefused, AllocTable, Calling, BeginReport, WriteChunk,
          ReportWritten, ReleaseArena, UnmapTarget, PrintStatus, Truncate, ReadBeyondEnd, ReaderGone, Dies, vars

(***************************************************************************)
(* A failing stage decides the exit status: no step after it changes it.   *)
(***************************************************************************)
THEOREM FirstFailureTheorem == SafeSpec => FirstFailureKept
  BY ControlInit, ControlStep, FirstFailureStep, PTL DEF SafeSpec, FirstFailureKept

-----------------------------------------------------------------------------
(* What the records say of the kernel.                                     *)

KernelInv ==
    pc # "killed" =>
        /\ openFds = IF fileMap.fd = NoFd THEN {} ELSE {fileMap.fd}
        /\ fileMap.fd # NoFd => pc \in {"stat", "mmap"}
        /\ mapped <=> fileMap.addr # 0
        /\ fileMap.addr # 0 => fileMap.size > 0 /\ pc \notin {"diagnose", "returned"}
        /\ pc = "mmap" => fileMap.size > 0
        /\ pc \in {"open", "stat", "mmap"} => fileMap.addr = 0
        /\ A!MappingMatchesRecord
        /\ base # 0 => size # 0 /\ pc \notin {"unmap", "diagnose", "returned"}
        /\ ~UsesArena => base = 0

RecordTyped ==
    /\ fileMap \in [fd : Int, size : Nat, addr : Nat]
    /\ length \in Nat /\ mapped \in BOOLEAN

\* info and mitigations never reach the arena.
LEMMA ArenaCallsAreForCandidates ==
    ASSUME ControlInv, Calling({"arena_init"}) PROVE UsesArena
  <1>1. /\ Call = Calls[stage + 1] /\ Call = "arena_init"
        /\ stage + 1 \in 1 .. Len(Calls)
    <2>1. Len(Calls) \in Nat
      BY LastCallCompletes
    <2> QED BY <2>1 DEF Calling, Call, ControlInv
  <1>2. "arena_init" \notin DOMAIN Refusals
    BY StageNames
  <1> QED BY <1>1, <1>2, CallKinds DEF ControlInv, Calls, UsesArena

LEMMA KernelStep == ControlInv /\ RecordTyped /\ KernelInv /\ [Next]_vars => RecordTyped' /\ KernelInv'
  <1> SUFFICES ASSUME ControlInv, RecordTyped, KernelInv, [Next]_vars
               PROVE  RecordTyped' /\ KernelInv'
    OBVIOUS
  <1> USE DEF NoFd
  <1>0. command' = command
    BY DEF Next, Step, Returned, OpenTarget, StatTarget, StatRefused, MapTarget,
           MapRefused, StageReturnsOK, StageRefuses, ArenaReady, ArenaRefused,
           AllocTable, BeginReport, WriteChunk, ReportWritten, ReleaseArena,
           UnmapTarget, PrintStatus, Truncate, ReadBeyondEnd, ReaderGone, Dies, vars
  <1>1. CASE OpenTarget
    <2>1. /\ pc = "open" /\ pc' \in {"stat", "release"}
          /\ fileMap'.addr = 0
          /\ fileMap' \in [fd : Int, size : Nat, addr : Nat]
      BY <1>1 DEF OpenTarget, Fails
    <2>2. /\ openFds' = IF fileMap'.fd = NoFd THEN {} ELSE {fileMap'.fd}
          /\ fileMap'.fd # NoFd => pc' = "stat"
      BY <1>1, <2>1 DEF OpenTarget, KernelInv
    <2>3. UNCHANGED <<arena, length, mapped>>
      BY <1>1 DEF OpenTarget
    <2>4. ~mapped /\ ~mapped'
      BY <2>1, <2>3 DEF KernelInv, RecordTyped
    <2> QED BY <1>0, <2>1, <2>2, <2>3, <2>4
            DEF KernelInv, RecordTyped, A!MappingMatchesRecord, UsesArena, arena
  <1>2. CASE StatTarget
    BY <1>2, <1>0 DEF StatTarget, KernelInv, RecordTyped, A!MappingMatchesRecord,
       UsesArena, arena, target, output
  <1>3. CASE StatRefused
    BY <1>3, <1>0 DEF StatRefused, Fails, CloseFd, KernelInv, RecordTyped,
       A!MappingMatchesRecord, UsesArena, arena, target, output
  <1>4. CASE MapTarget
    <2>1. pc = "mmap" /\ pc' = "analyze" /\ mapped' = TRUE
      BY <1>4 DEF MapTarget
    <2>2. /\ fileMap'.fd = NoFd /\ fileMap'.addr = 1 /\ fileMap'.size = fileMap.size
          /\ fileMap' \in [fd : Int, size : Nat, addr : Nat]
      <3>1. /\ fileMap' = [fileMap EXCEPT !.addr = 1, !.fd = NoFd]
            /\ fileMap \in [fd : Int, size : Nat, addr : Nat]
        BY <1>4 DEF MapTarget, RecordTyped
      <3>2. fileMap' = [fd |-> NoFd, size |-> fileMap.size, addr |-> 1] /\ fileMap.size \in Nat
        BY <3>1
      <3> QED BY <3>2
    <2>3. openFds' = {}
      BY <1>4, <2>1 DEF MapTarget, KernelInv
    <2>4. UNCHANGED <<arena, length>>
      BY <1>4 DEF MapTarget
    <2> QED BY <1>0, <2>1, <2>2, <2>3, <2>4
            DEF KernelInv, RecordTyped, A!MappingMatchesRecord, UsesArena, arena
  <1>5. CASE MapRefused
    BY <1>5, <1>0 DEF MapRefused, Fails, CloseFd, KernelInv, RecordTyped,
       A!MappingMatchesRecord, UsesArena, arena, target, output
  <1>6. CASE StageReturnsOK
    BY <1>6, <1>0 DEF StageReturnsOK, Calling, Call, KernelInv, RecordTyped,
       A!MappingMatchesRecord, UsesArena, arena, target, output
  <1>7. CASE StageRefuses
    BY <1>7, <1>0 DEF StageRefuses, Fails, Calling, KernelInv, RecordTyped,
       A!MappingMatchesRecord, UsesArena, arena, target, output
  <1>8. CASE ArenaReady
    <2>1. UsesArena /\ pc = "analyze"
      BY <1>8, ArenaCallsAreForCandidates DEF ArenaReady, Calling
    <2>2. /\ base' # 0 /\ size' = ArenaBytes /\ ArenaBytes # 0
          /\ mappings' = {[base |-> base', size |-> ArenaBytes]}
      BY <1>8, <2>1, CommandAssumption
         DEF ArenaReady, A!ArenaInitMaps, A!MmapAnswers, KernelInv, A!MappingMatchesRecord
    <2>3. UNCHANGED <<pc, target, length>>
      BY <1>8 DEF ArenaReady
    <2> QED BY <1>0, <2>1, <2>2, <2>3 DEF KernelInv, RecordTyped, A!MappingMatchesRecord,
           UsesArena,
                                          target
  <1>9. CASE ArenaRefused
    BY <1>9, <1>0 DEF ArenaRefused, Calling, Fails, A!ArenaInitFails, KernelInv,
       RecordTyped, A!MappingMatchesRecord, UsesArena, arena, target, output
  <1>10. CASE AllocTable
    BY <1>10, <1>0 DEF AllocTable, Calling, Call, Fails, A!ArenaAlloc, A!ArenaAllocFails,
       A!record, KernelInv, RecordTyped, A!MappingMatchesRecord, UsesArena, arena,
       target, output
  <1>11. CASE BeginReport
    BY <1>11, <1>0 DEF BeginReport, KernelInv, RecordTyped, A!MappingMatchesRecord,
       UsesArena, arena, target, output
  <1>12. CASE WriteChunk
    BY <1>12, <1>0 DEF WriteChunk, KernelInv, RecordTyped, A!MappingMatchesRecord,
       UsesArena, arena, target, output
  <1>13. CASE ReportWritten
    BY <1>13, <1>0 DEF ReportWritten, KernelInv, RecordTyped, A!MappingMatchesRecord,
       UsesArena, arena, target, output
  <1>14. CASE ReleaseArena
    BY <1>14, <1>0 DEF ReleaseArena, A!ArenaDestroy, KernelInv, RecordTyped,
       A!MappingMatchesRecord, UsesArena, arena, target, output
  <1>15. CASE UnmapTarget
    BY <1>15, <1>0 DEF UnmapTarget, KernelInv, RecordTyped, A!MappingMatchesRecord,
       UsesArena, arena, target, output
  <1>16. CASE PrintStatus
    BY <1>16, <1>0 DEF PrintStatus, KernelInv, RecordTyped, A!MappingMatchesRecord,
       UsesArena, arena, target, output
  <1>17. CASE Truncate
    BY <1>17, <1>0 DEF Truncate, KernelInv, RecordTyped, A!MappingMatchesRecord,
       UsesArena, arena, target, output
  <1>18. CASE ReadBeyondEnd
    BY <1>18, <1>0 DEF ReadBeyondEnd, Dies, Calling, KernelInv, RecordTyped,
       A!MappingMatchesRecord, UsesArena, arena, target, output
  <1>19. CASE ReaderGone
    BY <1>19, <1>0 DEF ReaderGone, Dies, KernelInv, RecordTyped, A!MappingMatchesRecord,
       UsesArena, arena, target, output
  <1>20. CASE UNCHANGED vars
    BY <1>20, <1>0 DEF vars, KernelInv, RecordTyped, A!MappingMatchesRecord, UsesArena,
       arena, target, output
  <1> QED BY <1>1, <1>2, <1>3, <1>4, <1>5, <1>6, <1>7, <1>8, <1>9, <1>10, <1>11, <1>12, <1>13,
          <1>14, <1>15, <1>16, <1>17, <1>18, <1>19, <1>20 DEF Next, Step, Returned

LEMMA RecordsAtStart == Init => RecordTyped /\ KernelInv
  <1> SUFFICES ASSUME Init PROVE RecordTyped /\ KernelInv
    OBVIOUS
  <1>1. /\ pc = "open" /\ openFds = {} /\ mapped = FALSE /\ length \in Nat
        /\ fileMap = [fd |-> NoFd, size |-> 0, addr |-> 0]
        /\ base = 0 /\ mappings = {}
    BY CommandAssumption DEF Init, A!Init
  <1>2. /\ fileMap.fd = NoFd /\ fileMap.addr = 0 /\ NoFd \in Int
        /\ fileMap \in [fd : Int, size : Nat, addr : Nat]
    BY <1>1 DEF NoFd
  <1>3. RecordTyped
    BY <1>1, <1>2 DEF RecordTyped
  <1>4. mapped <=> fileMap.addr # 0
    BY <1>1, <1>2
  <1> QED BY <1>1, <1>2, <1>3, <1>4 DEF KernelInv, A!MappingMatchesRecord

(***************************************************************************)
(* The FILEMAP and ARENA records describe what the process holds, so both  *)
(* exits release each thing once and a command returns with nothing held.  *)
(***************************************************************************)
THEOREM RecordsMatchKernelTheorem == SafeSpec => []RecordsMatchKernel
  <1>1. KernelInv => RecordsMatchKernel
    BY DEF KernelInv, RecordsMatchKernel, A!MappingMatchesRecord
  <1> QED BY <1>1, RecordsAtStart, ControlInit, ControlStep, KernelStep, PTL DEF SafeSpec

-----------------------------------------------------------------------------
(* What is left of the arena.                                              *)

LEMMA AlignmentsArePowers == A!PowerOfTwo(8) /\ A!PowerOfTwo(16)
  <1>1. \A d \in 2 .. 8 : d = 2 \/ d = 3 \/ d = 4 \/ d = 5 \/ d = 6 \/ d = 7 \/ d = 8
    OBVIOUS
  <1>2. \A d \in 2 .. 16 : \/ d \in 2 .. 8
                         \/ d = 9 \/ d = 10 \/ d = 11 \/ d = 12 \/ d = 13 \/ d = 14 \/ d = 15 \/ d = 16
    OBVIOUS
  <1>3. A!PowerOfTwo(8)
    BY <1>1 DEF A!PowerOfTwo
  <1>4. A!PowerOfTwo(16)
    BY <1>1, <1>2 DEF A!PowerOfTwo
  <1> QED BY <1>3, <1>4

(***************************************************************************)
(* An offset that is a multiple of sixteen needs no adjustment, so a table *)
(* that fits in what is left in numbers is allocated right there.          *)
(***************************************************************************)
LEMMA AllocatesInPlace ==
    ASSUME NEW n \in Nat \ {0}, NEW align \in {8, 16},
           used \in Nat, used % 16 = 0, used + 15 <= WordMax,
           base \in Nat \ {0}, size \in Nat, base + size <= WordMax,
           used + n <= size
    PROVE  /\ A!Allocates(n, align)
           /\ A!AlignedOffset(align) = used
           /\ A!WordSum(A!AlignedOffset(align), n) = used + n
           /\ A!WordSum(base, A!AlignedOffset(align)) # 0
  <1>1. A!Alignment(align) = align /\ align \in Nat /\ align > 1
    BY DEF A!Alignment
  <1>2. ~A!Carries(used, align - 1) /\ A!WordSum(used, align - 1) = used + (align - 1)
    BY <1>1, WordMaxAssumption DEF A!Carries, A!WordSum
  <1>3. (used + (align - 1)) - ((used + (align - 1)) % align) = used
    <2>1. CASE align = 8
      BY <2>1
    <2>2. CASE align = 16
      BY <2>2
    <2> QED BY <2>1, <2>2
  <1>4. A!AlignedOffset(align) = used
    <2>1. A!AlignedOffset(align) = (used + (align - 1)) - ((used + (align - 1)) % align)
      <3>1. A!AlignedOffset(align) = A!WordSum(used, A!Alignment(align) - 1)
                 - (A!WordSum(used, A!Alignment(align) - 1) % A!Alignment(align))
        BY Zenon DEF A!AlignedOffset
      <3> QED BY <1>1, <1>2, <3>1, Zenon
    <2> QED BY <1>3, <2>1, Zenon
  <1>5. /\ ~A!Carries(used, n) /\ A!WordSum(used, n) = used + n
        /\ ~A!Carries(base, used) /\ A!WordSum(base, used) = base + used
    BY WordMaxAssumption DEF A!Carries, A!WordSum
  <1>6. A!PowerOfTwo(align)
    BY AlignmentsArePowers
  <1>7. /\ n # 0 /\ base # 0 /\ ~(used + n > size) /\ base + used # 0
        /\ ~A!Carries(used, A!Alignment(align) - 1)
    BY <1>1, <1>2
  <1>8. A!Allocates(n, align)
    BY <1>4, <1>5, <1>6, <1>7, Zenon DEF A!Allocates
  <1> QED BY <1>4, <1>5, <1>7, <1>8

\* ARENA_USED when k tables are in place.
Filled(k) == CASE k = 0 -> 0
               [] k = 1 -> 112 * RecordMax
               [] k = 2 -> 168 * RecordMax
               [] k = 3 -> 184 * RecordMax
               [] k = 4 -> 208 * RecordMax
               [] k = 5 -> 216 * RecordMax

LEMMA FilledByTables ==
    ASSUME NEW k \in 0 .. 4
    PROVE  LET t == Tables[Storage[k + 2]] IN
           /\ t.bytes \in Nat \ {0} /\ t.align \in {8, 16}
           /\ Filled(k) \in Nat /\ Filled(k) % 16 = 0 /\ Filled(k) + 15 <= WordMax
           /\ Filled(k) + t.bytes = Filled(k + 1)
           /\ Filled(k) + t.bytes <= ArenaBytes
  <1>1. RecordMax \in Nat \ {0} /\ RecordMax % 2 = 0 /\ 216 * RecordMax + 15 <= WordMax
        /\ WordMax \in Nat
    BY CommandAssumption, StorageAssumption, WordMaxAssumption DEF ArenaBytes
  <1>2. CASE k = 0
    BY <1>1, <1>2 DEF Filled, Tables, Storage, ArenaBytes
  <1>3. CASE k = 1
    BY <1>1, <1>3 DEF Filled, Tables, Storage, ArenaBytes
  <1>4. CASE k = 2
    BY <1>1, <1>4 DEF Filled, Tables, Storage, ArenaBytes
  <1>5. CASE k = 3
    BY <1>1, <1>5 DEF Filled, Tables, Storage, ArenaBytes
  <1>6. CASE k = 4
    BY <1>1, <1>6 DEF Filled, Tables, Storage, ArenaBytes
  <1> QED BY <1>2, <1>3, <1>4, <1>5, <1>6

StorageInv ==
    /\ TablesAlwaysFit
    /\ pc = "analyze" /\ UsesArena /\ stage \in Before(command) + 1 .. Before(command) + 5 =>
          /\ base \in Nat \ {0} /\ size = ArenaBytes /\ base + size <= WordMax
          /\ used = Filled(stage - Before(command) - 1)

\* Which table the running arena_alloc is for.
LEMMA TableCalls ==
    ASSUME ControlInv, Calling(DOMAIN Tables)
    PROVE  /\ UsesArena /\ Before(command) \in {4, 5}
           /\ stage - Before(command) - 1 \in 0 .. 4
           /\ stage \in Before(command) + 1 .. Before(command) + 5
           /\ Call = Storage[(stage - Before(command) - 1) + 2]
  <1>1. /\ Call = Calls[stage + 1] /\ Call \in DOMAIN Tables
        /\ stage \in Nat /\ stage + 1 \in 1 .. Len(Calls)
    <2>1. Len(Calls) \in Nat
      BY LastCallCompletes
    <2> QED BY <2>1 DEF Calling, Call, ControlInv
  <1>2. Call \notin DOMAIN Refusals /\ Call # "arena_init"
    BY <1>1, NoArenaInFacts, TableNames DEF ArenaCalls
  <1>3. UsesArena
    BY <1>1, <1>2, CallKinds DEF ControlInv, Calls, UsesArena
  <1>4. Before(command) \in {4, 5}
    BY DEF Before
  <1>5. /\ Len(Calls) = Before(command) + 17
        /\ \A i \in 1 .. Before(command) : Calls[i] \in DOMAIN Refusals
        /\ \A i \in 1 .. 6 : Calls[i + Before(command)] = Storage[i]
        /\ \A i \in Before(command) + 7 .. Before(command) + 17 : Calls[i] \in DOMAIN Refusals
    BY <1>3, CallKinds DEF ControlInv, Calls, UsesArena
  <1>6. stage + 1 \in Before(command) + 1 .. Before(command) + 6
    <2>1. stage + 1 \notin 1 .. Before(command)
      BY <1>1, <1>2, <1>5, Zenon
    <2>2. stage + 1 \notin Before(command) + 7 .. Before(command) + 17
      BY <1>1, <1>2, <1>5, Zenon
    <2>3. stage + 1 \in 1 .. Before(command) + 17
      BY <1>1, <1>5, Zenon
    <2> QED BY <1>1, <1>4, <2>1, <2>2, <2>3
  <1>7. Call = Storage[stage + 1 - Before(command)]
    <2>1. /\ stage + 1 - Before(command) \in 1 .. 6
          /\ (stage + 1 - Before(command)) + Before(command) = stage + 1
      BY <1>1, <1>4, <1>6
    <2> QED BY <1>1, <1>5, <2>1
  <1>8. stage + 1 # Before(command) + 1
    <2>1. Storage[1] = "arena_init"
      BY DEF Storage
    <2> QED BY <1>1, <1>2, <1>4, <1>7, <2>1
  <1>9. /\ stage - Before(command) - 1 \in 0 .. 4
        /\ stage \in Before(command) + 1 .. Before(command) + 5
        /\ (stage - Before(command) - 1) + 2 = stage + 1 - Before(command)
    BY <1>1, <1>4, <1>6, <1>8
  <1> QED BY <1>3, <1>4, <1>7, <1>9

\* Where in the pipeline arena_init is.
LEMMA InitCall ==
    ASSUME ControlInv, Calling({"arena_init"})
    PROVE  UsesArena /\ Before(command) \in {4, 5} /\ stage = Before(command)
  <1>1. UsesArena
    BY ArenaCallsAreForCandidates
  <1>2. /\ Call = Calls[stage + 1] /\ Call = "arena_init"
        /\ stage \in Nat /\ stage + 1 \in 1 .. Len(Calls)
    <2>1. Len(Calls) \in Nat
      BY LastCallCompletes
    <2> QED BY <2>1 DEF Calling, Call, ControlInv
  <1>3. Before(command) \in {4, 5}
    BY DEF Before
  <1>4. /\ Len(Calls) = Before(command) + 17
        /\ \A i \in 1 .. Before(command) : Calls[i] \in DOMAIN Refusals
        /\ \A i \in 1 .. 6 : Calls[i + Before(command)] = Storage[i]
        /\ \A i \in Before(command) + 7 .. Before(command) + 17 : Calls[i] \in DOMAIN Refusals
    BY <1>1, CallKinds DEF ControlInv, Calls, UsesArena
  <1>5. "arena_init" \notin DOMAIN Refusals
    BY StageNames
  <1>6. stage + 1 \in Before(command) + 1 .. Before(command) + 6
    <2>1. stage + 1 \notin 1 .. Before(command)
      BY <1>2, <1>4, <1>5, Zenon
    <2>2. stage + 1 \notin Before(command) + 7 .. Before(command) + 17
      BY <1>2, <1>4, <1>5, Zenon
    <2>3. stage + 1 \in 1 .. Before(command) + 17
      BY <1>2, <1>4, Zenon
    <2> QED BY <1>2, <1>3, <2>1, <2>2, <2>3
  <1>7. \A i \in 2 .. 6 : Storage[i] # "arena_init"
    <2>1. \A i \in 2 .. 6 : i = 2 \/ i = 3 \/ i = 4 \/ i = 5 \/ i = 6
      OBVIOUS
    <2> QED BY <2>1 DEF Storage
  <1>8. Storage[stage + 1 - Before(command)] = "arena_init"
    <2>1. /\ stage + 1 - Before(command) \in 1 .. 6
          /\ (stage + 1 - Before(command)) + Before(command) = stage + 1
      BY <1>2, <1>3, <1>6
    <2> QED BY <1>2, <1>4, <2>1
  <1>9. stage + 1 - Before(command) \notin 2 .. 6
    BY <1>7, <1>8
  <1> QED BY <1>1, <1>2, <1>3, <1>6, <1>9

\* The other calls leave the arena where it is and do not advance into it.
LEMMA StageOutsideArena ==
    ASSUME ControlInv, Calling(DOMAIN Refusals)
    PROVE  UsesArena => stage \notin Before(command) .. Before(command) + 5
  <1> SUFFICES ASSUME UsesArena, stage \in Before(command) .. Before(command) + 5 PROVE FALSE
    OBVIOUS
  <1>1. Before(command) \in {4, 5} /\ stage \in Nat
    BY DEF Before, ControlInv
  <1>2. Call = Calls[stage + 1] /\ Call \in DOMAIN Refusals
    BY DEF Calling, Call
  <1>3. \A i \in 1 .. 6 : Calls[i + Before(command)] = Storage[i]
    BY CallKinds DEF ControlInv, Calls, UsesArena
  <1>4. \A i \in 1 .. 6 : Storage[i] \notin DOMAIN Refusals
    <2>1. \A i \in 1 .. 6 : i = 1 \/ i = 2 \/ i = 3 \/ i = 4 \/ i = 5 \/ i = 6
      OBVIOUS
    <2> QED BY <2>1, StageNames DEF Storage
  <1>5. /\ stage + 1 - Before(command) \in 1 .. 6
        /\ (stage + 1 - Before(command)) + Before(command) = stage + 1
    BY <1>1
  <1> QED BY <1>2, <1>3, <1>4, <1>5

LEMMA StorageStep == ControlInv /\ StorageInv /\ [Next]_vars => StorageInv'
  <1> SUFFICES ASSUME ControlInv, StorageInv, [Next]_vars PROVE StorageInv'
    OBVIOUS
  <1>0. command' = command /\ Before(command) \in {4, 5} /\ stage \in Nat
    BY DEF Next, Step, Returned, OpenTarget, StatTarget, StatRefused, MapTarget,
           MapRefused, StageReturnsOK, StageRefuses, ArenaReady, ArenaRefused,
           AllocTable, BeginReport, WriteChunk, ReportWritten, ReleaseArena,
           UnmapTarget, PrintStatus, Truncate, ReadBeyondEnd, ReaderGone, Dies, vars, Before,
           ControlInv
  <1>1. CASE OpenTarget
    BY <1>1, <1>0 DEF OpenTarget, Fails, StorageInv, TablesAlwaysFit, UsesArena, arena,
       target, output
  <1>2. CASE StatTarget
    BY <1>2, <1>0 DEF StatTarget, StorageInv, TablesAlwaysFit, UsesArena, arena, target, output
  <1>3. CASE StatRefused
    BY <1>3, <1>0 DEF StatRefused, Fails, CloseFd, StorageInv, TablesAlwaysFit,
       UsesArena, arena, target, output
  <1>4. CASE MapTarget
    <2>1. stage' = 0 /\ UNCHANGED answer
      BY <1>4 DEF MapTarget, arena, ControlInv
    <2>2. stage' \notin Before(command) + 1 .. Before(command) + 5
      BY <1>0, <2>1
    <2> QED BY <1>0, <2>1, <2>2 DEF StorageInv, TablesAlwaysFit, UsesArena
  <1>5. CASE MapRefused
    BY <1>5, <1>0 DEF MapRefused, Fails, CloseFd, StorageInv, TablesAlwaysFit, UsesArena,
       arena, target, output
  <1>6. CASE StageReturnsOK
    <2>1. /\ UsesArena => stage \notin Before(command) .. Before(command) + 5
          /\ stage' = stage + 1 /\ UNCHANGED <<pc, base, size, used, answer>>
      BY <1>6, StageOutsideArena DEF StageReturnsOK, arena
    <2>2. UsesArena =>
            stage' \notin Before(command) + 1 .. Before(command) + 5
      BY <1>0, <2>1
    <2> QED BY <1>0, <2>1, <2>2 DEF StorageInv, TablesAlwaysFit, UsesArena
  <1>7. CASE StageRefuses
    BY <1>7, <1>0 DEF StageRefuses, Fails, Calling, StorageInv, TablesAlwaysFit,
       UsesArena, arena, target, output
  <1>8. CASE ArenaReady
    <2>1. UsesArena /\ stage = Before(command) /\ stage' = stage + 1
      BY <1>8, InitCall DEF ArenaReady
    <2>2. PICK b \in A!MmapAnswers(ArenaBytes) : base' = b
      BY <1>8 DEF ArenaReady, A!ArenaInitMaps
    <2>3. base' \in Nat \ {0} /\ base' + ArenaBytes <= WordMax
      BY <2>2, CommandAssumption DEF A!MmapAnswers, Word
    <2>4. size' = ArenaBytes /\ used' = 0 /\ answer'.call = "init"
      BY <1>8 DEF ArenaReady, A!ArenaInitMaps
    <2>5. stage' - Before(command) - 1 = 0 /\ Filled(0) = 0
      BY <1>0, <2>1 DEF Filled
    <2> QED BY <1>0, <2>3, <2>4, <2>5 DEF StorageInv, TablesAlwaysFit
  <1>9. CASE ArenaRefused
    <2>1. answer'.call = "init" /\ pc' = "release"
      BY <1>9 DEF ArenaRefused, A!ArenaInitFails, Fails
    <2> QED BY <2>1 DEF StorageInv, TablesAlwaysFit
  <1>10. CASE AllocTable
    <2> DEFINE k == stage - Before(command) - 1
    <2>1. /\ UsesArena /\ k \in 0 .. 4 /\ pc = "analyze"
          /\ stage \in Before(command) + 1 .. Before(command) + 5
          /\ Table = Tables[Storage[k + 2]]
      BY <1>10, TableCalls DEF AllocTable, Table, Calling
    <2>2. /\ base \in Nat \ {0} /\ size = ArenaBytes /\ base + size <= WordMax
          /\ used = Filled(k)
      BY <2>1 DEF StorageInv
    <2> HIDE DEF k
    <2>3. /\ Table.bytes \in Nat \ {0} /\ Table.align \in {8, 16}
          /\ used \in Nat /\ used % 16 = 0 /\ used + 15 <= WordMax
          /\ used + Table.bytes = Filled(k + 1)
          /\ used + Table.bytes <= size /\ size \in Nat
      <3>1. ArenaBytes \in Nat
        BY CommandAssumption DEF ArenaBytes
      <3> QED BY <2>1, <2>2, <3>1, FilledByTables
    <2>4. /\ A!Allocates(Table.bytes, Table.align)
          /\ A!WordSum(A!AlignedOffset(Table.align), Table.bytes) = used + Table.bytes
          /\ A!WordSum(base, A!AlignedOffset(Table.align)) # 0
      BY <2>2, <2>3, AllocatesInPlace
    <2>5. A!ArenaAlloc(Table.bytes, Table.align) /\ stage' = stage + 1 /\ pc' = pc
      BY <1>10, <2>4 DEF AllocTable
    <2>6. used' = Filled(k + 1) /\ base' = base /\ size' = size
      BY <2>3, <2>4, <2>5 DEF A!ArenaAlloc
    <2>8. answer'.rax # 0
      <3> DEFINE pointer == A!WordSum(base, A!AlignedOffset(Table.align))
      <3>1. answer' = [call |-> "alloc", size |-> Table.bytes, align |-> Table.align,
                       rax |-> pointer]
        BY <2>5 DEF A!ArenaAlloc
      <3>2. pointer # 0
        BY <2>4
      <3> HIDE DEF pointer
      <3> QED BY <3>1, <3>2
    <2>7. stage' - Before(command) - 1 = k + 1
      BY <1>0, <2>5 DEF k
    <2> QED BY <1>0, <2>2, <2>6, <2>7, <2>8 DEF StorageInv, TablesAlwaysFit
  <1>11. CASE BeginReport
    BY <1>11, <1>0 DEF BeginReport, StorageInv, TablesAlwaysFit, UsesArena, arena, target, output
  <1>12. CASE WriteChunk
    BY <1>12, <1>0 DEF WriteChunk, StorageInv, TablesAlwaysFit, UsesArena, arena, target, output
  <1>13. CASE ReportWritten
    BY <1>13, <1>0 DEF ReportWritten, StorageInv, TablesAlwaysFit, UsesArena, arena,
       target, output
  <1>14. CASE ReleaseArena
    BY <1>14, <1>0 DEF ReleaseArena, A!ArenaDestroy, StorageInv, TablesAlwaysFit,
       UsesArena, arena, target, output
  <1>15. CASE UnmapTarget
    BY <1>15, <1>0 DEF UnmapTarget, StorageInv, TablesAlwaysFit, UsesArena, arena, target, output
  <1>16. CASE PrintStatus
    BY <1>16, <1>0 DEF PrintStatus, StorageInv, TablesAlwaysFit, UsesArena, arena, target, output
  <1>17. CASE Truncate
    BY <1>17, <1>0 DEF Truncate, StorageInv, TablesAlwaysFit, UsesArena, arena, target, output
  <1>18. CASE ReadBeyondEnd
    BY <1>18, <1>0 DEF ReadBeyondEnd, Dies, Calling, StorageInv, TablesAlwaysFit,
       UsesArena, arena, target, output
  <1>19. CASE ReaderGone
    BY <1>19, <1>0 DEF ReaderGone, Dies, StorageInv, TablesAlwaysFit, UsesArena, arena,
       target, output
  <1>20. CASE UNCHANGED vars
    BY <1>20, <1>0 DEF vars, StorageInv, TablesAlwaysFit, UsesArena, arena, target, output
  <1> QED BY <1>1, <1>2, <1>3, <1>4, <1>5, <1>6, <1>7, <1>8, <1>9, <1>10, <1>11, <1>12, <1>13,
          <1>14, <1>15, <1>16, <1>17, <1>18, <1>19, <1>20 DEF Next, Step, Returned

(***************************************************************************)
(* The five tables fill the arena exactly: no allocation of any command is *)
(* refused, so .arena_alloc_failed is never taken.                         *)
(***************************************************************************)
THEOREM TablesAlwaysFitTheorem == SafeSpec => []TablesAlwaysFit
  <1>1. Init => StorageInv
    BY DEF Init, A!Init, StorageInv, TablesAlwaysFit
  <1>2. StorageInv => TablesAlwaysFit
    BY DEF StorageInv
  <1> QED BY <1>1, <1>2, ControlInit, ControlStep, StorageStep, PTL DEF SafeSpec

-----------------------------------------------------------------------------
(* Induction over the naturals, through the least element of a set.        *)
LEMMA LeastElement ==
    ASSUME NEW T \in SUBSET Nat, T # {}
    PROVE  \E y \in T : \A z \in T : ~(z < y)
  <1> DEFINE R == OpToRel(<, Nat)
  <1>1. IsWellFoundedOn(R, Nat)
    BY NatLessThanWellFounded
  <1>2. \A a, b \in Nat : <<a, b>> \in R <=> a < b
    BY DEF OpToRel
  <1> HIDE DEF R
  <1>3. PICK y \in T : \A z \in T : ~(<<z, y>> \in R)
    BY <1>1, WFMin
  <1>4. \A z \in T : ~(z < y)
    BY <1>2, <1>3
  <1> QED BY <1>4

LEMMA SetInduction ==
    ASSUME NEW S \in SUBSET Nat, 0 \in S, \A n \in S : n + 1 \in S
    PROVE  S = Nat
  <1> SUFFICES ASSUME Nat \ S # {} PROVE FALSE
    OBVIOUS
  <1>1. PICK y \in Nat \ S : \A z \in Nat \ S : ~(z < y)
    BY LeastElement
  <1>2. y # 0 /\ y - 1 \in Nat /\ y - 1 < y
    BY <1>1
  <1>3. y - 1 \in S
    BY <1>1, <1>2
  <1>4. (y - 1) + 1 \in S
    BY <1>3
  <1> QED BY <1>1, <1>2, <1>4

LEMMA PrefixValue ==
    ASSUME NEW chars \in Seq(Int)
    PROVE  LET value == CL!PrefixValues(chars) IN
           /\ value \in [0 .. Len(chars) -> Int]
           /\ value[0] = 0
           /\ \A n \in 1 .. Len(chars) : value[n] = 10 * value[n - 1] + chars[n]
  <1> DEFINE Sums(n, g) == g[0] = 0 /\ \A i \in 1 .. n : g[i] = 10 * g[i - 1] + chars[i]
             Summable(n) == \E g \in [0 .. n -> Int] : Sums(n, g)
             S == {n \in Nat : n <= Len(chars) => Summable(n)}
  <1>l. Len(chars) \in Nat /\ \A i \in 1 .. Len(chars) : chars[i] \in Int
    OBVIOUS
  <1>1. Summable(0)
    <2>1. Sums(0, [i \in 0 .. 0 |-> 0]) /\ [i \in 0 .. 0 |-> 0] \in [0 .. 0 -> Int]
      OBVIOUS
    <2> QED BY <2>1
  <1>2. ASSUME NEW n \in Nat, Summable(n), n + 1 <= Len(chars) PROVE Summable(n + 1)
    <2>1. PICK g \in [0 .. n -> Int] : Sums(n, g)
      BY <1>2
    <2> DEFINE h == [i \in 0 .. n + 1 |-> IF i = n + 1 THEN 10 * g[n] + chars[n + 1] ELSE g[i]]
    <2>2. h \in [0 .. n + 1 -> Int]
      BY <1>l, <1>2
    <2>3. Sums(n + 1, h)
      <3>1. h[0] = 0
        BY <2>1
      <3>2. ASSUME NEW i \in 1 .. n + 1 PROVE h[i] = 10 * h[i - 1] + chars[i]
        <4>1. CASE i = n + 1
          BY <4>1
        <4>2. CASE i \in 1 .. n
          BY <2>1, <4>2
        <4> QED BY <4>1, <4>2
      <3> QED BY <3>1, <3>2
    <2> QED BY <2>2, <2>3
  <1>3. Summable(Len(chars))
    <2> HIDE DEF Summable
    <2>1. 0 \in S
      BY <1>1
    <2>2. \A n \in S : n + 1 \in S
      BY <1>2, <1>l
    <2>3. S = Nat
      <3>1. S \in SUBSET Nat
        OBVIOUS
      <3> HIDE DEF S
      <3> QED BY <2>1, <2>2, <3>1, SetInduction
    <2> QED BY <1>l, <2>3
  <1>4. PICK g \in [0 .. Len(chars) -> Int] : Sums(Len(chars), g)
    BY <1>3
  <1> DEFINE body(f) == [n \in 0 .. Len(chars) |-> IF n = 0 THEN 0 ELSE 10 * f[n - 1] + chars[n]]
             value == CL!PrefixValues(chars)
  <1>5. g = body(g)
    BY <1>4, <1>l
  <1>6. value = CHOOSE f : f = body(f)
    BY DEF CL!PrefixValues
  <1>7. value = body(value)
    BY <1>5, <1>6
  <1> HIDE DEF value
  <1>8. /\ value[0] = 0
        /\ \A n \in 1 .. Len(chars) : value[n] = 10 * value[n - 1] + chars[n]
    BY <1>l, <1>7
  <1>9. \A n \in 0 .. Len(chars) : value[n] \in Int
    <2> DEFINE T == {n \in Nat : n <= Len(chars) => value[n] \in Int}
    <2>1. 0 \in T
      BY <1>8
    <2>2. \A n \in T : n + 1 \in T
      <3> SUFFICES ASSUME NEW n \in T, n + 1 <= Len(chars) PROVE value[n + 1] \in Int
        OBVIOUS
      <3>1. n + 1 \in 1 .. Len(chars) /\ (n + 1) - 1 = n /\ value[n] \in Int
        BY <1>l
      <3>2. value[n + 1] = 10 * value[n] + chars[n + 1] /\ chars[n + 1] \in Int
        BY <1>l, <1>8, <3>1
      <3> QED BY <3>1, <3>2
    <2>3. T = Nat
      <3>1. T \in SUBSET Nat
        OBVIOUS
      <3> HIDE DEF T
      <3> QED BY <2>1, <2>2, <3>1, SetInduction
    <2> QED BY <1>l, <2>3
  <1>10. value \in [0 .. Len(chars) -> Int]
    BY <1>7, <1>9
  <1> QED BY <1>8, <1>10 DEF value

Digits(chars) == \A i \in 1 .. Len(chars) : chars[i] # CL!NotDigit

Characters == {CL!NotDigit} \cup 0 .. 9

\* Digits only ever add.
LEMMA ValuesGrow ==
    ASSUME NEW chars \in Seq(Characters), Digits(chars), NEW m \in 0 .. Len(chars), NEW n \in m .. Len(chars)
    PROVE  LET value == CL!PrefixValues(chars) IN 0 <= value[m] /\ value[m] <= value[n]
  <1> DEFINE value == CL!PrefixValues(chars)
             T == {k \in Nat : k <= Len(chars) => 0 <= value[k]}
             U == {k \in Nat : m + k <= Len(chars) => value[m] <= value[m + k]}
  <1>1. /\ chars \in Seq(Int) /\ Len(chars) \in Nat
        /\ \A i \in 1 .. Len(chars) : chars[i] \in 0 .. 9
    BY DEF Digits, Characters, CL!NotDigit
  <1>2. /\ value \in [0 .. Len(chars) -> Int] /\ value[0] = 0
        /\ \A k \in 1 .. Len(chars) : value[k] = 10 * value[k - 1] + chars[k]
    BY <1>1, PrefixValue
  <1> HIDE DEF value
  <1>3. T = Nat
    <2>1. 0 \in T
      BY <1>2
    <2>2. \A k \in T : k + 1 \in T
      <3> SUFFICES ASSUME NEW k \in T, k + 1 <= Len(chars) PROVE 0 <= value[k + 1]
        OBVIOUS
      <3>1. k \in Nat /\ 0 <= value[k]
        BY <1>1
      <3>2. k + 1 \in 1 .. Len(chars) /\ (k + 1) - 1 = k /\ k \in 0 .. Len(chars)
        BY <1>1, <3>1
      <3>3. value[k + 1] = 10 * value[k] + chars[k + 1] /\ chars[k + 1] \in 0 .. 9 /\ value[k] \in Int
        BY <1>1, <1>2, <3>2
      <3> QED BY <3>1, <3>3
    <2>3. T \in SUBSET Nat
      OBVIOUS
    <2> HIDE DEF T
    <2> QED BY <2>1, <2>2, <2>3, SetInduction
  <1>4. U = Nat
    <2>1. 0 \in U
      BY <1>2
    <2>2. \A k \in U : k + 1 \in U
      <3> SUFFICES ASSUME NEW k \in U, m + (k + 1) <= Len(chars) PROVE value[m] <= value[m + (k + 1)]
        OBVIOUS
      <3>1. k \in Nat /\ value[m] <= value[m + k]
        BY <1>1
      <3>2. /\ m + (k + 1) \in 1 .. Len(chars) /\ (m + (k + 1)) - 1 = m + k
            /\ m + k \in 0 .. Len(chars) /\ m + k \in Nat
        BY <1>1, <3>1
      <3>3. /\ value[m + (k + 1)] = 10 * value[m + k] + chars[m + (k + 1)]
            /\ chars[m + (k + 1)] \in 0 .. 9 /\ value[m + k] \in Int /\ value[m] \in Int
        BY <1>1, <1>2, <3>2
      <3>4. value[m + k] >= 0
        BY <1>3, <3>2
      <3>5. \A a, b \in Int, c \in 0 .. 9 : a <= b /\ b >= 0 => a <= 10 * b + c
        OBVIOUS
      <3> QED BY <3>1, <3>3, <3>4, <3>5
    <2>3. U \in SUBSET Nat
      OBVIOUS
    <2> HIDE DEF U
    <2> QED BY <2>1, <2>2, <2>3, SetInduction
  <1>5. m \in Nat /\ n - m \in Nat /\ m + (n - m) = n /\ m <= Len(chars) /\ n <= Len(chars)
    BY <1>1
  <1>6. m \in T /\ n - m \in U
    <2> HIDE DEF T, U
    <2> QED BY <1>3, <1>4, <1>5
  <1>7. 0 <= value[m] /\ value[m] <= value[m + (n - m)]
    BY <1>1, <1>5, <1>6
  <1> QED BY <1>5, <1>7 DEF value

\* A word past the signed ones always overflows the product with ten.
LEMMA PastSigned ==
    ASSUME NEW S \in Nat, NEW x \in Nat, NEW d \in 0 .. 9, 10 * x <= S, S >= 1,
           10 * x + d <= 2 * S + 1, 10 * x + d > S
    PROVE  10 * ((10 * x + d) - (2 * S + 2)) < -(S + 1)
  <1>1. CASE S >= 8
    BY <1>1
  <1>2. CASE S < 8
    <2>1. x = 0
      BY <1>2
    <2> QED BY <1>2, <2>1
  <1> QED BY <1>1, <1>2

LineTyped == words \in Seq(CL!Argument)

Parsing ==
    reads = "parse" =>
       LET value == CL!PrefixValues(CL!Chars) IN
       /\ CL!Scans /\ CL!ParsesDepth
       /\ position \in 0 .. Len(CL!Chars)
       /\ \A i \in 1 .. position : CL!Chars[i] # CL!NotDigit
       /\ accumulated = value[position] /\ accumulated \in 0 .. ArgumentWordMax
       /\ position > 0 => value[position - 1] \in Nat /\ 10 * value[position - 1] <= ArgumentSignedMax

LEMMA LineConstants ==
    /\ ArgumentSignedMax \in Nat /\ ArgumentWordMax = 2 * ArgumentSignedMax + 1
    /\ ScanDepthLimit \in 1 .. ArgumentSignedMax /\ ScanDepth \in 1 .. ScanDepthLimit
    /\ ArgumentVectors \subseteq Seq(CL!Argument)
  BY ProgramAssumption DEF CL!CommandLineAssumption

LEMMA CharactersOf ==
    ASSUME LineTyped, CL!ParsesDepth
    PROVE  CL!Chars \in Seq(Characters) /\ CL!Chars \in Seq(Int) /\ Len(CL!Chars) \in Nat
  <1>1. CL!DepthAt \in DOMAIN words
    BY DEF LineTyped, CL!ParsesDepth, CL!OneFlagDepth, CL!FormatThenDepth, CL!DepthThenFormat, CL!Argc, CL!DepthAt
  <1>2. words[CL!DepthAt] \in CL!Argument
    BY <1>1 DEF LineTyped
  <1>3. CL!Chars \in Seq(Characters)
    BY <1>2 DEF CL!Argument, CL!Chars, Characters
  <1> QED BY <1>3 DEF Characters, CL!NotDigit

LEMMA CharactersRead ==
    ASSUME LineTyped, reads = "parse", Parsing
    PROVE  CL!Chars \in Seq(Characters) /\ CL!Chars \in Seq(Int) /\ Len(CL!Chars) \in Nat
  BY CharactersOf DEF Parsing

\* What the overflow tests say in numbers.
LEMMA ProductTest ==
    ASSUME LineTyped, reads = "parse", Parsing
    PROVE  CL!TimesTenOverflows(accumulated) <=> 10 * accumulated > ArgumentSignedMax
  <1> DEFINE value == CL!PrefixValues(CL!Chars)
  <1>1. CL!Chars \in Seq(Characters) /\ CL!Chars \in Seq(Int) /\ Len(CL!Chars) \in Nat
    BY CharactersRead
  <1>2. /\ value \in [0 .. Len(CL!Chars) -> Int] /\ value[0] = 0
        /\ \A k \in 1 .. Len(CL!Chars) : value[k] = 10 * value[k - 1] + CL!Chars[k]
    BY <1>1, PrefixValue
  <1> HIDE DEF value
  <1>3. CASE accumulated <= ArgumentSignedMax
    BY <1>3, LineConstants DEF Parsing, CL!TimesTenOverflows, CL!Signed
  <1>4. CASE accumulated > ArgumentSignedMax
    <2>1. /\ position \in 1 .. Len(CL!Chars) /\ accumulated = value[position]
          /\ value[position - 1] \in Nat /\ 10 * value[position - 1] <= ArgumentSignedMax
          /\ CL!Chars[position] # CL!NotDigit /\ accumulated \in 0 .. ArgumentWordMax
      BY <1>1, <1>2, <1>4, LineConstants DEF Parsing, value
    <2>2. CL!Chars[position] \in 0 .. 9
      BY <1>1, <2>1 DEF Characters
    <2>3. accumulated = 10 * value[position - 1] + CL!Chars[position]
      BY <1>2, <2>1
    <2>4. 10 * (accumulated - (2 * ArgumentSignedMax + 2)) < -(ArgumentSignedMax + 1)
      <3> DEFINE x == value[position - 1]
                 d == CL!Chars[position]
      <3>1. /\ x \in Nat /\ d \in 0 .. 9 /\ 10 * x <= ArgumentSignedMax
            /\ ArgumentSignedMax \in Nat /\ ArgumentSignedMax >= 1
            /\ accumulated = 10 * x + d /\ accumulated <= 2 * ArgumentSignedMax + 1
            /\ accumulated > ArgumentSignedMax
        BY <1>4, <2>1, <2>2, <2>3, LineConstants
      <3> HIDE DEF x, d
      <3>2. 10 * x + d <= 2 * ArgumentSignedMax + 1 /\ 10 * x + d > ArgumentSignedMax
        BY <3>1
      <3>3. 10 * ((10 * x + d) - (2 * ArgumentSignedMax + 2)) < -(ArgumentSignedMax + 1)
        BY <3>1, <3>2, PastSigned
      <3> QED BY <3>1, <3>3
    <2>5. CL!Signed(accumulated) = accumulated - (2 * ArgumentSignedMax + 2)
      BY <1>4, <2>1, LineConstants DEF CL!Signed
    <2> QED BY <1>4, <2>1, <2>4, <2>5, LineConstants DEF CL!TimesTenOverflows
  <1> QED BY <1>3, <1>4, LineConstants DEF Parsing

\* A digit the parser takes leaves the value of the characters read so far.
LEMMA ParsedDigit ==
    ASSUME LineTyped, reads = "parse", Parsing, CL!ReadsDigit
    PROVE  LET value == CL!PrefixValues(CL!Chars) IN
           /\ position + 1 \in 1 .. Len(CL!Chars)
           /\ value[position] \in Nat /\ 10 * value[position] <= ArgumentSignedMax
           /\ CL!WordSum(CL!WordProduct(accumulated, 10), CL!Chars[position + 1]) = value[position + 1]
           /\ value[position + 1] \in 0 .. ArgumentWordMax
  <1> DEFINE value == CL!PrefixValues(CL!Chars)
             next == CL!Chars[position + 1]
  <1>1. CL!Chars \in Seq(Characters) /\ CL!Chars \in Seq(Int) /\ Len(CL!Chars) \in Nat
    BY CharactersRead
  <1>2. /\ value \in [0 .. Len(CL!Chars) -> Int] /\ value[0] = 0
        /\ \A k \in 1 .. Len(CL!Chars) : value[k] = 10 * value[k - 1] + CL!Chars[k]
    BY <1>1, PrefixValue
  <1>3. position \in Nat /\ position + 1 \in 1 .. Len(CL!Chars) /\ (position + 1) - 1 = position
    BY <1>1 DEF Parsing, CL!ReadsDigit
  <1>4. next \in 0 .. 9
    BY <1>1, <1>3 DEF CL!ReadsDigit, Characters
  <1>5. 10 * accumulated <= ArgumentSignedMax /\ accumulated \in Nat /\ accumulated = value[position]
    BY ProductTest, LineConstants DEF Parsing, CL!ReadsDigit
  <1>6. value[position + 1] = 10 * accumulated + next
    BY <1>2, <1>3, <1>5
  <1> HIDE DEF value, next
  <1>7. CL!WordProduct(accumulated, 10) = 10 * accumulated
    BY <1>5, LineConstants DEF CL!WordProduct, CL!HighWordNonzero
  <1>8. 10 * accumulated + next <= ArgumentWordMax
    <2>1. ~CL!Carries(10 * accumulated, next)
      BY <1>7 DEF CL!ReadsDigit, next
    <2> QED BY <1>4, <1>5, <2>1, LineConstants DEF CL!Carries
  <1>9. CL!WordSum(10 * accumulated, next) = 10 * accumulated + next
    BY <1>4, <1>5, <1>8, LineConstants DEF CL!WordSum, CL!Carries
  <1>10. value[position + 1] \in 0 .. ArgumentWordMax
    BY <1>4, <1>5, <1>6, <1>8, LineConstants
  <1>11. CL!WordSum(CL!WordProduct(accumulated, 10), next) = value[position + 1]
    BY <1>6, <1>7, <1>9
  <1> QED BY <1>3, <1>5, <1>10, <1>11 DEF value, next

\* The parser gives up only on what is no depth.
LEMMA ParseRefuses ==
    ASSUME LineTyped, reads = "parse", Parsing, position < Len(CL!Chars), ~CL!ReadsDigit
    PROVE  ~CL!IsDepth(words[CL!DepthAt])
  <1> DEFINE value == CL!PrefixValues(CL!Chars)
             next == CL!Chars[position + 1]
             count == Len(CL!Chars)
  <1> SUFFICES ASSUME CL!IsDepth(words[CL!DepthAt]) PROVE FALSE
    OBVIOUS
  <1>1. CL!Chars \in Seq(Characters) /\ CL!Chars \in Seq(Int) /\ Len(CL!Chars) \in Nat
    BY CharactersRead
  <1>2. /\ value \in [0 .. count -> Int] /\ value[0] = 0
        /\ \A k \in 1 .. count : value[k] = 10 * value[k - 1] + CL!Chars[k]
    BY <1>1, PrefixValue
  <1>3. Digits(CL!Chars) /\ value[count] \in 1 .. ScanDepthLimit
    BY <1>1 DEF CL!IsDepth, CL!DecimalValue, CL!Chars, Digits
  <1>4. position \in Nat /\ position + 1 \in 1 .. count /\ (position + 1) - 1 = position
    BY <1>1 DEF Parsing
  <1>5. next \in 0 .. 9 /\ next # CL!NotDigit
    BY <1>1, <1>3, <1>4 DEF Characters, Digits
  <1>6. value[position + 1] <= value[count]
    BY <1>1, <1>3, <1>4, ValuesGrow
  <1>7. value[position + 1] = 10 * accumulated + next /\ accumulated \in Nat /\ accumulated <= ArgumentWordMax
    BY <1>2, <1>4, LineConstants DEF Parsing
  <1> HIDE DEF value, next
  <1>8. CASE CL!TimesTenOverflows(accumulated)
    <2>1. 10 * accumulated > ArgumentSignedMax
      BY <1>8, ProductTest
    <2> QED BY <1>3, <1>5, <1>6, <1>7, <2>1, LineConstants
  <1>9. CASE ~CL!TimesTenOverflows(accumulated)
    <2>1. 10 * accumulated <= ArgumentSignedMax
      BY <1>7, <1>9, ProductTest, LineConstants
    <2>2. CL!WordProduct(accumulated, 10) = 10 * accumulated
      BY <1>7, <2>1, LineConstants DEF CL!WordProduct, CL!HighWordNonzero
    <2>3. 10 * accumulated + next > ArgumentWordMax
      BY <1>5, <1>9, <2>2 DEF CL!ReadsDigit, CL!Carries, next
    <2> QED BY <1>3, <1>5, <1>6, <1>7, <2>3, LineConstants
  <1> QED BY <1>8, <1>9

\* What it accepts is the value that was written.
LEMMA ParseEnds ==
    ASSUME LineTyped, reads = "parse", Parsing, position = Len(CL!Chars)
    PROVE  /\ CL!IsDepth(words[CL!DepthAt]) <=> position # 0 /\ accumulated # 0 /\ accumulated <= ScanDepthLimit
           /\ CL!DecimalValue(words[CL!DepthAt].chars) = accumulated
  <1>1. CL!Chars \in Seq(Characters) /\ CL!Chars \in Seq(Int) /\ Len(CL!Chars) \in Nat
    BY CharactersRead
  <1>2. CL!DecimalValue(words[CL!DepthAt].chars) = accumulated /\ accumulated \in Nat
    BY LineConstants DEF Parsing, CL!DecimalValue, CL!Chars
  <1>3. \A i \in DOMAIN CL!Chars : CL!Chars[i] # CL!NotDigit
    BY <1>1 DEF Parsing
  <1>4. CL!Chars # <<>> <=> position # 0
    BY <1>1
  <1>5. CL!IsDepth(words[CL!DepthAt]) <=> position # 0 /\ accumulated \in 1 .. ScanDepthLimit
    BY <1>2, <1>3, <1>4 DEF CL!IsDepth, CL!Chars
  <1> QED BY <1>2, <1>5, LineConstants

\* The written value of a flag, in a sentence of each length.
FormatWritten == CL!ValueOf("--format", "text", LAMBDA a : a.text)
DepthWritten == CL!ValueOf("--max-depth", ScanDepth, LAMBDA a : CL!DecimalValue(a.chars))

LEMMA OptionsOf ==
    ASSUME LineTyped
    PROVE  /\ Len(words) = 2 => CL!OptionStarts = {}
           /\ Len(words) = 4 => CL!OptionStarts = {2}
           /\ Len(words) = 6 => CL!OptionStarts = {2, 4}
  <1>1. Len(words) = 2 => CL!OptionStarts = {}
    BY DEF CL!OptionStarts
  <1>2. Len(words) = 4 => CL!OptionStarts = {2}
    <2> SUFFICES ASSUME Len(words) = 4 PROVE \A i : i \in CL!OptionStarts <=> i = 2
      OBVIOUS
    <2>1. CL!OptionStarts = {i \in 2 .. 3 : i % 2 = 0}
      BY DEF CL!OptionStarts
    <2> QED BY <2>1
  <1>3. Len(words) = 6 => CL!OptionStarts = {2, 4}
    <2> SUFFICES ASSUME Len(words) = 6 PROVE \A i : i \in CL!OptionStarts <=> i = 2 \/ i = 4
      OBVIOUS
    <2>1. CL!OptionStarts = {i \in 2 .. 5 : i % 2 = 0}
      BY DEF CL!OptionStarts
    <2> QED BY <2>1
  <1> QED BY <1>1, <1>2, <1>3

LEMMA MeaningOfSentence ==
    CL!Meaning = IF CL!Sentence THEN CL!Run(words[1].text, FormatWritten, DepthWritten, Len(words)) ELSE CL!Usage(2)
  BY DEF CL!Meaning, FormatWritten, DepthWritten

LEMMA NothingWritten ==
    ASSUME LineTyped, Len(words) = 2
    PROVE  FormatWritten = "text" /\ DepthWritten = ScanDepth
  BY OptionsOf DEF FormatWritten, DepthWritten, CL!ValueOf

LEMMA OneWritten ==
    ASSUME LineTyped, Len(words) = 4
    PROVE  /\ FormatWritten = IF CL!Is(2, "--format") THEN words[3].text ELSE "text"
           /\ DepthWritten = IF CL!Is(2, "--max-depth") THEN CL!DecimalValue(words[3].chars) ELSE ScanDepth
  <1> DEFINE uses(flag) == {i \in CL!OptionStarts : CL!Is(i, flag)}
  <1>1. ASSUME NEW flag PROVE uses(flag) = IF CL!Is(2, flag) THEN {2} ELSE {}
    BY OptionsOf
  <1>2. (CHOOSE i \in {2} : TRUE) + 1 = 3
    OBVIOUS
  <1>3. FormatWritten = IF uses("--format") = {} THEN "text" ELSE words[(CHOOSE i \in uses("--format") : TRUE) + 1].text
    BY DEF FormatWritten, CL!ValueOf
  <1>4. DepthWritten = IF uses("--max-depth") = {} THEN ScanDepth
                       ELSE CL!DecimalValue(words[(CHOOSE i \in uses("--max-depth") : TRUE) + 1].chars)
    BY DEF DepthWritten, CL!ValueOf
  <1> HIDE DEF uses
  <1> QED BY <1>1, <1>2, <1>3, <1>4

LEMMA TwoWritten ==
    ASSUME LineTyped, Len(words) = 6, words[2].text # words[4].text
    PROVE  /\ FormatWritten = IF CL!Is(2, "--format") THEN words[3].text
                              ELSE IF CL!Is(4, "--format") THEN words[5].text ELSE "text"
           /\ DepthWritten = IF CL!Is(2, "--max-depth") THEN CL!DecimalValue(words[3].chars)
                             ELSE IF CL!Is(4, "--max-depth") THEN CL!DecimalValue(words[5].chars) ELSE ScanDepth
  <1> DEFINE uses(flag) == {i \in CL!OptionStarts : CL!Is(i, flag)}
  <1>1. ASSUME NEW flag
        PROVE  uses(flag) = IF CL!Is(2, flag) THEN {2} ELSE IF CL!Is(4, flag) THEN {4} ELSE {}
    BY OptionsOf DEF CL!Is
  <1>2. (CHOOSE i \in {2} : TRUE) + 1 = 3 /\ (CHOOSE i \in {4} : TRUE) + 1 = 5
    OBVIOUS
  <1>3. FormatWritten = IF uses("--format") = {} THEN "text" ELSE words[(CHOOSE i \in uses("--format") : TRUE) + 1].text
    BY DEF FormatWritten, CL!ValueOf
  <1>4. DepthWritten = IF uses("--max-depth") = {} THEN ScanDepth
                       ELSE CL!DecimalValue(words[(CHOOSE i \in uses("--max-depth") : TRUE) + 1].chars)
    BY DEF DepthWritten, CL!ValueOf
  <1> HIDE DEF uses
  <1> QED BY <1>1, <1>2, <1>3, <1>4

LEMMA Sentences ==
    ASSUME LineTyped, CL!Scans
    PROVE  CL!Sentence <=>
              \/ Len(words) = 2 /\ ~CL!IsFlag(2)
              \/ Len(words) = 4 /\ CL!ValidOption(2)
              \/ Len(words) = 6 /\ CL!ValidOption(2) /\ CL!ValidOption(4) /\ words[2].text # words[4].text
  <1>1. CASE Len(words) = 2
    BY <1>1, OptionsOf DEF CL!Sentence
  <1>2. CASE Len(words) = 4
    BY <1>2, OptionsOf DEF CL!Sentence
  <1>3. CASE Len(words) = 6
    <2>1. CL!OptionStarts = {2, 4}
      BY <1>3, OptionsOf
    <2> QED BY <1>3, <2>1 DEF CL!Sentence
  <1>4. CASE Len(words) \notin {2, 4, 6}
    BY <1>4 DEF CL!Sentence
  <1> QED BY <1>1, <1>2, <1>3, <1>4

LEMMA WordCount ==
    ASSUME LineTyped
    PROVE  /\ Len(words) \in Nat
           /\ CL!Argc = 3 <=> Len(words) = 2
           /\ CL!Argc = 5 <=> Len(words) = 4
           /\ CL!Argc = 7 <=> Len(words) = 6
  <1>1. Len(words) \in Nat
    BY DEF LineTyped
  <1>2. CL!Argc = Len(words) + 1
    BY DEF CL!Argc
  <1> DEFINE n == Len(words)
             c == CL!Argc
  <1>3. n \in Nat /\ c = n + 1
    BY <1>1, <1>2
  <1> HIDE DEF n, c
  <1>4. /\ c = 3 <=> n = 2
        /\ c = 5 <=> n = 4
        /\ c = 7 <=> n = 6
    BY <1>3
  <1> QED BY <1>3, <1>4 DEF n, c

\* The branches without a depth to parse.
LEMMA DecidedAtOnce ==
    ASSUME LineTyped, CL!Scans, CL!Dispatch \/ CL!WrongShape \/ CL!DefaultRun \/ CL!FormatRun
    PROVE  decision' = CL!Meaning
  <1>1. /\ Len(words) \in Nat
        /\ CL!Argc = 3 <=> Len(words) = 2
        /\ CL!Argc = 5 <=> Len(words) = 4
        /\ CL!Argc = 7 <=> Len(words) = 6
    BY WordCount
  <1>2. CASE CL!Dispatch
    <2>1. CL!Argc >= 2 /\ words[1].text \in {"gadgets", "analyze"}
      BY DEF CL!Scans, CL!Is
    <2> QED BY <1>1, <1>2, <2>1 DEF CL!Dispatch, CL!Is, CL!Argc
  <1>3. CASE CL!WrongShape
    <2>1. decision' = CL!Usage(2)
      BY <1>3 DEF CL!WrongShape, CL!Decide
    <2>2. ~CL!Sentence
      <3>1. CASE CL!Argc \notin {3, 5, 7}
        BY <1>1, <3>1, Sentences
      <3>2. CASE CL!Argc = 3 /\ CL!IsFlag(2)
        BY <1>1, <3>2, Sentences
      <3>3. CASE CL!Argc = 5 /\ ~CL!OneFlagDepth /\ ~CL!OneFlagFormat
        BY <1>1, <3>3, Sentences DEF CL!OneFlagDepth, CL!OneFlagFormat, CL!ValidOption
      <3>4. CASE CL!Argc = 7 /\ ~CL!FormatThenDepth /\ ~CL!DepthThenFormat
        BY <1>1, <3>4, Sentences DEF CL!FormatThenDepth, CL!DepthThenFormat, CL!ValidOption, CL!Is
      <3> QED BY <1>3, <3>1, <3>2, <3>3, <3>4 DEF CL!WrongShape
    <2> QED BY <2>1, <2>2, MeaningOfSentence
  <1>4. CASE CL!DefaultRun
    <2>1. Len(words) = 2 /\ ~CL!IsFlag(2) /\ decision' = CL!Run(words[1].text, "text", ScanDepth, 2)
      BY <1>1, <1>4 DEF CL!DefaultRun, CL!Decide
    <2> QED BY <2>1, Sentences, MeaningOfSentence, NothingWritten
  <1>5. CASE CL!FormatRun
    <2>1. /\ Len(words) = 4 /\ CL!Is(2, "--format") /\ ~CL!Is(2, "--max-depth")
          /\ decision' = CL!FormatOf(3, ScanDepth, 4)
      BY <1>1, <1>5 DEF CL!FormatRun, CL!OneFlagFormat, CL!Decide
    <2>2. CL!Sentence <=> words[3].text \in {"json", "text"}
      BY <2>1, Sentences DEF CL!ValidOption, CL!IsFormat
    <2>3. FormatWritten = words[3].text /\ DepthWritten = ScanDepth
      BY <2>1, OneWritten
    <2> QED BY <2>1, <2>2, <2>3, MeaningOfSentence DEF CL!FormatOf, CL!Is
  <1> QED BY <1>2, <1>3, <1>4, <1>5

\* The branches that read a depth first.
LEMMA DecidedByParser ==
    ASSUME LineTyped, reads = "parse", Parsing, CL!ParseFails \/ CL!DepthRefused \/ CL!DepthAccepted
    PROVE  decision' = CL!Meaning
  <1>1. /\ Len(words) \in Nat
        /\ CL!Argc = 3 <=> Len(words) = 2
        /\ CL!Argc = 5 <=> Len(words) = 4
        /\ CL!Argc = 7 <=> Len(words) = 6
        /\ Len(CL!Chars) \in Nat /\ position \in 0 .. Len(CL!Chars)
        /\ CL!Scans /\ CL!ParsesDepth
    BY CharactersRead, WordCount DEF Parsing
  <1> DEFINE depth == words[CL!DepthAt]
  <1>2. CASE ~CL!IsDepth(depth) /\ decision' = CL!Usage(2)
    <2>1. ~CL!Sentence
      <3>1. CASE CL!OneFlagDepth
        <4>1. Len(words) = 4 /\ CL!Is(2, "--max-depth") /\ depth = words[3]
          BY <1>1, <3>1 DEF CL!OneFlagDepth, CL!DepthAt, CL!FormatThenDepth
        <4> QED BY <1>1, <1>2, <4>1, Sentences DEF CL!ValidOption, CL!Is
      <3>2. CASE CL!FormatThenDepth
        <4>1. Len(words) = 6 /\ CL!Is(4, "--max-depth") /\ depth = words[5]
          BY <1>1, <3>2 DEF CL!DepthAt, CL!FormatThenDepth
        <4> QED BY <1>1, <1>2, <4>1, Sentences DEF CL!ValidOption, CL!Is
      <3>3. CASE CL!DepthThenFormat
        <4>1. Len(words) = 6 /\ CL!Is(2, "--max-depth") /\ depth = words[3]
          BY <1>1, <3>3 DEF CL!DepthAt, CL!FormatThenDepth, CL!DepthThenFormat
        <4> QED BY <1>1, <1>2, <4>1, Sentences DEF CL!ValidOption, CL!Is
      <3> QED BY <1>1, <3>1, <3>2, <3>3 DEF CL!ParsesDepth
    <2> QED BY <1>2, <2>1, MeaningOfSentence
  <1>3. CASE CL!ParseFails
    <2>1. ~CL!IsDepth(depth)
      <3>1. CASE position < Len(CL!Chars)
        BY <1>3, <3>1, ParseRefuses DEF CL!ParseFails
      <3>2. CASE position = Len(CL!Chars)
        <4>1. position = 0
          BY <1>3, <3>2, <1>1 DEF CL!ParseFails
        <4> QED BY <3>2, <4>1, ParseEnds
      <3> QED BY <1>1, <3>1, <3>2
    <2> QED BY <1>2, <1>3, <2>1 DEF CL!ParseFails, CL!Decide
  <1>4. CASE CL!DepthRefused
    <2>1. position = Len(CL!Chars) /\ (accumulated = 0 \/ accumulated > ScanDepthLimit)
      BY <1>4 DEF CL!DepthRefused
    <2>2. accumulated \in Nat
      BY LineConstants DEF Parsing
    <2>3. ~CL!IsDepth(depth)
      BY <2>1, <2>2, ParseEnds, LineConstants
    <2> QED BY <1>2, <1>4, <2>3 DEF CL!DepthRefused, CL!Decide
  <1>5. CASE CL!DepthAccepted
    <2>1. /\ position = Len(CL!Chars) /\ position # 0 /\ ~(accumulated = 0 \/ accumulated > ScanDepthLimit)
          /\ decision' = IF CL!OneFlagDepth THEN CL!Run(words[1].text, "text", accumulated, 4)
                         ELSE CL!FormatOf(CL!FormatAt, accumulated, 6)
      BY <1>5 DEF CL!DepthAccepted, CL!Decide
    <2>2. accumulated \in Nat
      BY LineConstants DEF Parsing
    <2>3. CL!IsDepth(depth) /\ CL!DecimalValue(depth.chars) = accumulated
      BY <2>1, <2>2, ParseEnds, LineConstants
    <2>4. CASE CL!OneFlagDepth
      <3>1. Len(words) = 4 /\ CL!Is(2, "--max-depth") /\ ~CL!Is(2, "--format") /\ depth = words[3]
        BY <1>1, <2>4 DEF CL!OneFlagDepth, CL!DepthAt, CL!FormatThenDepth, CL!Is
      <3>2. CL!Sentence
        BY <1>1, <2>3, <3>1, Sentences DEF CL!ValidOption
      <3>3. FormatWritten = "text" /\ DepthWritten = accumulated
        BY <2>3, <3>1, OneWritten
      <3> QED BY <2>1, <2>4, <3>1, <3>2, <3>3, MeaningOfSentence
    <2>5. CASE CL!FormatThenDepth
      <3>1. /\ Len(words) = 6 /\ CL!Is(2, "--format") /\ CL!Is(4, "--max-depth") /\ words[2].text # words[4].text
            /\ ~CL!Is(2, "--max-depth") /\ depth = words[5]
            /\ CL!FormatAt = 3 /\ ~CL!OneFlagDepth
        BY <1>1, <2>5 DEF CL!OneFlagDepth, CL!DepthAt, CL!FormatThenDepth, CL!DepthThenFormat, CL!FormatAt, CL!Is
      <3>2. CL!Sentence <=> words[3].text \in {"json", "text"}
        BY <1>1, <2>3, <3>1, Sentences DEF CL!ValidOption, CL!IsFormat
      <3>3. FormatWritten = words[3].text /\ DepthWritten = accumulated
        BY <2>3, <3>1, TwoWritten
      <3> QED BY <2>1, <3>1, <3>2, <3>3, MeaningOfSentence DEF CL!FormatOf, CL!Is
    <2>6. CASE CL!DepthThenFormat
      <3>1. /\ Len(words) = 6 /\ CL!Is(2, "--max-depth") /\ CL!Is(4, "--format") /\ words[2].text # words[4].text
            /\ ~CL!Is(2, "--format") /\ depth = words[3]
            /\ CL!FormatAt = 5 /\ ~CL!OneFlagDepth
        BY <1>1, <2>6 DEF CL!OneFlagDepth, CL!DepthAt, CL!FormatThenDepth, CL!DepthThenFormat, CL!FormatAt, CL!Is
      <3>2. CL!Sentence <=> words[5].text \in {"json", "text"}
        <4>1. CL!ValidOption(2) /\ (CL!ValidOption(4) <=> words[5].text \in {"json", "text"})
          BY <2>3, <3>1 DEF CL!ValidOption, CL!IsFormat, CL!Is
        <4> QED BY <1>1, <3>1, <4>1, Sentences
      <3>3. FormatWritten = words[5].text /\ DepthWritten = accumulated
        BY <2>3, <3>1, TwoWritten
      <3> QED BY <2>1, <3>1, <3>2, <3>3, MeaningOfSentence DEF CL!FormatOf, CL!Is
    <2> QED BY <1>1, <2>4, <2>5, <2>6 DEF CL!ParsesDepth
  <1> QED BY <1>3, <1>4, <1>5

-----------------------------------------------------------------------------
(* The decision, whatever the words.                                       *)

CommandNames == {"info", "mitigations", "gadgets", "analyze"}

LineInv ==
    /\ LineTyped
    /\ Parsing
    /\ reads \in {"dispatch", "parse", "done"}
    /\ reads = "done" /\ CL!Scans => decision = CL!Meaning
    /\ reads = "done" => decision.does \in {"usage", "version", "run"}
    /\ reads = "done" /\ decision.does = "run" => decision.command \in CommandNames

\* What the words mean depends on the words alone.
LEMMA WordsAlone ==
    ASSUME UNCHANGED words
    PROVE  /\ CL!Chars' = CL!Chars /\ CL!DepthAt' = CL!DepthAt
           /\ CL!PrefixValues(CL!Chars)' = CL!PrefixValues(CL!Chars)
           /\ CL!Scans' <=> CL!Scans
           /\ CL!ParsesDepth' <=> CL!ParsesDepth
           /\ CL!Meaning' = CL!Meaning
           /\ LineTyped' <=> LineTyped
  <1>1. /\ CL!DepthAt' = CL!DepthAt
        /\ CL!Scans' <=> CL!Scans
        /\ CL!ParsesDepth' <=> CL!ParsesDepth
        /\ LineTyped' <=> LineTyped
    BY DEF CL!DepthAt, CL!Scans, CL!ParsesDepth, LineTyped, CL!OneFlagDepth, CL!FormatThenDepth, CL!DepthThenFormat,
           CL!Argc, CL!Is
  <1>2. CL!Chars' = CL!Chars
    BY <1>1 DEF CL!Chars
  <1>3. CL!PrefixValues(CL!Chars)' = CL!PrefixValues(CL!Chars)
    BY <1>2 DEF CL!PrefixValues
  <1>4. CL!Meaning' = CL!Meaning
    <2>1. CL!Sentence' <=> CL!Sentence
      BY <1>1 DEF CL!Sentence, CL!OptionStarts, CL!ValidOption, CL!IsFlag, CL!Is
    <2>2. FormatWritten' = FormatWritten
      BY DEF FormatWritten, CL!ValueOf, CL!OptionStarts, CL!Is
    <2>3. DepthWritten' = DepthWritten
      BY DEF DepthWritten, CL!ValueOf, CL!OptionStarts, CL!Is
    <2>4. CL!Meaning' = IF CL!Sentence' THEN CL!Run(words'[1].text, FormatWritten', DepthWritten', Len(words'))
                        ELSE CL!Usage(2)
      BY DEF CL!Meaning, FormatWritten, DepthWritten, CL!Run, CL!Usage
    <2> QED BY <2>1, <2>2, <2>3, <2>4, MeaningOfSentence
  <1> QED BY <1>1, <1>2, <1>3, <1>4

LEMMA Decided ==
    ASSUME NEW result, CL!Decide(result)
    PROVE  reads' = "done" /\ decision' = result /\ UNCHANGED words
  BY DEF CL!Decide

\* What is decided is the usage text, the version or one of the four commands.
LEMMA DecisionShape ==
    ASSUME LineTyped, Parsing, CL!Step, reads' = "done", reads # "done"
    PROVE  /\ decision'.does \in {"usage", "version", "run"}
           /\ decision'.does = "run" => decision'.command \in CommandNames
  <1> USE DEF CL!Decide, CL!Usage, CL!Version, CL!Run, CommandNames
  <1>1. CASE CL!Dispatch
    BY <1>1 DEF CL!Dispatch
  <1>2. CASE CL!WrongShape
    BY <1>2 DEF CL!WrongShape
  <1>3. CASE CL!DefaultRun
    BY <1>3 DEF CL!DefaultRun, CL!Scans, CL!Is
  <1>4. CASE CL!FormatRun
    BY <1>4 DEF CL!FormatRun, CL!FormatOf, CL!Scans, CL!Is
  <1>5. CASE CL!BeginParse
    BY <1>5 DEF CL!BeginParse
  <1>6. CASE CL!ParseDigit
    BY <1>6 DEF CL!ParseDigit
  <1>7. CASE CL!ParseFails
    BY <1>7 DEF CL!ParseFails
  <1>8. CASE CL!DepthRefused
    BY <1>8 DEF CL!DepthRefused
  <1>9. CASE CL!DepthAccepted
    <2>1. CL!Scans
      BY <1>9 DEF CL!DepthAccepted, Parsing
    <2> QED BY <1>9, <2>1 DEF CL!DepthAccepted, CL!FormatOf, CL!Scans, CL!Is
  <1> QED BY <1>1, <1>2, <1>3, <1>4, <1>5, <1>6, <1>7, <1>8, <1>9 DEF CL!Step

LEMMA ParsingStep ==
    ASSUME LineTyped, Parsing, CL!Step
    PROVE  Parsing' /\ reads' \in {"dispatch", "parse", "done"} /\ UNCHANGED words
  <1>1. CASE CL!BeginParse
    <2>1. UNCHANGED words /\ CL!Scans /\ CL!ParsesDepth /\ position' = 0 /\ accumulated' = 0 /\ reads' = "parse"
      BY <1>1 DEF CL!BeginParse
    <2>2. Len(CL!Chars) \in Nat /\ CL!Chars \in Seq(Int)
      BY <2>1, CharactersOf
    <2> DEFINE value == CL!PrefixValues(CL!Chars)
    <2>3. value[0] = 0
      BY <2>2, PrefixValue
    <2>4. value' = value /\ CL!Chars' = CL!Chars /\ CL!Scans' /\ CL!ParsesDepth'
      BY <2>1, WordsAlone
    <2> HIDE DEF value
    <2>5. Len(CL!Chars') \in Nat
      BY <2>2, <2>4
    <2>6. /\ position' \in 0 .. Len(CL!Chars') /\ \A i \in 1 .. position' : CL!Chars'[i] # CL!NotDigit
          /\ accumulated' = value'[position'] /\ accumulated' \in 0 .. ArgumentWordMax
          /\ ~(position' > 0)
      BY <2>1, <2>3, <2>4, <2>5, LineConstants
    <2> QED BY <2>1, <2>4, <2>6 DEF Parsing, value
  <1>2. CASE CL!ParseDigit
    <2>1. /\ reads = "parse" /\ CL!ReadsDigit /\ UNCHANGED <<words, reads>>
          /\ accumulated' = CL!WordSum(CL!WordProduct(accumulated, 10), CL!Chars[position + 1])
          /\ position' = position + 1
      BY <1>2 DEF CL!ParseDigit
    <2> DEFINE value == CL!PrefixValues(CL!Chars)
    <2>2. /\ position' \in 1 .. Len(CL!Chars)
          /\ value[position] \in Nat /\ 10 * value[position] <= ArgumentSignedMax
          /\ accumulated' = value[position'] /\ accumulated' \in 0 .. ArgumentWordMax
      BY <2>1, ParsedDigit
    <2>3. /\ CL!Scans /\ CL!ParsesDepth /\ position \in Nat
          /\ \A i \in 1 .. position' : CL!Chars[i] # CL!NotDigit
      <3>1. CL!Scans /\ CL!ParsesDepth /\ position \in 0 .. Len(CL!Chars) /\ Len(CL!Chars) \in Nat
            /\ \A i \in 1 .. position : CL!Chars[i] # CL!NotDigit
        BY <2>1, CharactersRead DEF Parsing
      <3>2. CL!Chars[position + 1] # CL!NotDigit
        BY <2>1 DEF CL!ReadsDigit
      <3> QED BY <2>1, <3>1, <3>2
    <2>4. value' = value /\ CL!Chars' = CL!Chars /\ CL!Scans' /\ CL!ParsesDepth'
      BY <2>1, <2>3, WordsAlone
    <2> HIDE DEF value
    <2>5. /\ position' \in 0 .. Len(CL!Chars') /\ position' - 1 = position
          /\ \A i \in 1 .. position' : CL!Chars'[i] # CL!NotDigit
      BY <2>1, <2>2, <2>3, <2>4
    <2>6. value'[position' - 1] \in Nat /\ 10 * value'[position' - 1] <= ArgumentSignedMax
      BY <2>2, <2>4, <2>5
    <2> QED BY <2>1, <2>2, <2>4, <2>5, <2>6 DEF Parsing, value
  <1>3. CASE \E result : CL!Decide(result)
    BY <1>3 DEF CL!Decide, Parsing
  <1> QED BY <1>1, <1>2, <1>3 DEF CL!Step, CL!Dispatch, CL!WrongShape, CL!DefaultRun, CL!FormatRun, CL!ParseFails,
          CL!DepthRefused, CL!DepthAccepted

LEMMA LineStep == LineInv /\ CL!Step => LineInv'
  <1> SUFFICES ASSUME LineInv, CL!Step PROVE LineInv'
    OBVIOUS
  <1>1. LineTyped /\ Parsing /\ reads # "done"
    BY DEF LineInv, CL!Step, CL!Dispatch, CL!WrongShape, CL!DefaultRun, CL!FormatRun, CL!BeginParse, CL!ParseDigit,
           CL!ParseFails, CL!DepthRefused, CL!DepthAccepted
  <1>2. Parsing' /\ reads' \in {"dispatch", "parse", "done"} /\ UNCHANGED words
    BY <1>1, ParsingStep
  <1>3. /\ LineTyped' /\ CL!Meaning' = CL!Meaning
        /\ CL!Scans' <=> CL!Scans
    BY <1>1, <1>2, WordsAlone
  <1>4. ASSUME reads' = "done", CL!Scans PROVE decision' = CL!Meaning
    <2>1. CASE CL!Dispatch \/ CL!WrongShape \/ CL!DefaultRun \/ CL!FormatRun
      BY <1>1, <1>4, <2>1, DecidedAtOnce
    <2>2. CASE CL!ParseFails \/ CL!DepthRefused \/ CL!DepthAccepted
      <3>1. reads = "parse"
        BY <2>2 DEF CL!ParseFails, CL!DepthRefused, CL!DepthAccepted
      <3> QED BY <1>1, <2>2, <3>1, DecidedByParser
    <2>3. CASE CL!BeginParse \/ CL!ParseDigit
      BY <1>4, <2>3 DEF CL!BeginParse, CL!ParseDigit
    <2> QED BY <2>1, <2>2, <2>3 DEF CL!Step
  <1>5. reads' = "done" => /\ decision'.does \in {"usage", "version", "run"}
                           /\ decision'.does = "run" => decision'.command \in CommandNames
    BY <1>1, DecisionShape
  <1> QED BY <1>2, <1>3, <1>4, <1>5 DEF LineInv

-----------------------------------------------------------------------------
(* What the command returns.                                               *)

StatusInv ==
    /\ status = EXIT_OK /\ pc \in {"release", "unmap", "returned"} => stage = Len(Calls) /\ chunk = Chunks
    /\ pc = "diagnose" => status # EXIT_OK
    /\ pc \notin {"returned", "killed"} => stderr = <<>>
    /\ pc = "returned" => stderr = IF status = EXIT_OK THEN <<>> ELSE <<status>>

LEMMA RefusalsAreErrors == \A call \in DOMAIN Refusals : EXIT_OK \notin Refusals[call]
  BY DEF Refusals, EXIT_OK, EXIT_GENERAL, EXIT_NOT_ELF64_X64, EXIT_MALFORMED_ELF, EXIT_UNSUPPORTED, EXIT_BOUNDS

LEMMA StatusStep == ControlInv /\ StatusInv /\ [Next]_vars => StatusInv'
  <1> SUFFICES ASSUME ControlInv, StatusInv, [Next]_vars PROVE StatusInv'
    OBVIOUS
  <1> USE DEF StatusInv, vars, arena, target, output, Calls
  <1>1. CASE \E rax : rax # EXIT_OK /\ Fails(rax) /\ UNCHANGED stderr /\ pc \notin {"returned", "killed"}
    BY <1>1 DEF Fails
  <1>2. CASE OpenTarget
    BY <1>2, <1>1 DEF OpenTarget, EXIT_OK, EXIT_FILE
  <1>3. CASE StatTarget \/ MapTarget
    BY <1>3 DEF StatTarget, MapTarget
  <1>4. CASE StatRefused
    BY <1>4, <1>1 DEF StatRefused, EXIT_OK, EXIT_FILE, EXIT_MALFORMED_ELF
  <1>5. CASE MapRefused
    BY <1>5, <1>1 DEF MapRefused, EXIT_OK, EXIT_FILE
  <1>6. CASE StageReturnsOK \/ ArenaReady
    BY <1>6 DEF StageReturnsOK, ArenaReady, Calling
  <1>7. CASE StageRefuses
    BY <1>7, <1>1, RefusalsAreErrors DEF StageRefuses, Calling
  <1>8. CASE ArenaRefused
    BY <1>8, <1>1 DEF ArenaRefused, Calling, EXIT_OK, EXIT_GENERAL
  <1>9. CASE AllocTable
    <2>1. CASE A!Allocates(Table.bytes, Table.align)
      BY <1>9, <2>1 DEF AllocTable, Calling
    <2>2. CASE ~A!Allocates(Table.bytes, Table.align)
      BY <1>9, <2>2, <1>1 DEF AllocTable, Calling, EXIT_OK, EXIT_BOUNDS
    <2> QED BY <2>1, <2>2
  <1>10. CASE BeginReport \/ WriteChunk
    BY <1>10 DEF BeginReport, WriteChunk
  <1>11. CASE ReportWritten
    BY <1>11 DEF ReportWritten, ControlInv
  <1>12. CASE ReleaseArena
    BY <1>12 DEF ReleaseArena
  <1>13. CASE UnmapTarget
    BY <1>13 DEF UnmapTarget
  <1>14. CASE PrintStatus
    BY <1>14 DEF PrintStatus
  <1>15. CASE Truncate
    BY <1>15 DEF Truncate
  <1>16. CASE ReadBeyondEnd \/ ReaderGone
    BY <1>16 DEF ReadBeyondEnd, ReaderGone, Dies
  <1>17. CASE UNCHANGED vars
    BY <1>17
  <1> QED BY <1>2, <1>3, <1>4, <1>5, <1>6, <1>7, <1>8, <1>9, <1>10, <1>11, <1>12, <1>13, <1>14, <1>15, <1>16, <1>17
          DEF Next, Step, Returned

-----------------------------------------------------------------------------
(* The process: the line, then the command.                                *)

CommandInv == ControlInv /\ RecordTyped /\ KernelInv /\ StorageInv /\ StatusInv

\* Before the call nothing of the command has happened.
Idle ==
    calls = <<>> =>
        /\ pc = "open" /\ stage = 0 /\ status = EXIT_OK /\ chunk = 0
        /\ base = 0 /\ openFds = {} /\ mapped = FALSE
        /\ stdout = <<>> /\ stderr = <<>>

ExitInv ==
    exit # NoExit =>
        IF calls = <<>>
        THEN reads = "done" /\ decision.does \in {"usage", "version"} /\ exit = decision.exit
        ELSE pc = "returned" /\ exit = status

\* A command is called once the words are read and ask for one.
Called == calls # <<>> => reads = "done" /\ decision.does = "run"

ProcessInv == LineInv /\ CommandInv /\ Idle /\ Called /\ ExitInv

LEMMA CommandStarts == Init => CommandInv
  <1> SUFFICES ASSUME Init PROVE CommandInv
    OBVIOUS
  <1>1. ControlInv
    BY ControlInit
  <1>2. RecordTyped /\ KernelInv
    BY RecordsAtStart
  <1>3. StorageInv
    BY DEF Init, A!Init, StorageInv, TablesAlwaysFit
  <1>4. StatusInv
    BY DEF Init, StatusInv
  <1> QED BY <1>1, <1>2, <1>3, <1>4 DEF CommandInv

LEMMA CommandStep == CommandInv /\ [Next]_vars => CommandInv'
  BY ControlStep, KernelStep, StorageStep, StatusStep DEF CommandInv

\* A call hands the command a state in which it has done nothing.
LEMMA CallStep ==
    ASSUME CommandInv, Idle, LineInv, CallsCommand
    PROVE  CommandInv'
  <1>1. /\ command' \in CommandNames
        /\ UNCHANGED <<pc, stage, status, complete, arena, target, length, output>>
        /\ pc = "open" /\ stage = 0 /\ status = EXIT_OK /\ chunk = 0 /\ base = 0
    BY DEF CallsCommand, LineInv, Idle
  <1>2. ControlInv'
    <2>1. Len(Pipeline[command']) \in Nat /\ Len(Pipeline[command']) # 0
      BY <1>1, PipelinesHaveCalls DEF CommandNames
    <2>2. Calls' = Pipeline[command']
      BY DEF Calls
    <2> QED BY <1>1, <2>1, <2>2 DEF ControlInv, CommandInv, Running, CommandNames, output
  <1>3. RecordTyped'
    BY <1>1 DEF CommandInv, RecordTyped, target
  <1>4. KernelInv'
    BY <1>1 DEF CommandInv, KernelInv, target, arena, A!MappingMatchesRecord
  <1>5. StorageInv'
    BY <1>1 DEF CommandInv, StorageInv, TablesAlwaysFit, arena
  <1>6. StatusInv'
    BY <1>1 DEF CommandInv, StatusInv, output
  <1> QED BY <1>2, <1>3, <1>4, <1>5, <1>6 DEF CommandInv

LEMMA ProcessStarts == ProgramInit => ProcessInv
  <1> SUFFICES ASSUME ProgramInit PROVE ProcessInv
    OBVIOUS
  <1>1. Init /\ CL!Init /\ calls = <<>> /\ exit = NoExit
    BY DEF ProgramInit
  <1>2. LineInv
    BY <1>1, LineConstants DEF CL!Init, LineInv, LineTyped, Parsing
  <1>3. CommandInv
    BY <1>1, CommandStarts
  <1>4. Idle /\ Called /\ ExitInv
    BY <1>1 DEF Init, A!Init, Idle, Called, ExitInv
  <1> QED BY <1>2, <1>3, <1>4 DEF ProcessInv

\* A command that has returned, or was killed, does nothing more.
LEMMA ReturnedStays == Step => pc \notin {"returned", "killed"}
  BY DEF Step, OpenTarget, StatTarget, StatRefused, MapTarget, MapRefused, StageReturnsOK, StageRefuses, ArenaReady,
         ArenaRefused, AllocTable, Calling, BeginReport, WriteChunk, ReportWritten, ReleaseArena, UnmapTarget,
         PrintStatus

LEMMA ProcessStep == ProcessInv /\ [ProgramNext]_programVars => ProcessInv'
  <1> SUFFICES ASSUME ProcessInv, [ProgramNext]_programVars PROVE ProcessInv'
    OBVIOUS
  <1>0. LineInv /\ CommandInv /\ Idle /\ Called /\ ExitInv
    BY DEF ProcessInv
  <1>l. UNCHANGED line => LineInv'
    <2> SUFFICES ASSUME UNCHANGED line PROVE LineInv'
      OBVIOUS
    <2>1. UNCHANGED <<words, reads, position, accumulated, decision>>
      BY DEF line
    <2> QED BY <1>0, <2>1, WordsAlone DEF LineInv, Parsing
  <1>c. UNCHANGED commandVars => CommandInv'
    BY <1>0, CommandStep DEF commandVars
  <1>1. CASE ReadsArguments
    <2>1. LineInv' /\ CommandInv'
      BY <1>0, <1>1, <1>c, LineStep DEF ReadsArguments
    <2>2. reads # "done" /\ UNCHANGED <<calls, exit>>
      BY <1>1 DEF ReadsArguments, CL!Step, CL!Dispatch, CL!WrongShape, CL!DefaultRun, CL!FormatRun, CL!BeginParse,
           CL!ParseDigit, CL!ParseFails, CL!DepthRefused, CL!DepthAccepted
    <2>3. Idle' /\ Called' /\ ExitInv'
      BY <1>0, <1>1, <2>2 DEF ReadsArguments, Idle, Called, ExitInv, commandVars, vars, arena, target, output
    <2> QED BY <2>1, <2>3 DEF ProcessInv
  <1>2. CASE ExitsAtOnce
    <2>1. Idle' /\ Called' /\ ExitInv'
      BY <1>0, <1>2 DEF ExitsAtOnce, Idle, Called, ExitInv, commandVars, vars, arena, target, output, line, LineInv
    <2> QED BY <1>0, <1>2, <1>l, <1>c, <2>1 DEF ExitsAtOnce, ProcessInv
  <1>3. CASE CallsCommand
    <2>1. Idle' /\ Called' /\ ExitInv'
      BY <1>0, <1>3 DEF CallsCommand, Idle, Called, ExitInv, line
    <2> QED BY <1>0, <1>3, <1>l, <2>1, CallStep DEF CallsCommand, ProcessInv
  <1>4. CASE RunsCommand
    <2>1. CommandInv'
      BY <1>0, <1>4, CommandStep DEF RunsCommand, Next
    <2>2. Idle' /\ Called' /\ ExitInv'
      BY <1>0, <1>4, ReturnedStays DEF RunsCommand, Idle, Called, ExitInv, line
    <2> QED BY <1>4, <1>l, <2>1, <2>2 DEF RunsCommand, ProcessInv
  <1>5. CASE ExitsWithStatus
    <2>1. Idle' /\ Called' /\ ExitInv'
      BY <1>0, <1>5 DEF ExitsWithStatus, Idle, Called, ExitInv, commandVars, vars, arena, target, output, line
    <2> QED BY <1>5, <1>l, <1>c, <2>1 DEF ExitsWithStatus, ProcessInv
  <1>6. CASE OutsideActs
    <2>1. CommandInv'
      BY <1>0, <1>6, CommandStep DEF OutsideActs, Next
    <2>2. Idle' /\ Called' /\ ExitInv'
      BY <1>0, <1>6 DEF OutsideActs, Idle, Called, ExitInv, line
    <2> QED BY <1>6, <1>l, <2>1, <2>2 DEF OutsideActs, ProcessInv
  <1>7. CASE UNCHANGED programVars
    <2>1. Idle' /\ Called' /\ ExitInv'
      BY <1>0, <1>7 DEF programVars, Idle, Called, ExitInv, vars, arena, target, output, line
    <2> QED BY <1>7, <1>l, <1>c, <2>1 DEF programVars, commandVars, ProcessInv
  <1> QED BY <1>1, <1>2, <1>3, <1>4, <1>5, <1>6, <1>7 DEF ProgramNext, ProgramStep, Ended

(***************************************************************************)
(* The inductive invariant of the process.                                 *)
(***************************************************************************)
THEOREM ProcessInvariant == ProgramSpec => []ProcessInv
  BY ProcessStarts, ProcessStep, PTL DEF ProgramSpec

(***************************************************************************)
(* main.asm answers every argument vector as the grammar of                *)
(* docs/cli-contract.md does, numbers of any length included: what the     *)
(* parser's wrapping words accept is what the digits say.                  *)
(***************************************************************************)
THEOREM AnswersTheorem == ProgramSpec => []AnswersTheGrammar
  <1>1. ProcessInv => AnswersTheGrammar
    BY DEF ProcessInv, LineInv, AnswersTheGrammar, CL!AnswersTheGrammar
  <1> QED BY <1>1, ProcessInvariant, PTL

(***************************************************************************)
(* The exit status says what happened: 2 or 0 with no command called,      *)
(* otherwise the code of the first stage that failed, printed once, and 0  *)
(* only after every stage and every report write.                          *)
(***************************************************************************)
THEOREM ExitTheorem == ProgramSpec => []ExitSaysWhatHappened
  <1>1. ProcessInv => ExitSaysWhatHappened
    <2> SUFFICES ASSUME ProcessInv, exit # NoExit PROVE ExitSaysWhatHappened
      BY DEF ExitSaysWhatHappened
    <2>1. CASE calls = <<>>
      <3>1. /\ stdout = <<>> /\ openFds = {} /\ ~mapped
            /\ exit = decision.exit /\ decision.does \in {"usage", "version"} /\ reads = "done"
        BY <2>1 DEF ProcessInv, Idle, ExitInv
      <3>2. CL!Scans => decision.exit = 2
        <4> SUFFICES ASSUME CL!Scans PROVE decision.exit = 2
          OBVIOUS
        <4>1. decision = CL!Meaning
          BY <3>1 DEF ProcessInv, LineInv
        <4> QED BY <3>1, <4>1, MeaningOfSentence DEF CL!Run, CL!Usage
      <3> QED BY <2>1, <3>1, <3>2 DEF ExitSaysWhatHappened
    <2>2. CASE calls # <<>>
      <3>1. pc = "returned" /\ exit = status
        BY <2>2 DEF ProcessInv, ExitInv
      <3>2. chunk > 0 => status = EXIT_OK
        BY DEF ProcessInv, CommandInv, ControlInv
      <3>3. chunk \in Nat
        BY DEF ProcessInv, CommandInv, ControlInv
      <3> QED BY <2>2, <3>1, <3>2, <3>3 DEF ProcessInv, CommandInv, StatusInv, ExitSaysWhatHappened
    <2> QED BY <2>1, <2>2
  <1> QED BY <1>1, ProcessInvariant, PTL

(***************************************************************************)
(* What is proved of a command by itself holds of the command the process  *)
(* calls: nothing on stdout before a failure, every table in the arena,    *)
(* and records that describe what the kernel holds.                        *)
(***************************************************************************)
THEOREM CommandInProcess ==
    ProgramSpec => [](FailsBeforeOutput /\ TablesAlwaysFit /\ RecordsMatchKernel)
  <1>1. ProcessInv => FailsBeforeOutput /\ TablesAlwaysFit /\ RecordsMatchKernel
    BY DEF ProcessInv, CommandInv, ControlInv, FailsBeforeOutput, StorageInv, KernelInv, RecordsMatchKernel,
           A!MappingMatchesRecord
  <1> QED BY <1>1, ProcessInvariant, PTL

(***************************************************************************)
(* Nothing the process does after a failure changes the status it will     *)
(* exit with.                                                              *)
(***************************************************************************)
THEOREM FirstFailureInProcess == ProgramSpec => FirstFailureKept
  <1>1. ProcessInv /\ [ProgramNext]_programVars => [status # EXIT_OK => status' = status]_vars
    <2> SUFFICES ASSUME ProcessInv, [ProgramNext]_programVars PROVE [status # EXIT_OK => status' = status]_vars
      OBVIOUS
    <2>1. CASE [Next]_vars
      BY <2>1, FirstFailureStep DEF ProcessInv, CommandInv
    <2>2. CASE CallsCommand
      BY <2>2 DEF CallsCommand
    <2> QED BY <2>1, <2>2 DEF ProgramNext, ProgramStep, ReadsArguments, ExitsAtOnce, RunsCommand, ExitsWithStatus,
            OutsideActs, Ended, programVars, commandVars, Next
  <1> QED BY <1>1, ProcessInvariant, PTL DEF ProgramSpec, FirstFailureKept
=============================================================================
