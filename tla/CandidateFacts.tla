---------------------------- MODULE CandidateFacts ----------------------------
(***************************************************************************)
(* What a report says of a candidate: the passes analyze.asm and           *)
(* gadgets.asm make over the table the scanner has filled (module          *)
(* Scanner), one action per pass.  A pass writes the fields of every       *)
(* record, or answers EXIT_BOUNDS when what an earlier pass left there     *)
(* contradicts what it expects; then nothing is reported, so the fields    *)
(* written before the contradiction are left out.  The passes over the     *)
(* section headers, which come before the scan and after the scoring, and  *)
(* the printing are in SectionLabels and Reports.                          *)
(*                                                                         *)
(* A register is its name: the tables from encodings to register numbers   *)
(* and back are the order of Registers.  PATTERN_UNKNOWN is left out: the  *)
(* scanner finds no other terminator than the two.                         *)
(***************************************************************************)
EXTENDS Scanner, SequencesExt

ASSUME OpcodesAssumption == RET = \hC3 /\ RET_IMM16 = \hC2

VARIABLES stage,       \* the pass to come
          patterns,    \* PATTERN_ID and PATTERN_REG_ORDER of every record
          semantics,   \* class, registers, stack delta and flags
          evidence,    \* candidate_evidence_record[]
          memory,      \* memory_effect_record[]
          effects,     \* candidate_effect_record[]
          roles,       \* candidate_role_record[]
          scores,
          counts       \* the counters of the gadget summary

tables   == <<patterns, semantics, evidence, memory, effects, roles, scores, counts>>
allVars  == <<vars, stage, tables>>

EXIT_BOUNDS == "bounds"

Registers == <<"rax", "rcx", "rdx", "rbx", "rsp", "rbp", "rsi", "rdi",
               "r8", "r9", "r10", "r11", "r12", "r13", "r14", "r15">>

ArgumentRegisters == {"rdi", "rsi", "rdx", "rcx", "r8", "r9"}

Register(code, extended) == Registers[1 + code + IF extended THEN 8 ELSE 0]

Rows == DOMAIN records

-----------------------------------------------------------------------------
(* patterns.asm: the bytes before the return, inside the window.           *)

Room(c) == WordDifference(c.fileOffset, c.byteStart)
Back(c, n) == object.image[c.fileOffset - n]

SyscallBefore(c) == Room(c) >= 2 /\ Back(c, 2) = \h0F /\ Back(c, 1) = \h05

\* add rsp, imm8 with a positive multiple of eight.
AdjustBefore(c) ==
    /\ Room(c) >= 4
    /\ Back(c, 4) = \h48 /\ Back(c, 3) = \h83 /\ Back(c, 2) = \hC4
    /\ Back(c, 1) # 0 /\ Back(c, 1) < 128 /\ Back(c, 1) % 8 = 0

\* mov with REX.W, opcode 89 or 8b, and its three fields.
MoveBefore(c) == Room(c) >= 3 /\ Back(c, 3) \in \h48 .. \h4F /\ Back(c, 2) \in {\h89, \h8B}
Stores(c)     == Back(c, 2) = \h89
Prefix(c, bit) == (Back(c, 3) \div bit) % 2 = 1        \* REX.R 4, REX.X 2, REX.B 1
Mode(c)       == Back(c, 1) \div 64
BaseField(c)  == Back(c, 1) % 8
BaseOperand(c)  == Register(BaseField(c), Prefix(c, 1))
ValueOperand(c) == Register((Back(c, 1) \div 8) % 8, Prefix(c, 4))

MemoryMoveBefore(c) ==
    /\ MoveBefore(c) /\ ~Prefix(c, 2)
    /\ Mode(c) = 0 /\ BaseField(c) \notin {4, 5}
    /\ ValueOperand(c) # "rsp"

RegisterMoveBefore(c) ==
    /\ MoveBefore(c) /\ Mode(c) = 3
    /\ BaseOperand(c) # ValueOperand(c)
    /\ "rsp" \notin {BaseOperand(c), ValueOperand(c)}

\* DECODE_POP_BACKWARD: the pop that ends there, if there is one.
PopsEndingAt(c, end) ==
    IF end <= c.byteStart \/ object.image[end - 1] \notin \h58 .. \h5F THEN {}
    ELSE LET extended == end - 1 > c.byteStart /\ object.image[end - 2] = \h41
         IN  {[start |-> IF extended THEN end - 2 ELSE end - 1,
               reg |-> Register(object.image[end - 1] - \h58, extended)]}

LastPop(c) == PopsEndingAt(c, c.fileOffset)

ArgumentPops(c) ==
    { regs \in UNION { { <<first.reg, second.reg>> : first \in PopsEndingAt(c, second.start) } :
                       second \in LastPop(c) } :
        /\ regs[1] \in ArgumentRegisters /\ regs[2] \in ArgumentRegisters
        /\ regs[1] # regs[2] }

Pattern(kind, regs) == [kind |-> kind, regs |-> regs]

\* The families in the order they are tried.
PatternOf(c) ==
    IF c.terminator = RET_IMM16 THEN Pattern("ret imm16", <<>>)
    ELSE IF SyscallBefore(c) THEN Pattern("syscall", <<>>)
    ELSE IF AdjustBefore(c) THEN Pattern("adjust", <<>>)
    ELSE IF MemoryMoveBefore(c)
         THEN Pattern(IF Stores(c) THEN "store" ELSE "load", <<BaseOperand(c), ValueOperand(c)>>)
    ELSE IF RegisterMoveBefore(c)
         THEN Pattern("transfer", IF Stores(c) THEN <<BaseOperand(c), ValueOperand(c)>>
                                               ELSE <<ValueOperand(c), BaseOperand(c)>>)
    ELSE IF ArgumentPops(c) # {}
         THEN Pattern("two pops", CHOOSE regs \in ArgumentPops(c) : TRUE)
    ELSE IF LastPop(c) # {}
         THEN Pattern("pop", <<(CHOOSE pop \in LastPop(c) : TRUE).reg>>)
    ELSE IF Room(c) > 0 /\ Back(c, 1) = \hC9 THEN Pattern("leave", <<>>)
    ELSE Pattern("ret", <<>>)

-----------------------------------------------------------------------------
(* classifier.asm: class, registers controlled and overwritten, the change *)
(* of the stack pointer (0 when it is not known) and the side effects.     *)

Returns == {"stack read", "control transfer"}
Pops    == Returns \cup {"register write"}
Pivots  == Pops \cup {"stack pivot"}

Classes == {"arg control", "syscall number", "syscall trigger", "stack pivot", "alignment",
            "transfer", "memory write", "memory read"}

Facts(class, controlled, clobbered, delta, flags) ==
    [class |-> class, controlled |-> controlled, clobbered |-> clobbered,
     delta |-> delta, flags |-> flags]

Immediate(c) == object.image[c.fileOffset + 1] + 256 * object.image[c.fileOffset + 2]

ClassifiedPop(r) ==
    CASE r \in ArgumentRegisters -> Facts("arg control", {r}, {}, 16, Pops)
      [] r = "rax"               -> Facts("syscall number", {r}, {}, 16, Pops)
      [] r = "rsp"               -> Facts("stack pivot", {r}, {}, 0, Pivots)
      [] OTHER                   -> Facts("unknown", {}, {}, 16, Pops)

Classified(c, p) ==
    CASE p.kind = "ret"       -> Facts("alignment", {}, {}, 8, Returns)
      [] p.kind = "ret imm16" -> Facts("alignment", {}, {}, 8 + Immediate(c),
                                       Returns \cup {"stack adjust", "ret imm16"})
      [] p.kind = "adjust"    -> Facts("alignment", {}, {}, 8 + Back(c, 1),
                                       Returns \cup {"stack adjust", "flags write"})
      [] p.kind = "pop"       -> ClassifiedPop(p.regs[1])
      [] p.kind = "two pops"  -> Facts("arg control", {p.regs[1], p.regs[2]}, {}, 24, Pops)
      [] p.kind = "transfer"  -> Facts("transfer", {}, {p.regs[1]}, 8, Pops)
      [] p.kind = "store"     -> Facts("memory write", {}, {}, 8, Returns \cup {"memory write"})
      [] p.kind = "load"      -> Facts("memory read", {}, {p.regs[2]}, 8, Pops \cup {"memory read"})
      [] p.kind = "syscall"   -> Facts("syscall trigger", {}, {"rcx", "r11"}, 8, Pops \cup {"syscall"})
      [] p.kind = "leave"     -> Facts("stack pivot", {"rsp"}, {"rbp"}, 0, Pivots)

(* The order of registers a pattern must have.  Every pass that uses the   *)
(* order looks at it again; the classifier looks at the bytes of an        *)
(* adjustment again too.                                                   *)
OrderSound(p) ==
    CASE p.kind = "pop"      -> Len(p.regs) = 1
      [] p.kind = "two pops" -> /\ Len(p.regs) = 2 /\ p.regs[1] # p.regs[2]
                                /\ {p.regs[1], p.regs[2]} \subseteq ArgumentRegisters
      [] p.kind = "transfer" -> /\ Len(p.regs) = 2 /\ p.regs[1] # p.regs[2]
                                /\ "rsp" \notin {p.regs[1], p.regs[2]}
      [] p.kind \in {"store", "load"} -> /\ Len(p.regs) = 2 /\ p.regs[2] # "rsp"
                                         /\ p.regs[1] \notin {"rsp", "rbp", "r12", "r13"}
      [] OTHER -> p.regs = <<>>

ClassifierAccepts(c, p) ==
    /\ p.kind \in {"two pops", "transfer", "store", "load", "adjust"} => OrderSound(p)
    /\ p.kind = "adjust" => c.byteLen >= 5 /\ AdjustBefore(c)

-----------------------------------------------------------------------------
(* candidate_evidence.asm: where in the window the recognised suffix lies. *)

Extended(r) == r \notin {Registers[i] : i \in 1 .. 8}

SuffixLength(p) ==
    CASE p.kind = "ret"   -> 1
      [] p.kind = "leave" -> 2
      [] p.kind \in {"pop", "two pops"} ->
            1 + Len(p.regs) + Cardinality({i \in DOMAIN p.regs : Extended(p.regs[i])})
      [] p.kind \in {"ret imm16", "syscall"}       -> 3
      [] p.kind \in {"transfer", "store", "load"}  -> 4
      [] p.kind = "adjust"                         -> 5

Evidence(c, p, s) ==
    [flags |-> {"raw", "exact"} \cup IF s.class = "unknown" THEN {} ELSE {"semantic"},
     offset |-> WordDifference(c.byteLen, SuffixLength(p)),
     length |-> SuffixLength(p),
     regions |-> {}]

InTable == Len(records) <= capacity /\ Len(records) <= DefaultCapacity

EvidenceAccepts ==
    /\ InTable
    /\ \A k \in Rows : OrderSound(patterns[k]) /\ records[k].byteLen >= SuffixLength(patterns[k])
    /\ Len(patterns) = counts.pattern
    /\ Cardinality({k \in Rows : semantics[k].class # "unknown"}) = counts.semantic
    /\ Cardinality({k \in Rows : semantics[k].class = "unknown"}) = counts.unknown
    /\ counts.semantic + counts.unknown = Len(records)

-----------------------------------------------------------------------------
(* candidate_mapping.asm: the regions that map the window to the address   *)
(* of the candidate.  The order of the program-header indices, which       *)
(* LoaderContract keeps, is left out.                                      *)

WindowEnd(c) == WordSum(c.byteStart, c.byteLen)

\* Defect: only the region the scanner was in is looked at.
ContributorsFirst(c) ==
    {CHOOSE i \in DOMAIN object.regions : object.regions[i].fileOffset <= c.byteStart}

ContainsWindow(r, c) ==
    /\ r.fileOffset <= c.byteStart
    /\ ~(WindowEnd(c) > WordSum(r.filesz, r.fileOffset))
    /\ c.fileOffset >= r.fileOffset
    /\ c.fileOffset < WordSum(r.filesz, r.fileOffset)

Contributors(c) ==
    { i \in DOMAIN object.regions :
        LET r == object.regions[i]
        IN  /\ ContainsWindow(r, c)
            /\ WordSum(WordDifference(c.fileOffset, r.fileOffset), r.vaddr) = c.virtualAddress }

MappingAccepts(c) ==
    /\ c.byteLen # 0 /\ ~Carries(c.byteStart, c.byteLen)
    /\ c.byteStart <= c.fileOffset /\ c.fileOffset < WindowEnd(c)
    /\ \A i \in DOMAIN object.regions :
          LET r == object.regions[i]
          IN  /\ ~Carries(r.filesz, r.fileOffset)
              /\ ContainsWindow(r, c) =>
                    ~Carries(WordDifference(c.fileOffset, r.fileOffset), r.vaddr)
    /\ Contributors(c) # {}

-----------------------------------------------------------------------------
(* memory_effect.asm: the operands of the two memory families.  The width, *)
(* the scale and the zero displacement are the same in all.                *)

NoAccess == [direction |-> "none", base |-> "none", value |-> "none"]

MemoryEffect(p) ==
    IF p.kind \in {"store", "load"}
    THEN [direction |-> IF p.kind = "store" THEN "write" ELSE "read",
          base |-> p.regs[1], value |-> p.regs[2]]
    ELSE NoAccess

MemoryAccepts(p, s) ==
    CASE p.kind = "store" -> /\ OrderSound(p)
                             /\ s = Facts("memory write", {}, {}, 8, Returns \cup {"memory write"})
      [] p.kind = "load"  -> /\ OrderSound(p)
                             /\ s = Facts("memory read", {}, {p.regs[2]}, 8, Pops \cup {"memory read"})
      [] OTHER -> s.class \notin {"memory write", "memory read"}

MemoryCountsAgree ==
    /\ counts.classes["memory write"] = Cardinality({k \in Rows : patterns[k].kind = "store"})
    /\ counts.classes["memory read"] = Cardinality({k \in Rows : patterns[k].kind = "load"})

-----------------------------------------------------------------------------
(* candidate_effect.asm: registers read and written, and the descriptor:   *)
(* whether the effects are all there, the register the stack reads are     *)
(* relative to, how many there are, the offset of the first and between    *)
(* them, the flags read and written, and the ways control leaves.          *)

PlainReturn == [complete |-> TRUE, base |-> "rsp", offsetsKnown |-> TRUE, stackReads |-> 1,
           first |-> 0, stride |-> 0, flagsRead |-> {}, flagsWritten |-> {}, control |-> {"return"}]

PopReturn == [PlainReturn EXCEPT !.stackReads = 2, !.stride = 8]

Effect(read, written, descriptor) == [read |-> read, written |-> written, descriptor |-> descriptor]

SyscallReads == {"rax", "rdi", "rsi", "rdx", "r10", "r8", "r9", "rsp"}

EffectOf(p, delta) ==
    CASE p.kind \in {"ret", "ret imm16"} -> Effect({"rsp"}, {"rsp"}, PlainReturn)
      [] p.kind = "pop" /\ p.regs[1] # "rsp" -> Effect({"rsp"}, {"rsp", p.regs[1]}, PopReturn)
      [] p.kind = "pop" /\ p.regs[1] = "rsp" ->
            Effect({"rsp"}, {"rsp"}, [PlainReturn EXCEPT !.complete = FALSE, !.offsetsKnown = FALSE,
                                                    !.base = "dynamic", !.stackReads = 2])
      [] p.kind = "leave" -> Effect({"rbp"}, {"rbp", "rsp"}, [PopReturn EXCEPT !.base = "rbp"])
      [] p.kind = "syscall" ->
            Effect(SyscallReads, {"rax", "rcx", "r11", "rsp"},
                   [PlainReturn EXCEPT !.complete = FALSE, !.flagsRead = {"syscall"},
                                  !.control = {"return", "syscall"}])
      [] p.kind = "two pops" ->
            Effect({"rsp"}, {p.regs[1], p.regs[2], "rsp"}, [PopReturn EXCEPT !.stackReads = 3])
      [] p.kind = "transfer" -> Effect({p.regs[2], "rsp"}, {p.regs[1], "rsp"}, PlainReturn)
      [] p.kind = "adjust" ->
            Effect({"rsp"}, {"rsp"}, [PlainReturn EXCEPT !.first = WordDifference(delta, 8),
                                                    !.flagsWritten = {"arithmetic"}])
      [] p.kind = "store" -> Effect({p.regs[1], p.regs[2], "rsp"}, {"rsp"}, PlainReturn)
      [] p.kind = "load"  -> Effect({p.regs[1], "rsp"}, {p.regs[2], "rsp"}, PlainReturn)

(* What the pass, and the scoring after it, expect of the classifier.      *)
ClassExpected(p) ==
    CASE p.kind \in {"ret", "ret imm16", "adjust"} -> "alignment"
      [] p.kind = "two pops" \/ (p.kind = "pop" /\ p.regs[1] \in ArgumentRegisters) -> "arg control"
      [] p.kind = "pop" /\ p.regs[1] = "rax" -> "syscall number"
      [] p.kind = "leave" \/ (p.kind = "pop" /\ p.regs[1] = "rsp") -> "stack pivot"
      [] p.kind = "syscall"  -> "syscall trigger"
      [] p.kind = "transfer" -> "transfer"
      [] p.kind = "store"    -> "memory write"
      [] p.kind = "load"     -> "memory read"
      [] OTHER               -> "unknown"

ControlledExpected(p, class) ==
    CASE class \in {"arg control", "syscall number"} -> {p.regs[i] : i \in DOMAIN p.regs}
      [] class = "stack pivot" -> {"rsp"}
      [] OTHER -> {}

ClobberedExpected(p) ==
    CASE p.kind = "leave"    -> {"rbp"}
      [] p.kind = "syscall"  -> {"rcx", "r11"}
      [] p.kind = "transfer" -> {p.regs[1]}
      [] p.kind = "load"     -> {p.regs[2]}
      [] OTHER               -> {}

DeltaExpected(p, class, delta) ==
    CASE class = "stack pivot"   -> delta = 0
      [] p.kind = "ret imm16"    -> delta >= 8
      [] p.kind = "adjust"       -> delta \in 16 .. 128 /\ delta % 8 = 0
      [] p.kind = "pop" /\ class # "stack pivot" -> delta = 16
      [] p.kind = "two pops"     -> delta = 24
      [] OTHER                   -> delta = 8

FlagsExpected(p, class) ==
    {"stack read", "control transfer"}
    \cup (IF p.kind \in {"pop", "two pops", "leave", "transfer", "load", "syscall"}
          THEN {"register write"} ELSE {})
    \cup (IF p.kind \in {"ret imm16", "adjust"} THEN {"stack adjust"} ELSE {})
    \cup (IF class = "stack pivot" THEN {"stack pivot"} ELSE {})
    \cup {f \in {"ret imm16", "syscall"} : f = p.kind}
    \cup {f \in {"memory write", "memory read"} : f = class}
    \cup (IF p.kind = "adjust" THEN {"flags write"} ELSE {})

FactsExpected(p, s) ==
    /\ s.class = ClassExpected(p)
    /\ s.controlled = ControlledExpected(p, s.class)
    /\ s.clobbered = ClobberedExpected(p)
    /\ DeltaExpected(p, s.class, s.delta)
    /\ s.flags = FlagsExpected(p, s.class)

EffectAccepts(k) ==
    /\ OrderSound(patterns[k])
    /\ FactsExpected(patterns[k], semantics[k])
    /\ patterns[k].kind \in {"store", "load"} => memory[k] = MemoryEffect(patterns[k])

-----------------------------------------------------------------------------
(* candidate_role.asm and scoring.asm.                                     *)

CallRoles   == <<"rdi", "rsi", "rdx", "rcx", "r8", "r9">>      \* SYSV_ARG1 ..
KernelRoles == <<"rdi", "rsi", "rdx", "r10", "r8", "r9">>      \* SYSCALL_ARG1 ..

Roles(p) ==
    IF p.kind # "pop" \/ p.regs[1] = "rsp" THEN {}
    ELSE {<<"generic", 0>>}
         \cup {<<"call", i>> : i \in {j \in DOMAIN CallRoles : CallRoles[j] = p.regs[1]}}
         \cup {<<"kernel", i>> : i \in {j \in DOMAIN KernelRoles : KernelRoles[j] = p.regs[1]}}

Unscored == {"transfer", "store", "load"}

Score(p, s) ==
    CASE s.class = "unknown" \/ p.kind \in Unscored -> 0
      [] p.kind = "pop" /\ p.regs[1] \in ArgumentRegisters -> 90
      [] p.kind = "pop" /\ p.regs[1] = "rax" -> 85
      [] p.kind = "pop" /\ p.regs[1] = "rsp" -> 70
      [] p.kind = "pop" /\ p.regs[1] \notin ArgumentRegisters \cup {"rax", "rsp"} -> 0
      [] p.kind = "syscall"   -> 85
      [] p.kind = "leave"     -> 75
      [] p.kind = "ret"       -> 45
      [] p.kind = "ret imm16" -> 40
      [] p.kind = "two pops"  -> 95
      [] p.kind = "adjust"    -> 35

ScoringAccepts(k) ==
    Score(patterns[k], semantics[k]) # 0 =>
        /\ OrderSound(patterns[k])
        /\ FactsExpected(patterns[k], semantics[k])
        /\ effects[k] = EffectOf(patterns[k], semantics[k].delta)

-----------------------------------------------------------------------------
\* The pass before hands over to the one after, or the analysis is refused.
Pass(now, next, accepted) ==
    /\ stage = now
    /\ stage' = IF accepted THEN next ELSE EXIT_BOUNDS
    /\ UNCHANGED vars

MatchPatterns ==
    /\ pc = "done" /\ status = EXIT_OK
    /\ Pass("scan", "classify", TRUE)
    /\ patterns' = [k \in Rows |-> PatternOf(records[k])]
    /\ counts' = [counts EXCEPT !.pattern = Len(records)]
    /\ UNCHANGED <<semantics, evidence, memory, effects, roles, scores>>

Classify ==
    /\ Pass("classify", "evidence", \A k \in Rows : ClassifierAccepts(records[k], patterns[k]))
    /\ semantics' = [k \in Rows |-> Classified(records[k], patterns[k])]
    /\ LET Of(class) == Cardinality({k \in Rows : semantics'[k].class = class})
       IN  counts' = [counts EXCEPT !.unknown = Of("unknown"),
                                    !.semantic = Len(records) - Of("unknown"),
                                    !.classes = [class \in Classes |-> Of(class)],
                                    !.controlled = UNION {semantics'[k].controlled : k \in Rows}]
    /\ UNCHANGED <<patterns, evidence, memory, effects, roles, scores>>

GatherEvidence ==
    /\ Pass("evidence", "mapping", EvidenceAccepts)
    /\ evidence' = [k \in Rows |-> Evidence(records[k], patterns[k], semantics[k])]
    /\ UNCHANGED <<patterns, semantics, memory, effects, roles, scores, counts>>

MapToRegions ==
    /\ Pass("mapping", "memory", /\ InTable /\ capacity <= DefaultCapacity
                                 /\ \A k \in Rows : MappingAccepts(records[k]))
    /\ evidence' = [k \in Rows |-> [evidence[k] EXCEPT !.regions = Contributors(records[k])]]
    /\ UNCHANGED <<patterns, semantics, memory, effects, roles, scores, counts>>

RecordMemory ==
    /\ Pass("memory", "effect", /\ InTable /\ MemoryCountsAgree
                                /\ \A k \in Rows : MemoryAccepts(patterns[k], semantics[k]))
    /\ memory' = [k \in Rows |-> MemoryEffect(patterns[k])]
    /\ UNCHANGED <<patterns, semantics, evidence, effects, roles, scores, counts>>

RecordEffects ==
    /\ Pass("effect", "role", /\ InTable /\ Len(patterns) = counts.pattern
                              /\ \A k \in Rows : EffectAccepts(k))
    /\ effects' = [k \in Rows |-> EffectOf(patterns[k], semantics[k].delta)]
    /\ UNCHANGED <<patterns, semantics, evidence, memory, roles, scores, counts>>

AssignRoles ==
    /\ Pass("role", "scoring", InTable /\ \A k \in Rows : patterns[k].kind = "pop" => OrderSound(patterns[k]))
    /\ roles' = [k \in Rows |-> Roles(patterns[k])]
    /\ UNCHANGED <<patterns, semantics, evidence, memory, effects, scores, counts>>

ApplyScores ==
    /\ Pass("scoring", "labels", InTable /\ \A k \in Rows : ScoringAccepts(k))
    /\ scores' = [k \in Rows |-> Score(patterns[k], semantics[k])]
    /\ counts' = [counts EXCEPT !.scored = Cardinality({k \in Rows : scores'[k] # 0})]
    /\ UNCHANGED <<patterns, semantics, evidence, memory, effects, roles>>

\* analysis_summary.asm
MarkComplete ==
    /\ Pass("summary", "complete", /\ object.depth # 0 /\ object.depth <= DepthLimit
                                   /\ capacity # 0 /\ Len(records) <= capacity)
    /\ UNCHANGED tables

FactsInit ==
    /\ Init
    /\ stage = "stripped"
    /\ patterns = <<>> /\ semantics = <<>> /\ evidence = <<>> /\ memory = <<>>
    /\ effects = <<>> /\ roles = <<>> /\ scores = <<>>
    /\ counts = [pattern |-> 0, semantic |-> 0, unknown |-> 0, scored |-> 0,
                 classes |-> [class \in Classes |-> 0], controlled |-> {}]

ScanStep == stage = "scan" /\ Step /\ UNCHANGED <<stage, tables>>

AnalysisStep ==
    \/ ScanStep \/ MatchPatterns \/ Classify \/ GatherEvidence \/ MapToRegions
    \/ RecordMemory \/ RecordEffects \/ AssignRoles \/ ApplyScores \/ MarkComplete

-----------------------------------------------------------------------------
(* The reference: the instructions a window may end with, as they are      *)
(* assembled, and what they do, one after the other.                       *)

Index(r) == CHOOSE i \in 0 .. 15 : Registers[i + 1] = r

PopCode(r) == IF Index(r) < 8 THEN <<\h58 + Index(r)>> ELSE <<\h41, \h50 + Index(r)>>

MoveCode(opcode, unused, mode, reg, rm) ==
    <<\h48 + 4 * (Index(reg) \div 8) + 2 * unused + (Index(rm) \div 8), opcode,
      64 * mode + 8 * (Index(reg) % 8) + (Index(rm) % 8)>>

Instruction(op, regs, n) == [op |-> op, regs |-> regs, n |-> n]
Form(code, body) == [code |-> code, body |-> body]

General   == {Registers[i] : i \in 1 .. 16}
Movable   == General \ {"rsp"}
Plain     == General \ {"rsp", "rbp", "r12", "r13"}   \* bases that need no more bytes

Forms ==
    { Form(<<>>, <<>>),
      Form(<<\hC9>>, <<Instruction("leave", <<>>, 0)>>),
      Form(<<\h0F, \h05>>, <<Instruction("syscall", <<>>, 0)>>) }
    \cup { Form(PopCode(r), <<Instruction("pop", <<r>>, 0)>>) : r \in General }
    \cup { Form(PopCode(r[1]) \o PopCode(r[2]),
                <<Instruction("pop", <<r[1]>>, 0), Instruction("pop", <<r[2]>>, 0)>>) :
           r \in {s \in ArgumentRegisters \X ArgumentRegisters : s[1] # s[2]} }
    \cup { Form(<<\h48, \h83, \hC4, 8 * n>>, <<Instruction("add", <<>>, 8 * n)>>) : n \in 1 .. 15 }
    \cup (UNION { { Form(MoveCode(\h89, x, 3, r[2], r[1]), <<Instruction("move", r, 0)>>),
                    Form(MoveCode(\h8B, x, 3, r[1], r[2]), <<Instruction("move", r, 0)>>) } :
                  r \in {s \in Movable \X Movable : s[1] # s[2]}, x \in {0, 1} })
    \cup { Form(MoveCode(\h89, 0, 0, r[2], r[1]), <<Instruction("write", r, 0)>>) : r \in Plain \X Movable }
    \cup { Form(MoveCode(\h8B, 0, 0, r[2], r[1]), <<Instruction("read", r, 0)>>) : r \in Plain \X Movable }

Codes == {f.code : f \in Forms}
Body  == [code \in Codes |-> (CHOOSE f \in Forms : f.code = code).body]

Machine == [base |-> "rsp", offset |-> 0, slots |-> <<>>, read |-> {}, written |-> {}]

Reads(m, regs)  == [m EXCEPT !.read = @ \cup (regs \ m.written)]
Writes(m, regs) == [m EXCEPT !.written = @ \cup regs]
TakesSlot(m)    == Writes(Reads([m EXCEPT !.slots = Append(@, <<m.base, m.offset>>),
                                          !.offset = @ + 8], {"rsp"}), {"rsp"})

Executes(m, i) ==
    CASE i.op = "pop" /\ i.regs[1] = "rsp" -> [TakesSlot(m) EXCEPT !.base = "memory", !.offset = 0]
      [] i.op = "pop" /\ i.regs[1] # "rsp" -> Writes(TakesSlot(m), {i.regs[1]})
      [] i.op = "leave"   -> Writes(TakesSlot(Writes(Reads([m EXCEPT !.base = "rbp", !.offset = 0],
                                                          {"rbp"}), {"rsp"})), {"rbp"})
      [] i.op = "syscall" -> Writes(Reads(m, SyscallReads \ {"rsp"}), {"rax", "rcx", "r11"})
      [] i.op = "add"     -> Writes(Reads([m EXCEPT !.offset = @ + i.n], {"rsp"}), {"rsp"})
      [] i.op = "move"    -> Writes(Reads(m, {i.regs[2]}), {i.regs[1]})
      [] i.op = "write"   -> Reads(m, {i.regs[1], i.regs[2]})
      [] i.op = "read"    -> Writes(Reads(m, {i.regs[1]}), {i.regs[2]})
      [] i.op = "return"  -> LET t == TakesSlot(m) IN [t EXCEPT !.offset = @ + i.n]

\* The last bytes of the window before its return.
LastBytes(c, n) == [i \in 1 .. n |-> object.image[c.fileOffset - n + i - 1]]

(* Those that are a form, unless they begin inside an instruction with a   *)
(* prefix; the form is the longest of them.                                *)
Readings(c) ==
    { LastBytes(c, n) : n \in { m \in 0 .. Room(c) :
        /\ m <= 4 /\ LastBytes(c, m) \in Codes
        /\ ~ (/\ m \in 1 .. Room(c) - 1 /\ Back(c, m) \in \h58 .. \h5F /\ Back(c, m + 1) = \h41) } }

Reading(c) ==
    IF c.terminator = RET_IMM16 THEN <<>>
    ELSE CHOOSE t \in Readings(c) : \A u \in Readings(c) : Len(u) <= Len(t)

Meaning(c) ==
    LET end == Instruction("return", <<>>, IF c.terminator = RET THEN 0 ELSE Immediate(c))
    IN  FoldLeft(Executes, Machine, Append(Body[Reading(c)], end))

Doing(c, op) == \E i \in DOMAIN Body[Reading(c)] : Body[Reading(c)][i].op = op

SuffixIsTheReading(c, e) ==
    /\ e.length = Len(Reading(c)) + IF c.terminator = RET THEN 1 ELSE 3
    /\ e.offset + e.length = c.byteLen

StackOfTheReading(m, s, d) ==
    /\ d.stackReads = Len(m.slots)
    /\ d.offsetsKnown = (\A i \in DOMAIN m.slots : m.slots[i][1] = m.slots[1][1])
    /\ d.base = IF d.offsetsKnown THEN m.slots[1][1] ELSE "dynamic"
    /\ d.offsetsKnown =>
          \A i \in DOMAIN m.slots : m.slots[i][2] = d.first + (i - 1) * d.stride
    /\ s.delta = IF m.base = "rsp" THEN m.offset ELSE 0

RegistersOfTheReading(c, m, s, e) ==
    /\ e.read = m.read /\ e.written = m.written
    /\ s.controlled \cap s.clobbered = {}
    /\ "rsp" \in s.controlled <=> m.base # "rsp"
    /\ s.class # "unknown" =>
          (s.controlled \cup s.clobbered) \ {"rsp"}
             = m.written \ IF Doing(c, "syscall") THEN {"rsp", "rax"} ELSE {"rsp"}

MemoryOfTheReading(c, a) ==
    LET body == Body[Reading(c)]
    IN  IF Doing(c, "write") \/ Doing(c, "read")
        THEN a = [direction |-> body[1].op, base |-> body[1].regs[1], value |-> body[1].regs[2]]
        ELSE a = NoAccess

(***************************************************************************)
(* What a complete report says of a candidate is what its last             *)
(* instructions do: the suffix is the longest supported one that fits the  *)
(* window and begins where an instruction does; the registers, the stack   *)
(* reads, the change of the stack pointer and the memory operands are      *)
(* those of executing it; and the regions it is attributed to are all      *)
(* those, the one it was found in among them, that map it to its address.  *)
(* And the passes agree: what one of them records is what the later ones   *)
(* expect, so an object that was scanned is never refused for a            *)
(* contradiction of the analyser with itself.                              *)
(***************************************************************************)
FactsOfTheWindow ==
    /\ stage # EXIT_BOUNDS
    /\ stage = "complete" =>
       \A k \in Rows :
          LET c == records[k]
              m == Meaning(c)
          IN  /\ SuffixIsTheReading(c, evidence[k])
              /\ StackOfTheReading(m, semantics[k], effects[k].descriptor)
              /\ RegistersOfTheReading(c, m, semantics[k], effects[k])
              /\ MemoryOfTheReading(c, memory[k])
              /\ effects[k].descriptor.complete
                    = (effects[k].descriptor.offsetsKnown /\ ~Doing(c, "syscall"))
              /\ c.region \in evidence[k].regions
              /\ \A r \in evidence[k].regions :
                    /\ object.regions[r].fileOffset <= c.byteStart
                    /\ c.byteStart + c.byteLen <= object.regions[r].fileOffset + object.regions[r].filesz
                    /\ c.fileOffset + object.regions[r].vaddr
                          = c.virtualAddress + object.regions[r].fileOffset
=============================================================================
