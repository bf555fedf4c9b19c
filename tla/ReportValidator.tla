--------------------------- MODULE ReportValidator ---------------------------
(***************************************************************************)
(* src/tools/validate-json-report.py: what the validator accepts as a      *)
(* report of schema 0.2.0, with the checks of the current producer turned  *)
(* on.  It knows the report and nothing of the file; whatever it can it    *)
(* works out of a candidate's bytes.  The checks of types, of the names of *)
(* fields and of the constant fields are left out, with the older schema   *)
(* and the fixture modes.                                                  *)
(***************************************************************************)
EXTENDS Reports

Holding(order) == {order[i] : i \in DOMAIN order}
Distinct(order) == Cardinality(Holding(order)) = Len(order)

\* The last bytes, when the candidate has as many.
Ends(g, n) == SubSeq(g.bytes, Len(g.bytes) - n + 1, Len(g.bytes))
EndsWith(g, code) == Len(g.bytes) >= Len(code) /\ Ends(g, Len(code)) = code

SinglePop(g) == IF g.pattern[1] = "pop" THEN {g.pattern[2]} ELSE {}

-----------------------------------------------------------------------------
(* What the bytes say.                                                     *)

\* expected_suffix_length
ExpectedSuffixLength(g) ==
    LET kind == g.pattern[1] IN
    CASE kind = "two pops" -> 1 + FoldLeft(+, 0, [i \in DOMAIN g.popOrder |->
                                                    IF g.popOrder[i] \in {"r8", "r9"} THEN 2 ELSE 1])
      [] kind = "pop" -> IF g.pattern[2] \in Holding(SubSeq(Registers, 9, 16)) THEN 3 ELSE 2
      [] kind = "ret" -> 1
      [] kind = "leave" -> 2
      [] kind \in {"ret imm16", "syscall"} -> 3
      [] kind \in {"transfer", "store", "load"} -> 4
      [] kind = "adjust" -> 5

\* require_pop_suffix_bytes
PopBytesAgree(g) ==
    EndsWith(g, FlattenSeq([i \in DOMAIN g.popOrder |-> PopCode(g.popOrder[i])]) \o <<RET>>)

\* The fields of a REX.W mov: the register and the register or memory operand.
RexBit(rex, bit) == (rex \div bit) % 2
RegisterField(rex, operands) == Registers[1 + ((operands \div 8) % 8) + 8 * RexBit(rex, 4)]
MemoryField(rex, operands)   == Registers[1 + (operands % 8) + 8 * RexBit(rex, 1)]

MoveSuffix(g) == Len(g.bytes) >= 4 /\ LET b == Ends(g, 4)
                                      IN  b[1] \in \h48 .. \h4F /\ b[2] \in {\h89, \h8B} /\ b[4] = RET

\* decode_register_transfer_suffix: source and destination, if it is one.
DecodedTransfers(g) ==
    IF ~MoveSuffix(g) THEN {}
    ELSE LET b == Ends(g, 4)
             reg == RegisterField(b[1], b[3])
             rm  == MemoryField(b[1], b[3])
         IN  IF b[3] \div 64 # 3 \/ reg = rm \/ "rsp" \in {reg, rm} THEN {}
             ELSE {IF b[2] = \h89 THEN [source |-> reg, destination |-> rm]
                                  ELSE [source |-> rm, destination |-> reg]}

\* decode_stack_adjust_suffix: the immediate.
DecodedAdjustments(g) ==
    {n \in 1 .. 127 : n % 8 = 0 /\ EndsWith(g, <<\h48, \h83, \hC4, n, RET>>)}

\* decode_memory_suffix: direction, base and value register.
DecodedAccesses(g) ==
    IF ~MoveSuffix(g) THEN {}
    ELSE LET b == Ends(g, 4)
             base  == MemoryField(b[1], b[3])
             value == RegisterField(b[1], b[3])
         IN  IF \/ RexBit(b[1], 2) = 1 \/ b[3] \div 64 # 0 \/ b[3] % 8 \in {4, 5}
                \/ base \in {"rsp", "rbp", "r12", "r13"} \/ value = "rsp"
             THEN {}
             ELSE {[direction |-> IF b[2] = \h89 THEN "write" ELSE "read", base |-> base, value |-> value]}

-----------------------------------------------------------------------------
(* The whole report.                                                       *)

IdentityValid(doc, command) ==
    /\ doc.command = command
    /\ doc.target.path # <<>> /\ doc.target.fileSize >= 1

MitigationsValid(m) ==
    /\ m.relro \in {"none", "partial", "full"}
    /\ m.canary \in {"unknown", "absent", "present"}
    /\ m.stripped \in {"unknown", "stripped", "not stripped"}
    /\ ~m.dynamic => m.bindNow = Null /\ m.terminated = Null /\ m.entries = 0
    /\ m.relro = "full" => m.dynamic /\ m.bindNow = Known(TRUE)

CountsValid(n) ==
    /\ n.ret + n.retImm = n.raw
    /\ n.exact <= n.raw
    /\ n.semantic + n.unknown = n.raw
    /\ n.scored <= n.semantic

AnalysisValid(doc) ==
    LET a == doc.analysis
    IN  /\ doc.maxDepth \in 1 .. DepthLimit
        /\ doc.capacity >= 1 /\ doc.counts.raw <= doc.capacity
        /\ a.complete /\ ~a.truncated /\ a.dropped = Known(0)
        /\ a.regionsScanned = a.regionsTotal

\* What the gadgets must add up to.
SummaryValid(doc) ==
    LET controlled(g) == Holding(g.controls)
        Shown(P(_)) == Cardinality({k \in DOMAIN doc.gadgets : P(doc.gadgets[k])})
    IN  /\ Len(doc.gadgets) = doc.counts.raw
        /\ doc.counts.exact = Len(doc.gadgets)
        /\ doc.counts.semantic = Shown(LAMBDA g : g.semanticClass # "unknown candidate")
        /\ doc.counts.unknown = Shown(LAMBDA g : g.semanticClass = "unknown candidate")
        /\ doc.counts.scored = Shown(LAMBDA g : g.score # Null)
        /\ Distinct(doc.coverage.registers)
        /\ Holding(doc.coverage.registers)
              = UNION {controlled(doc.gadgets[k]) : k \in DOMAIN doc.gadgets}
        /\ \A class \in Classes :
              doc.coverage.classes[class]
                 = (\E k \in DOMAIN doc.gadgets : doc.gadgets[k].semanticClass = class)

-----------------------------------------------------------------------------
(* One candidate.                                                          *)

ShapeValid(g) ==
    /\ g.terminator = IF g.pattern = <<"ret imm16">> THEN "ret imm16" ELSE "ret"
    /\ Len(g.popOrder) <= 8
    /\ Distinct(g.controls) /\ Distinct(g.clobbers) /\ Distinct(g.sideEffects)
    /\ g.stackDeltaKnown <=> g.stackDelta # Null
    /\ g.score # Null => g.semanticClass # "unknown candidate" /\ g.score[1] \in 0 .. 100

PopOrderValid(g) ==
    CASE g.pattern[1] = "pop" -> g.popOrder = <<g.pattern[2]>> /\ PopBytesAgree(g)
      [] g.pattern[1] = "two pops" -> /\ Len(g.popOrder) = 2 /\ Distinct(g.popOrder)
                                      /\ Holding(g.popOrder) \subseteq ArgumentRegisters
                                      /\ PopBytesAgree(g)
      [] OTHER -> g.popOrder = <<>>

EvidenceValid(g) ==
    LET e == g.evidence
    IN  /\ e.rawCandidate /\ e.exactSuffix
        /\ e.suffixLength = Known(ExpectedSuffixLength(g))
        /\ e.suffixOffset[1] + e.suffixLength[1] = Len(g.bytes)
        /\ g.semanticClass = "unknown candidate" <=> e.semanticSource = Null
        /\ e.kind = IF e.semanticSource = Null THEN "exact suffix" ELSE "semantic exact"
        /\ e.semanticSource \in {Null, Known("exact")}
        /\ e.validator = "exact suffix" /\ e.fullSequenceValid = Null

\* class, controls, change of the stack pointer and score of a pattern
Says(g, class, controls, delta, score) ==
    /\ g.semanticClass = class /\ g.controls = controls
    /\ g.stackDelta = delta /\ g.score = score

SinglePopValid(g) ==
    \A r \in SinglePop(g) :
       CASE r \in ArgumentRegisters -> Says(g, "arg control", <<r>>, Known(16), Known(90))
         [] r = "rax" -> Says(g, "syscall number", <<r>>, Known(16), Known(85))
         [] r = "rsp" -> Says(g, "stack pivot", <<r>>, Null, Known(70))
         [] OTHER     -> Says(g, "unknown candidate", <<>>, Known(16), Null)

ReturnsValid(g) ==
    /\ g.pattern = <<"ret">> =>
          /\ EndsWith(g, <<RET>>) /\ Says(g, "alignment", <<>>, Known(8), Known(45))
          /\ g.clobbers = <<>>
    /\ g.pattern = <<"ret imm16">> =>
          /\ Len(g.bytes) >= 3 /\ Ends(g, 3)[1] = RET_IMM16
          /\ Says(g, "alignment", <<>>, Known(8 + Ends(g, 3)[2] + 256 * Ends(g, 3)[3]), Known(40))
          /\ g.clobbers = <<>>

AdjustmentValid(g) ==
    g.pattern = <<"adjust">> =>
       /\ \E n \in DecodedAdjustments(g) : Says(g, "alignment", <<>>, Known(8 + n), Known(35))
       /\ g.clobbers = <<>>

MemoryValid(g) ==
    IF g.pattern[1] \notin {"store", "load"} THEN g.memory = Null
    ELSE \E a \in DecodedAccesses(g) :
           /\ a.direction = IF g.pattern[1] = "store" THEN "write" ELSE "read"
           /\ g.memory = Known([direction |-> a.direction, base |-> a.base, index |-> Null, scale |-> 1,
                                displacement |-> 0, width |-> 8, value |-> a.value, dereference |-> TRUE])
           /\ Says(g, IF a.direction = "write" THEN "memory write" ELSE "memory read", <<>>, Known(8), Null)
           /\ g.clobbers = IF a.direction = "read" THEN <<a.value>> ELSE <<>>

TransferValid(g) ==
    IF g.pattern # <<"transfer">> THEN g.transfer = Null
    ELSE \E t \in DecodedTransfers(g) : /\ g.transfer = Known(t)
                                        /\ Says(g, "transfer", <<>>, Known(8), Null)

ClobbersValid(g) ==
    g.clobbers = CASE g.pattern = <<"transfer">> -> <<g.transfer[1].destination>>
                   [] g.pattern = <<"load">>     -> <<g.memory[1].value>>
                   [] g.semanticClass = "syscall trigger" -> <<"rcx", "r11">>
                   [] g.pattern = <<"leave">>    -> <<"rbp">>
                   [] OTHER -> <<>>

TwoPopsValid(g) ==
    g.pattern = <<"two pops">> =>
       /\ g.semanticClass = "arg control" /\ Holding(g.controls) = Holding(g.popOrder)
       /\ g.stackDelta = Known(24) /\ g.score = Known(95)

SideEffectsValid(g) ==
    Holding(g.sideEffects) = {"stack read", "control transfer"} \cup UNION {
       IF g.pattern[1] \in {"pop", "two pops"} THEN {"register write"} ELSE {},
       IF g.semanticClass = "stack pivot" THEN {"stack pivot", "register write"} ELSE {},
       IF g.semanticClass = "syscall trigger" THEN {"syscall", "register write"} ELSE {},
       IF g.terminator = "ret imm16" THEN {"ret imm16", "stack adjust"} ELSE {},
       IF g.semanticClass = "transfer" THEN {"register write"} ELSE {},
       IF g.pattern = <<"adjust">> THEN {"stack adjust", "flags write"} ELSE {},
       IF g.pattern = <<"store">> THEN {"memory write"} ELSE {},
       IF g.pattern = <<"load">> THEN {"memory read", "register write"} ELSE {} }

\* expected_architectural_effects
ExpectedEffects(g) ==
    LET plain == [read |-> {"rsp"}, written |-> {"rsp"}, flagsRead |-> {}, flagsWritten |-> {},
                  control |-> <<"return">>, base |-> "rsp", reads |-> 1, first |-> Known(0),
                  stride |-> Known(0), complete |-> TRUE]
        kind == g.pattern[1]
    IN  CASE g.pattern = <<"pop", "rsp">> -> [plain EXCEPT !.base = "dynamic", !.reads = 2, !.first = Null,
                                                           !.stride = Null, !.complete = FALSE]
          [] kind = "pop" /\ g.pattern # <<"pop", "rsp">> ->
                [plain EXCEPT !.written = @ \cup SinglePop(g), !.reads = 2, !.stride = Known(8)]
          [] kind = "two pops" ->
                [plain EXCEPT !.written = @ \cup Holding(g.popOrder), !.reads = 3, !.stride = Known(8)]
          [] kind = "leave" -> [plain EXCEPT !.read = {"rbp"}, !.written = {"rbp", "rsp"}, !.base = "rbp",
                                             !.reads = 2, !.stride = Known(8)]
          [] kind = "syscall" -> [plain EXCEPT !.read = SyscallReads, !.written = {"rax", "rcx", "r11", "rsp"},
                                               !.flagsRead = ToSet(FlagOrder), !.complete = FALSE,
                                               !.control = <<"return", "syscall">>]
          [] kind = "transfer" -> [plain EXCEPT !.read = @ \cup {g.transfer[1].source},
                                                !.written = @ \cup {g.transfer[1].destination}]
          [] kind = "adjust" -> [plain EXCEPT !.flagsWritten = {"cf", "pf", "af", "zf", "sf", "of"},
                                              !.first = Known(CHOOSE n \in DecodedAdjustments(g) : TRUE)]
          [] kind = "store" -> [plain EXCEPT !.read = @ \cup {g.memory[1].base, g.memory[1].value}]
          [] kind = "load"  -> [plain EXCEPT !.read = @ \cup {g.memory[1].base},
                                             !.written = @ \cup {g.memory[1].value}]
          [] OTHER -> plain

EffectsValid(g) ==
    LET x == ExpectedEffects(g)
    IN  g.effects = [registersRead |-> Listed(RegisterOrder, x.read),
                     registersWritten |-> Listed(RegisterOrder, x.written),
                     flagsRead |-> Listed(FlagOrder, x.flagsRead),
                     flagsWritten |-> Listed(FlagOrder, x.flagsWritten),
                     controlFlow |-> x.control, stackBase |-> x.base, stackReads |-> x.reads,
                     stackWrites |-> 0, firstRead |-> x.first, readStride |-> x.stride,
                     offsetsKnown |-> x.first # Null, complete |-> x.complete]

GadgetValid(g) ==
    /\ ShapeValid(g) /\ PopOrderValid(g) /\ EvidenceValid(g) /\ SinglePopValid(g)
    /\ ReturnsValid(g) /\ AdjustmentValid(g) /\ MemoryValid(g) /\ TransferValid(g)
    /\ ClobbersValid(g) /\ TwoPopsValid(g) /\ SideEffectsValid(g) /\ EffectsValid(g)

\* validate_common
Accepts(doc, command) ==
    /\ IdentityValid(doc, command) /\ MitigationsValid(doc.mitigations)
    /\ CountsValid(doc.counts) /\ AnalysisValid(doc)
    /\ \A k \in DOMAIN doc.gadgets : GadgetValid(doc.gadgets[k])
    /\ SummaryValid(doc)

-----------------------------------------------------------------------------
(* The reference: what a reader of the report must learn.  Of the file it  *)
(* takes the bytes, the headers and, in numbers, which section holds an    *)
(* offset and an address; of a candidate, what its instructions do.        *)

\* A string as a reader takes it: up to an end mark, with the escapes undone.
HexValue(digit) == IF digit < 58 THEN digit - 48 ELSE digit - 87
HexNumber(digits) == FoldLeft(LAMBDA n, digit : 16 * n + HexValue(digit), 0, digits)

RECURSIVE Unescaped(_, _)
Unescaped(text, ends) ==
    LET past(n) == Unescaped(SubSeq(text, n + 1, Len(text)), ends)
    IN  IF text = <<>> \/ text[1] \in ends THEN <<>>
        ELSE IF text[1] # Backslash THEN <<text[1]>> \o past(1)
        ELSE CASE text[2] = 110 -> <<10>> \o past(2)
               [] text[2] = 114 -> <<13>> \o past(2)
               [] text[2] = 116 -> <<9>> \o past(2)
               [] text[2] = 117 -> <<HexNumber(SubSeq(text, 3, 6))>> \o past(6)
               [] text[2] = 120 -> <<HexNumber(SubSeq(text, 3, 4))>> \o past(4)
               [] OTHER         -> <<text[2]>> \o past(2)

TrueRow(k) ==
    LET c == records[k]
        m == Meaning(c)
        body == Body[Reading(c)]
        pops == SelectSeq(body, LAMBDA i : i.op = "pop")
        only(ops, x) == IF \E op \in ops : Doing(c, op) THEN Known(x) ELSE Null
    IN  [at      |-> <<c.virtualAddress, c.fileOffset>>,
         bytes   |-> [i \in 1 .. c.byteLen |-> object.image[c.byteStart + i - 1]],
         section |-> TrueLabel(c.fileOffset, c.virtualAddress),
         pops    |-> [i \in DOMAIN pops |-> pops[i].regs[1]],
         moved   |-> only({"move"}, body[1].regs),
         memory  |-> only({"read", "write"}, <<body[1].op>> \o body[1].regs),
         read    |-> m.read,
         written |-> m.written,
         delta   |-> IF m.base = "rsp" THEN Known(m.offset) ELSE Null]

\* What a row tells, but for the two fields the reports write differently.
ToldRow(f, section, delta) ==
    [at      |-> <<f.va, f.fileOffset>>,
     bytes   |-> f.bytes,
     section |-> section,
     pops    |-> f.popOrder,
     moved   |-> IF f.transfer = Null THEN Null
                 ELSE Known(<<f.transfer[1].destination, f.transfer[1].source>>),
     memory  |-> IF f.memory = Null THEN Null
                 ELSE Known(<<f.memory[1].direction, f.memory[1].base, f.memory[1].value>>),
     read    |-> ToSet(f.effects.registersRead),
     written |-> ToSet(f.effects.registersWritten),
     delta   |-> delta]

SectionTold(field, ends) == IF field = Null THEN NoLabel ELSE Unescaped(field[1], ends)

TruePosture ==
    LET h == object.header
        known(condition, fact) == IF condition THEN Known(fact) ELSE Null
    IN  [pie |-> Known(h.pie), nxStack |-> known(h.stackSeen, ~h.stackExec), rwx |-> Known(h.rwx),
         dynamic |-> Known(h.dynamicSeen), bindNow |-> known(h.dynamicSeen, h.bindNow),
         terminated |-> known(h.dynamicSeen, h.nullSeen),
         readOnly |-> <<h.relro, h.relro /\ h.bindNow>>,
         symbols |-> known(Table.count # 0, \E i \in Entries : Table.table[i].type = "symtab")]

\* A posture as it is told, given how the report says yes, no and neither.
ToldPosture(m, Said(_)) ==
    [pie |-> Said(m.pie), nxStack |-> Said(m.nxStack), rwx |-> Said(m.rwx), dynamic |-> Said(m.dynamic),
     bindNow |-> Said(m.bindNow), terminated |-> Said(m.terminated),
     readOnly |-> <<m.relro \in {"partial", "full"}, m.relro = "full">>,
     symbols |-> CASE m.stripped = "stripped" -> Known(FALSE)
                   [] m.stripped = "not stripped" -> Known(TRUE)
                   [] OTHER -> Null]

JsonIsTrue ==
    LET m == [report.mitigations EXCEPT !.pie = Known(@), !.rwx = Known(@), !.dynamic = Known(@)]
    IN  /\ Accepts(report, object.command)
        /\ Unescaped(report.target.path, {Quote}) = object.path
        /\ ToldPosture(m, LAMBDA told : told) = TruePosture
        /\ Len(report.gadgets) = Len(records)
        /\ \A k \in Rows :
              LET g == report.gadgets[k]
              IN  ToldRow(g, SectionTold(g.section, {Quote}), g.stackDelta) = TrueRow(k)

TextIsTrue ==
    LET of(name) == SelectSeq(report, LAMBDA b : b.block = name)
        said(state) == CASE state \in {"yes", "enabled"} -> Known(TRUE)
                         [] state \in {"no", "disabled"} -> Known(FALSE)
                         [] OTHER -> Null
    IN  /\ of("header") = <<report[1]>> /\ report[1].fields = object.path
        /\ Len(of("analysis")) = 1 /\ Len(of("gadgets")) = 1
        /\ Len(of("mitigations")) = IF object.command = "analyze" THEN 1 ELSE 0
        /\ \A i \in DOMAIN of("mitigations") :
              ToldPosture(of("mitigations")[i].fields, said) = TruePosture
        /\ \A i \in DOMAIN of("region") :
              SectionTold(of("region")[i].fields.section, {})
                 = TrueLabel(object.regions[i].fileOffset, object.regions[i].vaddr)
        /\ Len(of("candidate")) = Len(records)
        /\ \A k \in Rows :
              LET f == of("candidate")[k].fields
              IN  ToldRow(f, SectionTold(f.section, {}),
                          IF f.stackDelta = 0 THEN Null ELSE Known(f.stackDelta)) = TrueRow(k)

(***************************************************************************)
(* A report is printed whole and tells the truth, whichever command and    *)
(* format asked for it: read back, its rows are what the instructions of   *)
(* the candidates do and where they are, a name is that of the one section *)
(* that holds the candidate, and the posture is that of the headers; and   *)
(* the repository's validator accepts every JSON report.                   *)
(***************************************************************************)
ReportIsTrue ==
    stage = "printed" => IF object.format = "json" THEN JsonIsTrue ELSE TextIsTrue
=============================================================================
