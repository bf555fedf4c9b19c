------------------------------- MODULE Reports -------------------------------
(***************************************************************************)
(* src/src/report_json.asm, report_text.asm and report_context.asm: what   *)
(* gadgets and analyze print once the analysis is complete.                *)
(*                                                                         *)
(* A report is its fields: a JSON report is a record, a text report the    *)
(* sequence of its blocks.  Commas, labels, indentation and the writing of *)
(* numbers in decimal or hexadecimal are left out, and so are the fields   *)
(* that are the same in every report; strings taken from the file are      *)
(* escaped byte by byte, as they are printed.                              *)
(***************************************************************************)
EXTENDS SectionLabels

VARIABLE report               \* what is on standard output

reportVars == <<allVars, labels, report>>

\* The fields of an object the scan and the section table are about; the file is
\* bytes, and the fields of a section header are words.  The commands
\* ask for GADGET_RECORD_MAX places, and no pass takes more of them.  The last
\* address of a region is a word: the loader contract refuses a segment whose
\* p_vaddr + p_memsz wraps.
ASSUME ReportAssumption ==
    /\ HeaderSize \in Word \ {0}
    /\ DefaultCapacity # 0
    /\ \A o \in Objects :
         /\ {"image", "fileSize", "regions", "depth", "capacity", "sections"} \subseteq DOMAIN o
         /\ \A i \in 0 .. o.fileSize - 1 : o.image[i] \in 0 .. 255
         /\ o.capacity <= DefaultCapacity
         /\ o.sections.count \in Word /\ o.sections.offset \in Word
         /\ \A i \in 0 .. o.sections.count - 1 :
               LET s == o.sections.table[i] IN {s.offset, s.size, s.address, s.name} \subseteq Word
         /\ \A i \in DOMAIN o.regions : o.regions[i].vaddr + o.regions[i].filesz <= WordMax + 1

\* null in JSON, and what the text report prints instead of a value.
Null     == <<>>
Known(x) == <<x>>

Listed(order, set) == SelectSeq(order, LAMBDA x : x \in set)

RegisterOrder == <<"rax", "rbx", "rcx", "rdx", "rsi", "rdi", "rbp", "rsp",
                   "r8", "r9", "r10", "r11", "r12", "r13", "r14", "r15">>
FlagOrder     == <<"cf", "pf", "af", "zf", "sf", "tf", "if", "df", "of">>
ControlOrder  == <<"return", "syscall">>
EffectOrder   == <<"stack read", "stack pivot", "syscall", "ret imm16", "register write",
                   "stack adjust", "flags write", "memory read", "memory write", "control transfer">>

\* ARCH_FLAG_ARITHMETIC_WRITE_MASK and ARCH_FLAG_SYSCALL_READ_MASK
FlagsIn(masks) ==
    UNION { IF mask = "arithmetic" THEN {"cf", "pf", "af", "zf", "sf", "of"} ELSE ToSet(FlagOrder) :
            mask \in masks }

WindowBytes(c) == [i \in 1 .. c.byteLen |-> object.image[c.byteStart + i - 1]]

TerminatorLabel(c) == IF c.terminator = RET THEN "ret" ELSE "ret imm16"

PatternLabel(p) == IF p.kind = "pop" THEN <<"pop", p.regs[1]>> ELSE <<p.kind>>

SemanticLabel(s) == IF s.class \in Classes THEN s.class ELSE "unknown candidate"

-----------------------------------------------------------------------------
(* Escapes, in character codes.                                            *)

Quote     == 34
Backslash == 92
HexDigit(n) == IF n < 10 THEN 48 + n ELSE 87 + n
Hex8(byte)  == <<HexDigit(byte \div 16), HexDigit(byte % 16)>>

\* json_print_escaped_byte
JsonByte(byte) ==
    CASE byte \in {Quote, Backslash} -> <<Backslash, byte>>
      [] byte = 10 -> <<Backslash, 110>>
      [] byte = 13 -> <<Backslash, 114>>
      [] byte = 9  -> <<Backslash, 116>>
      [] byte \notin 32 .. 126 /\ byte \notin {9, 10, 13} -> <<Backslash, 117, 48, 48>> \o Hex8(byte)
      [] OTHER     -> <<byte>>

\* report_text_print_section_name
TextByte(byte) ==
    CASE byte = Backslash      -> <<Backslash, Backslash>>
      [] byte \notin 32 .. 126 -> <<Backslash, 120>> \o Hex8(byte)
      [] OTHER                 -> <<byte>>

JsonString(bytes) == FlattenSeq([i \in DOMAIN bytes |-> JsonByte(bytes[i])])
TextString(bytes) == FlattenSeq([i \in DOMAIN bytes |-> TextByte(bytes[i])])

-----------------------------------------------------------------------------
(* The fields of one candidate both reports have.                          *)

PopOrder(p) == IF p.kind \in {"pop", "two pops"} THEN p.regs ELSE <<>>

RegisterTransfer(p) ==
    IF p.kind = "transfer" /\ Len(p.regs) = 2
    THEN Known([source |-> p.regs[2], destination |-> p.regs[1]])
    ELSE Null

MemoryAccess(a) ==
    IF a = NoAccess THEN Null
    ELSE Known([direction |-> a.direction, base |-> a.base, index |-> Null, scale |-> 1,
                displacement |-> 0, width |-> 8, value |-> a.value, dereference |-> TRUE])

ArchitecturalEffects(e) ==
    LET d == e.descriptor
        offset(n) == IF d.offsetsKnown THEN Known(n) ELSE Null
    IN  [registersRead    |-> Listed(RegisterOrder, e.read),
         registersWritten |-> Listed(RegisterOrder, e.written),
         flagsRead        |-> Listed(FlagOrder, FlagsIn(d.flagsRead)),
         flagsWritten     |-> Listed(FlagOrder, FlagsIn(d.flagsWritten)),
         controlFlow      |-> Listed(ControlOrder, d.control),
         stackBase        |-> d.base,
         stackReads       |-> d.stackReads,
         stackWrites      |-> 0,
         firstRead        |-> offset(d.first),
         readStride       |-> offset(d.stride),
         offsetsKnown     |-> d.offsetsKnown,
         complete         |-> d.complete]

-----------------------------------------------------------------------------
(* The JSON report.                                                        *)

DeltaKnown(p) == p.kind # "leave" /\ PatternLabel(p) # <<"pop", "rsp">>

JsonEvidence(e) ==
    [kind           |-> CASE "semantic" \in e.flags -> "semantic exact"
                          [] "semantic" \notin e.flags /\ "exact" \in e.flags -> "exact suffix"
                          [] OTHER -> "raw only",
     rawCandidate   |-> "raw" \in e.flags,
     exactSuffix    |-> "exact" \in e.flags,
     semanticSource |-> IF "semantic" \in e.flags THEN Known("exact") ELSE Null,
     validator      |-> IF "exact" \in e.flags THEN "exact suffix" ELSE "raw scanner",
     suffixOffset   |-> IF "exact" \in e.flags THEN Known(e.offset) ELSE Null,
     suffixLength   |-> IF "exact" \in e.flags THEN Known(e.length) ELSE Null,
     fullSequenceValid |-> Null]

JsonGadget(k) ==
    LET c == records[k]
        p == patterns[k]
        s == semantics[k]
    IN  [va            |-> c.virtualAddress,
         fileOffset    |-> c.fileOffset,
         section       |-> IF names[k] = NoLabel THEN Null ELSE Known(JsonString(names[k])),
         bytes         |-> WindowBytes(c),
         terminator    |-> TerminatorLabel(c),
         pattern       |-> PatternLabel(p),
         semanticClass |-> SemanticLabel(s),
         controls      |-> Listed(RegisterOrder, s.controlled),
         popOrder      |-> PopOrder(p),
         transfer      |-> RegisterTransfer(p),
         memory        |-> MemoryAccess(memory[k]),
         effects       |-> ArchitecturalEffects(effects[k]),
         clobbers      |-> Listed(RegisterOrder, s.clobbered),
         sideEffects   |-> Listed(EffectOrder, s.flags),
         stackDelta    |-> IF DeltaKnown(p) THEN Known(s.delta) ELSE Null,
         stackDeltaKnown |-> DeltaKnown(p),
         evidence      |-> JsonEvidence(evidence[k]),
         score         |-> IF scores[k] = 0 THEN Null ELSE Known(scores[k])]

JsonTarget ==
    [path |-> JsonString(object.path), fileSize |-> object.fileSize, entry |-> object.header.entry]

Relro(none, partial, full) ==
    IF ~object.header.relro THEN none ELSE IF object.header.bindNow THEN full ELSE partial

JsonMitigations ==
    LET h == object.header
        ofDynamic(fact) == IF h.dynamicSeen THEN Known(fact) ELSE Null
    IN  [nxStack   |-> IF h.stackSeen THEN Known(~h.stackExec) ELSE Null,
         pie       |-> h.pie,
         relro     |-> Relro("none", "partial", "full"),
         canary    |-> h.canary,
         stripped  |-> stripped,
         rwx       |-> h.rwx,
         dynamic   |-> h.dynamicSeen,
         bindNow   |-> ofDynamic(h.bindNow),
         entries   |-> h.entryCount,
         terminated |-> ofDynamic(h.nullSeen)]

\* analysis_summary.asm fills it, and nothing else than a complete analysis reaches it.
AnalysisFields ==
    [complete |-> TRUE, truncated |-> FALSE, dropped |-> Known(0),
     regionsScanned |-> Len(object.regions), regionsTotal |-> Len(object.regions)]

CountFields ==
    [raw |-> Len(records), ret |-> retCount, retImm |-> retImmCount, exact |-> counts.pattern,
     semantic |-> counts.semantic, unknown |-> counts.unknown, scored |-> counts.scored]

JsonCoverage ==
    [classes |-> [class \in Classes |-> counts.classes[class] # 0],
     registers |-> Listed(RegisterOrder, counts.controlled)]

JsonReport ==
    [command |-> object.command, analysis |-> AnalysisFields,
     maxDepth |-> object.depth, capacity |-> capacity,
     target |-> JsonTarget, mitigations |-> JsonMitigations, counts |-> CountFields,
     coverage |-> JsonCoverage, gadgets |-> [k \in Rows |-> JsonGadget(k)]]

-----------------------------------------------------------------------------
(* The text report: blocks, and one more block for each candidate.         *)

Block(name, fields) == [block |-> name, fields |-> fields]

YesNo(fact) == IF fact THEN "yes" ELSE "no"
EnabledDisabled(fact) == IF fact THEN "enabled" ELSE "disabled"

\* What a name is printed as, if there is one.
TextName(name) == IF name = NoLabel THEN Null ELSE Known(TextString(name))

\* The tool and the path, unless report_body_only_flag is set.
Header(bodyOnly) == IF bodyOnly THEN <<>> ELSE <<Block("header", object.path)>>

ElfType == IF object.header.type \in {"exec", "dyn", "rel", "none"} THEN object.header.type ELSE "unknown"

TextInfo(bodyOnly) ==
    Append(Header(bodyOnly),
       Block("format",
             [type |-> ElfType, entry |-> object.header.entry, phoff |-> object.header.phoff,
              phentsize |-> object.header.phentsize, phnum |-> object.header.phnum,
              shoff |-> Table.offset, shentsize |-> Table.entsize, shnum |-> Table.count,
              fileSize |-> object.fileSize]))

Permissions(flags) == [i \in 1 .. 3 |-> IF <<"r", "w", "x">>[i] \in flags THEN <<"r", "w", "x">>[i] ELSE "-"]

TextRegion(i) ==
    Block("region", [vaddr |-> object.regions[i].vaddr, fileOffset |-> object.regions[i].fileOffset,
                     filesz |-> object.regions[i].filesz, memsz |-> object.loads[i].memsz,
                     section |-> TextName(regionNames[i]),
                     permissions |-> Permissions(object.loads[i].flags)])

TextPosture ==
    LET h == object.header
        ofDynamic(fact) == IF h.dynamicSeen THEN YesNo(fact) ELSE "not applicable"
    IN  [pie        |-> EnabledDisabled(h.pie),
         nxStack    |-> IF h.stackSeen THEN EnabledDisabled(~h.stackExec) ELSE "unknown",
         relro      |-> Relro("not found", "partial", "full"),
         canary     |-> h.canary,
         stripped   |-> stripped,
         rwx        |-> YesNo(h.rwx),
         dynamic    |-> YesNo(h.dynamicSeen),
         bindNow    |-> ofDynamic(h.bindNow),
         entries    |-> h.entryCount,
         terminated |-> ofDynamic(h.nullSeen)]

TextMitigations(bodyOnly) ==
    Append(Header(bodyOnly), Block("mitigations", TextPosture))
    \o << Block("loads", [phnum |-> object.header.phnum, loads |-> object.header.loadCount,
                          executable |-> Len(object.regions)]) >>
    \o (IF Len(object.regions) = 0 THEN << Block("no regions", <<>>) >>
        ELSE [i \in DOMAIN object.regions |-> TextRegion(i)])

TextRow(k) ==
    LET c == records[k]
        p == patterns[k]
        s == semantics[k]
    IN  Block("candidate",
          [va          |-> c.virtualAddress,
           fileOffset  |-> c.fileOffset,
           section     |-> TextName(names[k]),
           window      |-> c.byteStart,
           length      |-> c.byteLen,
           terminator  |-> TerminatorLabel(c),
           pattern     |-> PatternLabel(p),
           semantic    |-> SemanticLabel(s),
           controls    |-> Listed(RegisterOrder, s.controlled),
           stackDelta  |-> s.delta,
           score       |-> scores[k],
           bytes       |-> WindowBytes(c),
           popOrder    |-> PopOrder(p),
           transfer    |-> RegisterTransfer(p),
           memory      |-> MemoryAccess(memory[k]),
           clobbers    |-> Listed(RegisterOrder, s.clobbered),
           sideEffects |-> Listed(EffectOrder, s.flags),
           effects     |-> ArchitecturalEffects(effects[k])])

TextIdentity == Block("analysis", [command |-> object.command, facts |-> AnalysisFields])

TextCounts ==
    Block("gadgets", [maxDepth |-> object.depth, capacity |-> capacity, counts |-> CountFields,
                      classes |-> counts.classes,
                      registers |-> Listed(RegisterOrder, counts.controlled)])

TextGadgets(bodyOnly) ==
    Header(bodyOnly) \o <<TextIdentity, TextCounts>>
    \o (IF Len(records) = 0 THEN << Block("no candidates", <<>>) >>
        ELSE [k \in Rows |-> TextRow(k)])

\* gadgets prints its candidates; analyze puts the bodies under one header.
TextReport ==
    IF object.command = "gadgets" THEN TextGadgets(FALSE)
    ELSE TextInfo(FALSE) \o TextMitigations(TRUE) \o TextGadgets(TRUE)

-----------------------------------------------------------------------------
Emit(format, document) ==
    /\ stage = "complete" /\ object.format = format
    /\ report' = document
    /\ stage' = "printed"
    /\ UNCHANGED <<vars, tables, labels>>

PrintJson == Emit("json", JsonReport)
PrintText == Emit("text", TextReport)

ReportInit == FactsInit /\ LabelsInit /\ report = <<>>

ReportStep == PrintJson \/ PrintText \/ (LabelStep /\ UNCHANGED report)

Ended ==
    /\ stage \in {"printed", EXIT_MALFORMED_ELF, EXIT_BOUNDS} \/ (pc = "done" /\ status # EXIT_OK)
    /\ UNCHANGED reportVars

\* One sequential program.
ReportSpec == ReportInit /\ [][ReportStep \/ Ended]_reportVars /\ WF_reportVars(ReportStep)

-----------------------------------------------------------------------------
(***************************************************************************)
(* The commands implement the abstract enumeration: a caller that waits    *)
(* for the return of the scan sees either every candidate of every region  *)
(* or a refusal, and always gets its answer.                               *)
(***************************************************************************)
Found == {records[k] : k \in 1 .. Len(records)}

\* What the caller asked for: a capacity of zero is the default one.
Asked == [object EXCEPT !.capacity = IF object.capacity = 0 THEN DefaultCapacity ELSE object.capacity]

\* What the caller has been told.
Outcome ==
    IF pc # "done" THEN [status |-> "pending", found |-> {}, count |-> 0]
    ELSE [status |-> status,
          found |-> IF status = EXIT_OK THEN Found ELSE {},
          count |-> IF status = EXIT_OK THEN Len(records) ELSE 0]

Enumeration == INSTANCE CandidateEnumeration WITH object <- Asked, outcome <- Outcome

EnumeratesEveryCandidate == Enumeration!Spec
=============================================================================
