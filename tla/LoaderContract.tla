--------------------------- MODULE LoaderContract ---------------------------
(***************************************************************************)
(* src/src/phdr.asm and regions.asm: the loader contract, which            *)
(* elf64_validate and phdr_analyze both apply to the program-header table, *)
(* and the loop of phdr_analyze that counts segments and stores the        *)
(* executable ones for the scanner.  One action is one program header.     *)
(*                                                                         *)
(* The parsers of the dynamic table, the interpreter's path and the notes  *)
(* are not here: each takes its bytes or returns a status, whichever.  A   *)
(* refused analysis leaves a summary nobody reads, so it is left as it     *)
(* was.                                                                    *)
(***************************************************************************)
EXTENDS CheckedRanges, Sequences, FiniteSets

CONSTANTS Objects,        \* the ELF files: header fields and program headers
          PhdrSize,       \* ELF64_PHDR_SIZE
          RegionMax,      \* EXEC_REGION_MAX
          InterpMax       \* INTERP_PATH_SCAN_MAX

Metadata == {"DYNAMIC", "INTERP", "NOTE", "GNU_PROPERTY"}

Phdr == [type : {"LOAD", "GNU_STACK", "GNU_RELRO", "NULL"} \cup Metadata,
         flags : SUBSET {"W", "X"},
         align : Word, offset : Word, vaddr : Word, filesz : Word, memsz : Word]

ElfFile == [fileSize : Word, entry : Word, phoff : Word, phentsize : Word, phdrs : Seq(Phdr)]

ASSUME LoaderAssumption ==
    /\ PhdrSize \in Word \ {0}
    /\ RegionMax \in Nat
    /\ InterpMax \in Word
    /\ \A o \in Objects : o \in ElfFile /\ Len(o.phdrs) \in Word

VARIABLES object,
          caller,         \* who applies the contract: elf64_validate, then phdr_analyze
          pc,
          index,          \* RBX
          entryInLoad,    \* the executable-entrypoint match flag
          summary,        \* phdr_summary
          regions,        \* executable_region[0 .. EXEC_COUNT-1]
          status

vars == <<object, caller, pc, index, entryInLoad, summary, regions, status>>

EXIT_OK == 0
EXIT_MALFORMED_ELF == 5
EXIT_UNSUPPORTED == 6
EXIT_BOUNDS == 7

ParserRefusals == {EXIT_MALFORMED_ELF, EXIT_UNSUPPORTED, EXIT_BOUNDS}

-----------------------------------------------------------------------------
PhdrCount == Len(object.phdrs)
Headers == {object.phdrs[i] : i \in 1 .. PhdrCount}
Header == object.phdrs[index + 1]
HeaderReadable == EntryOffsetValid(object.fileSize, object.phoff, PhdrSize, PhdrCount, index)

\* "test (a - 1), a"
PowerOfTwo(a) == \A d \in 2 .. a : a % d = 0 => d % 2 = 0

TableAccepted ==
    IF PhdrCount = 0
    THEN object.phoff = 0 /\ object.entry = 0
    ELSE /\ object.phentsize = PhdrSize
         /\ object.phoff # 0
         /\ TableExtentValid(object.fileSize, object.phoff, PhdrSize, PhdrCount)

LoadInFile(h) ==
    /\ h.filesz <= h.memsz
    /\ RangeEndValid(object.fileSize, h.offset, h.filesz)

\* A power-of-two mask on "p_offset xor p_vaddr" compares the remainders.
LoadCongruent(h) == h.align > 1 => h.offset % h.align = h.vaddr % h.align

HeaderAccepted(h) ==
    /\ h.align > 1 => PowerOfTwo(h.align)
    /\ h.type = "LOAD" =>
          /\ LoadInFile(h)
          /\ ~Carries(h.vaddr, h.memsz)
          /\ LoadCongruent(h)

HoldsEntry(h) ==
    /\ h.type = "LOAD" /\ "X" \in h.flags
    /\ object.entry # 0
    /\ object.entry >= h.vaddr
    /\ object.entry < WordSum(h.vaddr, h.memsz)

EmptySummary ==
    [loads |-> 0, rwx |-> 0, stackSeen |-> FALSE, stackExec |-> FALSE, relro |-> FALSE,
     dynamicSeen |-> FALSE, interps |-> 0]

Refuse(rax) ==
    /\ pc' = "done" /\ status' = rax
    /\ UNCHANGED <<object, caller, index, entryInLoad, summary, regions>>

-----------------------------------------------------------------------------
(***************************************************************************)
(* x64lens_phdr_validate_loader_contract, for either caller.               *)
(***************************************************************************)
TableRefused == pc = "contract" /\ ~TableAccepted /\ Refuse(EXIT_MALFORMED_ELF)

BeginContract ==
    /\ pc = "contract"
    /\ TableAccepted
    /\ entryInLoad' = FALSE
    /\ index' = 0
    /\ pc' = IF PhdrCount = 0 THEN "accepted" ELSE "contract_header"
    /\ UNCHANGED <<object, caller, summary, regions, status>>

ContractHeader ==
    /\ pc = "contract_header"
    /\ index < PhdrCount
    /\ HeaderReadable /\ HeaderAccepted(Header)
    /\ entryInLoad' = (entryInLoad \/ HoldsEntry(Header))
    /\ index' = index + 1
    /\ UNCHANGED <<object, caller, pc, summary, regions, status>>

HeaderRefused ==
    /\ pc = "contract_header"
    /\ index < PhdrCount
    /\ ~(HeaderReadable /\ HeaderAccepted(Header))
    /\ Refuse(EXIT_MALFORMED_ELF)

EntryAccepted ==
    /\ pc = "contract_header"
    /\ index >= PhdrCount
    /\ object.entry = 0 \/ entryInLoad
    /\ pc' = "accepted"
    /\ UNCHANGED <<object, caller, index, entryInLoad, summary, regions, status>>

EntryRefused ==
    /\ pc = "contract_header"
    /\ index >= PhdrCount
    /\ ~(object.entry = 0 \/ entryInLoad)
    /\ Refuse(EXIT_MALFORMED_ELF)

\* elf64_validate goes on to the section table, and the command to phdr_analyze.
BeginAnalysis ==
    /\ pc = "accepted" /\ caller = "elf64_validate"
    /\ caller' = "phdr_analyze"
    /\ summary' = EmptySummary
    /\ regions' = <<>>
    /\ pc' = "contract"
    /\ UNCHANGED <<object, index, entryInLoad, status>>

BeginHeaders ==
    /\ pc = "accepted" /\ caller = "phdr_analyze"
    /\ index' = 0
    /\ pc' = "header"
    /\ UNCHANGED <<object, caller, entryInLoad, summary, regions, status>>

-----------------------------------------------------------------------------
(***************************************************************************)
(* The loop of x64lens_phdr_analyze, which checks again whatever it uses.  *)
(***************************************************************************)
AtHeader == pc = "header" /\ index < PhdrCount

\* The contract does not look at an interpreter or a dynamic table.
MalformedHeader ==
    \/ ~HeaderReadable
    \/ Header.type \in {"LOAD", "DYNAMIC"} /\ ~LoadInFile(Header)
    \/ Header.type = "DYNAMIC" /\ summary.dynamicSeen
    \/ /\ Header.type = "INTERP"
       /\ \/ Header.filesz = 0 \/ Header.filesz > Header.memsz
          \/ /\ Header.filesz <= InterpMax
             /\ ~RangeEndValid(object.fileSize, Header.offset, Header.filesz)

UnsupportedHeader ==
    \/ Header.type = "LOAD" /\ "X" \in Header.flags /\ Len(regions) >= RegionMax
    \/ Header.type = "INTERP" /\ Header.filesz > InterpMax

HeaderMalformed == AtHeader /\ MalformedHeader /\ Refuse(EXIT_MALFORMED_ELF)

HeaderUnsupported ==
    AtHeader /\ ~MalformedHeader /\ UnsupportedHeader /\ Refuse(EXIT_UNSUPPORTED)

TakesHeader(types) ==
    AtHeader /\ ~MalformedHeader /\ ~UnsupportedHeader /\ Header.type \in types

\* "inc rbx"
NextHeader(facts) ==
    /\ summary' = facts
    /\ index' = index + 1
    /\ UNCHANGED <<object, caller, pc, entryInLoad, status>>

LoadCounted ==
    [summary EXCEPT !.loads = @ + 1,
                    !.rwx = IF {"W", "X"} \subseteq Header.flags THEN @ + 1 ELSE @]

DataLoad ==
    /\ TakesHeader({"LOAD"})
    /\ "X" \notin Header.flags
    /\ NextHeader(LoadCounted)
    /\ UNCHANGED regions

RegionFrom(h, i) ==
    [fileOffset |-> h.offset, vaddr |-> h.vaddr, filesz |-> h.filesz, memsz |-> h.memsz,
     flags |-> h.flags, phdrIndex |-> i]

ExecutableLoad ==
    /\ TakesHeader({"LOAD"})
    /\ "X" \in Header.flags
    /\ regions' = Append(regions, RegionFrom(Header, index))
    /\ NextHeader(LoadCounted)

\* Defect: the last of several stack headers wins.
StackHeaderLastWins ==
    /\ TakesHeader({"GNU_STACK"})
    /\ NextHeader([summary EXCEPT !.stackSeen = TRUE, !.stackExec = "X" \in Header.flags])
    /\ UNCHANGED regions

StackHeader ==
    /\ TakesHeader({"GNU_STACK"})
    /\ NextHeader([summary EXCEPT !.stackSeen = TRUE, !.stackExec = @ \/ "X" \in Header.flags])
    /\ UNCHANGED regions

RelroHeader ==
    /\ TakesHeader({"GNU_RELRO"})
    /\ NextHeader([summary EXCEPT !.relro = TRUE])
    /\ UNCHANGED regions

InterpHeader ==
    /\ TakesHeader({"INTERP"})
    /\ NextHeader([summary EXCEPT !.interps = @ + 1])
    /\ UNCHANGED regions

\* One PT_DYNAMIC at most, so that it is clear whose entries the facts are.
DynamicHeader ==
    /\ TakesHeader({"DYNAMIC"})
    /\ NextHeader([summary EXCEPT !.dynamicSeen = TRUE])
    /\ UNCHANGED regions

\* x64lens_gnu_property_register_carrier, or a type nothing is done for
OtherHeader ==
    /\ TakesHeader({"NOTE", "GNU_PROPERTY", "NULL"})
    /\ NextHeader(summary)
    /\ UNCHANGED regions

ContentRefused ==
    /\ TakesHeader(Metadata)
    /\ \E rax \in ParserRefusals : Refuse(rax)

HeadersDone ==
    /\ pc = "header"
    /\ index >= PhdrCount
    /\ pc' = "done" /\ status' = EXIT_OK
    /\ UNCHANGED <<object, caller, index, entryInLoad, summary, regions>>

\* .finalize_dynamic_metadata and .finalize_gnu_property
MetadataRefused ==
    /\ pc = "header"
    /\ index >= PhdrCount
    /\ \E h \in Headers : h.type \in {"DYNAMIC", "NOTE", "GNU_PROPERTY"}
    /\ \E rax \in ParserRefusals : Refuse(rax)

Done == pc = "done" /\ UNCHANGED vars

Init ==
    /\ object \in Objects
    /\ caller = "elf64_validate"
    /\ pc = "contract" /\ index = 0 /\ entryInLoad = FALSE
    /\ summary = EmptySummary
    /\ regions = <<>>
    /\ status = EXIT_OK

ContractStep ==
    \/ TableRefused \/ BeginContract \/ ContractHeader \/ HeaderRefused
    \/ EntryAccepted \/ EntryRefused \/ BeginAnalysis \/ BeginHeaders

HeaderStep ==
    \/ HeaderMalformed \/ HeaderUnsupported \/ DataLoad \/ ExecutableLoad
    \/ StackHeader \/ RelroHeader \/ InterpHeader \/ DynamicHeader \/ OtherHeader
    \/ ContentRefused \/ HeadersDone \/ MetadataRefused

Next == ContractStep \/ HeaderStep \/ Done

Spec == Init /\ [][Next]_vars

-----------------------------------------------------------------------------
(***************************************************************************)
(* The contract in numbers, for a whole table at once: every header is     *)
(* aligned, every load is in the file and does not wrap, and the           *)
(* entrypoint, when there is one, is inside an executable load.            *)
(***************************************************************************)
LoadFits(h) ==
    /\ h.filesz <= h.memsz
    /\ h.offset + h.filesz <= object.fileSize
    /\ h.vaddr + h.memsz <= WordMax
    /\ h.align > 1 => h.offset % h.align = h.vaddr % h.align

EntryIn(h) ==
    /\ h.type = "LOAD" /\ "X" \in h.flags
    /\ h.vaddr <= object.entry /\ object.entry < h.vaddr + h.memsz

Loadable ==
    /\ PhdrCount = 0 => object.phoff = 0
    /\ PhdrCount > 0 => /\ object.phentsize = PhdrSize
                        /\ object.phoff > 0
                        /\ object.phoff + PhdrSize * PhdrCount <= object.fileSize
    /\ \A h \in Headers : /\ h.align > 1 => PowerOfTwo(h.align)
                          /\ h.type = "LOAD" => LoadFits(h)
    /\ object.entry = 0 \/ \E h \in Headers : EntryIn(h)

(***************************************************************************)
(* elf64_validate refuses exactly the files that are not loadable, so a    *)
(* file reaches phdr_analyze if and only if it is: no wrapped sum or       *)
(* product lets a header through, and the loop with its match flag decides *)
(* what the contract says of the table as a whole.                         *)
(***************************************************************************)
ContractExact ==
    /\ caller = "phdr_analyze" => Loadable
    /\ caller = "elf64_validate" /\ pc = "done" => ~Loadable /\ status = EXIT_MALFORMED_ELF

(***************************************************************************)
(* The checks repeated at the point of use agree with the contract: a file *)
(* whose headers are loads, stack and relro markers is never refused once  *)
(* elf64_validate accepted it, unless it has more executable loads than    *)
(* there are records for.                                                  *)
(***************************************************************************)
ExecutableLoads ==
    {i \in 1 .. PhdrCount : object.phdrs[i].type = "LOAD" /\ "X" \in object.phdrs[i].flags}

AcceptedOnceAcceptedTwice ==
    /\ caller = "phdr_analyze" /\ pc = "done"
    /\ \A h \in Headers : h.type \notin Metadata
    => status = IF Cardinality(ExecutableLoads) > RegionMax THEN EXIT_UNSUPPORTED ELSE EXIT_OK

(***************************************************************************)
(* What the scanner is handed: the executable loads of the file, each of   *)
(* them, in header order with its own header index, all inside the file,   *)
(* and with the entrypoint in the memory of one of them.                   *)
(***************************************************************************)
RegionsAreExecutableLoads ==
    caller = "phdr_analyze" /\ pc \in {"header", "done"} =>
       /\ \A k \in 1 .. Len(regions) :
             /\ regions[k].phdrIndex + 1 \in ExecutableLoads
             /\ regions[k] = RegionFrom(object.phdrs[regions[k].phdrIndex + 1],
                                        regions[k].phdrIndex)
             /\ regions[k].fileOffset + regions[k].filesz <= object.fileSize
       /\ \A j, k \in 1 .. Len(regions) : j < k => regions[j].phdrIndex < regions[k].phdrIndex
       /\ pc = "done" /\ status = EXIT_OK =>
             /\ Len(regions) = Cardinality(ExecutableLoads)
             /\ object.entry # 0 =>
                   \E k \in 1 .. Len(regions) :
                      object.entry \in regions[k].vaddr .. regions[k].vaddr + regions[k].memsz - 1

(***************************************************************************)
(* The mitigation facts do not depend on the order of the headers: when    *)
(* the analysis succeeds each is what the set of the headers says.         *)
(***************************************************************************)
Indices(P(_)) == {i \in 1 .. PhdrCount : P(object.phdrs[i])}

FactsOfTheHeaders ==
    caller = "phdr_analyze" /\ pc = "done" /\ status = EXIT_OK =>
       /\ summary.loads = Cardinality(Indices(LAMBDA h : h.type = "LOAD"))
       /\ summary.rwx = Cardinality(Indices(LAMBDA h : h.type = "LOAD" /\ h.flags = {"W", "X"}))
       /\ summary.interps = Cardinality(Indices(LAMBDA h : h.type = "INTERP"))
       /\ summary.dynamicSeen <=> Indices(LAMBDA h : h.type = "DYNAMIC") # {}
       /\ summary.relro <=> Indices(LAMBDA h : h.type = "GNU_RELRO") # {}
       /\ summary.stackSeen <=> Indices(LAMBDA h : h.type = "GNU_STACK") # {}
       /\ summary.stackExec <=>
             Indices(LAMBDA h : h.type = "GNU_STACK" /\ "X" \in h.flags) # {}

(***************************************************************************)
(* All three: phdr_analyze accepts what elf64_validate accepted, and ends  *)
(* in the regions and the facts of the table, in whatever order its        *)
(* headers come.                                                           *)
(***************************************************************************)
AnalysisOfTheHeaders ==
    AcceptedOnceAcceptedTwice /\ RegionsAreExecutableLoads /\ FactsOfTheHeaders
=============================================================================
