---------------------------- MODULE SectionLabels ----------------------------
(***************************************************************************)
(* src/src/shdr.asm: what the section headers add to a report.  Before the *)
(* scan they say whether the file is stripped and, for analyze, name the   *)
(* executable regions; after the scoring they name the candidates.  A name *)
(* is an annotation: a table that cannot be read refuses the object, but a *)
(* name that cannot be trusted is only left out.                           *)
(*                                                                         *)
(* object.sections is what the ELF header says of the table and, as        *)
(* fields, the entries of it; the names are read from the image.           *)
(***************************************************************************)
EXTENDS CandidateFacts

CONSTANT HeaderSize           \* ELF64_SHDR_SIZE

VARIABLES stripped,           \* STRIPPED_STATE
          regionNames,        \* EXEC_REGION_SECTION_NAME_PTR and _LEN
          names               \* GADGET_SECTION_NAME_PTR and _LEN

labels == <<stripped, regionNames, names>>

NoLabel == <<>>

Table   == object.sections
Entries == 0 .. Table.count - 1

TableReadable ==
    /\ Table.entsize = HeaderSize
    /\ Table.offset # 0
    /\ TableExtentValid(object.fileSize, Table.offset, HeaderSize, Table.count)

HeaderAt(i) == EntryOffsetValid(object.fileSize, Table.offset, HeaderSize, Table.count, i)

-----------------------------------------------------------------------------
(* The name of a section that holds an offset and an address.              *)

NameTable == Table.table[Table.strings]

NamesUsable ==
    /\ Table.strings \in Entries \ {0}
    /\ NameTable.type = "strtab"
    /\ NameTable.size # 0
    /\ RangeEndValid(object.fileSize, NameTable.offset, NameTable.size)

CodeInFile(s) ==
    /\ s.type \notin {"null", "nobits"}
    /\ {"alloc", "exec"} \subseteq s.flags
    /\ s.size # 0
    /\ RangeEndValid(object.fileSize, s.offset, s.size)

Holds(s, offset, address) ==
    /\ s.offset <= offset /\ offset < RangeEnd(s.offset, s.size)
    /\ s.address <= address
    /\ ~Carries(s.address, s.size) /\ address < WordSum(s.address, s.size)

\* The bytes of the name table from the name up to a NUL, if there is one.
NameLengths(s) ==
    IF s.name = 0 \/ s.name >= NameTable.size THEN {}
    ELSE {n \in 0 .. NameTable.size - s.name - 1 :
            /\ object.image[NameTable.offset + s.name + n] = 0
            /\ \A i \in 0 .. n - 1 : object.image[NameTable.offset + s.name + i] # 0}

NameOf(s) ==
    LET n == CHOOSE m \in NameLengths(s) : TRUE
    IN  [i \in 1 .. n |-> object.image[NameTable.offset + s.name + i - 1]]

Matches(offset, address) ==
    {i \in Entries : LET s == Table.table[i] IN
        CodeInFile(s) /\ Holds(s, offset, address) /\ NameLengths(s) \notin {{}, {0}}}

\* Defect: of several sections the first is taken.
LabelFirst(offset, address) ==
    IF Matches(offset, address) = {} THEN NoLabel
    ELSE NameOf(Table.table[CHOOSE i \in Matches(offset, address) :
                              \A j \in Matches(offset, address) : i <= j])

\* shdr_find_section_for_file_offset: one section and no other, or no name.
Label(offset, address) ==
    IF (\A i \in Entries : HeaderAt(i)) /\ Cardinality(Matches(offset, address)) = 1
    THEN NameOf(Table.table[CHOOSE i \in Matches(offset, address) : TRUE])
    ELSE NoLabel

-----------------------------------------------------------------------------
\* The section table lets the analysis go on to "next", or refuses the object.
PassSections(now, next, readable) ==
    /\ stage = now
    /\ IF readable THEN stage' = next /\ UNCHANGED <<pc, status>>
       ELSE stage' = EXIT_MALFORMED_ELF /\ Return(EXIT_MALFORMED_ELF)
    /\ UNCHANGED <<object, summary, region, cursor, tables>>

\* x64lens_shdr_classify_stripped: the entries are read up to the first symbol table.
ClassifyStripped ==
    LET symbols == {i \in Entries : Table.table[i].type = "symtab"}
    IN  /\ PassSections("stripped", IF object.command = "analyze" THEN "regions" ELSE "scan",
              Table.count = 0 \/
              /\ TableReadable
              /\ \A i \in Entries : (\A j \in symbols : i <= j) => HeaderAt(i))
        /\ stripped' = CASE Table.count = 0 -> "unknown"
                         [] Table.count # 0 /\ symbols = {} -> "stripped"
                         [] Table.count # 0 /\ symbols # {} -> "not stripped"
        /\ UNCHANGED <<regionNames, names>>

\* shdr_label_setup
SetupAccepts == Table.count = 0 \/ (TableReadable /\ (Table.strings \in Entries \ {0} => HeaderAt(Table.strings)))

AnnotateRegions ==
    /\ PassSections("regions", "scan", SetupAccepts)
    /\ regionNames' = [i \in DOMAIN object.regions |->
                          IF NamesUsable
                          THEN Label(object.regions[i].fileOffset, object.regions[i].vaddr)
                          ELSE NoLabel]
    /\ UNCHANGED <<stripped, names>>

AnnotateGadgets ==
    /\ PassSections("labels", "summary", SetupAccepts)
    /\ names' = [k \in Rows |-> IF NamesUsable
                                THEN Label(records[k].fileOffset, records[k].virtualAddress)
                                ELSE NoLabel]
    /\ UNCHANGED <<stripped, regionNames>>

LabelsInit == stripped = "unknown" /\ regionNames = <<>> /\ names = <<>>

LabelStep ==
    \/ ClassifyStripped \/ AnnotateRegions \/ AnnotateGadgets
    \/ (AnalysisStep /\ UNCHANGED labels)

-----------------------------------------------------------------------------
(* The reference, in numbers without a width: the sections that hold an    *)
(* offset and an address, and the name of the only one.                    *)

HoldsBoth(s, offset, address) ==
    /\ s.type \notin {"null", "nobits"} /\ {"alloc", "exec"} \subseteq s.flags
    /\ s.offset <= offset /\ offset < s.offset + s.size
    /\ s.address <= address /\ address < s.address + s.size
    /\ s.offset + s.size <= object.fileSize /\ s.address + s.size <= WordMax

NameBegin(s) == NameTable.offset + s.name
NameEnds(s)  == {n \in NameBegin(s) .. NameTable.offset + NameTable.size - 1 : object.image[n] = 0}
NameRead(s)  == LET end == CHOOSE e \in NameEnds(s) : \A d \in NameEnds(s) : e <= d
                IN  [n \in 1 .. end - NameBegin(s) |-> object.image[NameBegin(s) + n - 1]]

\* The executable sections that hold an offset and an address and have a name.
SectionsHolding(offset, address) ==
    {i \in Entries : LET s == Table.table[i] IN
        /\ HoldsBoth(s, offset, address)
        /\ s.name # 0 /\ NameEnds(s) # {} /\ object.image[NameBegin(s)] # 0}

\* The table of names that the ELF header points at, which must be inside the file.
NamesTrusted ==
    /\ Table.strings \in Entries \ {0} /\ NameTable.type = "strtab"
    /\ NameTable.offset + NameTable.size <= object.fileSize

\* The name of the only section that holds them.
TrueLabel(offset, address) ==
    IF NamesTrusted /\ Cardinality(SectionsHolding(offset, address)) = 1
    THEN NameRead(Table.table[CHOOSE i \in SectionsHolding(offset, address) : TRUE])
    ELSE NoLabel

Named        == {"summary", "complete", "printed"}
BeforeNaming == {"stripped", "regions", EXIT_MALFORMED_ELF}

(***************************************************************************)
(* A name is given where one named section of code holds the offset and    *)
(* the address, and nowhere else: not to a candidate that two sections     *)
(* hold, nor from a table of names that cannot be trusted.                 *)
(***************************************************************************)
NamesOfTheSections ==
    /\ stage \in Named =>
          names = [k \in Rows |-> TrueLabel(records[k].fileOffset, records[k].virtualAddress)]
    /\ object.command = "analyze" /\ stage \notin BeforeNaming =>
          regionNames = [i \in DOMAIN object.regions |->
                            TrueLabel(object.regions[i].fileOffset, object.regions[i].vaddr)]
=============================================================================
