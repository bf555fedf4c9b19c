--------------------------- MODULE DynamicMetadata ---------------------------
(***************************************************************************)
(* The dynamic table: src/src/phdr.asm from .handle_dynamic on, with       *)
(* dynamic_metadata.asm, which keeps the evidence, and binary_role.asm,    *)
(* which draws the conclusion about the kind of file.  One action is one   *)
(* Elf64_Dyn entry of the first or of the second pass over the table.      *)
(*                                                                         *)
(* A flag word is the set of its bits.  The loads are those the loader     *)
(* contract accepted, so an offset inside one neither wraps nor leaves the *)
(* file.  A refused analysis leaves facts that nobody reads.               *)
(***************************************************************************)
EXTENDS Naturals, Sequences, FiniteSets

CONSTANTS Targets,         \* the ELF files, as this part of the analysis sees them
          EntryMax,        \* DYNAMIC_ENTRY_MAX
          StringScanMax,   \* DYNAMIC_STRING_SCAN_MAX
          CarrierMax,      \* DYNAMIC_METADATA_CARRIER_MAX
          SearchRecordMax, \* DYNAMIC_METADATA_SEARCH_RECORD_MAX
          SearchBytesMax,  \* DYNAMIC_METADATA_SEARCH_BYTES_MAX
          CanarySymbol     \* "__stack_chk_fail" with its NUL

NUL == 0
Byte == 0 .. 255

Families == {"RPATH", "RUNPATH"}
FlagTags == {"FLAGS", "FLAGS_1"}
ValueTags == {"STRTAB", "STRSZ", "SONAME"} \cup Families
OtherTags == {"NULL", "TEXTREL", "BIND_NOW", "OTHER"}

DynEntry ==
    [tag : FlagTags, bits : SUBSET {"TEXTREL", "BIND_NOW", "NOW", "PIE"}]
      \cup [tag : ValueTags, value : Nat] \cup [tag : OtherTags]

\* "tail" is what is left of the table after the last whole entry.
Target ==
    [type : {"EXEC", "DYN", "REL"}, entry : BOOLEAN, interps : Nat,
     dynamic : BOOLEAN, table : Seq(DynEntry), tail : Nat,
     loads : Seq([vaddr : Nat, offset : Nat, filesz : Nat]), file : Seq(Byte)]

DynamicAssumption ==
    /\ {EntryMax, StringScanMax, CarrierMax, SearchRecordMax, SearchBytesMax} \subseteq Nat
    /\ CanarySymbol \in Seq(Byte) /\ CanarySymbol # <<>>
    /\ \A n \in DOMAIN CanarySymbol : CanarySymbol[n] = NUL <=> n = Len(CanarySymbol)
    /\ \A t \in Targets :
          /\ t \in Target
          /\ \A i \in DOMAIN t.loads : t.loads[i].offset + t.loads[i].filesz <= Len(t.file)
          /\ ~t.dynamic => t.table = <<>> /\ t.tail = 0

-----------------------------------------------------------------------------
(***************************************************************************)
(* What a dynamic table says, whatever the order in which it is read: the  *)
(* evidence that phdr.asm, dynamic_metadata.asm and binary_role.asm are to *)
(* retain of it, and when they are to refuse it.                           *)
(***************************************************************************)
\* The entries up to the first DT_NULL.
Read(t) == {i \in DOMAIN t.table : \A j \in 1 .. i - 1 : t.table[j].tag # "NULL"}

Tagged(t, tags) == {i \in Read(t) : t.table[i].tag \in tags}
Terminated(t) == Tagged(t, {"NULL"}) # {}

Values(t, tag) == {t.table[i].value : i \in Tagged(t, {tag})}
Bits(t, tag) == UNION {t.table[i].bits : i \in Tagged(t, {tag})}

StringTableNamed(t) == Values(t, "STRTAB") # {} /\ Values(t, "STRSZ") # {}

\* The loads that hold the string table, and its bytes in the first of them.
StringTables(t) ==
    LET from == CHOOSE v \in Values(t, "STRTAB") : TRUE
        size == CHOOSE v \in Values(t, "STRSZ") : TRUE
        homes == {l \in DOMAIN t.loads : /\ t.loads[l].vaddr <= from
                                         /\ from + size <= t.loads[l].vaddr + t.loads[l].filesz}
    IN {SubSeq(t.file, t.loads[l].offset + from - t.loads[l].vaddr + 1,
                       t.loads[l].offset + from - t.loads[l].vaddr + size) :
          l \in {h \in homes : \A k \in homes : h <= k}}

StringTable(t) == CHOOSE bytes \in StringTables(t) : TRUE

\* The string that starts at an offset: none, or one.
Texts(bytes, o) ==
    {SubSeq(bytes, o + 1, n) : n \in {m \in o .. Len(bytes) - 1 :
        bytes[m + 1] = NUL /\ \A k \in o + 1 .. m : bytes[k] # NUL}}

\* The different strings that the entries of a family name.
SearchValues(t, family) == UNION {Texts(StringTable(t), v) : v \in Values(t, family)}

-----------------------------------------------------------------------------
(***************************************************************************)
(* Readable: nothing ambiguous, nothing beyond a limit, and every string   *)
(* that is needed is there.  Search paths of a table without DT_NULL are   *)
(* not read.                                                               *)
(***************************************************************************)
NeededStrings(t) == Tagged(t, {"SONAME"} \cup Families)

\* How long the first so many are together, from none of them on.
Totals(lengths) ==
    LET total[n \in {0} \cup DOMAIN lengths] == IF n = 0 THEN 0 ELSE total[n - 1] + lengths[n]
    IN total

ValueLengths(t) ==
    [i \in DOMAIN t.table |->
        IF i \in Tagged(t, Families)
        THEN Len(CHOOSE x \in Texts(StringTable(t), t.table[i].value) : TRUE) ELSE 0]

ValueBytes(t) == Totals(ValueLengths(t))[Len(t.table)]

StringsReadable(t) ==
    /\ \A size \in Values(t, "STRSZ") : size <= StringScanMax
    /\ StringTables(t) # {}
    /\ \A o \in Values(t, "SONAME") : \E text \in Texts(StringTable(t), o) : text # <<>>
    /\ Terminated(t) =>
          /\ \A f \in Families : \A o \in Values(t, f) : Texts(StringTable(t), o) # {}
          /\ Cardinality(Tagged(t, Families)) <= SearchRecordMax
          /\ ValueBytes(t) <= SearchBytesMax

Readable(t) ==
    /\ t.tail = 0 /\ Len(t.table) <= EntryMax
    /\ \A tag \in {"STRTAB", "STRSZ"} : Cardinality(Tagged(t, {tag})) <= 1
    /\ Cardinality(Tagged(t, {"TEXTREL", "FLAGS"} \cup Families)) <= CarrierMax
    /\ IF StringTableNamed(t) THEN StringsReadable(t) ELSE NeededStrings(t) = {}

-----------------------------------------------------------------------------
(***************************************************************************)
(* The evidence of a readable table: unknown is never taken for absent,    *)
(* and two entries that disagree are a contradiction in either order.      *)
(***************************************************************************)
BindNowEvidence(t) ==
    \/ Tagged(t, {"BIND_NOW"}) # {}
    \/ "BIND_NOW" \in Bits(t, "FLAGS") \/ "NOW" \in Bits(t, "FLAGS_1")

TextrelBits(t) == {("TEXTREL" \in t.table[i].bits) : i \in Tagged(t, {"FLAGS"})}

TextrelEvidence(t) ==
    IF ~Terminated(t) THEN "unknown"
    ELSE IF TextrelBits(t) = BOOLEAN THEN "contradictory"
    ELSE IF TRUE \in TextrelBits(t) \/ Tagged(t, {"TEXTREL"}) # {} THEN "present" ELSE "absent"

\* Two entries of one tag that do not say the same, in a table with DT_NULL or not.
Disagree(t, tag, field) == Cardinality({t.table[i][field] : i \in Tagged(t, {tag})}) > 1

SearchEvidence(t, family) ==
    CASE ~Terminated(t) -> "unknown"
      [] Terminated(t) /\ Tagged(t, {family}) = {} -> "absent"
      [] Terminated(t) /\ Cardinality(SearchValues(t, family)) = 1 -> "present"
      [] OTHER -> "contradictory"

CanaryEvidence(t) ==
    IF ~StringTableNamed(t) THEN "unknown"
    ELSE IF \E o \in 0 .. Len(StringTable(t)) :
               /\ o # 0 => StringTable(t)[o] = NUL
               /\ \E text \in Texts(StringTable(t), o) : Append(text, NUL) = CanarySymbol
    THEN "present" ELSE "absent"

Repeated(t) == t.interps > 1 \/ \E tag \in {"FLAGS_1", "SONAME"} : Cardinality(Tagged(t, {tag})) > 1

SaysExecutable(t) == t.interps # 0 \/ "PIE" \in Bits(t, "FLAGS_1")
SaysShared(t) == Tagged(t, {"SONAME"}) # {}

RoleEvidence(t) ==
    CASE Repeated(t) -> "contradictory"
      [] ~Repeated(t) /\ t.type = "EXEC" ->
            IF SaysShared(t) \/ "PIE" \in Bits(t, "FLAGS_1") THEN "contradictory" ELSE "executable_like"
      [] ~Repeated(t) /\ t.type = "DYN" ->
            (CASE SaysExecutable(t) /\ SaysShared(t) -> "contradictory"
               [] SaysExecutable(t) /\ ~SaysShared(t) -> "executable_like"
               [] ~SaysExecutable(t) /\ t.entry -> "ambiguous"
               [] ~SaysExecutable(t) /\ ~t.entry /\ SaysShared(t) -> "shared_object_like"
               [] OTHER -> "unknown")
      [] OTHER -> IF SaysExecutable(t) \/ SaysShared(t) THEN "contradictory" ELSE "unknown"

-----------------------------------------------------------------------------
VARIABLES target,
          pc,
          index,           \* the entry of the pass
          strings,         \* file offset of the string table
          summary,         \* phdr_summary
          context,         \* the dynamic-metadata context
          status

vars == <<target, pc, index, strings, summary, context, status>>

EXIT_OK == 0
EXIT_MALFORMED_ELF == 5
EXIT_UNSUPPORTED == 6
EXIT_BOUNDS == 7

Count == Len(target.table)
Entry == target.table[index + 1]

\* strtab and strsz are the sets of at most one value.
EmptySummary ==
    [entryCount |-> 0, nullSeen |-> FALSE, bindNow |-> FALSE, strtab |-> {}, strsz |-> {},
     flags1Count |-> 0, flags1 |-> {}, sonameCount |-> 0, soname |-> 0,
     canary |-> "unknown", evidence |-> {}, role |-> "unknown"]

NoValues == [carriers |-> 0, values |-> 0, first |-> 0, conflicts |-> 0]

\* x64lens_dynamic_metadata_context_init
EmptyContext ==
    [carriers |-> <<>>, textrels |-> 0,
     flagsCount |-> 0, flagsFirst |-> {}, flagsAnd |-> {}, flagsOr |-> {}, flagsConflicts |-> 0,
     records |-> <<>>, pool |-> <<>>, paths |-> [f \in Families |-> NoValues],
     complete |-> FALSE, textrelConflict |-> FALSE, textrel |-> "unknown",
     search |-> [f \in Families |-> "unknown"]]

Refuse(rax) ==
    /\ pc' = "done" /\ status' = rax
    /\ UNCHANGED <<target, index, strings, summary, context>>

-----------------------------------------------------------------------------
(***************************************************************************)
(* The first pass: .dynamic_loop.                                          *)
(***************************************************************************)
TableRefused == pc = "table" /\ target.tail # 0 /\ Refuse(EXIT_MALFORMED_ELF)

TableTooLong ==
    pc = "table" /\ target.tail = 0 /\ Count > EntryMax /\ Refuse(EXIT_UNSUPPORTED)

BeginTable ==
    /\ pc = "table"
    /\ target.tail = 0 /\ Count <= EntryMax
    /\ pc' = "entry"
    /\ UNCHANGED <<target, index, strings, summary, context, status>>

AtEntry(tags) == pc = "entry" /\ index < Count /\ Entry.tag \in tags

\* .dynamic_advance
NextEntry(facts) ==
    /\ summary' = [facts EXCEPT !.entryCount = @ + 1]
    /\ index' = index + 1
    /\ UNCHANGED <<target, pc, strings, status>>

\* One string table and one size: with two, the canary would depend on the order.
SingletonSeen ==
    \/ Entry.tag = "STRTAB" /\ summary.strtab # {}
    \/ Entry.tag = "STRSZ" /\ summary.strsz # {}

StringTableRepeated ==
    AtEntry({"STRTAB", "STRSZ"}) /\ SingletonSeen /\ Refuse(EXIT_MALFORMED_ELF)

StringTableEntry ==
    /\ AtEntry({"STRTAB", "STRSZ"})
    /\ ~SingletonSeen
    /\ NextEntry(IF Entry.tag = "STRTAB" THEN [summary EXCEPT !.strtab = {Entry.value}]
                 ELSE [summary EXCEPT !.strsz = {Entry.value}])
    /\ UNCHANGED context

CarrierTags == {"TEXTREL", "FLAGS"} \cup Families

\* x64lens_dynamic_metadata_record
CarrierAdded == [context EXCEPT !.carriers = Append(@, [tag |-> Entry.tag, index |-> index])]

CarrierTableFull == Len(context.carriers) >= CarrierMax

CarrierRefused ==
    AtEntry(CarrierTags) /\ CarrierTableFull /\ Refuse(EXIT_UNSUPPORTED)

TextrelEntry ==
    /\ AtEntry({"TEXTREL"}) /\ ~CarrierTableFull
    /\ context' = [CarrierAdded EXCEPT !.textrels = @ + 1]
    /\ NextEntry(summary)

FlagsEntry ==
    /\ AtEntry({"FLAGS"}) /\ ~CarrierTableFull
    /\ context' =
          IF context.flagsCount = 0
          THEN [CarrierAdded EXCEPT !.flagsCount = 1, !.flagsFirst = Entry.bits,
                                    !.flagsAnd = Entry.bits, !.flagsOr = Entry.bits]
          ELSE [CarrierAdded EXCEPT
                  !.flagsConflicts = IF Entry.bits # context.flagsFirst THEN @ + 1 ELSE @,
                  !.flagsAnd = @ \cap Entry.bits, !.flagsOr = @ \cup Entry.bits,
                  !.flagsCount = @ + 1]
    /\ NextEntry([summary EXCEPT !.bindNow = @ \/ "BIND_NOW" \in Entry.bits])

SearchPathEntry ==
    /\ AtEntry(Families) /\ ~CarrierTableFull
    /\ context' = [CarrierAdded EXCEPT !.paths[Entry.tag].carriers = @ + 1]
    /\ NextEntry(summary)

BindNowEntry ==
    /\ AtEntry({"BIND_NOW"})
    /\ NextEntry([summary EXCEPT !.bindNow = TRUE])
    /\ UNCHANGED context

Flags1Entry ==
    /\ AtEntry({"FLAGS_1"})
    /\ NextEntry([summary EXCEPT
          !.evidence = IF summary.flags1Count # 0 /\ summary.flags1 # Entry.bits
                       THEN @ \cup {"CONFLICT_FLAGS1"} ELSE @,
          !.flags1 = @ \cup Entry.bits,
          !.flags1Count = @ + 1,
          !.bindNow = @ \/ "NOW" \in Entry.bits])
    /\ UNCHANGED context

SonameEntry ==
    /\ AtEntry({"SONAME"})
    /\ NextEntry([summary EXCEPT
          !.evidence = IF summary.sonameCount # 0 /\ summary.soname # Entry.value
                       THEN @ \cup {"CONFLICT_SONAME"} ELSE @,
          !.soname = IF summary.sonameCount = 0 THEN Entry.value ELSE @,
          !.sonameCount = @ + 1])
    /\ UNCHANGED context

OtherEntry == AtEntry({"OTHER"}) /\ NextEntry(summary) /\ UNCHANGED context

NullEntry ==
    /\ AtEntry({"NULL"})
    /\ summary' = [summary EXCEPT !.nullSeen = TRUE, !.entryCount = @ + 1]
    /\ pc' = "finalize"
    /\ UNCHANGED <<target, index, strings, context, status>>

TableEnds ==
    /\ pc = "entry" /\ index >= Count
    /\ pc' = "finalize"
    /\ UNCHANGED <<target, index, strings, summary, context, status>>

-----------------------------------------------------------------------------
(***************************************************************************)
(* x64lens_dynamic_metadata_finalize, before the strings are read and      *)
(* again after: a table is complete when its DT_NULL was seen.             *)
(***************************************************************************)
\* Defect: any two flag words that differ contradict each other.
AnyFlagsConflict == context.flagsConflicts # 0

TextrelConflict == ("TEXTREL" \in context.flagsOr) # ("TEXTREL" \in context.flagsAnd)

TextrelState ==
    CASE TextrelConflict -> "contradictory"
      [] ~TextrelConflict /\ (context.textrels # 0 \/ "TEXTREL" \in context.flagsOr) -> "present"
      [] OTHER -> "absent"

SearchState(path) ==
    CASE path.conflicts # 0 -> "contradictory"
      [] path.conflicts = 0 /\ path.values # 0 -> "present"
      [] path.conflicts = 0 /\ path.values = 0 /\ path.carriers # 0 -> "unknown"
      [] OTHER -> "absent"

Finalized ==
    LET complete == target.dynamic /\ summary.nullSeen
    IN [context EXCEPT
          !.complete = complete,
          !.textrelConflict = TextrelConflict,
          !.textrel = IF complete THEN TextrelState ELSE "unknown",
          !.search = [f \in Families |->
                        IF complete THEN SearchState(context.paths[f]) ELSE "unknown"]]

Finalize ==
    /\ pc \in {"finalize", "refinalize"}
    /\ context' = Finalized
    /\ pc' = IF pc = "finalize" THEN "strings" ELSE "role"
    /\ UNCHANGED <<target, index, strings, summary, status>>

-----------------------------------------------------------------------------
(***************************************************************************)
(* The string table, found through the first load that holds all of it.    *)
(***************************************************************************)
TableNamed == summary.strtab # {} /\ summary.strsz # {}
Strtab == CHOOSE v \in summary.strtab : TRUE
Strsz == CHOOSE v \in summary.strsz : TRUE

NeedsStrings ==
    summary.sonameCount # 0 \/ \E f \in Families : context.paths[f].carriers # 0

HoldsStrings(load) ==
    /\ load.vaddr <= Strtab
    /\ Strtab - load.vaddr + Strsz <= load.filesz

StringLoads == {i \in DOMAIN target.loads : HoldsStrings(target.loads[i])}
StringLoad == target.loads[CHOOSE i \in StringLoads : \A j \in StringLoads : i <= j]

StringsMissing ==
    pc = "strings" /\ ~TableNamed /\ NeedsStrings /\ Refuse(EXIT_MALFORMED_ELF)

StringsNotNeeded ==
    /\ pc = "strings"
    /\ ~TableNamed /\ ~NeedsStrings
    /\ pc' = "refinalize"
    /\ UNCHANGED <<target, index, strings, summary, context, status>>

StringsTooLong ==
    pc = "strings" /\ TableNamed /\ Strsz > StringScanMax /\ Refuse(EXIT_UNSUPPORTED)

StringsUnmapped ==
    /\ pc = "strings"
    /\ TableNamed /\ Strsz <= StringScanMax
    /\ StringLoads = {}
    /\ Refuse(EXIT_MALFORMED_ELF)

StringsMapped ==
    /\ pc = "strings"
    /\ TableNamed /\ Strsz <= StringScanMax
    /\ StringLoads # {}
    /\ summary' = [summary EXCEPT !.canary = "absent"]
    /\ strings' = StringLoad.offset + (Strtab - StringLoad.vaddr)
    /\ index' = 0
    /\ pc' = "resolve"
    /\ UNCHANGED <<target, context, status>>

\* The byte at an offset of the string table, and where its first NUL is.
StringByte(i) == target.file[strings + i + 1]
Terminators(i) == {n \in 0 .. Strsz - i - 1 : StringByte(i + n) = NUL}
Length(i) == CHOOSE n \in Terminators(i) : \A m \in Terminators(i) : n <= m
Bytes(i) == SubSeq(target.file, strings + i + 1, strings + i + Length(i))

-----------------------------------------------------------------------------
(***************************************************************************)
(* The second pass: .dynamic_string_second_pass.                           *)
(***************************************************************************)
AtString(tags) == pc = "resolve" /\ index < Count /\ Entry.tag \in tags

NextString ==
    /\ index' = index + 1
    /\ UNCHANGED <<target, pc, strings, summary, status>>

\* Defect: the string may run out of the table.
SonameValidUnterminated == Entry.value < Strsz /\ StringByte(Entry.value) # NUL

SonameValid ==
    /\ Entry.value < Strsz
    /\ StringByte(Entry.value) # NUL
    /\ Terminators(Entry.value) # {}

SonameResolved == AtString({"SONAME"}) /\ SonameValid /\ NextString /\ UNCHANGED context

SonameRefused == AtString({"SONAME"}) /\ ~SonameValid /\ Refuse(EXIT_MALFORMED_ELF)

\* What has no DT_NULL may go on somewhere else: nothing is concluded from it.
SearchPathUnread ==
    AtString(Families) /\ ~context.complete /\ NextString /\ UNCHANGED context

OwnCarriers ==
    {k \in DOMAIN context.carriers : context.carriers[k] = [tag |-> Entry.tag, index |-> index]}

Remaining == SearchBytesMax - Len(context.pool)

\* The scan stops at the NUL, at the end of the table, or when the pool is full.
SearchPathStatus ==
    IF Entry.value >= Strsz THEN EXIT_MALFORMED_ELF
    ELSE IF OwnCarriers = {} THEN EXIT_BOUNDS
    ELSE IF \E n \in Terminators(Entry.value) : n <= Remaining
    THEN IF Len(context.records) >= SearchRecordMax THEN EXIT_UNSUPPORTED ELSE EXIT_OK
    ELSE IF Strsz - Entry.value <= Remaining THEN EXIT_MALFORMED_ELF ELSE EXIT_UNSUPPORTED

SearchPathRefused ==
    /\ AtString(Families) /\ context.complete
    /\ SearchPathStatus # EXIT_OK
    /\ Refuse(SearchPathStatus)

\* The bytes of a retained value.
ValueOf(record) == SubSeq(context.pool, record.pool + 1, record.pool + record.length)

PoolPlace == Len(context.pool)

\* x64lens_dynamic_metadata_resolve_search_path
SearchPathResolved ==
    /\ AtString(Families) /\ context.complete
    /\ SearchPathStatus = EXIT_OK
    /\ LET path == context.paths[Entry.tag]
           value == Bytes(Entry.value)
           differs == path.values # 0 /\ ValueOf(context.records[path.first]) # value
       IN context' = [context EXCEPT
             !.records = Append(@, [tag |-> Entry.tag, index |-> index, string |-> Entry.value,
                                    pool |-> PoolPlace, length |-> Len(value)]),
             !.pool = @ \o value,
             !.paths[Entry.tag] =
                [path EXCEPT !.values = @ + 1,
                             !.first = IF path.values = 0 THEN Len(context.records) + 1 ELSE @,
                             !.conflicts = IF differs THEN @ + 1 ELSE @]]
    /\ NextString

EntryWithoutString ==
    /\ AtString((ValueTags \cup FlagTags \cup OtherTags) \ (Families \cup {"SONAME", "NULL"}))
    /\ NextString
    /\ UNCHANGED context

StringsResolved ==
    /\ pc = "resolve"
    /\ index < Count => Entry.tag = "NULL"
    /\ summary' = [summary EXCEPT !.evidence =
                      IF summary.sonameCount # 0 THEN @ \cup {"DT_SONAME"} ELSE @]
    /\ pc' = "canary"
    /\ UNCHANGED <<target, index, strings, context, status>>

\* .scan_canary_string_table: the symbol, whole, from the start of a string.
CanaryAt(i) ==
    /\ i = 0 \/ StringByte(i - 1) = NUL
    /\ \A n \in DOMAIN CanarySymbol : StringByte(i + n - 1) = CanarySymbol[n]

CanaryScan ==
    /\ pc = "canary"
    /\ summary' = [summary EXCEPT !.canary =
          IF Strsz >= Len(CanarySymbol) /\ \E i \in 0 .. Strsz - Len(CanarySymbol) : CanaryAt(i)
          THEN "present" ELSE @]
    /\ pc' = "refinalize"
    /\ UNCHANGED <<target, index, strings, context, status>>

-----------------------------------------------------------------------------
(***************************************************************************)
(* x64lens_binary_role_classify.                                           *)
(***************************************************************************)
Carrier(count, value, nothing) ==
    IF count = 0 THEN value = nothing ELSE count <= summary.entryCount /\ target.dynamic

RoleFactsAgree ==
    /\ Carrier(summary.flags1Count, summary.flags1, {})
    /\ Carrier(summary.sonameCount, summary.soname, 0)
    /\ summary.sonameCount # 0 => "DT_SONAME" \in summary.evidence

Facts ==
    {<<"ET_EXEC", target.type = "EXEC">>, <<"ET_DYN", target.type = "DYN">>,
     <<"ENTRY_NONZERO", target.entry>>,
     <<"PT_INTERP", target.interps # 0>>, <<"DUP_INTERP", target.interps > 1>>,
     <<"DF_1_PIE", "PIE" \in summary.flags1>>, <<"DUP_FLAGS1", summary.flags1Count > 1>>,
     <<"DUP_SONAME", summary.sonameCount > 1>>}

RoleBits == summary.evidence \cup {fact[1] : fact \in {f \in Facts : f[2]}}

Contradictions ==
    {"DUP_INTERP", "DUP_FLAGS1", "DUP_SONAME", "CONFLICT_FLAGS1", "CONFLICT_SONAME"}

RoleOf(evidence) ==
    IF evidence \cap Contradictions # {} THEN "contradictory"
    ELSE IF "ET_EXEC" \in evidence
    THEN IF evidence \cap {"DF_1_PIE", "DT_SONAME"} # {} THEN "contradictory" ELSE "executable_like"
    ELSE IF "ET_DYN" \notin evidence
    THEN IF evidence \cap {"PT_INTERP", "DF_1_PIE", "DT_SONAME"} # {}
         THEN "contradictory" ELSE "unknown"
    ELSE IF evidence \cap {"PT_INTERP", "DF_1_PIE"} # {}
    THEN IF "DT_SONAME" \in evidence THEN "contradictory" ELSE "executable_like"
    ELSE IF "ENTRY_NONZERO" \in evidence THEN "ambiguous"
    ELSE IF "DT_SONAME" \in evidence THEN "shared_object_like" ELSE "unknown"

ClassifyRole ==
    /\ pc = "role"
    /\ IF RoleFactsAgree
       THEN /\ summary' = [summary EXCEPT !.evidence = RoleBits, !.role = RoleOf(RoleBits)]
            /\ UNCHANGED status
       ELSE status' = EXIT_BOUNDS /\ UNCHANGED summary
    /\ pc' = "done"
    /\ UNCHANGED <<target, index, strings, context>>

Done == pc = "done" /\ UNCHANGED vars

Begins ==
    /\ pc = IF target.dynamic THEN "table" ELSE "finalize"
    /\ index = 0 /\ strings = 0
    /\ summary = EmptySummary /\ context = EmptyContext
    /\ status = EXIT_OK

Init == target \in Targets /\ Begins

FirstPass ==
    \/ TableRefused \/ TableTooLong \/ BeginTable
    \/ StringTableRepeated \/ StringTableEntry \/ CarrierRefused
    \/ TextrelEntry \/ FlagsEntry \/ SearchPathEntry
    \/ BindNowEntry \/ Flags1Entry \/ SonameEntry \/ OtherEntry \/ NullEntry \/ TableEnds

SecondPass ==
    \/ StringsMissing \/ StringsNotNeeded \/ StringsTooLong \/ StringsUnmapped \/ StringsMapped
    \/ SonameResolved \/ SonameRefused
    \/ SearchPathUnread \/ SearchPathRefused \/ SearchPathResolved
    \/ EntryWithoutString \/ StringsResolved \/ CanaryScan

Next == FirstPass \/ SecondPass \/ Finalize \/ ClassifyRole \/ Done

Spec == Init /\ [][Next]_vars

-----------------------------------------------------------------------------
Search == [carriers : Nat, values : Nat, first : Nat, conflicts : Nat]
States == {"unknown", "absent", "present", "contradictory"}

TypeOK ==
    /\ target \in Target
    /\ pc \in {"table", "entry", "finalize", "strings", "resolve", "canary", "refinalize", "role",
               "done"}
    /\ index \in 0 .. Count
    /\ strings \in 0 .. Len(target.file)
    /\ summary.entryCount \in 0 .. Count
    /\ Len(context.carriers) <= CarrierMax
    /\ Len(context.records) <= SearchRecordMax
    /\ Len(context.pool) <= SearchBytesMax
    /\ context.paths \in [Families -> Search]
    /\ context.textrel \in States /\ context.search \in [Families -> States]
    /\ status \in {EXIT_OK, EXIT_MALFORMED_ELF, EXIT_UNSUPPORTED}

(***************************************************************************)
(* The two passes, the counters and the accumulated flags of phdr.asm and  *)
(* dynamic_metadata.asm end in the evidence of the table: what is reported *)
(* does not depend on the order of the entries, and what was not seen is   *)
(* not reported absent.                                                    *)
(***************************************************************************)
EvidenceOfTheTable ==
    pc = "done" /\ status = EXIT_OK =>
       /\ summary.entryCount = Cardinality(Read(target))
       /\ summary.bindNow = BindNowEvidence(target)
       /\ context.textrel = TextrelEvidence(target)
       /\ context.textrelConflict = (Cardinality(TextrelBits(target)) > 1)
       /\ (context.flagsConflicts # 0) = Disagree(target, "FLAGS", "bits")
       /\ ("CONFLICT_FLAGS1" \in summary.evidence) = Disagree(target, "FLAGS_1", "bits")
       /\ ("CONFLICT_SONAME" \in summary.evidence) = Disagree(target, "SONAME", "value")
       /\ \A f \in Families : context.search[f] = SearchEvidence(target, f)
       /\ summary.canary = CanaryEvidence(target)
       /\ summary.role = RoleEvidence(target)

(***************************************************************************)
(* The retained values are the strings of their own entries, in order and  *)
(* next to each other in the pool, at every point of the second pass, and  *)
(* each comes from one carrier of the first pass.                          *)
(***************************************************************************)
RecordStart(k) == Totals([j \in DOMAIN context.records |-> context.records[j].length])[k - 1]

ValuesKeepTheirPlace ==
    /\ Len(context.pool) = RecordStart(Len(context.records) + 1)
    /\ \A k \in DOMAIN context.records :
          LET record == context.records[k]
          IN /\ record.pool = RecordStart(k)
             /\ {ValueOf(record)} = Texts(StringTable(target), record.string)
             /\ \E c \in DOMAIN context.carriers :
                   context.carriers[c] = [tag |-> record.tag, index |-> record.index]
             /\ \A j \in 1 .. k - 1 : context.records[j].index < record.index
=============================================================================
