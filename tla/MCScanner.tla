------------------------------ MODULE MCScanner ------------------------------
(***************************************************************************)
(* The scanner, the passes after it and the reports, over four families of *)
(* objects: every image of five bytes that are ret, ret imm16 or neither,  *)
(* with no region, one, two, overlapping and empty regions, one that ends  *)
(* one byte past the file and one whose end wraps, and capacities that are *)
(* reached and passed; the images that end in the instructions the passes  *)
(* know, and in others one byte or one bit away from them, with windows    *)
(* that begin before, inside and after those instructions; an image with   *)
(* section headers, readable and not, whose sections name its two          *)
(* candidates, name one of them, disagree or name none; and every posture  *)
(* of the headers.                                                         *)
(***************************************************************************)
EXTENDS ReportValidator

PLAIN == \h90            \* a byte of no family

FileSize == 5

Images == [0 .. FileSize - 1 -> {RET, RET_IMM16, PLAIN}]

Slot(offset, size, address) == [fileOffset |-> offset, filesz |-> size, vaddr |-> address]

\* An object without section headers, of which gadgets is asked in JSON.
PlainHeader ==
    [pie |-> TRUE, stackSeen |-> TRUE, stackExec |-> FALSE, relro |-> TRUE, bindNow |-> TRUE,
     canary |-> "present", rwx |-> FALSE, dynamicSeen |-> TRUE, entryCount |-> 2, nullSeen |-> TRUE,
     loadCount |-> 2, phnum |-> 3, type |-> "dyn", entry |-> 4, phoff |-> 1, phentsize |-> 1]

NoSections == [count |-> 0, entsize |-> 0, offset |-> 0, strings |-> 0, table |-> <<>>]

Path == <<47, Quote, 9, Backslash, 127, 200, 120>>

Load == [memsz |-> 5, flags |-> {"r", "x"}]

Unlabelled(images, size, regions, depths, capacities, command, format) ==
    [ image : images, fileSize : {size}, regions : regions, depth : depths, capacity : capacities,
      command : {command}, format : {format}, path : {Path}, header : {PlainHeader},
      loads : {<<Load, Load>>}, sections : {NoSections} ]

RegionLists ==
    { <<>>,
      << Slot(0, 5, 3) >>,
      << Slot(1, 3, 10), Slot(1, 0, 6) >>,
      << Slot(0, 3, 0), Slot(1, 4, 7) >>,
      << Slot(0, 3, 4), Slot(1, 4, 5) >>,
      << Slot(0, 4, 1), Slot(2, 4, 9) >>,
      << Slot(4, 13, 2) >> }

ScannedObjects ==
    Unlabelled(Images, FileSize, RegionLists, {1, 2}, {0}, "analyze", "json")
    \cup Unlabelled(Images, FileSize, RegionLists, {2}, {1}, "gadgets", "json")
    \cup Unlabelled({[i \in 0 .. FileSize - 1 |-> RET]}, FileSize, RegionLists, {0, 5, 6}, {0, 2},
                    "gadgets", "json")

\* pop of rax, rsp, rdi and rcx or their extended counterparts.
PopBytes == [1 .. 4 -> {\h41, \h58, \h5C, \h5F, \h59}]

\* mov with and without REX.W, R, X and B, both directions and one opcode
\* beside them, the modes and operands that are in and out of the families.
MoveBytes ==
    { << \h41, prefix, opcode, operands >> :
        prefix \in {\h47, \h48, \h49, \h4A, \h4C, \h4D}, opcode \in {\h89, \h8B, \h88},
        operands \in {\h00, \h04, \h05, \h08, \h20, \h5F, \h58, \hC1, \hC0, \hC4, \hC9, \hE0} }

AdjustBytes ==
    { << \h48, \h83, \hC4, n >> : n \in {0, 8, \h0C, \h58, \h78, \h80} }
    \cup { << \h49, \h83, \hC4, 8 >>, << \h48, \h81, \hC4, 8 >>, << \h48, \h83, \hC0, 8 >> }

OtherBytes == { <<\h5F, \h58, \h0F, \h05>>, <<PLAIN, \h5F, \h05, \hC9>>, <<PLAIN, \h0F, \h05, \hC9>>,
                <<PLAIN, \h58, \h41, PLAIN>> }

\* One byte, four of the above, the terminator and two more.
Window(bytes, terminator) ==
    [i \in 0 .. 7 |->
        CASE i = 0 -> PLAIN
          [] i \in 1 .. 4 -> bytes[i]
          [] OTHER -> terminator[i - 4]]

Windows ==
    { Window(bytes, <<RET, PLAIN, PLAIN>>) : bytes \in PopBytes \cup MoveBytes \cup AdjustBytes \cup OtherBytes }
    \cup { Window(bytes, <<RET_IMM16, low, high>>) :
             bytes \in OtherBytes, low \in {0, 8, RET}, high \in {0, 1, RET} }

ReadObjects ==
    Unlabelled(Windows, 8, { << Slot(0, 8, 8) >> }, {1, 2, 3, 5}, {0}, "gadgets", "json")
    \cup Unlabelled(Windows, 8, { << Slot(2, 6, 3) >>, << Slot(0, 7, 1), Slot(3, 5, 4) >> }, {5}, {0},
                    "gadgets", "json")
    \cup Unlabelled({w \in Windows : w[1] = \h41}, 8, { << Slot(0, 8, 8) >> }, {3, 5}, {0},
                    "analyze", "text")

-----------------------------------------------------------------------------
\* Two candidates, seven bytes of names and four section headers.
NamedImage == <<\h5F, RET, PLAIN, RET, 0, Quote, Backslash, 0, 128, 65, 0, PLAIN, PLAIN, PLAIN, PLAIN>>

Section(type, flags, offset, size, address, name) ==
    [type |-> type, flags |-> flags, offset |-> offset, size |-> size, address |-> address, name |-> name]

Code(offset, size, address, name) == Section("progbits", {"alloc", "exec"}, offset, size, address, name)

NullSection == Section("null", {}, 0, 0, 0, 0)
NameSection == Section("strtab", {}, 4, 7, 0, 0)

CodeSections ==
    { Code(0, 4, 8, 1), Code(0, 2, 8, 4), Code(2, 2, 10, 1),          \* both, the first, the second
      Code(0, 4, 8, 3), Code(0, 4, 8, 0), Code(0, 4, 8, 7),           \* no name, or one past the names
      Code(0, 3, 8, 1), Code(2, 2, 11, 4), Code(0, 4, 7, 1),          \* one byte short or away
      Code(0, 15, 1, 4), Code(3, 12, 11, 1), Code(3, 14, 1, 1),       \* to the end, past it, wrapping
      Code(0, 0, 8, 1),
      Section("nobits", {"alloc", "exec"}, 0, 4, 8, 1),
      Section("progbits", {"alloc"}, 0, 4, 8, 1), Section("progbits", {"exec"}, 0, 4, 8, 1) }

Sections(count, entsize, offset, strings, entries) ==
    [count |-> count, entsize |-> entsize, offset |-> offset, strings |-> strings,
     table |-> [i \in 0 .. count - 1 |-> entries[i + 1]]]

NamedSections ==
    { Sections(4, 1, 11, 3, <<NullSection, s, t, NameSection>>) :
        s \in CodeSections, t \in CodeSections \cup {NullSection, Section("symtab", {}, 0, 4, 0, 0)} }

\* The table of names, and the table of sections, in and out of order.
OddSections ==
    { Sections(4, 1, 11, strings, <<NullSection, Code(0, 2, 8, 1), Code(2, 2, 10, 4), s>>) :
        strings \in {0, 2, 3, 4},
        s \in { NameSection, Section("progbits", {}, 4, 7, 0, 0), Section("strtab", {}, 4, 0, 0, 0),
                Section("strtab", {}, 4, 5, 0, 0), Section("strtab", {}, 4, 3, 0, 0),
                Section("strtab", {}, 9, 7, 0, 0), Section("strtab", {}, 15, 1, 0, 0) } }
    \cup { Sections(4, entsize, offset, 3, <<NullSection, Code(0, 4, 8, 1), NullSection, NameSection>>) :
             entsize \in {0, 1, 2}, offset \in {0, 11, 12, 15} }

Labelled(sections, header, regions, command, format) ==
    [image |-> [i \in 0 .. 14 |-> NamedImage[i + 1]], fileSize |-> 15, regions |-> regions,
     depth |-> 2, capacity |-> 0, command |-> command, format |-> format, path |-> Path,
     header |-> header, loads |-> <<[memsz |-> 6, flags |-> {"x", "w"}]>>, sections |-> sections]

LabelledObjects ==
    { Labelled(s, PlainHeader, << Slot(0, 4, 8) >>, command, format) :
        s \in NamedSections \cup OddSections, command \in {"gadgets", "analyze"}, format \in {"json", "text"} }

Headers ==
    { [PlainHeader EXCEPT !.pie = h.pie, !.stackSeen = h.seen, !.stackExec = h.exec, !.relro = h.relro,
                          !.bindNow = h.now /\ h.dynamic, !.dynamicSeen = h.dynamic,
                          !.entryCount = IF h.dynamic THEN 2 ELSE 0, !.nullSeen = h.null /\ h.dynamic] :
      h \in [pie : BOOLEAN, seen : BOOLEAN, exec : BOOLEAN, relro : BOOLEAN, now : BOOLEAN,
             dynamic : BOOLEAN, null : BOOLEAN] }

PostureObjects ==
    { Labelled(NoSections, h, regions, "analyze", format) :
        h \in Headers, regions \in { <<>>, << Slot(0, 4, 8) >> }, format \in {"json", "text"} }

MCObjects == ScannedObjects \cup ReadObjects \cup LabelledObjects \cup PostureObjects
=============================================================================
