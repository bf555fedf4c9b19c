---------------------------- MODULE MetadataProofs ----------------------------
(***************************************************************************)
(* Proofs about the metadata of a report, for every file and every limit:  *)
(* the parser of GNU property notes (IInv, EInv), the two passes over the  *)
(* dynamic table (DInv), and their composition.                            *)
(***************************************************************************)
EXTENDS Metadata, SequenceTheorems, FiniteSetTheorems, WellFoundedInduction, TLAPS

-----------------------------------------------------------------------------
(* The layout: every end lies behind its start.                            *)

LEMMA AlignUpBounds ==
    ASSUME NEW n \in Nat, NEW align \in {4, 8}
    PROVE  AlignUp(n, align) \in Nat /\ n <= AlignUp(n, align)
  <1>1. CASE align = 4
    BY <1>1 DEF AlignUp
  <1>2. CASE align = 8
    BY <1>2 DEF AlignUp
  <1> QED BY <1>1, <1>2

LEMMA DwordTyped ==
    ASSUME NEW file \in Seq(Byte), NEW i \in Nat, i + 4 <= Len(file)
    PROVE  Dword(file, i) \in Nat
  <1>1. \A k \in 1 .. Len(file) : file[k] \in Byte
    OBVIOUS
  <1>2. \A b \in Byte : b \in Nat
    BY DEF Byte
  <1>3. i + 1 \in 1 .. Len(file) /\ i + 2 \in 1 .. Len(file)
    OBVIOUS
  <1>4. i + 3 \in 1 .. Len(file) /\ i + 4 \in 1 .. Len(file)
    OBVIOUS
  <1>5. file[i + 1] \in Nat /\ file[i + 2] \in Nat
    BY ONLY <1>1, <1>2, <1>3
  <1>6. file[i + 3] \in Nat /\ file[i + 4] \in Nat
    BY ONLY <1>1, <1>2, <1>4
  <1> DEFINE a == file[i + 1]
             b == file[i + 2]
             c == file[i + 3]
             d == file[i + 4]
  <1>7. a \in Nat /\ b \in Nat /\ c \in Nat /\ d \in Nat
    BY <1>5, <1>6
  <1>8. Dword(file, i) = a + 256 * b + 65536 * c + 16777216 * d
    BY DEF Dword
  <1> HIDE DEF a, b, c, d
  <1> QED BY ONLY <1>7, <1>8

LEMMA NoteLayout ==
    ASSUME NEW file \in Seq(Byte), NEW p \in Nat, p + HeaderSize <= Len(file),
           NEW align \in {4, 8}
    PROVE  /\ NameEnd(file, p) \in Nat /\ DescStart(file, p, align) \in Nat
           /\ DescEnd(file, p, align) \in Nat /\ NoteEnd(file, p, align) \in Nat
           /\ p + HeaderSize <= NameEnd(file, p)
           /\ NameEnd(file, p) <= DescStart(file, p, align)
           /\ DescStart(file, p, align) <= DescEnd(file, p, align)
           /\ DescEnd(file, p, align) <= NoteEnd(file, p, align)
  <1>1. Dword(file, p) \in Nat /\ Dword(file, p + 4) \in Nat
    BY DwordTyped DEF HeaderSize
  <1>2. NameEnd(file, p) \in Nat /\ p + HeaderSize <= NameEnd(file, p)
    BY <1>1 DEF NameEnd, HeaderSize
  <1>3. DescStart(file, p, align) \in Nat /\ NameEnd(file, p) <= DescStart(file, p, align)
    BY <1>2, AlignUpBounds DEF DescStart
  <1>4. DescEnd(file, p, align) \in Nat /\ DescStart(file, p, align) <= DescEnd(file, p, align)
    BY <1>1, <1>3 DEF DescEnd
  <1>5. NoteEnd(file, p, align) \in Nat /\ DescEnd(file, p, align) <= NoteEnd(file, p, align)
    BY <1>4, AlignUpBounds DEF NoteEnd
  <1> QED BY <1>2, <1>3, <1>4, <1>5

LEMMA PropertyLayout ==
    ASSUME NEW file \in Seq(Byte), NEW q \in Nat, q + EntryHeaderSize <= Len(file),
           NEW desc \in Nat, desc <= q
    PROVE  /\ Dword(file, q) \in Nat
           /\ PropertyEnd(file, q, desc) \in Nat
           /\ q + EntryHeaderSize <= PropertyEnd(file, q, desc)
  <1>1. Dword(file, q) \in Nat /\ Dword(file, q + 4) \in Nat
    BY DwordTyped DEF EntryHeaderSize
  <1>2. DataEnd(file, q) \in Nat /\ q + EntryHeaderSize <= DataEnd(file, q)
    BY <1>1 DEF DataEnd, EntryHeaderSize
  <1>3. DataEnd(file, q) - desc \in Nat
    BY <1>2 DEF EntryHeaderSize
  <1>4. /\ AlignUp(DataEnd(file, q) - desc, 8) \in Nat
        /\ DataEnd(file, q) - desc <= AlignUp(DataEnd(file, q) - desc, 8)
    BY <1>3, AlignUpBounds
  <1>5. PropertyEnd(file, q, desc) \in Nat /\ DataEnd(file, q) <= PropertyEnd(file, q, desc)
    BY <1>2, <1>4 DEF PropertyEnd
  <1> QED BY <1>1, <1>2, <1>5 DEF EntryHeaderSize

-----------------------------------------------------------------------------
(* The inductive invariant.                                                *)

\* Where a kept note lies: in a carrier that was parsed, or before what is read now.
Placed(note) ==
    \E j \in DOMAIN carriers :
       /\ carriers[j].offset <= note.offset
       /\ note.offset + note.size <= carriers[j].offset + carriers[j].size
       /\ pc = "carrier" => j < slot
       /\ pc = "note" => j < slot \/ (j = slot /\ note.offset + note.size <= cursor)
       /\ pc = "property" => j < slot \/ (j = slot /\ note.offset + note.size <= NextNote)

NotesPlaced == \A k \in DOMAIN notes : notes[k].size > 0 /\ Placed(notes[k])

NothingBeforeParse == pc = "register" => notes = <<>>

IInv == /\ TypeOK
        /\ ReadsInside
        /\ CarriersApart
        /\ NotesApart
        /\ NotesPlaced
        /\ NothingBeforeParse

\* The context of gnu_property.asm starts with no carrier, note or fact.
THEOREM InitInv == Init => IInv
  <1> SUFFICES ASSUME Init PROVE IInv
    OBVIOUS
  <1>1. target \in Target
    BY GnuPropertyAssumption DEF Init, Begins
  <1>2. {CarrierMax, ContributorMax, NoteMax, NoteScanMax, EntryMax} \subseteq Nat
    BY GnuPropertyAssumption
  <1>3. CarrierMax \in Nat /\ ContributorMax \in Nat /\ NoteMax \in Nat /\ NoteScanMax \in Nat
        /\ EntryMax \in Nat
    BY <1>2
  <1>4. TypeOK
    BY <1>1, <1>3 DEF Init, Begins, TypeOK, EXIT_OK, EXIT_MALFORMED_ELF, EXIT_UNSUPPORTED
  <1>5. ReadsInside /\ CarriersApart /\ NotesApart /\ NotesPlaced /\ NothingBeforeParse
    BY DEF Init, Begins, ReadsInside, CarriersInFile, CursorInCarrier, PropertyInNote, CarriersApart,
           NotesApart, NotesPlaced, NothingBeforeParse
  <1> QED BY <1>4, <1>5 DEF IInv

-----------------------------------------------------------------------------
(* What is read now.                                                       *)

LEMMA FileTyped ==
    ASSUME TypeOK
    PROVE  target.file \in Seq(Byte) /\ Len(target.file) \in Nat
  <1>1. target.file \in Seq(Byte)
    BY DEF TypeOK, Target
  <1> QED BY <1>1

LEMMA CarrierTyped ==
    ASSUME TypeOK, NEW k \in DOMAIN carriers
    PROVE  /\ carriers[k] \in Carrier
           /\ carriers[k].offset \in Nat /\ carriers[k].size \in Nat
           /\ k \in Nat /\ k <= Len(carriers)
  <1>1. carriers \in Seq(Carrier)
    BY DEF TypeOK
  <1>2. carriers[k] \in Carrier /\ k \in Nat /\ k <= Len(carriers)
    BY <1>1
  <1> QED BY <1>2 DEF Carrier

LEMMA HeaderTyped ==
    ASSUME TypeOK, Registering
    PROVE  /\ Current.type \in {"NOTE", "PROPERTY"}
           /\ Current.offset \in Nat /\ Current.filesz \in Nat
  <1>1. target.headers \in Seq(Header)
    BY DEF TypeOK, Target
  <1>2. index \in 1 .. Len(target.headers)
    BY <1>1 DEF TypeOK, Registering
  <1>3. Current \in Header
    BY <1>1, <1>2 DEF Current
  <1> QED BY <1>3 DEF Header

LEMMA ViewTyped ==
    ASSUME TypeOK, CarriersInFile, slot \in DOMAIN carriers
    PROVE  /\ View.offset \in Nat /\ View.size \in Nat /\ End \in Nat
           /\ End = View.offset + View.size /\ End <= Len(target.file)
           /\ Align \in {4, 8}
  <1>1. View.offset \in Nat /\ View.size \in Nat
    BY CarrierTyped DEF View
  <1>2. View.offset + View.size <= Len(target.file)
    BY DEF CarriersInFile, View
  <1> QED BY <1>1, <1>2 DEF End, Align

LEMMA NoteBounds ==
    ASSUME TypeOK, CarriersInFile, slot \in DOMAIN carriers, cursor + HeaderSize <= End
    PROVE  /\ Name \in Nat /\ Desc \in Nat /\ DescLimit \in Nat /\ NextNote \in Nat
           /\ cursor + HeaderSize <= Desc /\ Desc <= DescLimit /\ DescLimit <= NextNote
  <1>1. cursor \in Nat /\ HeaderSize \in Nat
    BY DEF TypeOK, HeaderSize
  <1>2. cursor + HeaderSize <= Len(target.file)
    BY <1>1, ViewTyped, FileTyped
  <1>3. /\ Name \in Nat /\ Desc \in Nat /\ DescLimit \in Nat /\ NextNote \in Nat
        /\ cursor + HeaderSize <= Name /\ Name <= Desc
        /\ Desc <= DescLimit /\ DescLimit <= NextNote
    BY <1>1, <1>2, ViewTyped, FileTyped, NoteLayout DEF Name, Desc, DescLimit, NextNote
  <1> QED BY <1>1, <1>3

LEMMA PropertyBounds ==
    ASSUME TypeOK, CarriersInFile, PropertyInNote, pc = "property",
           property + EntryHeaderSize <= DescLimit
    PROVE  /\ Type \in Nat /\ NextProperty \in Nat
           /\ property + EntryHeaderSize <= NextProperty
  <1>1. /\ slot \in DOMAIN carriers /\ NextNote <= End /\ cursor + HeaderSize <= End
        /\ property \in Desc .. DescLimit
    BY DEF PropertyInNote
  <1>2. /\ Desc \in Nat /\ DescLimit \in Nat /\ NextNote \in Nat /\ DescLimit <= NextNote
    BY <1>1, NoteBounds
  <1>3. property \in Nat /\ Desc <= property
    BY <1>1, <1>2
  <1>4. property + EntryHeaderSize <= Len(target.file)
    BY <1>1, <1>2, <1>3, ViewTyped, FileTyped DEF EntryHeaderSize
  <1> QED BY <1>2, <1>3, <1>4, FileTyped, PropertyLayout DEF Type, NextProperty

-----------------------------------------------------------------------------
(* Registration adds a carrier that is apart from the others, or merges.   *)

LEMMA NewCarrier ==
    ASSUME TypeOK, CarriersInFile, CarriersApart, CarrierAdded
    PROVE  /\ carriers' \in Seq(Carrier) /\ Len(carriers') <= CarrierMax
           /\ CarriersInFile' /\ CarriersApart'
  <1> DEFINE new == [offset |-> Current.offset, size |-> Current.filesz,
                     kinds |-> {Current.type}, aligns |-> {CarrierAlign}]
  <1>1. /\ Current.type \in {"NOTE", "PROPERTY"}
        /\ Current.offset \in Nat /\ Current.filesz \in Nat
    BY HeaderTyped DEF CarrierAdded
  <1>2. new \in Carrier
    BY <1>1 DEF Carrier, CarrierAlign
  <1>3. carriers \in Seq(Carrier) /\ carriers' = Append(carriers, new)
    BY DEF TypeOK, CarrierAdded
  <1>4. new.offset = Current.offset /\ new.size = Current.filesz
    OBVIOUS
  <1> HIDE DEF new
  <1>5. /\ carriers' \in Seq(Carrier) /\ Len(carriers') = Len(carriers) + 1
        /\ \A k \in 1 .. Len(carriers) : carriers'[k] = carriers[k]
        /\ carriers'[Len(carriers) + 1] = new
        /\ DOMAIN carriers' = 1 .. Len(carriers) + 1 /\ DOMAIN carriers = 1 .. Len(carriers)
        /\ Len(carriers) \in Nat
    BY <1>2, <1>3, AppendProperties
  <1>6. Len(carriers) < CarrierMax /\ CarrierMax \in Nat
    <2>1. {CarrierMax} \subseteq Nat
      BY GnuPropertyAssumption
    <2> QED BY <2>1 DEF CarrierAdded
  <1>7. Current.offset + Current.filesz <= Len(target.file) /\ target' = target
    BY <1>1, FileTyped DEF CarrierAdded, Contribute, HeaderStatus, EXIT_OK, EXIT_UNSUPPORTED,
                           EXIT_MALFORMED_ELF
  <1>8. CarriersInFile'
    BY <1>4, <1>5, <1>7 DEF CarriersInFile
  <1>9. \A k \in DOMAIN carriers : RangesApart(carriers[k], new) /\ RangesApart(new, carriers[k])
    <2> TAKE k \in DOMAIN carriers
    <2>1. ~Overlaps(carriers[k])
      BY DEF CarrierAdded, Met
    <2>2. carriers[k].offset \in Nat /\ carriers[k].size \in Nat
      BY CarrierTyped
    <2> QED BY <1>1, <1>4, <2>1, <2>2 DEF Overlaps, RangesApart
  <1>10. CarriersApart'
    <2> SUFFICES ASSUME NEW j \in DOMAIN carriers', NEW k \in DOMAIN carriers', j # k
                 PROVE  RangesApart(carriers'[j], carriers'[k])
      BY DEF CarriersApart, RangesApart
    <2>1. CASE j \in DOMAIN carriers /\ k \in DOMAIN carriers
      BY <1>5, <2>1 DEF CarriersApart
    <2>2. CASE j \in DOMAIN carriers /\ k = Len(carriers) + 1
      BY <1>5, <1>9, <2>2
    <2>3. CASE j = Len(carriers) + 1 /\ k \in DOMAIN carriers
      BY <1>5, <1>9, <2>3
    <2> QED BY <1>5, <2>1, <2>2, <2>3
  <1> QED BY <1>5, <1>6, <1>8, <1>10

LEMMA MergedCarrier ==
    ASSUME TypeOK, CarriersInFile, CarriersApart, CarrierShared
    PROVE  /\ carriers' \in Seq(Carrier) /\ Len(carriers') <= CarrierMax
           /\ CarriersInFile' /\ CarriersApart'
  <1>1. PICK k \in DOMAIN carriers : carriers' = [carriers EXCEPT ![k] = Merged(carriers[k])]
    BY DEF CarrierShared
  <1>2. Current.type \in {"NOTE", "PROPERTY"} /\ CarrierAlign \in {4, 8}
    BY HeaderTyped DEF CarrierShared, CarrierAlign
  <1>3. carriers[k] \in Carrier
    BY CarrierTyped
  <1>4. /\ Merged(carriers[k]) \in Carrier
        /\ Merged(carriers[k]).offset = carriers[k].offset
        /\ Merged(carriers[k]).size = carriers[k].size
    BY <1>2, <1>3 DEF Merged, Carrier
  <1>5. carriers \in Seq(Carrier) /\ Len(carriers) <= CarrierMax /\ target' = target
    BY DEF TypeOK, CarrierShared, Contribute
  <1>6. /\ carriers' \in Seq(Carrier) /\ Len(carriers') = Len(carriers)
        /\ DOMAIN carriers' = DOMAIN carriers
    BY <1>1, <1>4, <1>5, ExceptSeq
  <1>7. \A j \in DOMAIN carriers : /\ carriers'[j].offset = carriers[j].offset
                                   /\ carriers'[j].size = carriers[j].size
    BY <1>1, <1>4, <1>5
  <1>8. CarriersInFile'
    BY <1>5, <1>6, <1>7 DEF CarriersInFile
  <1>9. CarriersApart'
    BY <1>6, <1>7 DEF CarriersApart, RangesApart
  <1> QED BY <1>5, <1>6, <1>8, <1>9

-----------------------------------------------------------------------------
(* Every step keeps the types.                                             *)

LEMMA LimitsTyped ==
    /\ CarrierMax \in Nat /\ ContributorMax \in Nat /\ NoteMax \in Nat
    /\ NoteScanMax \in Nat /\ EntryMax \in Nat
  <1>1. {CarrierMax, ContributorMax, NoteMax, NoteScanMax, EntryMax} \subseteq Nat
    BY GnuPropertyAssumption
  <1> QED BY <1>1

LEMMA RefuseKeepsTypes ==
    ASSUME TypeOK, NEW rax \in {EXIT_MALFORMED_ELF, EXIT_UNSUPPORTED}, Refuse(rax)
    PROVE  TypeOK'
  BY DEF TypeOK, Refuse

LEMMA StepTypes ==
    ASSUME TypeOK, ReadsInside, CarriersApart, [Next]_vars
    PROVE  TypeOK'
  <1> USE DEF EXIT_OK, EXIT_MALFORMED_ELF, EXIT_UNSUPPORTED
  <1>1. CASE CarrierRefused \/ CarrierOverlaps \/ CarriersFull \/ TailRefused \/ NoteRefused
               \/ PropertyNoteRefused \/ PropertyRefused
    <2>1. HeaderStatus \in {0, EXIT_MALFORMED_ELF, EXIT_UNSUPPORTED}
      BY DEF HeaderStatus
    <2>2. NoteStatus \in {0, EXIT_MALFORMED_ELF, EXIT_UNSUPPORTED}
      BY DEF NoteStatus
    <2>3. PropertyStatus \in {0, EXIT_MALFORMED_ELF, EXIT_UNSUPPORTED}
      BY DEF PropertyStatus
    <2> QED BY <1>1, <2>1, <2>2, <2>3, RefuseKeepsTypes
            DEF CarrierRefused, CarrierOverlaps, CarriersFull, TailRefused, NoteRefused,
                PropertyNoteRefused, PropertyRefused
  <1>2. ASSUME CarrierAdded \/ CarrierShared PROVE TypeOK'
    <2>1. carriers' \in Seq(Carrier) /\ Len(carriers') <= CarrierMax
      BY <1>2, NewCarrier, MergedCarrier DEF ReadsInside
    <2>2. /\ UNCHANGED <<target, pc, slot, cursor, property, prior, scanned, entries, notes, status>>
          /\ index' = index + 1
      BY <1>2 DEF CarrierAdded, CarrierShared, Contribute
    <2>3. PICK k \in Nat : contributors' = Append(contributors, [index |-> index,
                                                  type |-> Current.type, slot |-> k])
      <3>1. CASE CarrierAdded
        BY <3>1 DEF TypeOK, CarrierAdded, Contribute
      <3>2. CASE CarrierShared
        BY <3>2, CarrierTyped DEF CarrierShared, Contribute
      <3> QED BY <1>2, <3>1, <3>2
    <2> DEFINE Contributor == [index : Nat, type : {"NOTE", "PROPERTY"}, slot : Nat]
    <2>4. [index |-> index, type |-> Current.type, slot |-> k] \in Contributor
      BY <1>2, HeaderTyped DEF TypeOK, CarrierAdded, CarrierShared
    <2>5. contributors \in Seq(Contributor) /\ Len(contributors) < ContributorMax
      BY <1>2, LimitsTyped DEF TypeOK, CarrierAdded, CarrierShared, ContributorsFull
    <2> HIDE DEF Contributor
    <2>6. contributors' \in Seq(Contributor) /\ Len(contributors') = Len(contributors) + 1
      BY <2>3, <2>4, <2>5, AppendProperties
    <2>7. Len(contributors') <= ContributorMax
      BY <2>5, <2>6, LimitsTyped
    <2> QED BY <2>1, <2>2, <2>6, <2>7 DEF TypeOK, Contributor
  <1>3. CASE Registered \/ LastCarrier
    BY <1>3 DEF TypeOK, Registered, LastCarrier
  <1>4. CASE BeginCarrier
    <2>1. slot \in DOMAIN carriers
      BY <1>4 DEF TypeOK, BeginCarrier
    <2>2. View.offset \in Nat
      BY <2>1, ViewTyped DEF ReadsInside
    <2> QED BY <1>4, <2>2 DEF TypeOK, BeginCarrier
  <1>5. CASE NoteTail
    BY <1>5 DEF TypeOK, NoteTail
  <1>6. CASE NoteSkipped \/ PropertyNote
    <2>1. slot \in DOMAIN carriers /\ cursor + HeaderSize <= End
      BY <1>6 DEF ReadsInside, CursorInCarrier, NoteSkipped, PropertyNote, NoteRead, AtNote
    <2>2. Desc \in Nat /\ NextNote \in Nat /\ cursor <= NextNote /\ cursor \in Nat
      BY <2>1, NoteBounds DEF ReadsInside, TypeOK, HeaderSize
    <2>3. scanned + 1 \in 0 .. NoteScanMax
      BY <1>6, LimitsTyped DEF TypeOK, NoteSkipped, PropertyNote, NoteRead, ScansExhausted
    <2>4. CASE NoteSkipped
      BY <2>2, <2>3, <2>4 DEF TypeOK, NoteSkipped
    <2>5. CASE PropertyNote
      <3>1. ThisNote \in [offset : Nat, size : Nat]
        BY <2>2 DEF ThisNote
      <3>2. notes \in Seq([offset : Nat, size : Nat]) /\ Len(notes) < NoteMax
        BY <2>5, LimitsTyped DEF TypeOK, PropertyNote, NoteStatus
      <3>3. notes' \in Seq([offset : Nat, size : Nat]) /\ Len(notes') <= NoteMax
        BY <2>5, <3>1, <3>2, LimitsTyped, AppendProperties DEF PropertyNote
      <3>4. /\ UNCHANGED <<target, index, carriers, contributors, slot, cursor, entries, status>>
            /\ scanned' = scanned + 1 /\ property' = Desc /\ prior' = {} /\ pc' = "property"
        BY <2>5 DEF PropertyNote
      <3> QED BY <2>2, <2>3, <3>3, <3>4 DEF TypeOK
    <2> QED BY <1>6, <2>4, <2>5
  <1>7. CASE UnknownProperty \/ FeatureProperty
    <2>1. PropertyStatus = 0 /\ pc = "property" /\ NextEntry
      BY <1>7 DEF UnknownProperty, FeatureProperty, AtProperty
    <2>2. ~(property + EntryHeaderSize > DescLimit) /\ ~(entries >= EntryMax)
      BY <2>1 DEF PropertyStatus
    <2>3. slot \in DOMAIN carriers /\ cursor + HeaderSize <= End /\ property \in Desc .. DescLimit
      BY <2>1 DEF ReadsInside, PropertyInNote
    <2>4. Desc \in Nat /\ DescLimit \in Nat
      BY <2>3, NoteBounds DEF ReadsInside
    <2>5. Type \in Nat /\ NextProperty \in Nat
      BY <2>1, <2>2, <2>3, <2>4, PropertyBounds DEF ReadsInside, EntryHeaderSize
    <2>6. entries + 1 \in 0 .. EntryMax
      BY <2>2, LimitsTyped DEF TypeOK
    <2> QED BY <2>1, <2>5, <2>6 DEF TypeOK, NextEntry
  <1>8. CASE PropertiesEnd
    <2>1. slot \in DOMAIN carriers /\ cursor + HeaderSize <= End
      BY <1>8 DEF ReadsInside, PropertyInNote, PropertiesEnd
    <2>2. NextNote \in Nat
      BY <2>1, NoteBounds DEF ReadsInside
    <2> QED BY <1>8, <2>2 DEF TypeOK, PropertiesEnd
  <1>9. CASE Finalize
    BY <1>9 DEF TypeOK, Finalize
  <1>10. CASE UNCHANGED vars
    BY <1>10 DEF TypeOK, vars
  <1> QED BY <1>1, <1>2, <1>3, <1>4, <1>5, <1>6, <1>7, <1>8, <1>9, <1>10
          DEF Next, Register, Parse, Done

-----------------------------------------------------------------------------
(* Every step keeps the cursors inside.                                    *)

LEMMA StepReads ==
    ASSUME TypeOK, ReadsInside, CarriersApart, [Next]_vars
    PROVE  ReadsInside' /\ CarriersApart'
  <1> USE DEF ReadsInside
  <1>1. ASSUME UNCHANGED <<target, carriers>> PROVE CarriersInFile' /\ CarriersApart'
    BY <1>1 DEF CarriersInFile, CarriersApart, RangesApart
  <1>2. CASE CarrierAdded \/ CarrierShared
    <2>1. pc' = "register"
      BY <1>2 DEF CarrierAdded, CarrierShared, Registering, Contribute
    <2>2. CarriersInFile' /\ CarriersApart'
      BY <1>2, NewCarrier, MergedCarrier
    <2>3. CursorInCarrier' /\ PropertyInNote'
      BY ONLY <2>1 DEF CursorInCarrier, PropertyInNote
    <2> QED BY <2>2, <2>3
  <1>3. ASSUME UNCHANGED <<target, carriers>>, pc' \notin {"note", "property"}
        PROVE  ReadsInside' /\ CarriersApart'
    BY <1>1, <1>3 DEF CursorInCarrier, PropertyInNote
  <1>4. CASE BeginCarrier
    <2>1. slot \in DOMAIN carriers
      BY <1>4 DEF TypeOK, BeginCarrier
    <2>2. View.offset \in View.offset .. End
      BY <2>1, ViewTyped
    <2>3. UNCHANGED <<target, carriers, slot>> /\ pc' = "note" /\ cursor' = View.offset
      BY <1>4 DEF BeginCarrier
    <2>4. CursorInCarrier'
      BY <2>1, <2>2, <2>3 DEF CursorInCarrier, View, End
    <2> QED BY <1>1, <2>3, <2>4 DEF PropertyInNote
  <1>5. ASSUME slot \in DOMAIN carriers, View.offset <= cursor, cursor + HeaderSize <= End,
               NextNote <= End, cursor' = NextNote, pc' = "note",
               UNCHANGED <<target, carriers, slot>>
        PROVE  ReadsInside' /\ CarriersApart'
    <2>1. View.offset \in Nat /\ End \in Nat /\ cursor \in Nat
      BY <1>5, ViewTyped DEF TypeOK
    <2>2. NextNote \in View.offset .. End
      BY <1>5, <2>1, NoteBounds DEF HeaderSize
    <2>3. CursorInCarrier'
      BY <1>5, <2>2 DEF CursorInCarrier, View, End
    <2> QED BY <1>1, <1>5, <2>3 DEF PropertyInNote
  <1>6. CASE NoteSkipped \/ PropertyNote
    <2>1. /\ slot \in DOMAIN carriers /\ cursor \in View.offset .. End
          /\ cursor + HeaderSize <= End /\ NextNote <= End
      BY <1>6 DEF CursorInCarrier, NoteSkipped, PropertyNote, NoteRead, AtNote, NoteFits
    <2>2. View.offset <= cursor
      BY <2>1, ViewTyped DEF TypeOK
    <2>3. CASE NoteSkipped
      <3>1. cursor' = NextNote /\ pc' = "note" /\ UNCHANGED <<target, carriers, slot>>
        BY <2>3 DEF NoteSkipped, NoteRead, AtNote
      <3> QED BY <1>5, <2>1, <2>2, <3>1
    <2>4. CASE PropertyNote
      <3>1. UNCHANGED <<target, carriers, slot, cursor>> /\ pc' = "property" /\ property' = Desc
        BY <2>4 DEF PropertyNote
      <3>2. Desc \in Desc .. DescLimit
        BY <2>1, NoteBounds
      <3>3. /\ View' = View /\ End' = End /\ Desc' = Desc /\ DescLimit' = DescLimit
            /\ NextNote' = NextNote
        BY <3>1 DEF View, End, Align, Desc, DescLimit, NextNote
      <3>4. PropertyInNote'
        BY <2>1, <2>2, <3>1, <3>2, <3>3 DEF PropertyInNote
      <3> QED BY <1>1, <3>1, <3>4 DEF CursorInCarrier
    <2> QED BY <1>6, <2>3, <2>4
  <1>7. CASE UnknownProperty \/ FeatureProperty
    <2>1. PropertyStatus = 0 /\ pc = "property" /\ NextEntry
      BY <1>7 DEF UnknownProperty, FeatureProperty, AtProperty, EXIT_OK
    <2>2. ~(property + EntryHeaderSize > DescLimit) /\ ~(NextProperty > DescLimit)
      BY <2>1 DEF PropertyStatus, EXIT_MALFORMED_ELF, EXIT_UNSUPPORTED, EXIT_OK
    <2>3. /\ slot \in DOMAIN carriers /\ View.offset <= cursor /\ cursor + HeaderSize <= End
          /\ NextNote <= End /\ property \in Desc .. DescLimit
      BY <2>1 DEF PropertyInNote
    <2>4. Desc \in Nat /\ DescLimit \in Nat
      BY <2>3, NoteBounds
    <2>5. property + EntryHeaderSize <= DescLimit
      BY <2>2, <2>3, <2>4 DEF EntryHeaderSize
    <2>6. NextProperty \in Nat /\ property + EntryHeaderSize <= NextProperty
      BY <2>1, <2>5, PropertyBounds
    <2>7. NextProperty \in Desc .. DescLimit
      BY <2>2, <2>3, <2>4, <2>6 DEF EntryHeaderSize
    <2>8. /\ UNCHANGED <<target, carriers, slot, cursor>> /\ pc' = "property"
          /\ property' = NextProperty
      BY <2>1 DEF NextEntry
    <2>9. /\ View' = View /\ End' = End /\ Desc' = Desc /\ DescLimit' = DescLimit
          /\ NextNote' = NextNote
      BY <2>8 DEF View, End, Align, Desc, DescLimit, NextNote
    <2>10. PropertyInNote'
      BY <2>3, <2>7, <2>8, <2>9 DEF PropertyInNote
    <2> QED BY <1>1, <2>8, <2>10 DEF CursorInCarrier
  <1>8. CASE PropertiesEnd
    <2>1. /\ slot \in DOMAIN carriers /\ View.offset <= cursor /\ cursor + HeaderSize <= End
          /\ NextNote <= End
      BY <1>8 DEF PropertyInNote, PropertiesEnd
    <2> QED BY <1>5, <1>8, <2>1 DEF PropertiesEnd
  <1>9. CASE UNCHANGED vars
    <2>1. UNCHANGED <<target, carriers, slot, cursor, property, pc>>
      BY <1>9 DEF vars
    <2>2. /\ View' = View /\ End' = End /\ Desc' = Desc /\ DescLimit' = DescLimit
          /\ NextNote' = NextNote
      BY <2>1 DEF View, End, Align, Desc, DescLimit, NextNote
    <2> QED BY <1>1, <2>1, <2>2 DEF CursorInCarrier, PropertyInNote
  <1>10. CASE CarrierRefused \/ CarrierOverlaps \/ CarriersFull \/ TailRefused \/ NoteRefused
                \/ PropertyNoteRefused \/ PropertyRefused
    BY <1>3, <1>10 DEF CarrierRefused, CarrierOverlaps, CarriersFull, TailRefused, NoteRefused,
                       PropertyNoteRefused, PropertyRefused, Refuse
  <1>11. CASE Registered \/ LastCarrier \/ NoteTail \/ Finalize
    BY <1>3, <1>11 DEF Registered, LastCarrier, NoteTail, Finalize
  <1> QED BY <1>2, <1>4, <1>6, <1>7, <1>8, <1>9, <1>10, <1>11
          DEF Next, Register, Parse, Done

-----------------------------------------------------------------------------
(* Every step keeps the notes apart, behind what is read.                  *)

LEMMA PlacedTyped ==
    ASSUME TypeOK, NEW k \in DOMAIN notes
    PROVE  /\ notes[k].offset \in Nat /\ notes[k].size \in Nat
           /\ k \in Nat
  <1> DEFINE NoteRange == [offset : Nat, size : Nat]
  <1>1. notes \in Seq(NoteRange)
    BY DEF TypeOK
  <1> HIDE DEF NoteRange
  <1>2. notes[k] \in NoteRange /\ k \in Nat
    BY <1>1
  <1> QED BY <1>2 DEF NoteRange

\* The notes that are kept lie before the note that is read.
LEMMA NoteIsNew ==
    ASSUME IInv, pc = "note", slot \in DOMAIN carriers, cursor + HeaderSize <= End,
           NextNote <= End, NEW k \in DOMAIN notes
    PROVE  /\ ThisNote.offset \in Nat /\ ThisNote.size \in Nat /\ ThisNote.size > 0
           /\ \/ notes[k].offset + notes[k].size <= ThisNote.offset
              \/ ThisNote.offset + ThisNote.size <= notes[k].offset
  <1>1. TypeOK /\ CarriersInFile /\ CarriersApart /\ Placed(notes[k]) /\ notes[k].size > 0
        /\ cursor \in View.offset .. End
    BY DEF IInv, ReadsInside, NotesPlaced, CursorInCarrier
  <1>2. /\ notes[k].offset \in Nat /\ notes[k].size \in Nat
        /\ cursor \in Nat /\ View.offset <= cursor /\ View.offset \in Nat /\ View.size \in Nat
        /\ End = View.offset + View.size
    BY <1>1, PlacedTyped, ViewTyped DEF TypeOK
  <1>3. NextNote \in Nat /\ cursor + HeaderSize <= NextNote
    BY <1>1, <1>2, NoteBounds DEF HeaderSize
  <1>4. /\ ThisNote.offset = cursor /\ ThisNote.offset + ThisNote.size = NextNote
        /\ ThisNote.size \in Nat /\ ThisNote.size > 0
    BY <1>2, <1>3 DEF ThisNote, HeaderSize
  <1>5. PICK j \in DOMAIN carriers :
           /\ carriers[j].offset <= notes[k].offset
           /\ notes[k].offset + notes[k].size <= carriers[j].offset + carriers[j].size
           /\ j < slot \/ (j = slot /\ notes[k].offset + notes[k].size <= cursor)
    BY <1>1 DEF Placed
  <1>6. CASE j = slot
    <2>1. ~(j < slot)
      BY <1>1, <1>6 DEF TypeOK
    <2> QED BY <1>2, <1>4, <1>5, <2>1
  <1>7. CASE j # slot
    <2>1. RangesApart(carriers[j], View)
      BY <1>1, <1>7 DEF CarriersApart, View
    <2>2. carriers[j].offset \in Nat /\ carriers[j].size \in Nat
      BY <1>1, CarrierTyped
    <2> QED BY <1>1, <1>2, <1>3, <1>4, <1>5, <2>1, <2>2 DEF RangesApart, HeaderSize
  <1> QED BY <1>2, <1>4, <1>6, <1>7

LEMMA StepPlaced ==
    ASSUME IInv, [Next]_vars
    PROVE  NotesApart' /\ NotesPlaced' /\ NothingBeforeParse'
  <1>1. /\ TypeOK /\ ReadsInside /\ CarriersInFile /\ CarriersApart
        /\ NotesApart /\ NotesPlaced /\ NothingBeforeParse
    BY DEF IInv, ReadsInside
  <1>2. ASSUME notes' = notes PROVE NotesApart'
    BY <1>1, <1>2 DEF NotesApart, RangesApart
  <1>3. CASE CarrierAdded \/ CarrierShared \/ Registered
    <2>1. notes' = <<>>
      BY <1>1, <1>3 DEF NothingBeforeParse, CarrierAdded, CarrierShared, Registered, Registering,
                        Contribute
    <2> QED BY <2>1 DEF NotesApart, NotesPlaced, NothingBeforeParse
  <1>4. ASSUME UNCHANGED <<notes, carriers>>, pc' \in {"done", "finalize"}
        PROVE  NotesPlaced' /\ NothingBeforeParse'
    BY <1>1, <1>4 DEF NotesPlaced, Placed, NothingBeforeParse
  <1>5. CASE CarrierRefused \/ CarrierOverlaps \/ CarriersFull \/ TailRefused \/ NoteRefused
               \/ PropertyNoteRefused \/ PropertyRefused \/ LastCarrier \/ Finalize
    <2>1. UNCHANGED <<notes, carriers>> /\ pc' \in {"done", "finalize"}
      BY <1>5 DEF CarrierRefused, CarrierOverlaps, CarriersFull, TailRefused, NoteRefused,
                  PropertyNoteRefused, PropertyRefused, Refuse, LastCarrier, Finalize
    <2> QED BY <1>2, <1>4, <2>1
  <1>6. CASE BeginCarrier
    <2>1. UNCHANGED <<notes, carriers, slot>> /\ pc = "carrier" /\ pc' = "note"
      BY <1>6 DEF BeginCarrier
    <2>2. NotesPlaced' /\ NothingBeforeParse'
      <3>1. NothingBeforeParse'
        BY <2>1 DEF NothingBeforeParse
      <3> SUFFICES ASSUME NEW k \in DOMAIN notes
                   PROVE  notes[k].size > 0 /\ Placed(notes[k])'
        BY <2>1, <3>1 DEF NotesPlaced, Placed
      <3>2. notes[k].size > 0 /\ Placed(notes[k])
        BY <1>1 DEF NotesPlaced
      <3>3. PICK j \in DOMAIN carriers :
               /\ carriers[j].offset <= notes[k].offset
               /\ notes[k].offset + notes[k].size <= carriers[j].offset + carriers[j].size
               /\ j < slot
        BY <2>1, <3>2 DEF Placed
      <3>4. notes' = notes /\ carriers' = carriers /\ j < slot' /\ pc' = "note"
        BY <2>1, <3>3
      <3>5. notes[k].size > 0
        BY <3>2
      <3> QED BY ONLY <3>3, <3>4, <3>5 DEF Placed
    <2> QED BY <1>2, <2>1, <2>2
  <1>7. CASE NoteTail
    <2>1. /\ UNCHANGED <<notes, carriers>> /\ slot' = slot + 1
          /\ pc = "note" /\ pc' = "carrier" /\ slot \in Nat
      BY <1>1, <1>7 DEF NoteTail, AtTail, TypeOK
    <2>2. NotesPlaced' /\ NothingBeforeParse'
      <3>1. NothingBeforeParse'
        BY <2>1 DEF NothingBeforeParse
      <3> SUFFICES ASSUME NEW k \in DOMAIN notes
                   PROVE  notes[k].size > 0 /\ Placed(notes[k])'
        BY <2>1, <3>1 DEF NotesPlaced, Placed
      <3>2. notes[k].size > 0 /\ Placed(notes[k])
        BY <1>1 DEF NotesPlaced
      <3>3. PICK j \in DOMAIN carriers :
               /\ carriers[j].offset <= notes[k].offset
               /\ notes[k].offset + notes[k].size <= carriers[j].offset + carriers[j].size
               /\ j < slot \/ j = slot
        BY <2>1, <3>2 DEF Placed
      <3>4. j < slot'
        BY <1>1, <2>1, <3>3, CarrierTyped
      <3> QED BY <2>1, <3>2, <3>3, <3>4 DEF Placed
    <2> QED BY <1>2, <2>1, <2>2
  <1>8. ASSUME NEW k \in DOMAIN notes, slot \in DOMAIN carriers, cursor + HeaderSize <= End,
               Placed(notes[k]), pc = "note"
        PROVE  notes[k].offset + notes[k].size <= cursor
                 => notes[k].offset + notes[k].size <= NextNote
    <2>1. /\ cursor \in Nat /\ NextNote \in Nat /\ cursor <= NextNote
      <3>1. /\ Desc \in Nat /\ DescLimit \in Nat /\ NextNote \in Nat
            /\ cursor + HeaderSize <= Desc /\ Desc <= DescLimit /\ DescLimit <= NextNote
        BY <1>1, <1>8, NoteBounds
      <3>2. cursor \in Nat
        BY <1>1 DEF TypeOK
      <3> QED BY ONLY <3>1, <3>2 DEF HeaderSize
    <2>2. notes[k].offset + notes[k].size \in Nat
      BY <1>1, PlacedTyped
    <2> QED BY <2>1, <2>2
  <1>9. CASE NoteSkipped
    <2>1. /\ UNCHANGED <<notes, carriers, slot>> /\ cursor' = NextNote
          /\ pc = "note" /\ pc' = "note"
      BY <1>9 DEF NoteSkipped, NoteRead, AtNote
    <2>2. slot \in DOMAIN carriers /\ cursor + HeaderSize <= End
      BY <1>1, <1>9 DEF ReadsInside, CursorInCarrier, NoteSkipped, NoteRead, AtNote
    <2>3. \A k \in DOMAIN notes : notes[k].size > 0 /\ Placed(notes[k])
      BY <1>1 DEF NotesPlaced
    <2>4. \A k \in DOMAIN notes : Placed(notes[k])'
      BY <1>8, <2>1, <2>2, <2>3 DEF Placed
    <2>5. NotesPlaced' /\ NothingBeforeParse'
      BY <2>1, <2>3, <2>4 DEF NotesPlaced, Placed, NothingBeforeParse
    <2> QED BY <1>2, <2>1, <2>5
  <1>10. CASE PropertyNote
    <2>1. /\ UNCHANGED <<target, carriers, slot, cursor>> /\ notes' = Append(notes, ThisNote)
          /\ pc = "note" /\ pc' = "property"
      BY <1>10 DEF PropertyNote, NoteRead, AtNote
    <2>2. /\ slot \in DOMAIN carriers /\ cursor + HeaderSize <= End
          /\ NextNote <= End
      BY <1>1, <1>10 DEF ReadsInside, CursorInCarrier, PropertyNote, NoteRead, AtNote, NoteFits
    <2>3. NextNote' = NextNote
      BY <2>1 DEF NextNote, Align, View
    <2>4. /\ cursor \in Nat /\ View.offset \in Nat /\ View.offset <= cursor
          /\ End = View.offset + View.size
      BY <1>1, <2>1, <2>2, ViewTyped DEF TypeOK, ReadsInside, CursorInCarrier
    <2>5. NextNote \in Nat /\ cursor + HeaderSize <= NextNote
      BY <1>1, <2>2, <2>4, NoteBounds DEF HeaderSize
    <2>6. /\ ThisNote \in [offset : Nat, size : Nat] /\ ThisNote.size > 0
          /\ ThisNote.offset = cursor /\ ThisNote.offset + ThisNote.size = NextNote
      BY <2>4, <2>5 DEF ThisNote, HeaderSize
    <2>7. notes \in Seq([offset : Nat, size : Nat])
      BY <1>1 DEF TypeOK
    <2>8. /\ \A k \in DOMAIN notes : notes'[k] = notes[k]
          /\ notes'[Len(notes) + 1] = ThisNote
          /\ DOMAIN notes' = 1 .. Len(notes) + 1 /\ DOMAIN notes = 1 .. Len(notes)
          /\ Len(notes) \in Nat
      BY <2>1, <2>6, <2>7, AppendProperties
    <2>9. NotesApart'
      <3>1. \A k \in DOMAIN notes : RangesApart(notes[k], ThisNote) /\ RangesApart(ThisNote, notes[k])
        BY <2>1, <2>2, NoteIsNew DEF RangesApart
      <3> SUFFICES ASSUME NEW j \in DOMAIN notes', NEW k \in DOMAIN notes', j # k
                   PROVE  RangesApart(notes'[j], notes'[k])
        BY DEF NotesApart, RangesApart
      <3>2. CASE j \in DOMAIN notes /\ k \in DOMAIN notes
        BY <1>1, <2>8, <3>2 DEF NotesApart
      <3>3. CASE j \in DOMAIN notes /\ k = Len(notes) + 1
        BY <2>8, <3>1, <3>3
      <3>4. CASE j = Len(notes) + 1 /\ k \in DOMAIN notes
        BY <2>8, <3>1, <3>4
      <3> QED BY <2>8, <3>2, <3>3, <3>4
    <2>10. \A k \in DOMAIN notes : notes[k].size > 0 /\ Placed(notes[k])
      BY <1>1 DEF NotesPlaced
    <2>11. ASSUME NEW k \in DOMAIN notes' PROVE notes'[k].size > 0 /\ Placed(notes[k])'
      <3>1. CASE k \in DOMAIN notes
        <4>1. notes'[k] = notes[k] /\ notes[k].size > 0
          BY <2>8, <2>10, <3>1
        <4>2. PICK j \in DOMAIN carriers :
                 /\ carriers[j].offset <= notes[k].offset
                 /\ notes[k].offset + notes[k].size <= carriers[j].offset + carriers[j].size
                 /\ j < slot \/ (j = slot /\ notes[k].offset + notes[k].size <= cursor)
          BY <2>1, <2>10, <3>1 DEF Placed
        <4>3. j < slot \/ (j = slot /\ notes[k].offset + notes[k].size <= NextNote)
          BY <1>8, <2>1, <2>2, <2>10, <3>1, <4>2
        <4> QED BY <2>1, <2>3, <4>1, <4>2, <4>3 DEF Placed
      <3>2. CASE k = Len(notes) + 1
        <4>1. /\ notes'[k].size > 0 /\ notes'[k].offset = cursor
              /\ notes'[k].offset + notes'[k].size = NextNote
          BY <2>6, <2>8, <3>2
        <4>2. /\ carriers[slot].offset <= cursor
              /\ NextNote <= carriers[slot].offset + carriers[slot].size
          BY <2>2, <2>4 DEF View
        <4>3. /\ carriers'[slot].offset <= notes'[k].offset
              /\ notes'[k].offset + notes'[k].size <= carriers'[slot].offset + carriers'[slot].size
              /\ notes'[k].offset + notes'[k].size <= NextNote'
              /\ slot' = slot /\ slot \in DOMAIN carriers'
          BY <2>1, <2>2, <2>3, <2>5, <4>1, <4>2
        <4> QED BY <2>1, <4>1, <4>3 DEF Placed
      <3> QED BY <2>8, <2>11, <3>1, <3>2
    <2>12. NotesPlaced'
      BY <2>11 DEF NotesPlaced
    <2> QED BY <2>1, <2>9, <2>12 DEF NothingBeforeParse
  <1>11. CASE UnknownProperty \/ FeatureProperty
    <2>1. /\ UNCHANGED <<target, carriers, slot, cursor, notes, pc>> /\ pc = "property"
      BY <1>11 DEF UnknownProperty, FeatureProperty, AtProperty, NextEntry
    <2>2. NextNote' = NextNote
      BY <2>1 DEF NextNote, Align, View
    <2>3. NotesPlaced' /\ NothingBeforeParse'
      BY <1>1, <2>1, <2>2 DEF NotesPlaced, Placed, NothingBeforeParse
    <2> QED BY <1>2, <2>1, <2>3
  <1>12. CASE PropertiesEnd
    <2>1. /\ UNCHANGED <<notes, carriers, slot>> /\ cursor' = NextNote
          /\ pc = "property" /\ pc' = "note"
      BY <1>12 DEF PropertiesEnd
    <2>2. NotesPlaced' /\ NothingBeforeParse'
      BY <1>1, <2>1 DEF NotesPlaced, Placed, NothingBeforeParse
    <2> QED BY <1>2, <2>1, <2>2
  <1>13. CASE UNCHANGED vars
    <2>1. UNCHANGED <<target, carriers, slot, cursor, notes, pc>>
      BY <1>13 DEF vars
    <2>2. NextNote' = NextNote
      BY <2>1 DEF NextNote, Align, View
    <2>3. NotesPlaced' /\ NothingBeforeParse'
      BY <1>1, <2>1, <2>2 DEF NotesPlaced, Placed, NothingBeforeParse
    <2> QED BY <1>2, <2>1, <2>3
  <1> QED BY <1>3, <1>5, <1>6, <1>7, <1>9, <1>10, <1>11, <1>12, <1>13
          DEF Next, Register, Parse, Done

-----------------------------------------------------------------------------
LEMMA InvNothingTwice == IInv => NothingTwice
  <1> SUFFICES ASSUME IInv PROVE NothingTwice
    OBVIOUS
  <1>1. CarriersApart /\ NotesApart
    BY DEF IInv
  <1>2. ASSUME NoteRead PROVE ~NoteKnown /\ ~NoteOverlaps
    <2>1. /\ slot \in DOMAIN carriers /\ cursor + HeaderSize <= End
          /\ NextNote <= End /\ pc = "note"
      BY <1>2 DEF IInv, ReadsInside, CursorInCarrier, NoteRead, AtNote, NoteFits
    <2>2. TypeOK /\ CarriersInFile /\ cursor \in Nat
      BY DEF IInv, ReadsInside, TypeOK
    <2>3. NextNote \in Nat /\ cursor + HeaderSize <= NextNote
      BY <2>1, <2>2, NoteBounds DEF HeaderSize
    <2>4. ThisNote.offset = cursor /\ ThisNote.offset + ThisNote.size = NextNote
      BY <2>2, <2>3 DEF ThisNote, HeaderSize
    <2> SUFFICES ASSUME NEW k \in DOMAIN notes
                 PROVE  /\ notes[k] # ThisNote
                        /\ ~(/\ cursor < notes[k].offset + notes[k].size
                             /\ notes[k].offset < NextNote)
      BY DEF NoteKnown, NoteOverlaps
    <2>5. /\ ThisNote.offset \in Nat /\ ThisNote.size \in Nat /\ ThisNote.size > 0
          /\ \/ notes[k].offset + notes[k].size <= ThisNote.offset
             \/ ThisNote.offset + ThisNote.size <= notes[k].offset
      BY <2>1, NoteIsNew
    <2>6. notes[k].offset \in Nat /\ notes[k].size \in Nat
      BY <2>2, PlacedTyped
    <2>7. notes[k] # ThisNote
      <3> SUFFICES ASSUME notes[k] = ThisNote PROVE FALSE
        OBVIOUS
      <3> HIDE DEF ThisNote
      <3> QED BY <2>5
    <2> QED BY <2>2, <2>3, <2>4, <2>5, <2>6, <2>7
  <1> QED BY <1>1, <1>2 DEF NothingTwice

\* Every header, note and property keeps the invariant of the parser.
THEOREM StepInv == IInv /\ [Next]_vars => IInv'
  <1> SUFFICES ASSUME IInv, [Next]_vars PROVE IInv'
    OBVIOUS
  <1>1. TypeOK /\ ReadsInside /\ CarriersApart
    BY DEF IInv
  <1> QED BY <1>1, StepTypes, StepReads, StepPlaced DEF IInv

\* The cursors of the parser stay in their carrier, and the carriers apart.
THEOREM GnuPropertyInv == Spec => []IInv
  BY InitInv, StepInv, PTL DEF Spec

\* gnu_property.asm keeps its tables within their limits and its counters within the scan limits.
THEOREM GnuPropertyTypes == Spec => []TypeOK
  <1>1. IInv => TypeOK
    BY DEF IInv
  <1> QED BY <1>1, GnuPropertyInv, PTL

\* Whatever the headers and the bytes of a file say, the cursors of
\* x64lens_gnu_property_parse stay inside a carrier that lies in the file.
THEOREM GnuPropertyReadsInside == Spec => []ReadsInside
  <1>1. IInv => ReadsInside
    BY DEF IInv
  <1> QED BY <1>1, GnuPropertyInv, PTL

\* No byte is parsed as evidence twice, for any number of carriers and notes;
\* the duplicate test of .register_note_range can never succeed.
THEOREM GnuPropertyNothingTwice == Spec => []NothingTwice
  BY InvNothingTwice, GnuPropertyInv, PTL

-----------------------------------------------------------------------------
(* Chains: what the recursive definition means.                            *)

LEMMA LeastElement ==
    ASSUME NEW T \in SUBSET Nat, T # {}
    PROVE  \E y \in T : \A z \in T : ~(z < y)
  <1> DEFINE R == OpToRel(<, Nat)
  <1>1. IsWellFoundedOn(R, Nat)
    BY NatLessThanWellFounded
  <1>2. \A a, b \in Nat : <<a, b>> \in R <=> a < b
    BY DEF OpToRel
  <1> HIDE DEF R
  <1>3. PICK y \in T : \A z \in T : ~(<<z, y>> \in R)
    BY <1>1, WFMin
  <1>4. \A z \in T : ~(z < y)
    BY <1>2, <1>3
  <1> QED BY <1>4

LEMMA SetInduction ==
    ASSUME NEW S \in SUBSET Nat, 0 \in S, \A n \in S : n + 1 \in S
    PROVE  S = Nat
  <1> SUFFICES ASSUME Nat \ S # {} PROVE FALSE
    OBVIOUS
  <1>1. PICK y \in Nat \ S : \A z \in Nat \ S : ~(z < y)
    BY LeastElement
  <1>2. y # 0 /\ y - 1 \in Nat /\ y - 1 < y
    BY <1>1
  <1>3. y - 1 \in S
    BY <1>1, <1>2
  <1>4. (y - 1) + 1 \in S
    BY <1>3
  <1> QED BY <1>1, <1>2, <1>4

\* The body of the recursive definition, for the rest of a chain that is known.
Links(ends, size, end, from, p) ==
    IF p + size > end THEN {}
    ELSE {p} \cup (IF ends[p] \in p + size .. end THEN from[ends[p]] ELSE {})

\* Items of at least size bytes each: ends gives where the next begins.
IsChain(ends, lo, size, end) ==
    lo \in Nat /\ end \in Nat /\ size \in Nat /\ size > 0 /\ DOMAIN ends = lo .. end

LEMMA ChainIs ==
    ASSUME NEW ends, NEW lo, NEW size, NEW end, IsChain(ends, lo, size, end)
    PROVE  \A p \in lo .. end :
              Chain(ends, size, end)[p] = Links(ends, size, end, Chain(ends, size, end), p)
  <1>0. lo \in Nat /\ end \in Nat /\ size \in Nat /\ size > 0 /\ DOMAIN ends = lo .. end
    BY DEF IsChain
  <1> USE <1>0
  <1> DEFINE Upper(n) == {p \in lo .. end : p + n >= end}
             Closed(g, n) == /\ g = [p \in Upper(n) |-> g[p]]
                             /\ \A p \in Upper(n) : g[p] = Links(ends, size, end, g, p)
             Closable(n) == \E g : Closed(g, n)
             S == {n \in Nat : Closable(n)}
  <1>1. ASSUME NEW n \in Nat, NEW p \in Upper(n + 1), NEW g, NEW h,
               \A q \in Upper(n) : h[q] = g[q]
        PROVE  Links(ends, size, end, g, p) = Links(ends, size, end, h, p)
    <2>1. ends[p] \in p + size .. end => ends[p] \in Upper(n)
      OBVIOUS
    <2> QED BY <1>1, <2>1 DEF Links
  <1>2. 0 \in S
    <2> DEFINE g == [p \in Upper(0) |-> {}]
    <2>1. \A p \in Upper(0) : p = end
      OBVIOUS
    <2>2. \A p \in Upper(0) : Links(ends, size, end, g, p) = {}
      BY <2>1 DEF Links
    <2>3. Closed(g, 0)
      BY <2>2
    <2> QED BY <2>3
  <1>3. ASSUME NEW n \in S PROVE n + 1 \in S
    <2>1. PICK g : Closed(g, n)
      BY <1>3
    <2> DEFINE h == [p \in Upper(n + 1) |-> IF p \in Upper(n) THEN g[p] ELSE Links(ends, size, end, g, p)]
    <2>2. Upper(n) \subseteq Upper(n + 1)
      OBVIOUS
    <2>3. \A q \in Upper(n) : h[q] = g[q]
      BY <2>2
    <2>4. \A p \in Upper(n + 1) : h[p] = Links(ends, size, end, g, p)
      BY <2>1
    <2> HIDE DEF Upper
    <2>5. \A p \in Upper(n + 1) : h[p] = Links(ends, size, end, h, p)
      <3> SUFFICES ASSUME NEW p \in Upper(n + 1) PROVE h[p] = Links(ends, size, end, h, p)
        OBVIOUS
      <3>1. h[p] = Links(ends, size, end, g, p)
        BY <2>4
      <3> HIDE DEF h
      <3>2. Links(ends, size, end, g, p) = Links(ends, size, end, h, p)
        BY <1>1, <1>3, <2>3
      <3> QED BY <3>1, <3>2
    <2>6. h = [p \in Upper(n + 1) |-> h[p]]
      OBVIOUS
    <2>7. Closed(h, n + 1)
      BY <2>5, <2>6
    <2>8. n \in Nat
      BY <1>3
    <2> HIDE DEF Closed, h
    <2> QED BY <2>7, <2>8
  <1>4. end \in S
    <2>1. S \in SUBSET Nat
      OBVIOUS
    <2> HIDE DEF S
    <2>2. S = Nat
      BY <1>2, <1>3, <2>1, SetInduction
    <2> QED BY <2>2
  <1>5. PICK g : Closed(g, end)
    BY <1>4
  <1>6. Upper(end) = lo .. end
    OBVIOUS
  <1> DEFINE Body(f) == [p \in DOMAIN ends |->
                          IF p + size > end THEN {}
                          ELSE {p} \cup (IF ends[p] \in p + size .. end THEN f[ends[p]] ELSE {})]
             from == Chain(ends, size, end)
  <1>7. g = Body(g)
    <2>1. g = [p \in lo .. end |-> g[p]] /\ \A p \in lo .. end : g[p] = Links(ends, size, end, g, p)
      BY <1>5, <1>6
    <2> QED BY <2>1 DEF Links
  <1>8. from = CHOOSE f : f = Body(f)
    BY DEF Chain
  <1>9. from = Body(from)
    BY <1>7, <1>8
  <1> HIDE DEF from
  <1>10. \A p \in lo .. end : from[p] = Links(ends, size, end, from, p)
    BY <1>9 DEF Links
  <1> QED BY <1>10 DEF from

LEMMA ChainBounds ==
    ASSUME NEW ends, NEW lo, NEW size, NEW end, IsChain(ends, lo, size, end)
    PROVE  \A p \in lo .. end : \A r \in Chain(ends, size, end)[p] :
              r \in Nat /\ r >= p /\ r + size <= end
  <1>0. lo \in Nat /\ end \in Nat /\ size \in Nat /\ size > 0 /\ DOMAIN ends = lo .. end
    BY DEF IsChain
  <1> USE <1>0
  <1> DEFINE from == Chain(ends, size, end)
             Bounded(p) == \A r \in from[p] : r \in Nat /\ r >= p /\ r + size <= end
             S == {n \in Nat : \A p \in lo .. end : p + n >= end => Bounded(p)}
  <1>1. \A p \in lo .. end : from[p] = Links(ends, size, end, from, p)
    BY ChainIs
  <1> HIDE DEF from
  <1>2. 0 \in S
    <2>1. ASSUME NEW p \in lo .. end, p + 0 >= end PROVE from[p] = {}
      <3>1. p + size > end
        BY <2>1
      <3> QED BY <1>1, <3>1 DEF Links
    <2> QED BY <2>1
  <1>3. ASSUME NEW n \in S PROVE n + 1 \in S
    <2> SUFFICES ASSUME NEW p \in lo .. end, p + (n + 1) >= end, NEW r \in from[p]
                 PROVE  r \in Nat /\ r >= p /\ r + size <= end
      OBVIOUS
    <2>1. r \in Links(ends, size, end, from, p)
      BY <1>1
    <2>2. CASE r = p
      <3>1. ~(p + size > end)
        BY <2>1 DEF Links
      <3> QED BY <2>2, <3>1
    <2>3. CASE r # p
      <3>1. ends[p] \in p + size .. end /\ r \in from[ends[p]]
        BY <2>1, <2>3 DEF Links
      <3>2. ends[p] \in lo .. end /\ ends[p] + n >= end /\ ends[p] >= p
        BY <1>3, <3>1
      <3>3. Bounded(ends[p])
        BY <1>3, <3>2
      <3> QED BY <3>1, <3>2, <3>3
    <2> QED BY <2>2, <2>3
  <1>4. S = Nat
    <2>1. S \in SUBSET Nat
      OBVIOUS
    <2> HIDE DEF S
    <2> QED BY <1>2, <1>3, <2>1, SetInduction
  <1>5. \A p \in lo .. end : Bounded(p)
    <2> HIDE DEF S
    <2>1. end \in S
      BY <1>4
    <2> HIDE DEF Bounded
    <2> QED BY <2>1 DEF S
  <1> QED BY <1>5 DEF from

\* A walk along a chain has come to p: what is left are the items from p on.
Walk(ends, lo, size, end, All, p) ==
    /\ IsChain(ends, lo, size, end)
    /\ p \in lo .. end
    /\ \A r \in All : r \in Nat
    /\ {r \in All : r >= p} = Chain(ends, size, end)[p]

\* One step further.
LEMMA ChainStep ==
    ASSUME NEW ends, NEW lo, NEW size, NEW end, NEW All, NEW p,
           Walk(ends, lo, size, end, All, p), p + size <= end
    PROVE  /\ p \in All
           /\ ends[p] \in p + size .. end =>
                /\ {r \in All : r >= ends[p]} = Chain(ends, size, end)[ends[p]]
                /\ \A r \in All : r < ends[p] <=> r <= p
  <1>0. /\ IsChain(ends, lo, size, end) /\ p \in lo .. end
        /\ \A r \in All : r \in Nat
        /\ {r \in All : r >= p} = Chain(ends, size, end)[p]
    BY DEF Walk
  <1>00. lo \in Nat /\ end \in Nat /\ size \in Nat /\ size > 0 /\ DOMAIN ends = lo .. end
    BY <1>0 DEF IsChain
  <1> USE <1>0, <1>00
  <1> DEFINE from == Chain(ends, size, end)
  <1>1. from[p] = Links(ends, size, end, from, p)
    BY ChainIs
  <1>2. \A q \in lo .. end : \A r \in from[q] : r \in Nat /\ r >= q /\ r + size <= end
    BY ChainBounds
  <1>3. {r \in All : r >= p} = from[p]
    OBVIOUS
  <1> HIDE DEF from
  <1>4. p \in All
    BY <1>1, <1>3 DEF Links
  <1>5. ASSUME ends[p] \in p + size .. end
        PROVE  /\ {r \in All : r >= ends[p]} = from[ends[p]]
               /\ \A r \in All : r < ends[p] <=> r <= p
    <2>1. from[p] = {p} \cup from[ends[p]]
      BY <1>1, <1>5 DEF Links
    <2>2. ends[p] \in lo .. end /\ ends[p] > p
      BY <1>5
    <2>3. \A r \in from[ends[p]] : r \in Nat /\ r >= ends[p]
      BY <1>2, <2>2
    <2>4. \A r \in All : r >= p => r = p \/ r \in from[ends[p]]
      BY <1>3, <2>1
    <2>5. \A r \in from[ends[p]] : r \in All
      BY <1>3, <2>1
    <2> QED BY <2>2, <2>3, <2>4, <2>5
  <1> QED BY <1>4, <1>5 DEF from

\* At the end of a chain there is nothing left.
LEMMA ChainEnds ==
    ASSUME NEW ends, NEW lo, NEW size, NEW end, IsChain(ends, lo, size, end),
           NEW p \in lo .. end, p + size > end
    PROVE  Chain(ends, size, end)[p] = {}
  BY ChainIs DEF Links
-----------------------------------------------------------------------------
(* What has been read, as the evidence counts it.                          *)

Slots      == DOMAIN carriers
ViewOf(k)  == <<carriers[k].offset, carriers[k].size>>
AlignOf(k) == IF 8 \in carriers[k].aligns THEN 8 ELSE 4
NotesOf(k) == Notes(target, ViewOf(k))
Named(i)   == <<target.headers[i].offset, target.headers[i].filesz>>

\* The headers before the index, and no others, are in the carriers.
RegistrationTrue ==
    /\ index <= Len(target.headers) + 1 /\ Len(contributors) = index - 1
    /\ \A i \in 1 .. index - 1 :
          HeaderReadable(target, target.headers[i]) /\ \E k \in Slots : ViewOf(k) = Named(i)
    /\ \A k \in Slots : \E i \in 1 .. index - 1 : ViewOf(k) = Named(i)
    /\ \A k \in Slots : 8 \in carriers[k].aligns <=>
          \E i \in 1 .. index - 1 : ViewOf(k) = Named(i) /\ target.headers[i].align = 8
    /\ \A j, k \in Slots : j # k => ViewOf(j) # ViewOf(k)
    /\ pc = "register" => slot = 1 /\ scanned = 0 /\ entries = 0 /\ facts = EmptyFacts
    /\ pc # "register" => index = Len(target.headers) + 1
    /\ pc \in {"finalize", "done"} => slot > Len(carriers)

\* A note whose properties were read, and one that was at least begun.
NoteDone(k, p) == k < slot \/ (k = slot /\ pc \in {"note", "property"} /\ p < cursor)
NoteMet(k, p)  == NoteDone(k, p) \/ (k = slot /\ pc = "property" /\ p = cursor)

NotesMet ==
    {p \in 0 .. Len(target.file) : \E k \in Slots : p \in NotesOf(k) /\ NoteMet(k, p)}
PropertyNotesMet == {p \in NotesMet : IsPropertyNote(target, p)}

\* The cursor stands at a note of its chain, behind the notes that are done.
AtItsNote ==
    /\ {p \in NotesOf(slot) : p >= cursor} = NotesFrom(target, Align, End)[cursor]
    /\ \/ cursor = View.offset
       \/ \E p \in NotesOf(slot) : p < cursor /\ NoteEnd(target.file, p, Align) = cursor
    /\ \A p \in NotesOf(slot) : p < cursor => NoteEnd(target.file, p, Align) <= cursor

NotesTrue ==
    /\ scanned = Cardinality(NotesMet) /\ Len(notes) = Cardinality(PropertyNotesMet)
    /\ \A k \in Slots : \A p \in NotesOf(k) :
          NoteDone(k, p) => NoteReadable(target, ViewOf(k), p)
    /\ \A k \in Slots : k < slot => TailReadable(target, ViewOf(k))
    /\ pc \in {"note", "property"} => AtItsNote
    /\ pc = "property" =>
          /\ IsPropertyNote(target, cursor) /\ NoteFits
          /\ DescLimit - Desc \in EntryHeaderSize .. DescScanMax /\ (DescLimit - Desc) % 8 = 0

PropertyMet(k, p, q) ==
    NoteDone(k, p) \/ (k = slot /\ pc = "property" /\ p = cursor /\ q < property)

PropertiesMet ==
    {q \in 0 .. Len(target.file) : \E k \in Slots : \E p \in NotesOf(k) :
        PropertyMet(k, p, q) /\ IsPropertyNote(target, p) /\ q \in Properties(target, ViewOf(k), p)}

These      == Properties(target, ViewOf(slot), cursor)
TypeAt(q)  == Dword(target.file, q)
WordAt(q)  == Bits(target.file, q + EntryHeaderSize)
PropertyEnds == [q \in Desc .. DescLimit |-> PropertyEnd(target.file, q, Desc)]

\* The property cursor stands in its chain, and those before it are in order.
AtItsProperty ==
    /\ {q \in These : q >= property} = Chain(PropertyEnds, EntryHeaderSize, DescLimit)[property]
    /\ (property - Desc) % 8 = 0
    /\ \A q \in These : q < property =>
          /\ PropertyEnd(target.file, q, Desc) <= property
          /\ Zero(target.file, DataEnd(target.file, q), PropertyEnd(target.file, q, Desc))
          /\ TypeAt(q) = FeatureType => TypeAt(q + 4) = 4
          /\ \E before \in prior : TypeAt(q) <= before
    /\ \A q, r \in These : q < r /\ r < property => TypeAt(q) <= TypeAt(r)
    /\ \A before \in prior : \E q \in These : q < property /\ TypeAt(q) = before

PropertiesTrue ==
    /\ entries = Cardinality(PropertiesMet)
    /\ pc = "property" => AtItsProperty

FeaturesMet == {q \in PropertiesMet : TypeAt(q) = FeatureType}
ForeignBits == {q \in FeaturesMet : WordAt(q) \ {IBT, SHSTK} # {}}

FactsTrue ==
    /\ facts = [unknown |-> facts.unknown, count |-> facts.count, conflicts |-> facts.conflicts,
                and |-> facts.and, or |-> facts.or, ibt |-> facts.ibt, shstk |-> facts.shstk]
    /\ facts.count = Cardinality(FeaturesMet)
    /\ facts.unknown = Cardinality(PropertiesMet \ FeaturesMet) + Cardinality(ForeignBits)
    /\ facts.and \subseteq 0 .. 31 /\ facts.or \subseteq 0 .. 31
    /\ FeaturesMet # {} => \A n \in 0 .. 31 :
          /\ n \in facts.and <=> \A q \in FeaturesMet : n \in WordAt(q)
          /\ n \in facts.or <=> \E q \in FeaturesMet : n \in WordAt(q)
    /\ facts.conflicts \in Nat
    /\ facts.conflicts = 0 <=> \A q, r \in FeaturesMet : WordAt(q) = WordAt(r)
    /\ pc = "done" => facts.ibt = FeatureState(IBT) /\ facts.shstk = FeatureState(SHSTK)

EInv ==
    IF status # EXIT_OK THEN pc = "done" /\ ~Readable(target)
    ELSE RegistrationTrue /\ NotesTrue /\ PropertiesTrue /\ FactsTrue

-----------------------------------------------------------------------------
(* Views and carriers.                                                     *)

LEMMA HeadersTyped ==
    ASSUME TypeOK
    PROVE  /\ Len(target.headers) \in Nat /\ DOMAIN target.headers = 1 .. Len(target.headers)
           /\ \A i \in 1 .. Len(target.headers) :
                 /\ target.headers[i].offset \in Nat /\ target.headers[i].filesz \in Nat
                 /\ target.headers[i].align \in Nat /\ target.headers[i].type \in {"NOTE", "PROPERTY"}
  <1>1. target.headers \in Seq(Header)
    BY DEF TypeOK, Target
  <1>2. \A i \in 1 .. Len(target.headers) : target.headers[i] \in Header
    BY <1>1
  <1> QED BY <1>1, <1>2 DEF Header

LEMMA SlotsTyped ==
    ASSUME TypeOK
    PROVE  Len(carriers) \in Nat /\ Slots = 1 .. Len(carriers) /\ index \in Nat /\ slot \in Nat /\ slot > 0
  BY DEF TypeOK, Slots

LEMMA ViewsCounted ==
    ASSUME TypeOK, \A j, k \in Slots : j # k => ViewOf(j) # ViewOf(k)
    PROVE  Cardinality({ViewOf(k) : k \in Slots}) = Len(carriers) /\ IsFiniteSet({ViewOf(k) : k \in Slots})
  <1> DEFINE n == Len(carriers)
             S == {ViewOf(k) : k \in Slots}
             f == [k \in 1 .. n |-> ViewOf(k)]
  <1>1. n \in Nat /\ Slots = 1 .. n
    BY SlotsTyped
  <1>2. f \in Bijection(1 .. n, S)
    BY <1>1 DEF Bijection, Injection, Surjection, IsInjective
  <1>3. ExistsBijection(1 .. n, S)
    BY <1>2 DEF ExistsBijection
  <1> HIDE DEF n, S, f
  <1>4. Cardinality(S) = n
    BY <1>1, <1>3, FS_CountingElements
  <1>5. IsFiniteSet(S)
    BY <1>1, <1>3, FS_NatBijection
  <1> QED BY <1>4, <1>5 DEF n, S

LEMMA ViewsFinite == ASSUME TypeOK PROVE IsFiniteSet(Views(target))
  <1> DEFINE n == Len(target.headers)
             S == Views(target)
             f == [i \in 1 .. n |-> Named(i)]
  <1>1. n \in Nat /\ DOMAIN target.headers = 1 .. n
    BY HeadersTyped
  <1>2. f \in Surjection(1 .. n, S)
    BY <1>1 DEF Surjection, Views, Named
  <1>3. ExistsSurjection(1 .. n, S)
    BY <1>2 DEF ExistsSurjection
  <1> HIDE DEF n, S, f
  <1>4. IsFiniteSet(S)
    BY <1>1, <1>3, FS_NatSurjection
  <1> QED BY <1>4 DEF S

LEMMA NamedIsView ==
    ASSUME TypeOK, NEW i \in 1 .. Len(target.headers)
    PROVE  Named(i) \in Views(target)
  BY HeadersTyped DEF Named, Views

LEMMA SlotIsView ==
    ASSUME TypeOK, RegistrationTrue, NEW k \in Slots
    PROVE  ViewOf(k) \in Views(target)
  <1>1. PICK i \in 1 .. index - 1 : ViewOf(k) = Named(i)
    BY DEF RegistrationTrue
  <1>2. i \in 1 .. Len(target.headers)
    BY HeadersTyped, SlotsTyped DEF RegistrationTrue
  <1> QED BY <1>1, <1>2, NamedIsView

\* After registration the carriers are the views, and each has the alignment of its view.
LEMMA CarriersAreViews ==
    ASSUME TypeOK, RegistrationTrue, pc # "register"
    PROVE  /\ Views(target) = {ViewOf(k) : k \in Slots}
           /\ \A k \in Slots : ViewAlign(target, ViewOf(k)) = AlignOf(k)
           /\ Len(carriers) = Cardinality(Views(target))
  <1>1. index - 1 = Len(target.headers) /\ DOMAIN target.headers = 1 .. index - 1
    BY HeadersTyped, SlotsTyped DEF RegistrationTrue
  <1>2. Views(target) = {ViewOf(k) : k \in Slots}
    <2>1. ASSUME NEW v \in Views(target) PROVE v \in {ViewOf(k) : k \in Slots}
      <3>1. PICK i \in 1 .. index - 1 : v = Named(i)
        BY <1>1 DEF Views, Named
      <3> QED BY <3>1 DEF RegistrationTrue
    <2> QED BY <2>1, SlotIsView
  <1>3. ASSUME NEW k \in Slots PROVE ViewAlign(target, ViewOf(k)) = AlignOf(k)
    <2>1. 8 \in carriers[k].aligns <=>
             \E i \in 1 .. index - 1 : ViewOf(k) = Named(i) /\ target.headers[i].align = 8
      BY DEF RegistrationTrue
    <2> QED BY <1>1, <2>1 DEF ViewAlign, AlignOf, Named
  <1>4. Cardinality({ViewOf(k) : k \in Slots}) = Len(carriers)
    BY ViewsCounted DEF RegistrationTrue
  <1> QED BY <1>2, <1>3, <1>4

-----------------------------------------------------------------------------
(* Registration.                                                           *)

LEMMA HeaderStatusTrue ==
    ASSUME TypeOK, Registering
    PROVE  HeaderStatus = EXIT_OK <=> HeaderReadable(target, Current)
  <1>1. Current.offset \in Nat /\ Current.filesz \in Nat /\ Current.type \in {"NOTE", "PROPERTY"}
    BY HeaderTyped
  <1>2. Len(target.file) \in Nat /\ CarrierScanMax \in Nat
    BY FileTyped, GnuPropertyAssumption
  <1>3. CASE Current.type = "NOTE"
    BY <1>1, <1>2, <1>3 DEF HeaderStatus, HeaderReadable, EXIT_OK, EXIT_MALFORMED_ELF, EXIT_UNSUPPORTED
  <1>4. CASE Current.type = "PROPERTY"
    BY <1>1, <1>2, <1>4 DEF HeaderStatus, HeaderReadable, EXIT_OK, EXIT_MALFORMED_ELF, EXIT_UNSUPPORTED
  <1> QED BY <1>1, <1>3, <1>4

LEMMA RegisteringIndex ==
    ASSUME TypeOK, Registering
    PROVE  /\ index \in 1 .. Len(target.headers) /\ index \in Nat
           /\ Current = target.headers[index] /\ Named(index) = <<Current.offset, Current.filesz>>
           /\ Current.align \in Nat
  BY HeadersTyped, SlotsTyped DEF TypeOK, Registering, Current, Named

LEMMA HeaderRefusedRightly ==
    ASSUME TypeOK, CarrierRefused
    PROVE  ~Readable(target)
  <1>1. ~HeaderReadable(target, target.headers[index]) /\ index \in DOMAIN target.headers
    BY HeaderStatusTrue, RegisteringIndex, HeadersTyped DEF CarrierRefused
  <1> QED BY <1>1 DEF Readable

LEMMA OverlapRefusedRightly ==
    ASSUME TypeOK, RegistrationTrue, CarrierOverlaps
    PROVE  ~Readable(target)
  <1>1. PICK k \in DOMAIN carriers : First(k) /\ ~SameRange(carriers[k])
    BY DEF CarrierOverlaps
  <1>2. Overlaps(carriers[k])
    BY <1>1 DEF First, Met
  <1>3. /\ carriers[k].offset \in Nat /\ carriers[k].size \in Nat
        /\ Current.offset \in Nat /\ Current.filesz \in Nat
    BY CarrierTyped, HeaderTyped DEF CarrierOverlaps
  <1>4. ViewOf(k) \in Views(target) /\ Named(index) \in Views(target)
    BY SlotIsView, NamedIsView, RegisteringIndex DEF CarrierOverlaps, Slots
  <1>5. /\ ViewOf(k)[1] = carriers[k].offset /\ ViewOf(k)[2] = carriers[k].size
        /\ Named(index)[1] = Current.offset /\ Named(index)[2] = Current.filesz
    BY RegisteringIndex DEF ViewOf, CarrierOverlaps
  <1>6. ~Apart(ViewOf(k), Named(index))
    <2>1. ViewOf(k) # Named(index)
      BY <1>1, <1>5 DEF SameRange
    <2> QED BY <1>2, <1>3, <1>5, <2>1 DEF Apart, Overlaps, ViewEnd
  <1> QED BY <1>4, <1>6 DEF Readable

LEMMA FullRefusedRightly ==
    ASSUME TypeOK, RegistrationTrue, CarriersFull
    PROVE  ~Readable(target)
  <1>1. index \in 1 .. Len(target.headers) /\ index \in Nat /\ Len(target.headers) \in Nat
    BY RegisteringIndex, HeadersTyped DEF CarriersFull
  <1>2. CASE ContributorsFull
    <2>1. index - 1 >= ContributorMax /\ ContributorMax \in Nat
      BY <1>2, LimitsTyped DEF ContributorsFull, RegistrationTrue
    <2>2. Len(target.headers) > ContributorMax
      BY <1>1, <2>1
    <2> QED BY <1>1, <2>1, <2>2 DEF Readable
  <1>3. CASE Met = {} /\ Len(carriers) >= CarrierMax
    <2> DEFINE S == {ViewOf(k) : k \in Slots}
    <2>1. Cardinality(S) = Len(carriers) /\ IsFiniteSet(S)
      BY ViewsCounted DEF RegistrationTrue
    <2>2. Named(index) \notin S
      BY <1>3, RegisteringIndex DEF Met, SameRange, ViewOf, Slots, CarriersFull
    <2>3. S \cup {Named(index)} \in SUBSET Views(target)
      BY <1>1, SlotIsView, NamedIsView
    <2> HIDE DEF S
    <2>4. Cardinality(S \cup {Named(index)}) = Len(carriers) + 1
      BY <2>1, <2>2, FS_AddElement
    <2>5. Cardinality(S \cup {Named(index)}) <= Cardinality(Views(target)) /\ Cardinality(Views(target)) \in Nat
      BY <2>3, ViewsFinite, FS_Subset, FS_CardinalityType
    <2>6. Cardinality(Views(target)) > CarrierMax
      BY <1>3, <2>4, <2>5, LimitsTyped, SlotsTyped
    <2> QED BY <2>5, <2>6, LimitsTyped DEF Readable
  <1> QED BY <1>2, <1>3 DEF CarriersFull

\* What registering one more header does to the carriers.
Extends(k) ==
    /\ DOMAIN carriers' = Slots \cup {k}
    /\ \A j \in Slots : carriers'[j].offset = carriers[j].offset /\ carriers'[j].size = carriers[j].size
    /\ \A j \in Slots \ {k} : carriers'[j].aligns = carriers[j].aligns
    /\ <<carriers'[k].offset, carriers'[k].size>> = Named(index)
    /\ 8 \in carriers'[k].aligns <=> (k \in Slots /\ 8 \in carriers[k].aligns) \/ Current.align = 8
    /\ k \notin Slots => \A j \in Slots : ViewOf(j) # Named(index)

LEMMA AddedExtends ==
    ASSUME TypeOK, CarrierAdded
    PROVE  Extends(Len(carriers) + 1)
  <1> DEFINE new == [offset |-> Current.offset, size |-> Current.filesz,
                     kinds |-> {Current.type}, aligns |-> {CarrierAlign}]
             n == Len(carriers)
  <1>1. n \in Nat /\ Slots = 1 .. n /\ DOMAIN carriers = 1 .. n
    BY SlotsTyped DEF Slots
  <1>2. carriers' = Append(carriers, new) /\ carriers \in Seq(Carrier)
    BY DEF CarrierAdded, TypeOK
  <1>3. /\ DOMAIN carriers' = 1 .. n + 1 /\ \A j \in 1 .. n : carriers'[j] = carriers[j]
        /\ carriers'[n + 1] = new
    BY <1>1, <1>2
  <1>4. Named(index) = <<Current.offset, Current.filesz>> /\ Registering /\ HeaderReadable(target, Current)
    BY RegisteringIndex, HeaderStatusTrue DEF CarrierAdded
  <1>5. CarrierAlign = 8 <=> Current.align = 8
    BY <1>4, HeaderTyped DEF CarrierAlign, HeaderReadable
  <1>6. \A j \in Slots : ViewOf(j) # Named(index)
    BY <1>1, <1>4 DEF CarrierAdded, Met, SameRange, ViewOf
  <1> HIDE DEF n
  <1>7. <<new.offset, new.size>> = Named(index) /\ (8 \in new.aligns <=> Current.align = 8)
    BY <1>4, <1>5
  <1> HIDE DEF new
  <1>8. n + 1 \notin Slots /\ 1 .. n + 1 = Slots \cup {n + 1}
    BY <1>1
  <1>9. Extends(n + 1)
    BY <1>1, <1>3, <1>6, <1>7, <1>8 DEF Extends
  <1> QED BY <1>9 DEF n

LEMMA SharedExtends ==
    ASSUME TypeOK, CarrierShared
    PROVE  \E k \in Slots : Extends(k)
  <1>1. PICK k \in DOMAIN carriers : First(k) /\ SameRange(carriers[k])
                                     /\ carriers' = [carriers EXCEPT ![k] = Merged(carriers[k])]
    BY DEF CarrierShared
  <1>2. Named(index) = <<Current.offset, Current.filesz>> /\ Registering /\ HeaderReadable(target, Current)
    BY RegisteringIndex, HeaderStatusTrue DEF CarrierShared
  <1>3. CarrierAlign = 8 <=> Current.align = 8
    BY <1>2, HeaderTyped DEF CarrierAlign, HeaderReadable
  <1>4. /\ DOMAIN carriers' = DOMAIN carriers /\ carriers'[k] = Merged(carriers[k])
        /\ \A j \in DOMAIN carriers \ {k} : carriers'[j] = carriers[j]
    BY <1>1
  <1>5. Extends(k)
    BY <1>1, <1>2, <1>3, <1>4 DEF Extends, Merged, SameRange, Slots, ViewOf
  <1> QED BY <1>1, <1>5 DEF Slots

LEMMA ExtendingRegisters ==
    ASSUME TypeOK, RegistrationTrue, Registering, HeaderStatus = EXIT_OK, NEW k, Extends(k),
           index' = index + 1, Len(contributors') = Len(contributors) + 1,
           UNCHANGED <<target, pc, slot, scanned, entries, facts>>
    PROVE  RegistrationTrue'
  <1>1. /\ index \in 1 .. Len(target.headers) /\ index \in Nat /\ pc = "register"
        /\ Current = target.headers[index] /\ HeaderReadable(target, Current)
    BY RegisteringIndex, HeaderStatusTrue DEF Registering
  <1>2. 1 .. index' - 1 = (1 .. index - 1) \cup {index} /\ index' - 1 = index
    BY <1>1
  <1>3. \A i : Named(i)' = Named(i)
    BY DEF Named
  <1>4. \A j \in Slots : ViewOf(j)' = ViewOf(j)
    BY DEF Extends, ViewOf
  <1>5. Slots' = Slots \cup {k} /\ ViewOf(k)' = Named(index)
    BY DEF Extends, ViewOf, Slots
  <1>6. /\ \A i \in 1 .. index - 1 :
              HeaderReadable(target, target.headers[i]) /\ \E j \in Slots : ViewOf(j) = Named(i)
        /\ \A j \in Slots : \E i \in 1 .. index - 1 : ViewOf(j) = Named(i)
        /\ \A j \in Slots : 8 \in carriers[j].aligns <=>
              \E i \in 1 .. index - 1 : ViewOf(j) = Named(i) /\ target.headers[i].align = 8
        /\ \A i, j \in Slots : i # j => ViewOf(i) # ViewOf(j)
    BY DEF RegistrationTrue
  <1>7. \A i \in 1 .. index' - 1 : HeaderReadable(target, target.headers[i])
                                   /\ \E j \in Slots' : ViewOf(j)' = Named(i)
    BY <1>1, <1>2, <1>4, <1>5, <1>6
  <1>8. \A j \in Slots' : \E i \in 1 .. index' - 1 : ViewOf(j)' = Named(i)
    BY <1>2, <1>4, <1>5, <1>6
  <1>9. ASSUME NEW j \in Slots'
        PROVE  8 \in carriers'[j].aligns <=>
                  \E i \in 1 .. index' - 1 : ViewOf(j)' = Named(i) /\ target.headers[i].align = 8
    <2>1. CASE j # k
      <3>1. j \in Slots /\ carriers'[j].aligns = carriers[j].aligns /\ ViewOf(j)' = ViewOf(j)
        BY <1>4, <1>5, <2>1 DEF Extends
      <3>2. ViewOf(j) # Named(index)
        BY <1>5, <1>6, <3>1, <2>1, <1>4 DEF Extends
      <3> QED BY <1>2, <1>6, <3>1, <3>2
    <2>2. CASE j = k /\ k \in Slots
      <3>1. ViewOf(k) = Named(index) /\ ViewOf(k)' = ViewOf(k)
        BY <1>4, <1>5, <2>2
      <3>2. 8 \in carriers'[k].aligns <=> 8 \in carriers[k].aligns \/ target.headers[index].align = 8
        BY <1>1, <2>2 DEF Extends
      <3> QED BY <1>2, <1>6, <2>2, <3>1, <3>2
    <2>3. CASE j = k /\ k \notin Slots
      <3>1. 8 \in carriers'[k].aligns <=> target.headers[index].align = 8
        BY <1>1, <2>3 DEF Extends
      <3>2. \A i \in 1 .. index - 1 : Named(i) # Named(index)
        BY <1>6, <2>3 DEF Extends
      <3> QED BY <1>2, <1>5, <2>3, <3>1, <3>2
    <2> QED BY <2>1, <2>2, <2>3
  <1>10. ASSUME NEW i \in Slots', NEW j \in Slots', i # j PROVE ViewOf(i)' # ViewOf(j)'
    <2>1. CASE k \in Slots
      BY <1>4, <1>5, <1>6, <1>10, <2>1
    <2>2. CASE k \notin Slots
      BY <1>4, <1>5, <1>6, <1>10, <2>2 DEF Extends
    <2> QED BY <2>1, <2>2
  <1>11. index' <= Len(target.headers) + 1 /\ Len(contributors') = index' - 1
    BY <1>1 DEF RegistrationTrue
  <1>12. slot' = 1 /\ scanned' = 0 /\ entries' = 0 /\ facts' = EmptyFacts /\ pc' = "register"
    BY <1>1 DEF RegistrationTrue
  <1> QED BY <1>3, <1>7, <1>8, <1>9, <1>10, <1>11, <1>12 DEF RegistrationTrue

LEMMA RegistersTruly ==
    ASSUME TypeOK, RegistrationTrue, CarrierAdded \/ CarrierShared
    PROVE  RegistrationTrue' /\ status' = status
  <1>1. \E k : Extends(k)
    BY AddedExtends, SharedExtends
  <1>2. /\ Registering /\ HeaderStatus = EXIT_OK
        /\ index' = index + 1 /\ UNCHANGED <<target, pc, slot, scanned, entries, facts, status>>
        /\ \E entry : contributors' = Append(contributors, entry)
    BY DEF CarrierAdded, CarrierShared, Contribute
  <1>3. Len(contributors') = Len(contributors) + 1
    <2> DEFINE Entry == [index : Nat, type : {"NOTE", "PROPERTY"}, slot : Nat]
    <2>1. contributors \in Seq(Entry)
      BY DEF TypeOK
    <2> HIDE DEF Entry
    <2> QED BY <1>2, <2>1
  <1> QED BY <1>1, <1>2, <1>3, ExtendingRegisters

\* Before anything is parsed nothing has been read.
Fresh ==
    /\ pc \in {"register", "carrier"}
    /\ slot = 1 /\ scanned = 0 /\ entries = 0 /\ facts = EmptyFacts /\ notes = <<>>

LEMMA FreshIsTrue == TypeOK /\ Fresh => NotesTrue /\ PropertiesTrue /\ FactsTrue
  <1> SUFFICES ASSUME TypeOK, Fresh PROVE NotesTrue /\ PropertiesTrue /\ FactsTrue
    OBVIOUS
  <1>1. \A k \in Slots : ~(k < slot) /\ \A p : ~NoteDone(k, p) /\ ~NoteMet(k, p)
    BY SlotsTyped DEF Fresh, NoteDone, NoteMet
  <1>2. NotesMet = {} /\ PropertyNotesMet = {}
    BY <1>1 DEF NotesMet, PropertyNotesMet
  <1>3. PropertiesMet = {} /\ FeaturesMet = {} /\ ForeignBits = {} /\ PropertiesMet \ FeaturesMet = {}
    BY <1>1 DEF PropertiesMet, PropertyMet, FeaturesMet, ForeignBits, Fresh
  <1>4. Cardinality({}) = 0
    BY FS_EmptySet
  <1>5. NotesTrue
    BY <1>1, <1>2, <1>4 DEF NotesTrue, Fresh
  <1>6. PropertiesTrue
    BY <1>3, <1>4 DEF PropertiesTrue, Fresh
  <1>7. FactsTrue
    BY <1>3, <1>4 DEF FactsTrue, Fresh, EmptyFacts
  <1> QED BY <1>5, <1>6, <1>7

-----------------------------------------------------------------------------
(* Where notes and properties lie.                                         *)

LEMMA NotesInView ==
    ASSUME TypeOK, RegistrationTrue, pc # "register", NEW k \in Slots
    PROVE  LET end == carriers[k].offset + carriers[k].size
           IN  /\ ViewEnd(ViewOf(k)) = end /\ ViewOf(k)[1] = carriers[k].offset
               /\ ViewAlign(target, ViewOf(k)) = AlignOf(k) /\ AlignOf(k) \in {4, 8}
               /\ NotesOf(k) = NotesFrom(target, AlignOf(k), end)[carriers[k].offset]
               /\ \A p \in NotesOf(k) : p \in Nat /\ p >= carriers[k].offset /\ p + HeaderSize <= end
  <1> DEFINE from == carriers[k].offset
             end == carriers[k].offset + carriers[k].size
             ends == [p \in 0 .. end |-> NoteEnd(target.file, p, AlignOf(k))]
  <1>1. from \in Nat /\ end \in Nat /\ from \in 0 .. end
    BY CarrierTyped DEF Slots
  <1>2. ViewOf(k)[1] = from /\ ViewOf(k)[2] = carriers[k].size /\ ViewEnd(ViewOf(k)) = end
    BY DEF ViewOf, ViewEnd
  <1>3. ViewAlign(target, ViewOf(k)) = AlignOf(k) /\ AlignOf(k) \in {4, 8}
    BY CarriersAreViews DEF AlignOf
  <1>4. NotesOf(k) = NotesFrom(target, AlignOf(k), end)[from]
    BY <1>2, <1>3 DEF NotesOf, Notes
  <1>5. NotesFrom(target, AlignOf(k), end)[from] = Chain(ends, HeaderSize, end)[from]
    BY DEF NotesFrom
  <1>6. DOMAIN ends = 0 .. end /\ HeaderSize \in Nat /\ HeaderSize > 0
    BY DEF HeaderSize
  <1> HIDE DEF ends, end, from
  <1>7. IsChain(ends, 0, HeaderSize, end)
    BY <1>1, <1>6 DEF IsChain
  <1>8. \A p \in NotesOf(k) : p \in Nat /\ p >= from /\ p + HeaderSize <= end
    BY <1>1, <1>4, <1>5, <1>7, ChainBounds
  <1> QED BY <1>2, <1>3, <1>4, <1>8 DEF end, from

LEMMA SlotIs ==
    ASSUME slot \in Slots
    PROVE  AlignOf(slot) = Align /\ carriers[slot] = View /\ carriers[slot].offset + carriers[slot].size = End
  BY DEF AlignOf, Align, View, End

\* No place is in two carriers.
LEMMA OnePlace ==
    ASSUME TypeOK, CarriersApart, NEW j \in Slots, NEW k \in Slots, NEW x \in Nat,
           carriers[j].offset <= x, x < carriers[j].offset + carriers[j].size,
           carriers[k].offset <= x, x < carriers[k].offset + carriers[k].size
    PROVE  j = k
  <1> SUFFICES ASSUME j # k PROVE FALSE
    OBVIOUS
  <1>1. RangesApart(carriers[j], carriers[k])
    BY DEF CarriersApart, Slots
  <1>2. /\ carriers[j].offset \in Nat /\ carriers[j].size \in Nat
        /\ carriers[k].offset \in Nat /\ carriers[k].size \in Nat
    BY CarrierTyped DEF Slots
  <1> QED BY <1>1, <1>2 DEF RangesApart

\* The properties of a note lie between its name and its end.
LEMMA PropertiesInNote ==
    ASSUME TypeOK, CarriersInFile, RegistrationTrue, pc # "register", NEW k \in Slots, NEW p \in NotesOf(k)
    PROVE  LET desc == DescStart(target.file, p, AlignOf(k))
               limit == DescEnd(target.file, p, AlignOf(k))
           IN  /\ desc \in Nat /\ limit \in Nat /\ NoteEnd(target.file, p, AlignOf(k)) \in Nat
               /\ p + HeaderSize <= desc /\ desc <= limit /\ limit <= NoteEnd(target.file, p, AlignOf(k))
               /\ Properties(target, ViewOf(k), p) =
                     Chain([q \in desc .. limit |-> PropertyEnd(target.file, q, desc)], EntryHeaderSize, limit)[desc]
               /\ \A q \in Properties(target, ViewOf(k), p) :
                     q \in Nat /\ desc <= q /\ q + EntryHeaderSize <= limit
  <1> DEFINE align == AlignOf(k)
             desc == DescStart(target.file, p, align)
             limit == DescEnd(target.file, p, align)
             ends == [q \in desc .. limit |-> PropertyEnd(target.file, q, desc)]
  <1>1. /\ p \in Nat /\ align \in {4, 8} /\ ViewAlign(target, ViewOf(k)) = align
        /\ p + HeaderSize <= carriers[k].offset + carriers[k].size
    BY NotesInView
  <1>2. carriers[k].offset + carriers[k].size <= Len(target.file) /\ carriers[k].offset \in Nat /\ carriers[k].size \in Nat
    BY CarrierTyped DEF CarriersInFile, Slots
  <1>3. p + HeaderSize <= Len(target.file) /\ target.file \in Seq(Byte)
    BY <1>1, <1>2, FileTyped DEF HeaderSize
  <1>4. /\ desc \in Nat /\ limit \in Nat /\ NoteEnd(target.file, p, align) \in Nat
        /\ p + HeaderSize <= NameEnd(target.file, p) /\ NameEnd(target.file, p) \in Nat
        /\ NameEnd(target.file, p) <= desc /\ desc <= limit /\ limit <= NoteEnd(target.file, p, align)
    BY <1>1, <1>3, NoteLayout
  <1>5. Properties(target, ViewOf(k), p) = Chain(ends, EntryHeaderSize, limit)[desc]
    BY <1>1 DEF Properties
  <1>6. DOMAIN ends = desc .. limit /\ EntryHeaderSize \in Nat /\ EntryHeaderSize > 0
    BY DEF EntryHeaderSize
  <1>7. p + HeaderSize <= desc
    BY <1>1, <1>4 DEF HeaderSize
  <1> HIDE DEF ends, desc, limit, align
  <1>8. IsChain(ends, desc, EntryHeaderSize, limit)
    BY <1>4, <1>6 DEF IsChain
  <1>9. \A q \in Properties(target, ViewOf(k), p) : q \in Nat /\ desc <= q /\ q + EntryHeaderSize <= limit
    BY <1>4, <1>5, <1>8, ChainBounds
  <1> QED BY <1>4, <1>5, <1>7, <1>9 DEF ends, desc, limit, align

-----------------------------------------------------------------------------
(* What a step leaves as it was.                                           *)

LEMMA SameNotes ==
    ASSUME UNCHANGED <<target, carriers>>,
           \A k \in Slots : \A p \in NotesOf(k) : NoteMet(k, p)' <=> NoteMet(k, p)
    PROVE  NotesMet' = NotesMet /\ PropertyNotesMet' = PropertyNotesMet
  <1>1. Slots' = Slots /\ \A k \in Slots : NotesOf(k)' = NotesOf(k)
    BY DEF Slots, NotesOf, ViewOf
  <1>2. NotesMet' = NotesMet
    BY <1>1 DEF NotesMet
  <1> QED BY <1>2 DEF PropertyNotesMet

LEMMA SameProperties ==
    ASSUME UNCHANGED <<target, carriers>>,
           \A k \in Slots : \A p \in NotesOf(k) : IsPropertyNote(target, p) =>
              \A q \in Properties(target, ViewOf(k), p) : PropertyMet(k, p, q)' <=> PropertyMet(k, p, q)
    PROVE  PropertiesMet' = PropertiesMet
  <1>1. Slots' = Slots /\ \A k \in Slots : NotesOf(k)' = NotesOf(k) /\ ViewOf(k)' = ViewOf(k)
    BY DEF Slots, NotesOf, ViewOf
  <1> QED BY <1>1 DEF PropertiesMet

LEMMA SameFacts ==
    ASSUME FactsTrue, UNCHANGED <<target, facts>>, PropertiesMet' = PropertiesMet, pc' # "done"
    PROVE  FactsTrue'
  <1>1. FeaturesMet' = FeaturesMet
    BY DEF FeaturesMet, TypeAt
  <1>2. ForeignBits' = ForeignBits
    BY <1>1 DEF ForeignBits, WordAt
  <1>3. \A q : WordAt(q)' = WordAt(q)
    BY DEF WordAt
  <1> QED BY <1>1, <1>2, <1>3 DEF FactsTrue

LEMMA SameRegistration ==
    ASSUME RegistrationTrue, UNCHANGED <<target, index, carriers, contributors>>, pc # "register",
           pc' # "register", pc' \in {"finalize", "done"} => slot' > Len(carriers)
    PROVE  RegistrationTrue'
  BY DEF RegistrationTrue, Slots, ViewOf, Named

LEMMA SameEntries ==
    ASSUME PropertiesTrue, entries' = entries, PropertiesMet' = PropertiesMet, pc' # "property"
    PROVE  PropertiesTrue'
  BY DEF PropertiesTrue

\* A step from note to note or from carrier to carrier, as far as it counts.
SameDone ==
    \A k \in Slots : \A p \in NotesOf(k) : NoteDone(k, p)' <=> NoteDone(k, p)

LEMMA SameReadable ==
    ASSUME UNCHANGED <<target, carriers>>, SameDone, NotesTrue
    PROVE  \A k \in Slots' : \A p \in NotesOf(k)' :
              NoteDone(k, p)' => NoteReadable(target, ViewOf(k), p)'
  <1>1. Slots' = Slots /\ \A k \in Slots : NotesOf(k)' = NotesOf(k) /\ ViewOf(k)' = ViewOf(k)
    BY DEF Slots, NotesOf, ViewOf
  <1>2. \A k \in Slots : \A p \in NotesOf(k) : NoteReadable(target, ViewOf(k), p)' = NoteReadable(target, ViewOf(k), p)
    BY <1>1
  <1> QED BY <1>1, <1>2 DEF SameDone, NotesTrue

-----------------------------------------------------------------------------
(* From carrier to carrier.                                                *)

ETrue == RegistrationTrue /\ NotesTrue /\ PropertiesTrue /\ FactsTrue

LEMMA RegisteredTruly ==
    ASSUME TypeOK, RegistrationTrue, NothingBeforeParse, Registered, TypeOK'
    PROVE  ETrue'
  <1>1. Fresh'
    BY DEF Fresh, RegistrationTrue, NothingBeforeParse, Registered
  <1>2. NotesTrue' /\ PropertiesTrue' /\ FactsTrue'
    BY <1>1, FreshIsTrue, PTL
  <1>3. index = Len(target.headers) + 1
    BY HeadersTyped, SlotsTyped DEF RegistrationTrue, Registered
  <1>4. RegistrationTrue'
    BY <1>3 DEF RegistrationTrue, Registered, Slots, ViewOf, Named
  <1> QED BY <1>2, <1>4 DEF ETrue

LEMMA BeginsTruly ==
    ASSUME TypeOK, ETrue, BeginCarrier
    PROVE  ETrue'
  <1>1. RegistrationTrue /\ NotesTrue /\ PropertiesTrue /\ FactsTrue
    BY DEF ETrue
  <1>2. /\ pc = "carrier" /\ slot <= Len(carriers) /\ cursor' = View.offset /\ pc' = "note"
        /\ UNCHANGED <<target, index, carriers, contributors, slot, property, prior, scanned, entries,
                       notes, facts, status>>
    BY DEF BeginCarrier
  <1>3. slot \in Slots
    BY <1>2, SlotsTyped
  <1>4. \A p \in NotesOf(slot) : p \in Nat /\ p >= View.offset
    BY <1>1, <1>2, <1>3, NotesInView, SlotIs
  <1>5. View.offset \in Nat
    BY <1>3, CarrierTyped DEF View, Slots
  <1>6. \A p \in NotesOf(slot) : ~(p < cursor')
    BY <1>2, <1>4, <1>5
  <1>7. SameDone
    BY <1>2, <1>6 DEF SameDone, NoteDone
  <1>8. \A k \in Slots : \A p \in NotesOf(k) : NoteMet(k, p)' <=> NoteMet(k, p)
    BY <1>2, <1>7 DEF SameDone, NoteMet
  <1>9. NotesMet' = NotesMet /\ PropertyNotesMet' = PropertyNotesMet
    BY <1>2, <1>8, SameNotes
  <1>10. PropertiesMet' = PropertiesMet
    <2>1. \A k \in Slots : \A p \in NotesOf(k) : \A q : PropertyMet(k, p, q)' <=> PropertyMet(k, p, q)
      BY <1>2, <1>7 DEF SameDone, PropertyMet
    <2> QED BY <1>2, <2>1, SameProperties
  <1>11. NotesTrue'
    <2>1. /\ Slots' = Slots /\ \A k \in Slots : NotesOf(k)' = NotesOf(k) /\ ViewOf(k)' = ViewOf(k)
          /\ View' = View /\ End' = End /\ Align' = Align
      BY <1>2 DEF Slots, NotesOf, ViewOf, View, End, Align
    <2>2. \A k \in Slots' : \A p \in NotesOf(k)' : NoteDone(k, p)' => NoteReadable(target, ViewOf(k), p)'
      BY <1>1, <1>2, <1>7, SameReadable
    <2>3. \A k \in Slots' : k < slot' => TailReadable(target, ViewOf(k))'
      BY <1>1, <1>2, <2>1 DEF NotesTrue
    <2>4. AtItsNote'
      <3>1. {p \in NotesOf(slot) : p >= View.offset} = NotesOf(slot)
        BY <1>4
      <3>2. NotesOf(slot) = NotesFrom(target, Align, End)[View.offset]
        BY <1>1, <1>2, <1>3, NotesInView, SlotIs
      <3>3. {p \in NotesOf(slot) : p >= View.offset} = NotesFrom(target, Align, End)[View.offset]
        BY <3>1, <3>2
      <3> QED BY <1>2, <1>3, <1>6, <2>1, <3>3 DEF AtItsNote
    <2>5. scanned' = Cardinality(NotesMet') /\ Len(notes') = Cardinality(PropertyNotesMet')
      BY <1>1, <1>2, <1>9 DEF NotesTrue
    <2> QED BY <1>2, <2>2, <2>3, <2>4, <2>5 DEF NotesTrue
  <1>12. RegistrationTrue'
    BY <1>1, <1>2, SameRegistration
  <1>13. PropertiesTrue' /\ FactsTrue'
    BY <1>1, <1>2, <1>10, SameEntries, SameFacts
  <1> QED BY <1>11, <1>12, <1>13 DEF ETrue

LEMMA LastTruly ==
    ASSUME TypeOK, ETrue, LastCarrier
    PROVE  ETrue'
  <1>1. RegistrationTrue /\ NotesTrue /\ PropertiesTrue /\ FactsTrue
    BY DEF ETrue
  <1>2. /\ pc = "carrier" /\ slot > Len(carriers) /\ pc' = "finalize"
        /\ UNCHANGED <<target, index, carriers, contributors, slot, cursor, property, prior, scanned, entries,
                       notes, facts, status>>
    BY DEF LastCarrier
  <1>3. SameDone
    BY <1>2 DEF SameDone, NoteDone
  <1>4. \A k \in Slots : \A p \in NotesOf(k) : NoteMet(k, p)' <=> NoteMet(k, p)
    BY <1>2, <1>3 DEF SameDone, NoteMet
  <1>5. NotesMet' = NotesMet /\ PropertyNotesMet' = PropertyNotesMet
    BY <1>2, <1>4, SameNotes
  <1>6. PropertiesMet' = PropertiesMet
    <2>1. \A k \in Slots : \A p \in NotesOf(k) : \A q : PropertyMet(k, p, q)' <=> PropertyMet(k, p, q)
      BY <1>2, <1>3 DEF SameDone, PropertyMet
    <2> QED BY <1>2, <2>1, SameProperties
  <1>7. NotesTrue'
    <2>1. Slots' = Slots /\ \A k \in Slots : NotesOf(k)' = NotesOf(k) /\ ViewOf(k)' = ViewOf(k)
      BY <1>2 DEF Slots, NotesOf, ViewOf
    <2>2. \A k \in Slots' : \A p \in NotesOf(k)' : NoteDone(k, p)' => NoteReadable(target, ViewOf(k), p)'
      BY <1>1, <1>2, <1>3, SameReadable
    <2>3. \A k \in Slots' : k < slot' => TailReadable(target, ViewOf(k))'
      BY <1>1, <1>2, <2>1 DEF NotesTrue
    <2>5. scanned' = Cardinality(NotesMet') /\ Len(notes') = Cardinality(PropertyNotesMet')
      BY <1>1, <1>2, <1>5 DEF NotesTrue
    <2> QED BY <1>2, <2>2, <2>3, <2>5 DEF NotesTrue
  <1>8. RegistrationTrue'
    BY <1>1, <1>2, SameRegistration
  <1>9. PropertiesTrue' /\ FactsTrue'
    BY <1>1, <1>2, <1>6, SameEntries, SameFacts
  <1> QED BY <1>7, <1>8, <1>9 DEF ETrue

-----------------------------------------------------------------------------
(* The end of a carrier.                                                   *)

LEMMA InParse ==
    ASSUME TypeOK, ReadsInside, ETrue, pc \in {"note", "property"}
    PROVE  /\ slot \in Slots /\ pc # "register" /\ AtItsNote
           /\ View.offset \in Nat /\ End \in Nat /\ End <= Len(target.file) /\ Align \in {4, 8}
           /\ cursor \in Nat /\ View.offset <= cursor /\ cursor <= End
           /\ ViewOf(slot)[1] = View.offset /\ ViewEnd(ViewOf(slot)) = End
           /\ ViewAlign(target, ViewOf(slot)) = Align
           /\ NotesOf(slot) = NotesFrom(target, Align, End)[View.offset]
           /\ \A p \in NotesOf(slot) : p \in Nat /\ p >= View.offset /\ p + HeaderSize <= End
  <1>1. slot \in DOMAIN carriers /\ CarriersInFile
    BY DEF ReadsInside, CursorInCarrier, PropertyInNote
  <1>2. /\ View.offset \in Nat /\ View.size \in Nat /\ End \in Nat /\ End <= Len(target.file)
        /\ Align \in {4, 8} /\ cursor \in Nat /\ End = View.offset + View.size
    BY <1>1, ViewTyped DEF TypeOK
  <1>3. View.offset <= cursor /\ cursor <= End
    BY <1>2 DEF ReadsInside, CursorInCarrier, PropertyInNote, HeaderSize
  <1>4. AtItsNote /\ RegistrationTrue
    BY DEF ETrue, NotesTrue
  <1> QED BY <1>1, <1>2, <1>3, <1>4, NotesInView, SlotIs DEF Slots

\* The chain of the notes as the walk along it needs it.
LEMMA NotesChain ==
    ASSUME TypeOK, ReadsInside, ETrue, pc \in {"note", "property"}
    PROVE  LET ends == [p \in 0 .. End |-> NoteEnd(target.file, p, Align)]
           IN  /\ NotesFrom(target, Align, End) = Chain(ends, HeaderSize, End)
               /\ cursor \in 0 .. End /\ ends[cursor] = NextNote
               /\ {p \in NotesOf(slot) : p >= cursor} = Chain(ends, HeaderSize, End)[cursor]
  <1>1. cursor \in 0 .. End /\ AtItsNote
    BY InParse
  <1> QED BY <1>1 DEF NotesFrom, NextNote, AtItsNote

LEMMA TailDone ==
    ASSUME TypeOK, ReadsInside, ETrue, AtTail
    PROVE  /\ \A p \in NotesOf(slot) : p < cursor
           /\ TailReadable(target, ViewOf(slot)) <=> Zero(target.file, cursor, End)
  <1>1. pc = "note" /\ cursor + HeaderSize > End
    BY DEF AtTail
  <1> DEFINE ends == [p \in 0 .. End |-> NoteEnd(target.file, p, Align)]
  <1>2. /\ cursor \in 0 .. End /\ End \in Nat /\ HeaderSize \in Nat /\ HeaderSize > 0
        /\ DOMAIN ends = 0 .. End
        /\ {p \in NotesOf(slot) : p >= cursor} = Chain(ends, HeaderSize, End)[cursor]
    BY <1>1, NotesChain, InParse DEF HeaderSize
  <1> HIDE DEF ends
  <1>3. Chain(ends, HeaderSize, End)[cursor] = {}
    <2>1. IsChain(ends, 0, HeaderSize, End)
      BY <1>2 DEF IsChain
    <2> QED BY <1>1, <1>2, <2>1, ChainEnds
  <1>4. \A p \in NotesOf(slot) : p < cursor
    BY <1>1, <1>2, <1>3, InParse
  <1>5. /\ ViewOf(slot)[1] = View.offset /\ ViewEnd(ViewOf(slot)) = End
        /\ ViewAlign(target, ViewOf(slot)) = Align
        /\ AtItsNote /\ View.offset \in Nat /\ cursor \in Nat /\ View.offset <= cursor
    BY <1>1, InParse
  <1> DEFINE ended == {View.offset} \cup {NoteEnd(target.file, p, Align) : p \in NotesOf(slot)}
             last == CHOOSE e \in ended : \A f \in ended : f <= e
  <1>6. cursor \in ended
    BY <1>5 DEF AtItsNote
  <1>7. \A f \in ended : f <= cursor
    BY <1>4, <1>5 DEF AtItsNote
  <1>8. \A f \in ended : f \in Nat
    <2> SUFFICES ASSUME NEW p \in NotesOf(slot) PROVE NoteEnd(target.file, p, Align) \in Nat
      BY <1>5
    <2>1. p \in Nat /\ p + HeaderSize <= Len(target.file) /\ Align \in {4, 8} /\ target.file \in Seq(Byte)
      BY <1>1, InParse, FileTyped DEF HeaderSize
    <2> QED BY <2>1, NoteLayout
  <1> HIDE DEF ended
  <1>9. last = cursor
    <2>1. last \in ended /\ \A f \in ended : f <= last
      BY <1>6, <1>7
    <2> QED BY <1>6, <1>7, <1>8, <2>1
  <1>10. TailReadable(target, ViewOf(slot)) = Zero(target.file, last, End)
    BY <1>5 DEF TailReadable, ended, NotesOf
  <1> QED BY <1>4, <1>9, <1>10

LEMMA TailTruly ==
    ASSUME TypeOK, ReadsInside, ETrue, NoteTail
    PROVE  ETrue'
  <1>1. RegistrationTrue /\ NotesTrue /\ PropertiesTrue /\ FactsTrue
    BY DEF ETrue
  <1>2. /\ pc = "note" /\ slot' = slot + 1 /\ pc' = "carrier" /\ AtTail /\ Zero(target.file, cursor, End)
        /\ UNCHANGED <<target, index, carriers, contributors, cursor, property, prior, scanned, entries,
                       notes, facts, status>>
    BY DEF NoteTail, AtTail
  <1>3. (\A p \in NotesOf(slot) : p < cursor) /\ TailReadable(target, ViewOf(slot))
    BY <1>2, TailDone
  <1>4. \A k \in Slots : k \in Nat /\ (k < slot + 1 <=> k < slot \/ k = slot)
    BY SlotsTyped
  <1>5. SameDone
    BY <1>2, <1>3, <1>4 DEF SameDone, NoteDone
  <1>6. \A k \in Slots : \A p \in NotesOf(k) : NoteMet(k, p)' <=> NoteMet(k, p)
    BY <1>2, <1>5 DEF SameDone, NoteMet
  <1>7. NotesMet' = NotesMet /\ PropertyNotesMet' = PropertyNotesMet
    BY <1>2, <1>6, SameNotes
  <1>8. PropertiesMet' = PropertiesMet
    <2>1. \A k \in Slots : \A p \in NotesOf(k) : \A q : PropertyMet(k, p, q)' <=> PropertyMet(k, p, q)
      BY <1>2, <1>5 DEF SameDone, PropertyMet
    <2> QED BY <1>2, <2>1, SameProperties
  <1>9. NotesTrue'
    <2>1. Slots' = Slots /\ \A k \in Slots : NotesOf(k)' = NotesOf(k) /\ ViewOf(k)' = ViewOf(k)
      BY <1>2 DEF Slots, NotesOf, ViewOf
    <2>2. \A k \in Slots' : \A p \in NotesOf(k)' : NoteDone(k, p)' => NoteReadable(target, ViewOf(k), p)'
      BY <1>1, <1>2, <1>5, SameReadable
    <2>3. \A k \in Slots' : k < slot' => TailReadable(target, ViewOf(k))'
      BY <1>1, <1>2, <1>3, <1>4, <2>1 DEF NotesTrue
    <2>5. scanned' = Cardinality(NotesMet') /\ Len(notes') = Cardinality(PropertyNotesMet')
      BY <1>1, <1>2, <1>7 DEF NotesTrue
    <2> QED BY <1>2, <2>2, <2>3, <2>5 DEF NotesTrue
  <1>10. RegistrationTrue'
    BY <1>1, <1>2, SameRegistration
  <1>11. PropertiesTrue' /\ FactsTrue'
    BY <1>1, <1>2, <1>8, SameEntries, SameFacts
  <1> QED BY <1>9, <1>10, <1>11 DEF ETrue

LEMMA TailRefusedRightly ==
    ASSUME TypeOK, ReadsInside, ETrue, TailRefused
    PROVE  ~Readable(target)
  <1>1. ~TailReadable(target, ViewOf(slot))
    BY TailDone DEF TailRefused
  <1>2. slot \in Slots /\ RegistrationTrue
    BY InParse DEF TailRefused, AtTail, ETrue
  <1>3. ViewOf(slot) \in Views(target)
    BY <1>2, SlotIsView
  <1> QED BY <1>1, <1>3 DEF Readable

-----------------------------------------------------------------------------
(* A note is read.                                                         *)

LEMMA AtNoteOfChain ==
    ASSUME TypeOK, ReadsInside, ETrue, pc \in {"note", "property"}, cursor + HeaderSize <= End
    PROVE  /\ cursor \in NotesOf(slot)
           /\ Name \in Nat /\ Desc \in Nat /\ DescLimit \in Nat /\ NextNote \in Nat
           /\ cursor + HeaderSize <= Desc /\ Desc <= DescLimit /\ DescLimit <= NextNote
           /\ NextNote <= End =>
                /\ {p \in NotesOf(slot) : p >= NextNote} = NotesFrom(target, Align, End)[NextNote]
                /\ \A p \in NotesOf(slot) : p < NextNote <=> p <= cursor
  <1> DEFINE ends == [p \in 0 .. End |-> NoteEnd(target.file, p, Align)]
  <1>1. /\ cursor \in 0 .. End /\ End \in Nat /\ HeaderSize \in Nat /\ HeaderSize > 0
        /\ DOMAIN ends = 0 .. End
        /\ {p \in NotesOf(slot) : p >= cursor} = Chain(ends, HeaderSize, End)[cursor]
        /\ NotesFrom(target, Align, End) = Chain(ends, HeaderSize, End)
        /\ ends[cursor] = NextNote
    BY NotesChain, InParse DEF HeaderSize
  <1>2. \A p \in NotesOf(slot) : p \in Nat
    BY InParse
  <1> HIDE DEF ends
  <1>3. /\ cursor \in NotesOf(slot)
        /\ ends[cursor] \in cursor + HeaderSize .. End =>
             /\ {p \in NotesOf(slot) : p >= ends[cursor]} = Chain(ends, HeaderSize, End)[ends[cursor]]
             /\ \A p \in NotesOf(slot) : p < ends[cursor] <=> p <= cursor
    <2>1. Walk(ends, 0, HeaderSize, End, NotesOf(slot), cursor)
      BY <1>1, <1>2 DEF Walk, IsChain
    <2> QED BY <2>1, ChainStep
  <1>4. slot \in DOMAIN carriers /\ CarriersInFile
    BY InParse DEF Slots, ReadsInside
  <1>5. /\ Name \in Nat /\ Desc \in Nat /\ DescLimit \in Nat /\ NextNote \in Nat
        /\ cursor + HeaderSize <= Desc /\ Desc <= DescLimit /\ DescLimit <= NextNote
    BY <1>4, NoteBounds
  <1>6. NextNote <= End => NextNote \in cursor + HeaderSize .. End
    BY <1>1, <1>5
  <1> QED BY <1>1, <1>3, <1>5, <1>6

LEMMA NotesMetFinite ==
    ASSUME TypeOK
    PROVE  /\ IsFiniteSet(NotesMet) /\ Cardinality(NotesMet) \in Nat
           /\ IsFiniteSet(PropertyNotesMet) /\ Cardinality(PropertyNotesMet) \in Nat
  <1>1. IsFiniteSet(0 .. Len(target.file))
    BY FileTyped, FS_Interval
  <1>2. NotesMet \in SUBSET (0 .. Len(target.file)) /\ PropertyNotesMet \in SUBSET (0 .. Len(target.file))
    BY DEF NotesMet, PropertyNotesMet
  <1>3. IsFiniteSet(NotesMet) /\ IsFiniteSet(PropertyNotesMet)
    BY <1>1, <1>2, FS_Subset
  <1> QED BY <1>3, FS_CardinalityType

LEMMA NoteNotMet ==
    ASSUME TypeOK, ReadsInside, CarriersApart, ETrue, AtNote
    PROVE  cursor \notin NotesMet /\ cursor \in 0 .. Len(target.file)
  <1>1. pc = "note" /\ cursor + HeaderSize <= End
    BY DEF AtNote
  <1>2. /\ slot \in Slots /\ cursor \in Nat /\ View.offset <= cursor /\ End \in Nat /\ End <= Len(target.file)
        /\ Len(target.file) \in Nat
    BY <1>1, InParse, FileTyped
  <1>3. cursor < End
    BY <1>1, <1>2 DEF HeaderSize
  <1>4. ASSUME NEW k \in Slots, cursor \in NotesOf(k), NoteMet(k, cursor) PROVE FALSE
    <2>1. k < slot /\ slot \in Nat
      BY <1>1, <1>2, <1>4, SlotsTyped DEF NoteMet, NoteDone
    <2>2. RegistrationTrue /\ pc # "register" /\ CarriersInFile
      BY <1>1 DEF ETrue, ReadsInside
    <2>3. /\ carriers[k].offset <= cursor
          /\ cursor + HeaderSize <= carriers[k].offset + carriers[k].size
          /\ carriers[k].offset \in Nat /\ carriers[k].size \in Nat
      BY <1>4, <2>2, NotesInView, CarrierTyped DEF Slots
    <2>4. cursor < carriers[k].offset + carriers[k].size
      BY <1>2, <2>3 DEF HeaderSize
    <2>5. carriers[slot].offset = View.offset /\ carriers[slot].offset + carriers[slot].size = End
      BY <1>2, SlotIs
    <2>6. k = slot
      BY <1>2, <1>3, <2>3, <2>4, <2>5, OnePlace
    <2> QED BY <2>1, <2>6
  <1>5. cursor \in 0 .. Len(target.file)
    BY <1>2, <1>3
  <1> QED BY <1>4, <1>5 DEF NotesMet

LEMMA OneMoreNote ==
    ASSUME TypeOK, ReadsInside, CarriersApart, ETrue, AtNote
    PROVE  /\ Cardinality(NotesMet \cup {cursor}) = scanned + 1
           /\ Cardinality(PropertyNotesMet \cup {cursor}) = Len(notes) + 1
  <1>1. cursor \notin NotesMet /\ cursor \notin PropertyNotesMet
    BY NoteNotMet DEF PropertyNotesMet
  <1>2. IsFiniteSet(NotesMet) /\ IsFiniteSet(PropertyNotesMet)
    BY NotesMetFinite
  <1>3. scanned = Cardinality(NotesMet) /\ Len(notes) = Cardinality(PropertyNotesMet)
    BY DEF ETrue, NotesTrue
  <1> QED BY <1>1, <1>2, <1>3, FS_AddElement

\* The notes that were met are notes of the file.
LEMMA MetAreNotes ==
    ASSUME TypeOK, RegistrationTrue, CarriersInFile, pc # "register"
    PROVE  /\ NotesMet \subseteq AllNotes(target) /\ PropertyNotesMet \subseteq AllPropertyNotes(target)
           /\ IsFiniteSet(AllNotes(target)) /\ IsFiniteSet(AllPropertyNotes(target))
           /\ \A k \in Slots : \A p \in NotesOf(k) :
                 /\ p \in AllNotes(target) /\ p \in 0 .. Len(target.file)
                 /\ IsPropertyNote(target, p) => p \in AllPropertyNotes(target)
           /\ \A p \in AllNotes(target) : \E k \in Slots : p \in NotesOf(k)
           /\ \A p \in AllPropertyNotes(target) : p \in AllNotes(target) /\ IsPropertyNote(target, p)
  <1>1. Views(target) = {ViewOf(k) : k \in Slots}
    BY CarriersAreViews
  <1>2. \A k \in Slots : \A p \in NotesOf(k) :
           /\ p \in AllNotes(target)
           /\ IsPropertyNote(target, p) => p \in AllPropertyNotes(target)
    BY <1>1 DEF AllNotes, AllPropertyNotes, PropertyNotes, NotesOf
  <1>3. \A p \in AllNotes(target) : \E k \in Slots : p \in NotesOf(k)
    BY <1>1 DEF AllNotes, NotesOf
  <1>4. \A p \in AllPropertyNotes(target) : p \in AllNotes(target) /\ IsPropertyNote(target, p)
    BY DEF AllPropertyNotes, AllNotes, PropertyNotes
  <1>5. ASSUME NEW k \in Slots, NEW p \in NotesOf(k) PROVE p \in 0 .. Len(target.file)
    <2>1. p \in Nat /\ p + HeaderSize <= carriers[k].offset + carriers[k].size
      BY NotesInView
    <2>2. carriers[k].offset + carriers[k].size <= Len(target.file) /\ carriers[k].offset \in Nat /\ carriers[k].size \in Nat
      BY CarrierTyped DEF CarriersInFile, Slots
    <2> QED BY <2>1, <2>2, FileTyped DEF HeaderSize
  <1>6. IsFiniteSet(0 .. Len(target.file))
    BY FileTyped, FS_Interval
  <1>7. AllNotes(target) \in SUBSET (0 .. Len(target.file))
    BY <1>3, <1>5
  <1>8. AllPropertyNotes(target) \in SUBSET (0 .. Len(target.file))
    BY <1>4, <1>7
  <1>9. IsFiniteSet(AllNotes(target)) /\ IsFiniteSet(AllPropertyNotes(target))
    BY <1>6, <1>7, <1>8, FS_Subset
  <1>10. NotesMet \subseteq AllNotes(target) /\ PropertyNotesMet \subseteq AllPropertyNotes(target)
    BY <1>2 DEF NotesMet, PropertyNotesMet
  <1> QED BY <1>2, <1>3, <1>4, <1>5, <1>9, <1>10

LEMMA NoteRefusedRightly ==
    ASSUME TypeOK, ReadsInside, CarriersApart, ETrue, NoteRefused
    PROVE  ~Readable(target)
  <1>1. AtNote /\ pc = "note" /\ cursor + HeaderSize <= End /\ pc # "register"
    BY DEF NoteRefused, AtNote
  <1>2. /\ slot \in Slots /\ cursor \in NotesOf(slot) /\ RegistrationTrue /\ CarriersInFile
        /\ NextNote \in Nat /\ End \in Nat
    BY <1>1, InParse, AtNoteOfChain DEF ETrue, ReadsInside
  <1>3. CASE ScansExhausted
    <2>1. NotesMet \cup {cursor} \in SUBSET AllNotes(target) /\ IsFiniteSet(AllNotes(target))
      BY <1>1, <1>2, MetAreNotes
    <2>2. Cardinality(NotesMet \cup {cursor}) = scanned + 1 /\ scanned \in Nat
      BY <1>1, OneMoreNote, LimitsTyped DEF TypeOK
    <2>3. scanned + 1 <= Cardinality(AllNotes(target)) /\ Cardinality(AllNotes(target)) \in Nat
      BY <2>1, <2>2, FS_Subset, FS_CardinalityType
    <2>4. ~(Cardinality(AllNotes(target)) <= NoteScanMax)
      BY <1>3, <2>2, <2>3, LimitsTyped DEF ScansExhausted
    <2> QED BY <2>4 DEF Readable
  <1>4. CASE ~NoteFits
    <2>1. ViewAlign(target, ViewOf(slot)) = Align /\ ViewEnd(ViewOf(slot)) = End
      BY <1>1, InParse
    <2>2. ~NoteReadable(target, ViewOf(slot), cursor)
      BY <1>4, <2>1 DEF NoteFits, NoteReadable, NextNote, Name, Desc, DescLimit
    <2>3. ViewOf(slot) \in Views(target)
      BY <1>2, SlotIsView
    <2> QED BY <1>2, <2>2, <2>3 DEF Readable, NotesOf
  <1> QED BY <1>3, <1>4 DEF NoteRefused

LEMMA PropertyNoteRefusedRightly ==
    ASSUME TypeOK, ReadsInside, CarriersApart, ETrue, NothingTwice, PropertyNoteRefused
    PROVE  ~Readable(target)
  <1>1. /\ AtNote /\ pc = "note" /\ cursor + HeaderSize <= End /\ pc # "register"
        /\ Recognised /\ NoteStatus # EXIT_OK /\ ~NoteKnown /\ ~NoteOverlaps
    BY DEF PropertyNoteRefused, NoteRead, AtNote, NothingTwice
  <1>2. /\ slot \in Slots /\ cursor \in NotesOf(slot) /\ RegistrationTrue /\ CarriersInFile
        /\ Desc \in Nat /\ DescLimit \in Nat /\ Desc <= DescLimit
    BY <1>1, InParse, AtNoteOfChain DEF ETrue, ReadsInside
  <1>3. IsPropertyNote(target, cursor)
    BY <1>1 DEF Recognised, IsPropertyNote
  <1>4. /\ ViewAlign(target, ViewOf(slot)) = Align /\ ViewEnd(ViewOf(slot)) = End
        /\ ViewOf(slot) \in Views(target)
    BY <1>1, <1>2, InParse, SlotIsView
  <1>5. CASE DescLimit - Desc > DescScanMax \/ DescLimit - Desc < EntryHeaderSize \/ (DescLimit - Desc) % 8 # 0
    <2>1. DescScanMax \in Nat /\ EntryHeaderSize \in Nat /\ DescLimit - Desc \in Nat
      BY <1>2, GnuPropertyAssumption DEF EntryHeaderSize
    <2>2. ~(DescLimit - Desc \in EntryHeaderSize .. DescScanMax /\ (DescLimit - Desc) % 8 = 0)
      BY <1>5, <2>1
    <2>3. ~PropertiesReadable(target, ViewOf(slot), cursor)
      BY <1>4, <2>2 DEF PropertiesReadable, Desc, DescLimit
    <2>4. ~NoteReadable(target, ViewOf(slot), cursor)
      BY <1>3, <2>3 DEF NoteReadable
    <2> QED BY <1>2, <1>4, <2>4 DEF Readable, NotesOf
  <1>6. CASE Len(notes) >= NoteMax
    <2>1. PropertyNotesMet \cup {cursor} \in SUBSET AllPropertyNotes(target) /\ IsFiniteSet(AllPropertyNotes(target))
      BY <1>1, <1>2, <1>3, MetAreNotes
    <2>2. Cardinality(PropertyNotesMet \cup {cursor}) = Len(notes) + 1
      BY <1>1, OneMoreNote
    <2>3. Len(notes) \in Nat
      BY NotesMetFinite DEF ETrue, NotesTrue
    <2>4. Len(notes) + 1 <= Cardinality(AllPropertyNotes(target)) /\ Cardinality(AllPropertyNotes(target)) \in Nat
      BY <2>1, <2>2, FS_Subset, FS_CardinalityType
    <2>5. ~(Cardinality(AllPropertyNotes(target)) <= NoteMax)
      BY <1>6, <2>3, <2>4, LimitsTyped
    <2> QED BY <2>5 DEF Readable
  <1> QED BY <1>1, <1>5, <1>6 DEF NoteStatus

LEMMA GrownNotes ==
    ASSUME UNCHANGED <<target, carriers>>, slot \in Slots, cursor \in NotesOf(slot),
           cursor \in 0 .. Len(target.file),
           \A k \in Slots : \A p \in NotesOf(k) :
              NoteMet(k, p)' <=> NoteMet(k, p) \/ (k = slot /\ p = cursor)
    PROVE  /\ NotesMet' = NotesMet \cup {cursor}
           /\ PropertyNotesMet' =
                 IF IsPropertyNote(target, cursor) THEN PropertyNotesMet \cup {cursor} ELSE PropertyNotesMet
  <1>1. Slots' = Slots /\ \A k \in Slots : NotesOf(k)' = NotesOf(k)
    BY DEF Slots, NotesOf, ViewOf
  <1>2. NotesMet' = NotesMet \cup {cursor}
    <2>1. \A p \in NotesMet' : p \in NotesMet \cup {cursor}
      BY <1>1 DEF NotesMet
    <2>2. \A p \in NotesMet \cup {cursor} : p \in NotesMet'
      BY <1>1 DEF NotesMet
    <2> QED BY <2>1, <2>2
  <1>3. PropertyNotesMet' = {p \in NotesMet \cup {cursor} : IsPropertyNote(target, p)}
    BY <1>2 DEF PropertyNotesMet
  <1> QED BY <1>2, <1>3 DEF PropertyNotesMet

LEMMA OneMoreReadable ==
    ASSUME UNCHANGED <<target, carriers>>, NotesTrue, NoteReadable(target, ViewOf(slot), cursor),
           \A k \in Slots : \A p \in NotesOf(k) :
              NoteDone(k, p)' => NoteDone(k, p) \/ (k = slot /\ p = cursor)
    PROVE  \A k \in Slots' : \A p \in NotesOf(k)' :
              NoteDone(k, p)' => NoteReadable(target, ViewOf(k), p)'
  <1>1. Slots' = Slots /\ \A k \in Slots : NotesOf(k)' = NotesOf(k) /\ ViewOf(k)' = ViewOf(k)
    BY DEF Slots, NotesOf, ViewOf
  <1>2. \A k \in Slots : \A p \in NotesOf(k) : NoteReadable(target, ViewOf(k), p)' = NoteReadable(target, ViewOf(k), p)
    BY <1>1
  <1> QED BY <1>1, <1>2 DEF NotesTrue

LEMMA AtNextNote ==
    ASSUME TypeOK, ReadsInside, ETrue, pc \in {"note", "property"}, cursor + HeaderSize <= End,
           NextNote <= End, cursor' = NextNote, UNCHANGED <<target, carriers, slot>>
    PROVE  AtItsNote' /\ \A p \in NotesOf(slot) : p < cursor' <=> p <= cursor
  <1>1. /\ slot \in Slots /\ AtItsNote /\ cursor \in Nat /\ Align \in {4, 8}
        /\ \A p \in NotesOf(slot) : p \in Nat /\ p + HeaderSize <= End
    BY InParse
  <1>2. /\ cursor \in NotesOf(slot) /\ NextNote \in Nat /\ cursor < NextNote
        /\ {p \in NotesOf(slot) : p >= NextNote} = NotesFrom(target, Align, End)[NextNote]
        /\ \A p \in NotesOf(slot) : p < NextNote <=> p <= cursor
    BY <1>1, AtNoteOfChain DEF HeaderSize
  <1>3. View' = View /\ End' = End /\ Align' = Align /\ NotesOf(slot)' = NotesOf(slot)
    BY DEF View, End, Align, NotesOf, ViewOf
  <1>4. NoteEnd(target.file, cursor, Align) = NextNote
    BY DEF NextNote
  <1>5. ASSUME NEW p \in NotesOf(slot), p < NextNote PROVE NoteEnd(target.file, p, Align) <= NextNote
    <2>1. CASE p = cursor
      BY <1>2, <1>4, <2>1
    <2>2. CASE p # cursor
      <3>0. p <= cursor /\ p \in Nat /\ cursor \in Nat
        BY <1>1, <1>2, <1>5
      <3>1. p < cursor
        BY ONLY <3>0, <2>2
      <3>2. NoteEnd(target.file, p, Align) <= cursor
        BY <1>1, <3>1 DEF AtItsNote
      <3>3. NoteEnd(target.file, p, Align) \in Nat
        <4>1. p \in Nat /\ p + HeaderSize <= Len(target.file) /\ target.file \in Seq(Byte)
          BY <1>1, InParse, FileTyped DEF HeaderSize
        <4> QED BY <1>1, <4>1, NoteLayout
      <3> QED BY <1>1, <1>2, <3>2, <3>3
    <2> QED BY <2>1, <2>2
  <1>6. AtItsNote'
    BY <1>2, <1>3, <1>4, <1>5 DEF AtItsNote
  <1> QED BY <1>2, <1>6

LEMMA SkippedTruly ==
    ASSUME TypeOK, ReadsInside, CarriersApart, ETrue, NothingTwice, NoteSkipped
    PROVE  ETrue'
  <1>1. RegistrationTrue /\ NotesTrue /\ PropertiesTrue /\ FactsTrue
    BY DEF ETrue
  <1>2. /\ pc = "note" /\ AtNote /\ NoteFits /\ NextNote <= End /\ cursor + HeaderSize <= End
        /\ cursor' = NextNote /\ scanned' = scanned + 1
        /\ UNCHANGED <<target, pc, index, carriers, contributors, slot, property, prior, entries, notes,
                       facts, status>>
    BY DEF NoteSkipped, NoteRead, AtNote, NoteFits
  <1>3. ~IsPropertyNote(target, cursor)
    BY DEF NoteSkipped, NothingTwice, Recognised, IsPropertyNote
  <1>4. /\ slot \in Slots /\ cursor \in NotesOf(slot) /\ cursor \in 0 .. Len(target.file)
        /\ ViewAlign(target, ViewOf(slot)) = Align /\ ViewEnd(ViewOf(slot)) = End
    BY <1>2, InParse, AtNoteOfChain, NoteNotMet
  <1>5. AtItsNote' /\ \A p \in NotesOf(slot) : p < cursor' <=> p <= cursor
    BY <1>2, AtNextNote
  <1>6. \A p \in NotesOf(slot) : p < cursor' <=> p < cursor \/ p = cursor
    BY <1>2, <1>5, InParse
  <1>7. \A k \in Slots : \A p \in NotesOf(k) :
           NoteDone(k, p)' <=> NoteDone(k, p) \/ (k = slot /\ p = cursor)
    BY <1>2, <1>6 DEF NoteDone
  <1>8. \A k \in Slots : \A p \in NotesOf(k) :
           NoteMet(k, p)' <=> NoteMet(k, p) \/ (k = slot /\ p = cursor)
    BY <1>2, <1>7 DEF NoteMet
  <1>9. NotesMet' = NotesMet \cup {cursor} /\ PropertyNotesMet' = PropertyNotesMet
    BY <1>2, <1>3, <1>4, <1>8, GrownNotes
  <1>10. PropertiesMet' = PropertiesMet
    <2>1. \A k \in Slots : \A p \in NotesOf(k) : IsPropertyNote(target, p) =>
             \A q : PropertyMet(k, p, q)' <=> PropertyMet(k, p, q)
      BY <1>2, <1>3, <1>7 DEF PropertyMet
    <2> QED BY <1>2, <2>1, SameProperties
  <1>11. NoteReadable(target, ViewOf(slot), cursor)
    BY <1>2, <1>3, <1>4 DEF NoteReadable, NoteFits, NextNote, Name, Desc, DescLimit
  <1>12. NotesTrue'
    <2>1. Slots' = Slots /\ \A k \in Slots : NotesOf(k)' = NotesOf(k) /\ ViewOf(k)' = ViewOf(k)
      BY <1>2 DEF Slots, NotesOf, ViewOf
    <2>2. \A k \in Slots' : \A p \in NotesOf(k)' : NoteDone(k, p)' => NoteReadable(target, ViewOf(k), p)'
      BY <1>1, <1>2, <1>7, <1>11, OneMoreReadable
    <2>3. \A k \in Slots' : k < slot' => TailReadable(target, ViewOf(k))'
      BY <1>1, <1>2, <2>1 DEF NotesTrue
    <2>4. scanned' = Cardinality(NotesMet')
      BY <1>2, <1>9, OneMoreNote
    <2>5. Len(notes') = Cardinality(PropertyNotesMet')
      BY <1>1, <1>2, <1>9 DEF NotesTrue
    <2> QED BY <1>2, <1>5, <2>2, <2>3, <2>4, <2>5 DEF NotesTrue
  <1>13. RegistrationTrue'
    BY <1>1, <1>2, SameRegistration
  <1>14. PropertiesTrue' /\ FactsTrue'
    BY <1>1, <1>2, <1>10, SameEntries, SameFacts
  <1> QED BY <1>12, <1>13, <1>14 DEF ETrue

LEMMA TheseAre ==
    ASSUME TypeOK, ReadsInside, ETrue, pc \in {"note", "property"}, cursor + HeaderSize <= End
    PROVE  /\ These = Chain(PropertyEnds, EntryHeaderSize, DescLimit)[Desc]
           /\ DOMAIN PropertyEnds = Desc .. DescLimit
           /\ Desc \in Nat /\ DescLimit \in Nat /\ Desc <= DescLimit
           /\ \A q \in These : q \in Nat /\ Desc <= q /\ q + EntryHeaderSize <= DescLimit
  <1>1. slot \in Slots /\ cursor \in NotesOf(slot) /\ AlignOf(slot) = Align /\ pc # "register"
    BY InParse, AtNoteOfChain, SlotIs
  <1>2. RegistrationTrue /\ CarriersInFile
    BY DEF ETrue, ReadsInside
  <1>3. /\ Desc \in Nat /\ DescLimit \in Nat /\ Desc <= DescLimit
        /\ These = Chain(PropertyEnds, EntryHeaderSize, DescLimit)[Desc]
        /\ \A q \in These : q \in Nat /\ Desc <= q /\ q + EntryHeaderSize <= DescLimit
    BY <1>1, <1>2, PropertiesInNote DEF Desc, DescLimit, These, PropertyEnds
  <1> QED BY <1>3 DEF PropertyEnds

LEMMA PropertyNoteTruly ==
    ASSUME TypeOK, ReadsInside, CarriersApart, ETrue, NothingTwice, PropertyNote
    PROVE  ETrue'
  <1>1. RegistrationTrue /\ NotesTrue /\ PropertiesTrue /\ FactsTrue
    BY DEF ETrue
  <1>2. /\ pc = "note" /\ AtNote /\ NoteFits /\ NextNote <= End /\ cursor + HeaderSize <= End
        /\ Recognised /\ NoteStatus = EXIT_OK /\ ~NoteKnown
        /\ notes' = Append(notes, ThisNote) /\ scanned' = scanned + 1
        /\ property' = Desc /\ prior' = {} /\ pc' = "property"
        /\ UNCHANGED <<target, index, carriers, contributors, slot, cursor, entries, facts, status>>
    BY DEF PropertyNote, NoteRead, AtNote, NoteFits
  <1>3. IsPropertyNote(target, cursor)
    BY <1>2 DEF Recognised, IsPropertyNote
  <1>4. /\ slot \in Slots /\ cursor \in NotesOf(slot) /\ cursor \in 0 .. Len(target.file)
        /\ AtItsNote
    BY <1>2, InParse, AtNoteOfChain, NoteNotMet
  <1>5. \A k \in Slots : \A p \in NotesOf(k) : NoteDone(k, p)' <=> NoteDone(k, p)
    BY <1>2 DEF NoteDone
  <1>6. SameDone
    BY <1>5 DEF SameDone
  <1>7. \A k \in Slots : \A p \in NotesOf(k) :
           NoteMet(k, p)' <=> NoteMet(k, p) \/ (k = slot /\ p = cursor)
    BY <1>2, <1>5 DEF NoteMet
  <1>8. NotesMet' = NotesMet \cup {cursor} /\ PropertyNotesMet' = PropertyNotesMet \cup {cursor}
    BY <1>2, <1>3, <1>4, <1>7, GrownNotes
  <1>9. /\ These = Chain(PropertyEnds, EntryHeaderSize, DescLimit)[Desc]
        /\ Desc \in Nat /\ DescLimit \in Nat /\ Desc <= DescLimit
        /\ \A q \in These : q \in Nat /\ Desc <= q
    BY <1>2, TheseAre
  <1>10. /\ View' = View /\ End' = End /\ Align' = Align /\ Name' = Name /\ Desc' = Desc
         /\ DescLimit' = DescLimit /\ NextNote' = NextNote /\ These' = These /\ PropertyEnds' = PropertyEnds
         /\ Slots' = Slots /\ \A k \in Slots : NotesOf(k)' = NotesOf(k) /\ ViewOf(k)' = ViewOf(k)
    BY <1>2 DEF View, End, Align, Name, Desc, DescLimit, NextNote, These, PropertyEnds, Slots, NotesOf,
       ViewOf
  <1>11. PropertiesMet' = PropertiesMet
    <2>1. ASSUME NEW k \in Slots, NEW p \in NotesOf(k), NEW q \in Properties(target, ViewOf(k), p)
          PROVE  PropertyMet(k, p, q)' <=> PropertyMet(k, p, q)
      <3>1. CASE k = slot /\ p = cursor
        <4>1. q \in These
          BY <3>1 DEF These
        <4>2. ~(q < property')
          BY <1>2, <1>9, <4>1
        <4> QED BY <1>2, <1>5, <4>2 DEF PropertyMet
      <3>2. CASE ~(k = slot /\ p = cursor)
        BY <1>2, <1>5, <3>2 DEF PropertyMet
      <3> QED BY <3>1, <3>2
    <2> QED BY <1>2, <2>1, SameProperties
  <1>12. NotesTrue'
    <2>2. \A k \in Slots' : \A p \in NotesOf(k)' : NoteDone(k, p)' => NoteReadable(target, ViewOf(k), p)'
      BY <1>1, <1>2, <1>6, SameReadable
    <2>3. \A k \in Slots' : k < slot' => TailReadable(target, ViewOf(k))'
      BY <1>1, <1>2, <1>10 DEF NotesTrue
    <2>4. scanned' = Cardinality(NotesMet')
      BY <1>2, <1>8, OneMoreNote
    <2>5. Len(notes') = Cardinality(PropertyNotesMet')
      <3> DEFINE NoteRange == [offset : Nat, size : Nat]
      <3>1. notes \in Seq(NoteRange)
        BY DEF TypeOK
      <3> HIDE DEF NoteRange
      <3>2. Len(notes') = Len(notes) + 1
        BY <1>2, <3>1
      <3> QED BY <1>2, <1>8, <3>2, OneMoreNote
    <2>6. AtItsNote'
      BY <1>2, <1>4, <1>10 DEF AtItsNote
    <2>7. IsPropertyNote(target, cursor)' /\ NoteFits'
      BY <1>2, <1>3, <1>10 DEF NoteFits
    <2>8. DescLimit - Desc \in EntryHeaderSize .. DescScanMax /\ (DescLimit - Desc) % 8 = 0
      <3>1. /\ ~(DescLimit - Desc > DescScanMax) /\ ~(DescLimit - Desc < EntryHeaderSize)
            /\ ~((DescLimit - Desc) % 8 # 0)
        BY <1>2 DEF NoteStatus, EXIT_OK, EXIT_MALFORMED_ELF, EXIT_UNSUPPORTED
      <3>2. DescScanMax \in Nat /\ EntryHeaderSize \in Nat /\ DescLimit - Desc \in Nat
        BY <1>9, GnuPropertyAssumption DEF EntryHeaderSize
      <3> QED BY <3>1, <3>2
    <2> QED BY <1>2, <1>10, <2>2, <2>3, <2>4, <2>5, <2>6, <2>7, <2>8 DEF NotesTrue
  <1>13. RegistrationTrue'
    BY <1>1, <1>2, SameRegistration
  <1>14. FactsTrue'
    BY <1>1, <1>2, <1>11, SameFacts
  <1>15. PropertiesTrue'
    <2>1. {q \in These : q >= Desc} = These
      BY <1>9
    <2>2. \A q \in These : ~(q < Desc)
      BY <1>9
    <2>3. (Desc - Desc) % 8 = 0
      BY <1>9
    <2>4. AtItsProperty'
      BY <1>2, <1>9, <1>10, <2>1, <2>2, <2>3 DEF AtItsProperty
    <2> QED BY <1>1, <1>2, <1>11, <2>4 DEF PropertiesTrue
  <1> QED BY <1>12, <1>13, <1>14, <1>15 DEF ETrue

-----------------------------------------------------------------------------
(* A property is read.                                                     *)

LEMMA AlignedUp ==
    ASSUME NEW n \in Nat
    PROVE  AlignUp(n, 8) % 8 = 0 /\ AlignUp(n, 8) \in Nat
  BY DEF AlignUp

LEMMA InProperties ==
    ASSUME TypeOK, ReadsInside, ETrue, pc = "property"
    PROVE  /\ slot \in Slots /\ cursor \in NotesOf(slot) /\ pc # "register"
           /\ cursor \in Nat /\ View.offset \in Nat /\ End \in Nat /\ NextNote \in Nat
           /\ View.offset <= cursor /\ cursor + HeaderSize <= End /\ NextNote <= End
           /\ Desc \in Nat /\ DescLimit \in Nat /\ property \in Nat
           /\ cursor + HeaderSize <= Desc /\ Desc <= property /\ property <= DescLimit
           /\ DescLimit <= NextNote /\ End <= Len(target.file)
           /\ IsPropertyNote(target, cursor) /\ NoteFits /\ AtItsNote /\ AtItsProperty
           /\ DescLimit - Desc \in EntryHeaderSize .. DescScanMax /\ (DescLimit - Desc) % 8 = 0
           /\ ViewAlign(target, ViewOf(slot)) = Align /\ ViewEnd(ViewOf(slot)) = End
  <1>1. View.offset <= cursor /\ cursor + HeaderSize <= End /\ NextNote <= End /\ property \in Desc .. DescLimit
    BY DEF ReadsInside, PropertyInNote
  <1>2. /\ slot \in Slots /\ cursor \in Nat /\ View.offset \in Nat /\ End \in Nat /\ End <= Len(target.file)
        /\ ViewAlign(target, ViewOf(slot)) = Align /\ ViewEnd(ViewOf(slot)) = End /\ AtItsNote
    BY InParse
  <1>3. /\ cursor \in NotesOf(slot) /\ Desc \in Nat /\ DescLimit \in Nat /\ NextNote \in Nat
        /\ cursor + HeaderSize <= Desc /\ DescLimit <= NextNote
    BY <1>1, AtNoteOfChain
  <1>4. property \in Nat /\ Desc <= property /\ property <= DescLimit
    BY <1>1, <1>3
  <1>5. /\ IsPropertyNote(target, cursor) /\ NoteFits /\ AtItsProperty
        /\ DescLimit - Desc \in EntryHeaderSize .. DescScanMax /\ (DescLimit - Desc) % 8 = 0
    BY DEF ETrue, NotesTrue, PropertiesTrue
  <1> QED BY <1>1, <1>2, <1>3, <1>4, <1>5

LEMMA AtPropertyOfChain ==
    ASSUME TypeOK, ReadsInside, ETrue, AtProperty
    PROVE  /\ property + EntryHeaderSize <= DescLimit /\ property \in These
           /\ NextProperty \in Nat /\ property + EntryHeaderSize <= NextProperty /\ Type \in Nat
           /\ (NextProperty - Desc) % 8 = 0
           /\ NextProperty <= DescLimit =>
                /\ {q \in These : q >= NextProperty} = Chain(PropertyEnds, EntryHeaderSize, DescLimit)[NextProperty]
                /\ \A q \in These : q < NextProperty <=> q <= property
  <1>1. pc = "property" /\ property < DescLimit
    BY DEF AtProperty
  <1>2. /\ Desc \in Nat /\ DescLimit \in Nat /\ property \in Nat /\ Desc <= property /\ property <= DescLimit
        /\ (DescLimit - Desc) % 8 = 0 /\ AtItsProperty /\ cursor + HeaderSize <= End
    BY <1>1, InProperties
  <1>3. property + EntryHeaderSize <= DescLimit
    <2> DEFINE a == property - Desc
               b == DescLimit - Desc
    <2>1. a \in Nat /\ b \in Nat /\ a < b /\ a % 8 = 0 /\ b % 8 = 0
      BY <1>1, <1>2 DEF AtItsProperty
    <2>2. a + 8 <= b
      <3> HIDE DEF a, b
      <3> QED BY <2>1
    <2> QED BY <1>2, <2>2 DEF EntryHeaderSize
  <1>4. NextProperty \in Nat /\ property + EntryHeaderSize <= NextProperty /\ Type \in Nat
    BY <1>1, <1>3, PropertyBounds DEF ReadsInside
  <1>5. (NextProperty - Desc) % 8 = 0
    <2>1. target.file \in Seq(Byte) /\ property + EntryHeaderSize <= Len(target.file)
      <3>1. DescLimit <= NextNote /\ NextNote <= End /\ End <= Len(target.file) /\ NextNote \in Nat /\ End \in Nat
        BY <1>1, InProperties
      <3> QED BY <1>2, <1>3, <3>1, FileTyped DEF EntryHeaderSize
    <2>2. Dword(target.file, property + 4) \in Nat
      BY <1>2, <2>1, DwordTyped DEF EntryHeaderSize
    <2>3. DataEnd(target.file, property) - Desc \in Nat
      BY <1>2, <2>2 DEF DataEnd, EntryHeaderSize
    <2> DEFINE up == AlignUp(DataEnd(target.file, property) - Desc, 8)
    <2>4. up % 8 = 0 /\ up \in Nat
      BY <2>3, AlignedUp
    <2>5. NextProperty = Desc + up
      BY DEF NextProperty, PropertyEnd
    <2> HIDE DEF up
    <2>6. NextProperty - Desc = up
      BY <1>2, <2>4, <2>5
    <2> QED BY <2>4, <2>6
  <1>6. /\ Desc \in Nat /\ DescLimit \in Nat /\ EntryHeaderSize \in Nat /\ EntryHeaderSize > 0
        /\ property \in Desc .. DescLimit /\ property + EntryHeaderSize <= DescLimit
    BY <1>2, <1>3 DEF EntryHeaderSize
  <1>7. DOMAIN PropertyEnds = Desc .. DescLimit /\ \A q \in These : q \in Nat
    BY <1>1, <1>2, TheseAre
  <1>8. {q \in These : q >= property} = Chain(PropertyEnds, EntryHeaderSize, DescLimit)[property]
    BY <1>2 DEF AtItsProperty
  <1>9. PropertyEnds[property] = NextProperty
    BY <1>6 DEF PropertyEnds, NextProperty
  <1>10. /\ property \in These
         /\ PropertyEnds[property] \in property + EntryHeaderSize .. DescLimit =>
              /\ {q \in These : q >= PropertyEnds[property]} = Chain(PropertyEnds, EntryHeaderSize, DescLimit)[PropertyEnds[property]]
              /\ \A q \in These : q < PropertyEnds[property] <=> q <= property
    <2>1. Walk(PropertyEnds, Desc, EntryHeaderSize, DescLimit, These, property)
      BY <1>6, <1>7, <1>8 DEF Walk, IsChain
    <2> QED BY <1>6, <2>1, ChainStep
  <1>11. NextProperty <= DescLimit => NextProperty \in property + EntryHeaderSize .. DescLimit
    BY <1>4, <1>6
  <1> QED BY <1>3, <1>4, <1>5, <1>9, <1>10, <1>11

LEMMA PropertiesMetFinite ==
    ASSUME TypeOK
    PROVE  IsFiniteSet(PropertiesMet) /\ Cardinality(PropertiesMet) \in Nat
  <1>1. IsFiniteSet(0 .. Len(target.file))
    BY FileTyped, FS_Interval
  <1>2. PropertiesMet \in SUBSET (0 .. Len(target.file))
    BY DEF PropertiesMet
  <1>3. IsFiniteSet(PropertiesMet)
    BY <1>1, <1>2, FS_Subset
  <1> QED BY <1>3, FS_CardinalityType

LEMMA PropertyNotMet ==
    ASSUME TypeOK, ReadsInside, CarriersApart, ETrue, AtProperty
    PROVE  property \notin PropertiesMet /\ property \in 0 .. Len(target.file)
  <1>1. pc = "property" /\ property < DescLimit
    BY DEF AtProperty
  <1>2. /\ slot \in Slots /\ cursor \in Nat /\ View.offset \in Nat /\ End \in Nat /\ NextNote \in Nat
        /\ View.offset <= cursor /\ NextNote <= End /\ pc # "register"
        /\ Desc \in Nat /\ DescLimit \in Nat /\ property \in Nat
        /\ cursor + HeaderSize <= Desc /\ Desc <= property
        /\ DescLimit <= NextNote /\ End <= Len(target.file) /\ AtItsNote
    BY <1>1, InProperties
  <1>3. RegistrationTrue /\ CarriersInFile /\ NotesTrue
    BY DEF ETrue, ReadsInside
  <1>4. ASSUME NEW k \in Slots, NEW p \in NotesOf(k), PropertyMet(k, p, property),
               property \in Properties(target, ViewOf(k), p)
        PROVE  FALSE
    <2>1. NoteDone(k, p)
      BY <1>2, <1>4 DEF PropertyMet
    <2> DEFINE stop == NoteEnd(target.file, p, AlignOf(k))
               limit == DescEnd(target.file, p, AlignOf(k))
               desc == DescStart(target.file, p, AlignOf(k))
    <2>2. /\ limit \in Nat /\ stop \in Nat /\ limit <= stop /\ desc \in Nat
          /\ desc <= property /\ property + EntryHeaderSize <= limit /\ p + HeaderSize <= desc
      BY <1>2, <1>3, <1>4, PropertiesInNote
    <2>3. /\ p \in Nat /\ p >= carriers[k].offset
          /\ ViewEnd(ViewOf(k)) = carriers[k].offset + carriers[k].size
          /\ ViewAlign(target, ViewOf(k)) = AlignOf(k)
          /\ carriers[k].offset \in Nat /\ carriers[k].size \in Nat
      BY <1>2, <1>3, <1>4, NotesInView, CarrierTyped DEF Slots
    <2>4. stop <= carriers[k].offset + carriers[k].size
      BY <1>3, <1>4, <2>1, <2>3 DEF NotesTrue, NoteReadable
    <2> HIDE DEF stop, limit, desc
    <2> DEFINE from == carriers[k].offset
               size == carriers[k].size
    <2>5. carriers[k].offset <= property /\ property < carriers[k].offset + carriers[k].size
      <3>1. from \in Nat /\ size \in Nat /\ p \in Nat /\ p >= from /\ stop <= from + size /\ property \in Nat
        BY <1>2, <2>3, <2>4
      <3> HIDE DEF from, size
      <3>2. from <= property /\ property < from + size
        BY <2>2, <3>1 DEF EntryHeaderSize, HeaderSize
      <3> QED BY <3>2 DEF from, size
    <2>6. carriers[slot].offset = View.offset /\ carriers[slot].offset + carriers[slot].size = End
      BY <1>2, SlotIs
    <2>7. carriers[slot].offset <= property /\ property < carriers[slot].offset + carriers[slot].size
      BY <1>1, <1>2, <2>6 DEF HeaderSize
    <2>8. k = slot
      BY <1>2, <2>5, <2>7, OnePlace
    <2>9. p < cursor /\ AlignOf(k) = Align
      BY <1>2, <2>1, <2>8, SlotsTyped, SlotIs DEF NoteDone
    <2>10. stop <= cursor
      BY <1>2, <1>4, <2>8, <2>9 DEF AtItsNote, stop
    <2> QED BY <1>2, <2>2, <2>10 DEF EntryHeaderSize, HeaderSize
  <1>5. property \in 0 .. Len(target.file)
    BY <1>1, <1>2, FileTyped
  <1> QED BY <1>4, <1>5 DEF PropertiesMet

LEMMA OneMoreProperty ==
    ASSUME TypeOK, ReadsInside, CarriersApart, ETrue, AtProperty
    PROVE  Cardinality(PropertiesMet \cup {property}) = entries + 1
  <1>1. property \notin PropertiesMet /\ IsFiniteSet(PropertiesMet)
    BY PropertyNotMet, PropertiesMetFinite
  <1>2. entries = Cardinality(PropertiesMet)
    BY DEF ETrue, PropertiesTrue
  <1> QED BY <1>1, <1>2, FS_AddElement

LEMMA MetAreProperties ==
    ASSUME TypeOK, RegistrationTrue, CarriersInFile, NotesTrue, pc # "register"
    PROVE  /\ PropertiesMet \subseteq AllProperties(target)
           /\ \A k \in Slots : \A p \in NotesOf(k) : IsPropertyNote(target, p) =>
                 \A q \in Properties(target, ViewOf(k), p) : q \in AllProperties(target)
           /\ \A q \in AllProperties(target) : \E k \in Slots : \E p \in NotesOf(k) :
                 IsPropertyNote(target, p) /\ q \in Properties(target, ViewOf(k), p)
  <1>1. Views(target) = {ViewOf(k) : k \in Slots}
    BY CarriersAreViews
  <1>2. \A k \in Slots : PropertyNotes(target, ViewOf(k)) = {p \in NotesOf(k) : IsPropertyNote(target, p)}
    BY DEF PropertyNotes, NotesOf
  <1>3. \A k \in Slots : \A p \in NotesOf(k) : IsPropertyNote(target, p) =>
           \A q \in Properties(target, ViewOf(k), p) : q \in AllProperties(target)
    BY <1>1, <1>2 DEF AllProperties
  <1>4. \A q \in AllProperties(target) : \E k \in Slots : \E p \in NotesOf(k) :
           IsPropertyNote(target, p) /\ q \in Properties(target, ViewOf(k), p)
    BY <1>1, <1>2 DEF AllProperties
  <1>5. PropertiesMet \subseteq AllProperties(target)
    BY <1>3 DEF PropertiesMet
  <1> QED BY <1>3, <1>4, <1>5

\* The types of the properties of the note that is read are numbers.
LEMMA PropertyTypes ==
    ASSUME TypeOK, ReadsInside, ETrue, pc = "property", NEW q \in These
    PROVE  TypeAt(q) \in Nat /\ PropertyEnd(target.file, q, Desc) \in Nat
  <1>1. q \in Nat /\ Desc \in Nat /\ Desc <= q /\ q + EntryHeaderSize <= DescLimit /\ DescLimit \in Nat
    BY TheseAre, InProperties
  <1>2. DescLimit <= NextNote /\ NextNote <= End /\ End <= Len(target.file) /\ NextNote \in Nat /\ End \in Nat
    BY InProperties
  <1>3. target.file \in Seq(Byte) /\ q + EntryHeaderSize <= Len(target.file)
    BY <1>1, <1>2, FileTyped DEF EntryHeaderSize
  <1> QED BY <1>1, <1>3, PropertyLayout DEF TypeAt

LEMMA PropertyInFile ==
    ASSUME TypeOK, CarriersInFile, RegistrationTrue, pc # "register", NEW k \in Slots, NEW p \in NotesOf(k),
           NoteReadable(target, ViewOf(k), p), NEW q \in Properties(target, ViewOf(k), p)
    PROVE  q \in 0 .. Len(target.file)
  <1>1. /\ ViewEnd(ViewOf(k)) = carriers[k].offset + carriers[k].size
        /\ ViewAlign(target, ViewOf(k)) = AlignOf(k)
        /\ carriers[k].offset \in Nat /\ carriers[k].size \in Nat
    BY NotesInView, CarrierTyped DEF Slots
  <1>2. carriers[k].offset + carriers[k].size <= Len(target.file) /\ Len(target.file) \in Nat
    BY FileTyped DEF CarriersInFile, Slots
  <1> DEFINE stop == NoteEnd(target.file, p, AlignOf(k))
             limit == DescEnd(target.file, p, AlignOf(k))
  <1>3. stop <= carriers[k].offset + carriers[k].size
    BY <1>1 DEF NoteReadable
  <1>4. q \in Nat /\ q + EntryHeaderSize <= limit /\ limit <= stop /\ limit \in Nat /\ stop \in Nat
    BY PropertiesInNote
  <1> HIDE DEF stop, limit
  <1> QED BY <1>1, <1>2, <1>3, <1>4 DEF EntryHeaderSize

\* In a file that may be read, no property lies behind the end of the file.
LEMMA PropertiesFinite ==
    ASSUME TypeOK, CarriersInFile, RegistrationTrue, NotesTrue, pc # "register", Readable(target)
    PROVE  IsFiniteSet(AllProperties(target))
  <1>1. ASSUME NEW k \in Slots, NEW p \in NotesOf(k), NEW q \in Properties(target, ViewOf(k), p)
        PROVE  q \in 0 .. Len(target.file)
    <2>1. NoteReadable(target, ViewOf(k), p)
      BY SlotIsView DEF Readable, NotesOf
    <2> QED BY <2>1, PropertyInFile
  <1>2. AllProperties(target) \in SUBSET (0 .. Len(target.file))
    BY <1>1, MetAreProperties
  <1>3. IsFiniteSet(0 .. Len(target.file))
    BY FileTyped, FS_Interval
  <1> QED BY <1>2, <1>3, FS_Subset

LEMMA PropertyRefusedRightly ==
    ASSUME TypeOK, ReadsInside, CarriersApart, ETrue, PropertyRefused
    PROVE  ~Readable(target)
  <1> SUFFICES ASSUME Readable(target) PROVE FALSE
    OBVIOUS
  <1>1. AtProperty /\ PropertyStatus # EXIT_OK /\ pc = "property"
    BY DEF PropertyRefused, AtProperty
  <1>2. /\ slot \in Slots /\ cursor \in NotesOf(slot) /\ pc # "register" /\ AtItsProperty
        /\ IsPropertyNote(target, cursor)
        /\ ViewAlign(target, ViewOf(slot)) = Align /\ ViewEnd(ViewOf(slot)) = End
        /\ DescLimit \in Nat /\ property \in Nat
    BY <1>1, InProperties
  <1>3. property + EntryHeaderSize <= DescLimit /\ property \in These /\ NextProperty \in Nat /\ Type \in Nat
    BY <1>1, AtPropertyOfChain
  <1>4. RegistrationTrue /\ NotesTrue /\ CarriersInFile
    BY DEF ETrue, ReadsInside
  <1>5. NoteReadable(target, ViewOf(slot), cursor)
    BY <1>2, <1>4, SlotIsView DEF Readable, NotesOf
  <1>6. PropertiesReadable(target, ViewOf(slot), cursor)
    BY <1>2, <1>5 DEF NoteReadable
  <1>7. \A q \in These :
           /\ PropertyEnd(target.file, q, Desc) <= DescLimit
           /\ Zero(target.file, DataEnd(target.file, q), PropertyEnd(target.file, q, Desc))
           /\ TypeAt(q) = FeatureType => TypeAt(q + 4) = 4
           /\ \A r \in These : q < r => TypeAt(q) <= TypeAt(r)
    BY <1>2, <1>6 DEF PropertiesReadable, These, Desc, DescLimit, TypeAt
  <1>8. /\ Type = TypeAt(property) /\ DataSize = TypeAt(property + 4)
        /\ NextProperty = PropertyEnd(target.file, property, Desc)
    BY DEF Type, DataSize, NextProperty, TypeAt
  <1>9. ~(entries >= EntryMax)
    <2>1. Cardinality(PropertiesMet \cup {property}) = entries + 1
      BY <1>1, OneMoreProperty
    <2>2. property \in AllProperties(target) /\ PropertiesMet \subseteq AllProperties(target)
      BY <1>2, <1>3, <1>4, MetAreProperties DEF These
    <2>3. PropertiesMet \cup {property} \in SUBSET AllProperties(target)
      BY <2>2
    <2>4. IsFiniteSet(AllProperties(target))
      BY <1>2, <1>4, PropertiesFinite
    <2>5. entries + 1 <= Cardinality(AllProperties(target)) /\ Cardinality(AllProperties(target)) \in Nat
      BY <2>1, <2>3, <2>4, FS_Subset, FS_CardinalityType
    <2>6. Cardinality(AllProperties(target)) <= EntryMax /\ EntryMax \in Nat /\ entries \in Nat
      BY LimitsTyped DEF Readable, TypeOK
    <2> QED BY <2>5, <2>6
  <1>10. \A before \in prior : ~(Type < before)
    <2> SUFFICES ASSUME NEW before \in prior PROVE ~(Type < before)
      OBVIOUS
    <2>1. PICK q \in These : q < property /\ TypeAt(q) = before
      BY <1>2 DEF AtItsProperty
    <2>2. before <= Type /\ before \in Nat
      BY <1>3, <1>7, <1>8, <2>1 DEF TypeOK
    <2> QED BY <1>3, <2>2
  <1> QED BY <1>1, <1>2, <1>3, <1>7, <1>8, <1>9, <1>10 DEF PropertyStatus, EntryHeaderSize

\* What has been counted once one more property has been read.
LEMMA GrownProperties ==
    ASSUME UNCHANGED <<target, carriers>>, slot \in Slots, cursor \in NotesOf(slot),
           IsPropertyNote(target, cursor), property \in These, property \in 0 .. Len(target.file),
           \A k \in Slots : \A p \in NotesOf(k) : IsPropertyNote(target, p) =>
              \A q \in Properties(target, ViewOf(k), p) :
                 PropertyMet(k, p, q)' <=> PropertyMet(k, p, q) \/ (k = slot /\ p = cursor /\ q = property)
    PROVE  PropertiesMet' = PropertiesMet \cup {property}
  <1>1. Slots' = Slots /\ \A k \in Slots : NotesOf(k)' = NotesOf(k) /\ ViewOf(k)' = ViewOf(k)
    BY DEF Slots, NotesOf, ViewOf
  <1>2. \A q \in PropertiesMet' : q \in PropertiesMet \cup {property}
    BY <1>1 DEF PropertiesMet
  <1>3. \A q \in PropertiesMet : q \in PropertiesMet'
    BY <1>1 DEF PropertiesMet
  <1>4. property \in PropertiesMet'
    BY <1>1 DEF PropertiesMet, These
  <1> QED BY <1>2, <1>3, <1>4

LEMMA PropertyReadTruly ==
    ASSUME TypeOK, ReadsInside, CarriersApart, ETrue, AtProperty, PropertyStatus = EXIT_OK, NextEntry
    PROVE  /\ RegistrationTrue' /\ NotesTrue' /\ PropertiesTrue'
           /\ PropertiesMet' = PropertiesMet \cup {property}
  <1>1. RegistrationTrue /\ NotesTrue /\ PropertiesTrue
    BY DEF ETrue
  <1>2. /\ pc = "property" /\ property' = NextProperty /\ prior' = {Type} /\ entries' = entries + 1
        /\ UNCHANGED <<target, pc, index, carriers, contributors, slot, cursor, scanned, notes, status>>
    BY DEF AtProperty, NextEntry
  <1>3. /\ slot \in Slots /\ cursor \in NotesOf(slot) /\ pc # "register" /\ AtItsProperty
        /\ IsPropertyNote(target, cursor) /\ AtItsNote
        /\ DescLimit \in Nat /\ property \in Nat /\ Desc \in Nat
    BY <1>2, InProperties
  <1>4. /\ ~(\E before \in prior : Type < before) /\ NextProperty <= DescLimit
        /\ Zero(target.file, DataEnd(target.file, property), NextProperty)
        /\ ~(Type = FeatureType /\ DataSize # 4)
    <2>1. NextProperty \in Nat
      BY AtPropertyOfChain
    <2>2. ~(\E before \in prior : Type < before) /\ ~(NextProperty > DescLimit)
      BY DEF PropertyStatus, EXIT_OK, EXIT_MALFORMED_ELF, EXIT_UNSUPPORTED
    <2>3. /\ Zero(target.file, DataEnd(target.file, property), NextProperty)
          /\ ~(Type = FeatureType /\ DataSize # 4)
      BY DEF PropertyStatus, EXIT_OK, EXIT_MALFORMED_ELF, EXIT_UNSUPPORTED
    <2> QED BY <1>3, <2>1, <2>2, <2>3
  <1>5. /\ property \in These /\ NextProperty \in Nat /\ Type \in Nat /\ (NextProperty - Desc) % 8 = 0
        /\ {q \in These : q >= NextProperty} = Chain(PropertyEnds, EntryHeaderSize, DescLimit)[NextProperty]
        /\ \A q \in These : q < NextProperty <=> q <= property
    BY <1>4, AtPropertyOfChain
  <1>6. \A q \in These : q \in Nat
    BY <1>2, TheseAre, InProperties
  <1>7. \A q \in These : q < NextProperty <=> q < property \/ q = property
    BY <1>3, <1>5, <1>6
  <1>8. /\ View' = View /\ End' = End /\ Align' = Align /\ Name' = Name /\ Desc' = Desc
        /\ DescLimit' = DescLimit /\ NextNote' = NextNote /\ These' = These /\ PropertyEnds' = PropertyEnds
        /\ Slots' = Slots /\ \A k \in Slots : NotesOf(k)' = NotesOf(k) /\ ViewOf(k)' = ViewOf(k)
    BY <1>2 DEF View, End, Align, Name, Desc, DescLimit, NextNote, These, PropertyEnds, Slots, NotesOf,
       ViewOf
  <1>9. \A k \in Slots : \A p \in NotesOf(k) : NoteDone(k, p)' <=> NoteDone(k, p)
    BY <1>2 DEF NoteDone
  <1>10. SameDone /\ \A k \in Slots : \A p \in NotesOf(k) : NoteMet(k, p)' <=> NoteMet(k, p)
    BY <1>2, <1>9 DEF SameDone, NoteMet
  <1>11. NotesMet' = NotesMet /\ PropertyNotesMet' = PropertyNotesMet
    BY <1>2, <1>10, SameNotes
  <1>12. PropertiesMet' = PropertiesMet \cup {property}
    <2>1. ASSUME NEW k \in Slots, NEW p \in NotesOf(k), NEW q \in Properties(target, ViewOf(k), p)
          PROVE  PropertyMet(k, p, q)' <=> PropertyMet(k, p, q) \/ (k = slot /\ p = cursor /\ q = property)
      <3>1. CASE k = slot /\ p = cursor
        <4>1. q \in These
          BY <3>1 DEF These
        <4>2. q < NextProperty <=> q < property \/ q = property
          BY <1>7, <4>1
        <4> QED BY <1>2, <1>9, <3>1, <4>2 DEF PropertyMet
      <3>2. CASE ~(k = slot /\ p = cursor)
        BY <1>2, <1>9, <3>2 DEF PropertyMet
      <3> QED BY <3>1, <3>2
    <2>2. property \in 0 .. Len(target.file)
      BY PropertyNotMet
    <2> QED BY <1>2, <1>3, <1>5, <2>1, <2>2, GrownProperties
  <1>13. NotesTrue'
    <2>1. \A k \in Slots' : \A p \in NotesOf(k)' : NoteDone(k, p)' => NoteReadable(target, ViewOf(k), p)'
      BY <1>1, <1>2, <1>10, SameReadable
    <2>2. \A k \in Slots' : k < slot' => TailReadable(target, ViewOf(k))'
      BY <1>1, <1>2, <1>8 DEF NotesTrue
    <2>3. scanned' = Cardinality(NotesMet') /\ Len(notes') = Cardinality(PropertyNotesMet')
      BY <1>1, <1>2, <1>11 DEF NotesTrue
    <2>4. AtItsNote'
      BY <1>2, <1>3, <1>8 DEF AtItsNote
    <2>5. /\ IsPropertyNote(target, cursor)' /\ NoteFits'
          /\ (DescLimit - Desc \in EntryHeaderSize .. DescScanMax)' /\ ((DescLimit - Desc) % 8 = 0)'
      BY <1>1, <1>2, <1>8 DEF NotesTrue, NoteFits
    <2> QED BY <2>1, <2>2, <2>3, <2>4, <2>5 DEF NotesTrue
  <1>14. RegistrationTrue'
    BY <1>1, <1>2, <1>3, SameRegistration
  <1>15. AtItsProperty'
    <2>1. \A q \in These : TypeAt(q)' = TypeAt(q) /\ TypeAt(q + 4)' = TypeAt(q + 4)
      BY <1>2 DEF TypeAt
    <2>2. Type = TypeAt(property) /\ DataSize = TypeAt(property + 4)
      BY DEF Type, DataSize, TypeAt
    <2>3. ASSUME NEW q \in These, q < NextProperty
          PROVE  /\ PropertyEnd(target.file, q, Desc) <= NextProperty
                 /\ Zero(target.file, DataEnd(target.file, q), PropertyEnd(target.file, q, Desc))
                 /\ TypeAt(q) = FeatureType => TypeAt(q + 4) = 4
                 /\ TypeAt(q) <= Type
      <3>1. CASE q = property
        BY <1>4, <1>5, <2>2, <3>1 DEF NextProperty
      <3>2. CASE q # property
        <4>1. q < property
          BY <1>7, <2>3, <3>2
        <4>2. /\ PropertyEnd(target.file, q, Desc) <= property
              /\ Zero(target.file, DataEnd(target.file, q), PropertyEnd(target.file, q, Desc))
              /\ TypeAt(q) = FeatureType => TypeAt(q + 4) = 4
          BY <1>3, <4>1 DEF AtItsProperty
        <4>3. PICK before \in prior : TypeAt(q) <= before
          BY <1>3, <4>1 DEF AtItsProperty
        <4>4. before \in Nat /\ before <= Type
          BY <1>4, <1>5 DEF TypeOK
        <4>5. TypeAt(q) \in Nat
          BY <1>2, <4>3, PropertyTypes
        <4>6. PropertyEnd(target.file, q, Desc) <= NextProperty
          BY <1>2, <1>3, <1>5, <4>2, PropertyTypes, AtPropertyOfChain DEF EntryHeaderSize
        <4> QED BY <1>5, <4>2, <4>3, <4>4, <4>5, <4>6
      <3> QED BY <3>1, <3>2
    <2>4. ASSUME NEW q \in These, NEW r \in These, q < r, r < NextProperty
          PROVE  TypeAt(q) <= TypeAt(r)
      <3>1. CASE r = property
        BY <1>5, <1>6, <1>7, <2>2, <2>3, <2>4, <3>1
      <3>2. CASE r # property
        BY <1>3, <1>7, <2>4, <3>2 DEF AtItsProperty
      <3> QED BY <3>1, <3>2
    <2>5. property < NextProperty
      BY <1>5, <1>3
    <2> QED BY <1>2, <1>5, <1>8, <2>1, <2>2, <2>3, <2>4, <2>5 DEF AtItsProperty
  <1>16. PropertiesTrue'
    BY <1>2, <1>12, <1>15, OneMoreProperty DEF PropertiesTrue
  <1> QED BY <1>12, <1>13, <1>14, <1>16

-----------------------------------------------------------------------------
(* What the properties say.                                                *)

LEMMA WordsTyped == \A q : WordAt(q) \subseteq 0 .. 31
  BY DEF WordAt, Bits

LEMMA FactsTyped ==
    ASSUME TypeOK, FactsTrue
    PROVE  /\ facts.count \in Nat /\ facts.unknown \in Nat /\ facts.conflicts \in Nat
           /\ facts.count = 0 <=> FeaturesMet = {}
           /\ IsFiniteSet(FeaturesMet) /\ IsFiniteSet(ForeignBits) /\ IsFiniteSet(PropertiesMet \ FeaturesMet)
  <1>1. IsFiniteSet(PropertiesMet)
    BY PropertiesMetFinite
  <1>2. /\ FeaturesMet \in SUBSET PropertiesMet /\ ForeignBits \in SUBSET PropertiesMet
        /\ PropertiesMet \ FeaturesMet \in SUBSET PropertiesMet
    BY DEF FeaturesMet, ForeignBits
  <1>3. IsFiniteSet(FeaturesMet) /\ IsFiniteSet(ForeignBits) /\ IsFiniteSet(PropertiesMet \ FeaturesMet)
    BY <1>1, <1>2, FS_Subset
  <1>4. /\ Cardinality(FeaturesMet) \in Nat /\ Cardinality(ForeignBits) \in Nat
        /\ Cardinality(PropertiesMet \ FeaturesMet) \in Nat
    BY <1>3, FS_CardinalityType
  <1>5. Cardinality(FeaturesMet) = 0 <=> FeaturesMet = {}
    BY <1>3, FS_EmptySet
  <1> QED BY <1>3, <1>4, <1>5 DEF FactsTrue

LEMMA UnknownTruly ==
    ASSUME TypeOK, ReadsInside, CarriersApart, ETrue, UnknownProperty
    PROVE  ETrue'
  <1>1. /\ AtProperty /\ PropertyStatus = EXIT_OK /\ NextEntry /\ TypeAt(property) # FeatureType
        /\ facts' = [facts EXCEPT !.unknown = @ + 1] /\ pc = "property"
        /\ UNCHANGED <<target, pc>> /\ FactsTrue
    BY DEF UnknownProperty, AtProperty, NextEntry, Type, TypeAt, ETrue
  <1>2. RegistrationTrue' /\ NotesTrue' /\ PropertiesTrue' /\ PropertiesMet' = PropertiesMet \cup {property}
    BY <1>1, PropertyReadTruly
  <1>3. property \notin PropertiesMet
    BY <1>1, PropertyNotMet
  <1>4. FeaturesMet' = FeaturesMet
    BY <1>1, <1>2 DEF FeaturesMet, TypeAt
  <1>5. ForeignBits' = ForeignBits /\ \A q : WordAt(q)' = WordAt(q)
    BY <1>1, <1>4 DEF ForeignBits, WordAt
  <1>6. (PropertiesMet \ FeaturesMet)' = (PropertiesMet \ FeaturesMet) \cup {property}
    BY <1>2, <1>3, <1>4 DEF FeaturesMet
  <1>7. property \notin PropertiesMet \ FeaturesMet
    BY <1>3
  <1>8. Cardinality((PropertiesMet \ FeaturesMet)') = Cardinality(PropertiesMet \ FeaturesMet) + 1
        /\ Cardinality(PropertiesMet \ FeaturesMet) \in Nat /\ Cardinality(ForeignBits) \in Nat
    BY <1>1, <1>6, <1>7, FactsTyped, FS_AddElement, FS_CardinalityType
  <1>9. /\ facts' = [unknown |-> facts.unknown + 1, count |-> facts.count, conflicts |-> facts.conflicts,
                     and |-> facts.and, or |-> facts.or, ibt |-> facts.ibt, shstk |-> facts.shstk]
    BY <1>1 DEF FactsTrue
  <1>10. facts.unknown = Cardinality(PropertiesMet \ FeaturesMet) + Cardinality(ForeignBits)
    BY <1>1 DEF FactsTrue
  <1>11. facts'.unknown = Cardinality((PropertiesMet \ FeaturesMet)') + Cardinality(ForeignBits')
    BY <1>5, <1>8, <1>9, <1>10
  <1>12. FactsTrue'
    BY <1>1, <1>4, <1>5, <1>9, <1>11 DEF FactsTrue
  <1> QED BY <1>2, <1>12 DEF ETrue

LEMMA FeatureTruly ==
    ASSUME TypeOK, ReadsInside, CarriersApart, ETrue, FeatureProperty
    PROVE  ETrue'
  <1> DEFINE bits == WordAt(property)
             first == facts.count = 0
             unknown == IF bits \ {IBT, SHSTK} # {} THEN facts.unknown + 1 ELSE facts.unknown
             conflicts == IF ~first /\ facts.and # bits THEN facts.conflicts + 1 ELSE facts.conflicts
             and == IF first THEN bits ELSE facts.and \cap bits
             or == IF first THEN bits ELSE facts.or \cup bits
  <1>1. /\ AtProperty /\ PropertyStatus = EXIT_OK /\ NextEntry /\ TypeAt(property) = FeatureType
        /\ pc = "property" /\ UNCHANGED <<target, pc>> /\ FactsTrue
    BY DEF FeatureProperty, AtProperty, NextEntry, Type, TypeAt, ETrue
  <1>2. RegistrationTrue' /\ NotesTrue' /\ PropertiesTrue' /\ PropertiesMet' = PropertiesMet \cup {property}
    BY <1>1, PropertyReadTruly
  <1>3. property \notin PropertiesMet
    BY <1>1, PropertyNotMet
  <1>4. facts' = [unknown |-> unknown, count |-> facts.count + 1, conflicts |-> conflicts,
                  and |-> and, or |-> or, ibt |-> facts.ibt, shstk |-> facts.shstk]
    <2>1. facts' = [facts EXCEPT !.unknown = unknown, !.conflicts = conflicts, !.and = and, !.or = or,
                                 !.count = @ + 1]
      BY DEF FeatureProperty, WordAt
    <2>2. facts = [unknown |-> facts.unknown, count |-> facts.count, conflicts |-> facts.conflicts,
                   and |-> facts.and, or |-> facts.or, ibt |-> facts.ibt, shstk |-> facts.shstk]
      BY <1>1 DEF FactsTrue
    <2> HIDE DEF unknown, conflicts, and, or
    <2> QED BY <2>1, <2>2
  <1>5. FeaturesMet' = FeaturesMet \cup {property} /\ property \notin FeaturesMet
    BY <1>1, <1>2, <1>3 DEF FeaturesMet, TypeAt
  <1>6. (PropertiesMet \ FeaturesMet)' = PropertiesMet \ FeaturesMet
    BY <1>2, <1>3, <1>5
  <1>7. \A q : WordAt(q)' = WordAt(q)
    BY <1>1 DEF WordAt
  <1>8. property \notin ForeignBits
        /\ ForeignBits' = IF bits \ {IBT, SHSTK} # {} THEN ForeignBits \cup {property} ELSE ForeignBits
    BY <1>5, <1>7 DEF ForeignBits
  <1>9. /\ facts.count \in Nat /\ facts.unknown \in Nat /\ facts.conflicts \in Nat
        /\ first <=> FeaturesMet = {}
        /\ IsFiniteSet(FeaturesMet) /\ IsFiniteSet(ForeignBits) /\ IsFiniteSet(PropertiesMet \ FeaturesMet)
    BY <1>1, FactsTyped
  <1>10. Cardinality(FeaturesMet \cup {property}) = facts.count + 1
    BY <1>1, <1>5, <1>9, FS_AddElement DEF FactsTrue
  <1>11. unknown = Cardinality(PropertiesMet \ FeaturesMet) + Cardinality(ForeignBits')
    <2>1. facts.unknown = Cardinality(PropertiesMet \ FeaturesMet) + Cardinality(ForeignBits)
      BY <1>1 DEF FactsTrue
    <2>2. Cardinality(PropertiesMet \ FeaturesMet) \in Nat /\ Cardinality(ForeignBits) \in Nat
      BY <1>9, FS_CardinalityType
    <2>3. CASE bits \ {IBT, SHSTK} # {}
      <3>1. Cardinality(ForeignBits') = Cardinality(ForeignBits) + 1
        BY <1>8, <1>9, <2>3, FS_AddElement
      <3> QED BY <2>1, <2>2, <2>3, <3>1
    <2>4. CASE ~(bits \ {IBT, SHSTK} # {})
      BY <1>8, <2>1, <2>4
    <2> QED BY <2>3, <2>4
  <1>12. /\ bits \subseteq 0 .. 31 /\ facts.and \subseteq 0 .. 31 /\ facts.or \subseteq 0 .. 31
         /\ \A q \in FeaturesMet : WordAt(q) \subseteq 0 .. 31
    BY <1>1, WordsTyped DEF FactsTrue
  <1>13. FeaturesMet # {} => \A n \in 0 .. 31 :
            /\ n \in facts.and <=> \A q \in FeaturesMet : n \in WordAt(q)
            /\ n \in facts.or <=> \E q \in FeaturesMet : n \in WordAt(q)
    BY <1>1 DEF FactsTrue
  <1>14. facts.conflicts = 0 <=> \A q, r \in FeaturesMet : WordAt(q) = WordAt(r)
    BY <1>1 DEF FactsTrue
  <1> HIDE DEF bits, first
  <1>15. and \subseteq 0 .. 31 /\ or \subseteq 0 .. 31
    BY <1>12
  <1>16. \A n \in 0 .. 31 :
            /\ n \in and <=> \A q \in FeaturesMet \cup {property} : n \in WordAt(q)
            /\ n \in or <=> \E q \in FeaturesMet \cup {property} : n \in WordAt(q)
    <2>1. bits = WordAt(property)
      BY DEF bits
    <2>2. CASE first
      BY <1>9, <2>1, <2>2
    <2>3. CASE ~first
      BY <1>9, <1>13, <2>1, <2>3
    <2> QED BY <2>2, <2>3
  <1>17. conflicts = 0 <=> \A q, r \in FeaturesMet \cup {property} : WordAt(q) = WordAt(r)
    <2>1. bits = WordAt(property)
      BY DEF bits
    <2>2. CASE first
      BY <1>9, <1>14, <2>1, <2>2
    <2>3. CASE ~first /\ facts.conflicts # 0
      BY <1>9, <1>14, <2>3
    <2>4. CASE ~first /\ facts.conflicts = 0
      <3>1. PICK f \in FeaturesMet : TRUE
        BY <1>9, <2>4
      <3>2. \A q \in FeaturesMet : WordAt(q) = WordAt(f)
        BY <1>14, <2>4
      <3>3. facts.and = WordAt(f)
        <4>1. \A n \in 0 .. 31 : n \in facts.and <=> n \in WordAt(f)
          BY <1>13, <3>1, <3>2
        <4>2. facts.and \subseteq 0 .. 31 /\ WordAt(f) \subseteq 0 .. 31
          BY <1>12, <3>1
        <4> QED BY <4>1, <4>2
      <3>4. (\A q, r \in FeaturesMet \cup {property} : WordAt(q) = WordAt(r)) <=> WordAt(f) = bits
        BY <2>1, <3>1, <3>2
      <3>5. conflicts = 0 <=> facts.and = bits
        BY <2>4
      <3> QED BY <3>3, <3>4, <3>5
    <2> QED BY <2>2, <2>3, <2>4
  <1>18. conflicts \in Nat
    BY <1>9
  <1> HIDE DEF unknown, conflicts, and, or
  <1>19. FactsTrue'
    <2>1. /\ facts'.count = facts.count + 1 /\ facts'.unknown = unknown /\ facts'.conflicts = conflicts
          /\ facts'.and = and /\ facts'.or = or
          /\ facts' = [unknown |-> facts'.unknown, count |-> facts'.count, conflicts |-> facts'.conflicts,
                       and |-> facts'.and, or |-> facts'.or, ibt |-> facts'.ibt, shstk |-> facts'.shstk]
      BY <1>4
    <2>2. pc' # "done"
      BY <1>1
    <2>3. /\ facts'.count = Cardinality(FeaturesMet')
          /\ facts'.unknown = Cardinality((PropertiesMet \ FeaturesMet)') + Cardinality(ForeignBits')
      BY <1>5, <1>6, <1>10, <1>11, <2>1
    <2>4. \A n \in 0 .. 31 :
             /\ n \in facts'.and <=> \A q \in FeaturesMet' : n \in WordAt(q)'
             /\ n \in facts'.or <=> \E q \in FeaturesMet' : n \in WordAt(q)'
      BY <1>5, <1>7, <1>16, <2>1
    <2>5. facts'.conflicts = 0 <=> \A q, r \in FeaturesMet' : WordAt(q)' = WordAt(r)'
      BY <1>5, <1>7, <1>17, <2>1
    <2>6. facts'.conflicts \in Nat /\ facts'.and \subseteq 0 .. 31 /\ facts'.or \subseteq 0 .. 31
      BY <1>15, <1>18, <2>1
    <2> QED BY <2>1, <2>2, <2>3, <2>4, <2>5, <2>6 DEF FactsTrue
  <1> QED BY <1>2, <1>19 DEF ETrue

LEMMA EndTruly ==
    ASSUME TypeOK, ReadsInside, CarriersApart, ETrue, PropertiesEnd
    PROVE  ETrue'
  <1>1. RegistrationTrue /\ NotesTrue /\ PropertiesTrue /\ FactsTrue
    BY DEF ETrue
  <1>2. /\ pc = "property" /\ property >= DescLimit /\ cursor' = NextNote /\ pc' = "note"
        /\ UNCHANGED <<target, index, carriers, contributors, slot, property, prior, scanned, entries,
                       notes, facts, status>>
    BY DEF PropertiesEnd
  <1>3. /\ slot \in Slots /\ cursor \in NotesOf(slot) /\ pc # "register" /\ AtItsProperty /\ NoteFits
        /\ NextNote <= End /\ cursor + HeaderSize <= End
        /\ ViewAlign(target, ViewOf(slot)) = Align /\ ViewEnd(ViewOf(slot)) = End
        /\ DescLimit - Desc \in EntryHeaderSize .. DescScanMax /\ (DescLimit - Desc) % 8 = 0
        /\ property \in Nat /\ DescLimit \in Nat /\ property = DescLimit
    BY <1>2, InProperties
  <1>4. \A q \in These : q \in Nat /\ q < property
    BY <1>2, <1>3, TheseAre DEF EntryHeaderSize
  <1>5. PropertiesReadable(target, ViewOf(slot), cursor)
    <2>1. \A q \in These :
             /\ PropertyEnd(target.file, q, Desc) <= DescLimit
             /\ Zero(target.file, DataEnd(target.file, q), PropertyEnd(target.file, q, Desc))
             /\ TypeAt(q) = FeatureType => TypeAt(q + 4) = 4
             /\ \A r \in These : q < r => TypeAt(q) <= TypeAt(r)
      BY <1>3, <1>4 DEF AtItsProperty
    <2> QED BY <1>3, <2>1 DEF PropertiesReadable, These, Desc, DescLimit, TypeAt
  <1>6. NoteReadable(target, ViewOf(slot), cursor)
    BY <1>3, <1>5 DEF NoteReadable, NoteFits, NextNote, Name, Desc, DescLimit
  <1>7. AtItsNote' /\ \A p \in NotesOf(slot) : p < cursor' <=> p <= cursor
    BY <1>2, <1>3, AtNextNote
  <1>8. \A p \in NotesOf(slot) : p < cursor' <=> p < cursor \/ p = cursor
    BY <1>2, <1>7, InParse
  <1>9. \A k \in Slots : \A p \in NotesOf(k) :
           NoteDone(k, p)' <=> NoteDone(k, p) \/ (k = slot /\ p = cursor)
    BY <1>2, <1>8 DEF NoteDone
  <1>10. \A k \in Slots : \A p \in NotesOf(k) : NoteMet(k, p)' <=> NoteMet(k, p)
    BY <1>2, <1>9 DEF NoteMet
  <1>11. NotesMet' = NotesMet /\ PropertyNotesMet' = PropertyNotesMet
    BY <1>2, <1>10, SameNotes
  <1>12. PropertiesMet' = PropertiesMet
    <2>1. ASSUME NEW k \in Slots, NEW p \in NotesOf(k), NEW q \in Properties(target, ViewOf(k), p)
          PROVE  PropertyMet(k, p, q)' <=> PropertyMet(k, p, q)
      <3>1. CASE k = slot /\ p = cursor
        <4>1. q < property
          BY <1>4, <3>1 DEF These
        <4> QED BY <1>2, <1>9, <3>1, <4>1 DEF PropertyMet
      <3>2. CASE ~(k = slot /\ p = cursor)
        BY <1>2, <1>9, <3>2 DEF PropertyMet
      <3> QED BY <3>1, <3>2
    <2> QED BY <1>2, <2>1, SameProperties
  <1>13. NotesTrue'
    <2>1. Slots' = Slots /\ \A k \in Slots : NotesOf(k)' = NotesOf(k) /\ ViewOf(k)' = ViewOf(k)
      BY <1>2 DEF Slots, NotesOf, ViewOf
    <2>2. \A k \in Slots' : \A p \in NotesOf(k)' : NoteDone(k, p)' => NoteReadable(target, ViewOf(k), p)'
      BY <1>1, <1>2, <1>6, <1>9, OneMoreReadable
    <2>3. \A k \in Slots' : k < slot' => TailReadable(target, ViewOf(k))'
      BY <1>1, <1>2, <2>1 DEF NotesTrue
    <2>4. scanned' = Cardinality(NotesMet') /\ Len(notes') = Cardinality(PropertyNotesMet')
      BY <1>1, <1>2, <1>11 DEF NotesTrue
    <2> QED BY <1>2, <1>7, <2>2, <2>3, <2>4 DEF NotesTrue
  <1>14. RegistrationTrue'
    BY <1>1, <1>2, SameRegistration
  <1>15. PropertiesTrue' /\ FactsTrue'
    BY <1>1, <1>2, <1>12, SameEntries, SameFacts
  <1> QED BY <1>13, <1>14, <1>15 DEF ETrue

LEMMA FinalizeTruly ==
    ASSUME TypeOK, ETrue, Finalize
    PROVE  ETrue'
  <1>1. RegistrationTrue /\ NotesTrue /\ PropertiesTrue /\ FactsTrue
    BY DEF ETrue
  <1>2. /\ pc = "finalize" /\ pc' = "done"
        /\ facts' = [facts EXCEPT !.ibt = FeatureState(IBT), !.shstk = FeatureState(SHSTK)]
        /\ UNCHANGED <<target, index, carriers, contributors, slot, cursor, property, prior, scanned, entries,
                       notes, status>>
    BY DEF Finalize
  <1>3. SameDone
    BY <1>2 DEF SameDone, NoteDone
  <1>4. \A k \in Slots : \A p \in NotesOf(k) : NoteMet(k, p)' <=> NoteMet(k, p)
    BY <1>2, <1>3 DEF SameDone, NoteMet
  <1>5. NotesMet' = NotesMet /\ PropertyNotesMet' = PropertyNotesMet
    BY <1>2, <1>4, SameNotes
  <1>6. PropertiesMet' = PropertiesMet
    <2>1. \A k \in Slots : \A p \in NotesOf(k) : \A q : PropertyMet(k, p, q)' <=> PropertyMet(k, p, q)
      BY <1>2, <1>3 DEF SameDone, PropertyMet
    <2> QED BY <1>2, <2>1, SameProperties
  <1>7. NotesTrue'
    <2>1. Slots' = Slots /\ \A k \in Slots : NotesOf(k)' = NotesOf(k) /\ ViewOf(k)' = ViewOf(k)
      BY <1>2 DEF Slots, NotesOf, ViewOf
    <2>2. \A k \in Slots' : \A p \in NotesOf(k)' : NoteDone(k, p)' => NoteReadable(target, ViewOf(k), p)'
      BY <1>1, <1>2, <1>3, SameReadable
    <2>3. \A k \in Slots' : k < slot' => TailReadable(target, ViewOf(k))'
      BY <1>1, <1>2, <2>1 DEF NotesTrue
    <2>4. scanned' = Cardinality(NotesMet') /\ Len(notes') = Cardinality(PropertyNotesMet')
      BY <1>1, <1>2, <1>5 DEF NotesTrue
    <2> QED BY <1>2, <2>2, <2>3, <2>4 DEF NotesTrue
  <1>8. RegistrationTrue'
    <2>1. slot > Len(carriers)
      BY <1>1, <1>2 DEF RegistrationTrue
    <2> QED BY <1>1, <1>2, <2>1, SameRegistration
  <1>9. PropertiesTrue'
    BY <1>1, <1>2, <1>6, SameEntries
  <1>10. FactsTrue'
    <2>1. FeaturesMet' = FeaturesMet /\ ForeignBits' = ForeignBits /\ \A q : WordAt(q)' = WordAt(q)
      BY <1>2, <1>6 DEF FeaturesMet, ForeignBits, TypeAt, WordAt
    <2>2. facts' = [unknown |-> facts.unknown, count |-> facts.count, conflicts |-> facts.conflicts,
                    and |-> facts.and, or |-> facts.or,
                    ibt |-> FeatureState(IBT), shstk |-> FeatureState(SHSTK)]
      BY <1>1, <1>2 DEF FactsTrue
    <2>3. /\ facts'.unknown = facts.unknown /\ facts'.count = facts.count
          /\ facts'.conflicts = facts.conflicts
          /\ facts'.and = facts.and /\ facts'.or = facts.or
          /\ facts'.ibt = FeatureState(IBT) /\ facts'.shstk = FeatureState(SHSTK)
          /\ facts' = [unknown |-> facts'.unknown, count |-> facts'.count, conflicts |-> facts'.conflicts,
                       and |-> facts'.and, or |-> facts'.or, ibt |-> facts'.ibt, shstk |-> facts'.shstk]
      BY <2>2
    <2>4. FeatureState(IBT)' = FeatureState(IBT) /\ FeatureState(SHSTK)' = FeatureState(SHSTK)
      BY <2>3 DEF FeatureState
    <2> QED BY <1>1, <1>6, <2>1, <2>3, <2>4 DEF FactsTrue
  <1> QED BY <1>7, <1>8, <1>9, <1>10 DEF ETrue

-----------------------------------------------------------------------------
(* The whole analysis.                                                     *)

LEMMA RegisterTruly ==
    ASSUME TypeOK, TypeOK', ETrue, NothingBeforeParse, CarrierAdded \/ CarrierShared
    PROVE  ETrue' /\ status' = status
  <1>1. RegistrationTrue' /\ status' = status
    BY RegistersTruly DEF ETrue
  <1>2. /\ pc = "register"
        /\ UNCHANGED <<target, pc, slot, cursor, property, prior, scanned, entries, notes, facts, status>>
    BY DEF CarrierAdded, CarrierShared, Contribute, Registering
  <1>3. Fresh'
    BY <1>2 DEF Fresh, ETrue, RegistrationTrue, NothingBeforeParse
  <1>4. NotesTrue' /\ PropertiesTrue' /\ FactsTrue'
    BY <1>3, FreshIsTrue, PTL
  <1> QED BY <1>1, <1>4 DEF ETrue

LEMMA RefusalsRight ==
    ASSUME TypeOK, ReadsInside, CarriersApart, NothingTwice, ETrue,
           CarrierRefused \/ CarrierOverlaps \/ CarriersFull \/ TailRefused \/ NoteRefused
             \/ PropertyNoteRefused \/ PropertyRefused
    PROVE  ~Readable(target)
  BY HeaderRefusedRightly, OverlapRefusedRightly, FullRefusedRightly, TailRefusedRightly,
     NoteRefusedRightly,
     PropertyNoteRefusedRightly, PropertyRefusedRightly DEF ETrue

\* The analysis of an ELF file starts with nothing read.
THEOREM InitEvidence == Init => EInv
  <1> SUFFICES ASSUME Init PROVE EInv
    OBVIOUS
  <1>1. TypeOK
    BY InitInv DEF IInv
  <1>2. Fresh /\ status = EXIT_OK /\ pc = "register" /\ index = 1 /\ carriers = <<>> /\ contributors = <<>>
    BY DEF Init, Begins, Fresh
  <1>3. NotesTrue /\ PropertiesTrue /\ FactsTrue
    BY <1>1, <1>2, FreshIsTrue
  <1>4. RegistrationTrue
    BY <1>1, <1>2, HeadersTyped DEF RegistrationTrue, Slots, Fresh
  <1> QED BY <1>2, <1>3, <1>4 DEF EInv

\* Every header, note and property that is accepted is counted as the evidence
\* counts it, and whatever is refused makes the file unreadable.
THEOREM StepEvidence == IInv /\ EInv /\ [Next]_vars => EInv'
  <1> SUFFICES ASSUME IInv, EInv, [Next]_vars PROVE EInv'
    OBVIOUS
  <1>1. /\ TypeOK /\ ReadsInside /\ CarriersApart /\ NothingBeforeParse /\ NothingTwice /\ TypeOK'
    BY InvNothingTwice, StepInv DEF IInv
  <1>2. CASE UNCHANGED vars
    <2>1. /\ Slots' = Slots /\ View' = View /\ End' = End /\ Align' = Align /\ Name' = Name /\ Desc' = Desc
          /\ DescLimit' = DescLimit /\ NextNote' = NextNote
      BY <1>2 DEF vars, Slots, View, End, Align, Name, Desc, DescLimit, NextNote
    <2>2. \A k : ViewOf(k)' = ViewOf(k) /\ NotesOf(k)' = NotesOf(k) /\ Named(k)' = Named(k)
      BY <1>2 DEF vars, ViewOf, NotesOf, Named
    <2>3. \A k, p : NoteDone(k, p)' = NoteDone(k, p)
      BY <1>2 DEF vars, NoteDone
    <2>4. \A k, p : NoteMet(k, p)' = NoteMet(k, p)
      BY <1>2, <2>3 DEF vars, NoteMet
    <2>5. NotesMet' = NotesMet /\ PropertyNotesMet' = PropertyNotesMet
      BY <1>2, <2>4, SameNotes DEF vars
    <2>6. \A k, p, q : PropertyMet(k, p, q)' = PropertyMet(k, p, q)
      BY <1>2, <2>3 DEF vars, PropertyMet
    <2>7. PropertiesMet' = PropertiesMet
      BY <1>2, <2>6, SameProperties DEF vars
    <2>8. FeaturesMet' = FeaturesMet /\ ForeignBits' = ForeignBits /\ \A q : WordAt(q)' = WordAt(q)
      BY <1>2, <2>7 DEF vars, FeaturesMet, ForeignBits, TypeAt, WordAt
    <2>9. These' = These /\ PropertyEnds' = PropertyEnds /\ \A q : TypeAt(q)' = TypeAt(q)
      BY <1>2, <2>1 DEF vars, These, PropertyEnds, ViewOf, TypeAt
    <2>10. RegistrationTrue' = RegistrationTrue
      BY <1>2, <2>1, <2>2 DEF vars, RegistrationTrue
    <2>11. AtItsNote' = AtItsNote /\ NoteFits' = NoteFits
      BY <1>2, <2>1, <2>2 DEF vars, AtItsNote, NoteFits
    <2>12. NotesTrue' = NotesTrue
      BY <1>2, <2>1, <2>2, <2>3, <2>5, <2>11 DEF vars, NotesTrue
    <2>13. AtItsProperty' = AtItsProperty
      BY <1>2, <2>1, <2>9 DEF vars, AtItsProperty
    <2>14. PropertiesTrue' = PropertiesTrue
      BY <1>2, <2>7, <2>13 DEF vars, PropertiesTrue
    <2>15. FeatureState(IBT)' = FeatureState(IBT) /\ FeatureState(SHSTK)' = FeatureState(SHSTK)
      BY <1>2 DEF vars, FeatureState
    <2>16. FactsTrue' = FactsTrue
      BY <1>2, <2>7, <2>8, <2>15 DEF vars, FactsTrue
    <2> QED BY <1>2, <2>10, <2>12, <2>14, <2>16 DEF vars, EInv
  <1>3. CASE pc # "done"
    <2>1. ETrue /\ status = EXIT_OK
      BY <1>3 DEF EInv, ETrue
    <2>2. CASE CarrierRefused \/ CarrierOverlaps \/ CarriersFull \/ TailRefused \/ NoteRefused
                 \/ PropertyNoteRefused \/ PropertyRefused
      <3>1. ~Readable(target)
        BY <1>1, <2>1, <2>2, RefusalsRight
      <3>2. target' = target /\ pc' = "done" /\ status' # EXIT_OK
        BY <2>2 DEF CarrierRefused, CarrierOverlaps, CarriersFull, TailRefused, NoteRefused,
           PropertyNoteRefused,
                    PropertyRefused, Refuse, EXIT_OK, EXIT_MALFORMED_ELF, EXIT_UNSUPPORTED
      <3> QED BY <3>1, <3>2 DEF EInv
    <2>3. CASE CarrierAdded \/ CarrierShared
      BY <1>1, <2>1, <2>3, RegisterTruly DEF EInv, ETrue
    <2>4. CASE Registered
      <3>1. ETrue' /\ status' = status
        BY <1>1, <2>1, <2>4, RegisteredTruly DEF ETrue, Registered
      <3> QED BY <2>1, <3>1 DEF EInv, ETrue
    <2>5. CASE BeginCarrier \/ LastCarrier \/ NoteTail \/ NoteSkipped \/ PropertyNote
      <3>1. ETrue'
        BY <1>1, <2>1, <2>5, BeginsTruly, LastTruly, TailTruly, SkippedTruly, PropertyNoteTruly
      <3>2. status' = status
        BY <2>5 DEF BeginCarrier, LastCarrier, NoteTail, NoteSkipped, PropertyNote
      <3> QED BY <2>1, <3>1, <3>2 DEF EInv, ETrue
    <2>6. CASE UnknownProperty \/ FeatureProperty \/ PropertiesEnd \/ Finalize
      <3>1. ETrue'
        BY <1>1, <2>1, <2>6, UnknownTruly, FeatureTruly, EndTruly, FinalizeTruly
      <3>2. status' = status
        BY <2>6 DEF UnknownProperty, FeatureProperty, PropertiesEnd, Finalize, NextEntry
      <3> QED BY <2>1, <3>1, <3>2 DEF EInv, ETrue
    <2> QED BY <1>2, <1>3, <2>2, <2>3, <2>4, <2>5, <2>6 DEF Next, Register, Parse, Done
  <1>4. CASE pc = "done" /\ ~UNCHANGED vars
    BY <1>4 DEF Next, Register, Parse, Done, Finalize, CarrierRefused, CarrierOverlaps, CarriersFull,
       CarrierAdded,
                CarrierShared, Registered, Registering, BeginCarrier, LastCarrier, NoteTail, TailRefused, NoteRefused,
                NoteSkipped, PropertyNoteRefused, PropertyNote, NoteRead, AtTail, AtNote, PropertyRefused,
                UnknownProperty, FeatureProperty, PropertiesEnd, AtProperty
  <1> QED BY <1>2, <1>3, <1>4

-----------------------------------------------------------------------------
(* When the analysis ends.                                                 *)

\* Two elements, or at most one.
LEMMA MoreThanOne ==
    ASSUME NEW S, IsFiniteSet(S)
    PROVE  Cardinality(S) > 1 <=> \E a, b \in S : a # b
  <1>1. Cardinality(S) \in Nat
    BY FS_CardinalityType
  <1>2. ASSUME NEW a \in S, NEW b \in S, a # b PROVE Cardinality(S) > 1
    <2>1. IsFiniteSet({a}) /\ Cardinality({a}) = 1
      BY FS_Singleton
    <2>2. Cardinality({a} \cup {b}) = 2
      BY <1>2, <2>1, FS_AddElement
    <2>3. {a} \cup {b} \in SUBSET S
      OBVIOUS
    <2>4. 2 <= Cardinality(S)
      BY <2>2, <2>3, FS_Subset
    <2> QED BY <1>1, <2>4
  <1>3. ASSUME \A a, b \in S : a = b PROVE ~(Cardinality(S) > 1)
    <2>1. CASE S = {}
      BY <2>1, FS_EmptySet
    <2>2. CASE S # {}
      <3>1. PICK a \in S : TRUE
        BY <2>2
      <3>2. S = {a}
        BY <1>3, <3>1
      <3>3. Cardinality({a}) = 1
        BY FS_Singleton
      <3> QED BY <3>2, <3>3
    <2> QED BY <2>1, <2>2
  <1> QED BY <1>2, <1>3

\* When the analysis ends with EXIT_OK, everything has been read.
LEMMA AllIsMet ==
    ASSUME IInv, ETrue, pc = "done"
    PROVE  /\ NotesMet = AllNotes(target) /\ PropertyNotesMet = AllPropertyNotes(target)
           /\ PropertiesMet = AllProperties(target)
           /\ \A k \in Slots : TailReadable(target, ViewOf(k))
           /\ \A k \in Slots : \A p \in NotesOf(k) : NoteReadable(target, ViewOf(k), p)
  <1>1. TypeOK /\ CarriersInFile /\ RegistrationTrue /\ NotesTrue /\ pc # "register"
    BY DEF IInv, ReadsInside, ETrue
  <1>2. \A k \in Slots : k < slot
    BY <1>1, SlotsTyped DEF RegistrationTrue
  <1>3. \A k \in Slots : \A p : NoteDone(k, p) /\ NoteMet(k, p)
    BY <1>2 DEF NoteDone, NoteMet
  <1>4. \A k \in Slots : \A p \in NotesOf(k) : NoteReadable(target, ViewOf(k), p)
    BY <1>1, <1>3 DEF NotesTrue
  <1>5. \A k \in Slots : TailReadable(target, ViewOf(k))
    BY <1>1, <1>2 DEF NotesTrue
  <1>6. NotesMet = AllNotes(target)
    <2>1. \A p \in AllNotes(target) : p \in NotesMet
      BY <1>1, <1>3, MetAreNotes DEF NotesMet
    <2> QED BY <1>1, <2>1, MetAreNotes
  <1>7. PropertyNotesMet = AllPropertyNotes(target)
    <2>1. \A p \in AllPropertyNotes(target) : p \in AllNotes(target) /\ IsPropertyNote(target, p)
      BY <1>1, MetAreNotes
    <2>2. \A p \in AllPropertyNotes(target) : p \in PropertyNotesMet
      BY <1>6, <2>1 DEF PropertyNotesMet
    <2> QED BY <1>1, <2>2, MetAreNotes
  <1>8. PropertiesMet = AllProperties(target)
    <2>1. ASSUME NEW q \in AllProperties(target) PROVE q \in PropertiesMet
      <3>1. PICK k \in Slots : \E p \in NotesOf(k) :
               IsPropertyNote(target, p) /\ q \in Properties(target, ViewOf(k), p)
        BY <1>1, MetAreProperties
      <3>2. PICK p \in NotesOf(k) : IsPropertyNote(target, p) /\ q \in Properties(target, ViewOf(k), p)
        BY <3>1
      <3>3. q \in 0 .. Len(target.file)
        BY <1>1, <1>4, <3>2, PropertyInFile
      <3>4. PropertyMet(k, p, q)
        BY <1>3 DEF PropertyMet
      <3> QED BY <3>2, <3>3, <3>4 DEF PropertiesMet
    <2> QED BY <1>1, <2>1, MetAreProperties
  <1> QED BY <1>4, <1>5, <1>6, <1>7, <1>8

LEMMA AcceptedIsReadable ==
    ASSUME IInv, ETrue, pc = "done"
    PROVE  Readable(target)
  <1>1. /\ TypeOK /\ CarriersInFile /\ RegistrationTrue /\ NotesTrue /\ PropertiesTrue /\ pc # "register"
        /\ CarriersApart
    BY DEF IInv, ReadsInside, ETrue
  <1>2. /\ Views(target) = {ViewOf(k) : k \in Slots} /\ Len(carriers) = Cardinality(Views(target))
    BY <1>1, CarriersAreViews
  <1>3. \A i \in DOMAIN target.headers : HeaderReadable(target, target.headers[i])
    <2>1. index = Len(target.headers) + 1 /\ \A i \in 1 .. index - 1 : HeaderReadable(target, target.headers[i])
      BY <1>1 DEF RegistrationTrue
    <2>2. index - 1 = Len(target.headers)
      BY <1>1, <2>1, HeadersTyped
    <2> QED BY <1>1, <2>1, <2>2, HeadersTyped
  <1>4. \A v, w \in Views(target) : Apart(v, w)
    <2> SUFFICES ASSUME NEW j \in Slots, NEW k \in Slots PROVE Apart(ViewOf(j), ViewOf(k))
      BY <1>2
    <2>1. CASE j = k
      BY <2>1 DEF Apart
    <2>2. CASE j # k
      <3>1. RangesApart(carriers[j], carriers[k])
        BY <1>1, <2>2 DEF CarriersApart, Slots
      <3> QED BY <3>1 DEF RangesApart, Apart, ViewOf, ViewEnd
    <2> QED BY <2>1, <2>2
  <1>5. Len(target.headers) <= ContributorMax /\ Cardinality(Views(target)) <= CarrierMax
    <2>1. index = Len(target.headers) + 1 /\ Len(contributors) = index - 1
      BY <1>1 DEF RegistrationTrue
    <2>2. Len(contributors) = Len(target.headers)
      BY <1>1, <2>1, HeadersTyped
    <2> QED BY <1>1, <1>2, <2>2 DEF TypeOK
  <1>6. \A view \in Views(target) :
           /\ \A p \in Notes(target, view) : NoteReadable(target, view, p)
           /\ TailReadable(target, view)
    BY <1>2, AllIsMet DEF NotesOf
  <1>7. /\ Cardinality(AllNotes(target)) <= NoteScanMax
        /\ Cardinality(AllPropertyNotes(target)) <= NoteMax
        /\ Cardinality(AllProperties(target)) <= EntryMax
    <2>1. /\ scanned = Cardinality(AllNotes(target)) /\ Len(notes) = Cardinality(AllPropertyNotes(target))
          /\ entries = Cardinality(AllProperties(target))
      BY <1>1, AllIsMet DEF NotesTrue, PropertiesTrue
    <2>2. scanned <= NoteScanMax /\ entries <= EntryMax /\ Len(notes) <= NoteMax
      BY <1>1, LimitsTyped DEF TypeOK
    <2> QED BY <2>1, <2>2
  <1> QED BY <1>3, <1>4, <1>5, <1>6, <1>7 DEF Readable

LEMMA FeatureStateIs ==
    ASSUME NEW bit
    PROVE  /\ facts.count = 0 => FeatureState(bit) = "unknown"
           /\ facts.count # 0 /\ bit \notin facts.or => FeatureState(bit) = "absent"
           /\ facts.count # 0 /\ bit \in facts.or /\ bit \in facts.and => FeatureState(bit) = "present"
           /\ facts.count # 0 /\ bit \in facts.or /\ bit \notin facts.and =>
                 FeatureState(bit) = "contradictory"
  BY DEF FeatureState

LEMMA FeatureEvidenceIs ==
    ASSUME NEW bit
    PROVE  /\ Features(target) = {} => FeatureEvidence(target, bit) = "unknown"
           /\ Features(target) # {} => \E w \in FeatureWords(target) : TRUE
           /\ Features(target) # {} /\ (\A w \in FeatureWords(target) : bit \in w) =>
                 FeatureEvidence(target, bit) = "present"
           /\ Features(target) # {} /\ (\A w \in FeatureWords(target) : bit \notin w) =>
                 FeatureEvidence(target, bit) = "absent"
           /\ Features(target) # {} /\ (\E w \in FeatureWords(target) : bit \notin w)
                /\ (\E w \in FeatureWords(target) : bit \in w) =>
                 FeatureEvidence(target, bit) = "contradictory"
  <1>1. Features(target) # {} => \E w \in FeatureWords(target) : TRUE
    BY DEF FeatureWords
  <1>2. Features(target) = {} => FeatureEvidence(target, bit) = "unknown"
    BY DEF FeatureEvidence
  <1>3. Features(target) # {} /\ (\A w \in FeatureWords(target) : bit \in w) =>
           FeatureEvidence(target, bit) = "present"
    BY <1>1 DEF FeatureEvidence
  <1>4. Features(target) # {} /\ (\A w \in FeatureWords(target) : bit \notin w) =>
           FeatureEvidence(target, bit) = "absent"
    BY <1>1 DEF FeatureEvidence
  <1>5. Features(target) # {} /\ (\E w \in FeatureWords(target) : bit \notin w)
           /\ (\E w \in FeatureWords(target) : bit \in w) =>
           FeatureEvidence(target, bit) = "contradictory"
    BY DEF FeatureEvidence
  <1> QED BY <1>1, <1>2, <1>3, <1>4, <1>5

LEMMA InvEvidence == IInv /\ EInv => EvidenceOfTheNotes
  <1> SUFFICES ASSUME IInv, EInv, pc = "done", status = EXIT_OK PROVE EvidenceOfTheNotes
    BY DEF EvidenceOfTheNotes
  <1>1. ETrue /\ TypeOK /\ RegistrationTrue /\ NotesTrue /\ FactsTrue /\ pc # "register"
    BY DEF EInv, ETrue, IInv
  <1>2. /\ PropertyNotesMet = AllPropertyNotes(target) /\ PropertiesMet = AllProperties(target)
    BY <1>1, AllIsMet
  <1>3. /\ FeaturesMet = Features(target)
        /\ ForeignBits = {q \in Features(target) : Bits(target.file, q + EntryHeaderSize) \ {IBT, SHSTK} # {}}
        /\ FeatureWords(target) = {WordAt(q) : q \in FeaturesMet}
    BY <1>2 DEF FeaturesMet, ForeignBits, Features, FeatureWords, TypeAt, WordAt
  <1>4. /\ facts.count = Cardinality(Features(target)) /\ facts.unknown = UnknownFacts(target)
    BY <1>1, <1>2, <1>3 DEF FactsTrue, UnknownFacts
  <1>5. Len(carriers) = Cardinality(Views(target)) /\ Len(contributors) = Len(target.headers)
    <2>1. index = Len(target.headers) + 1 /\ Len(contributors) = index - 1
      BY <1>1 DEF RegistrationTrue
    <2> QED BY <1>1, <2>1, CarriersAreViews, HeadersTyped
  <1>6. Len(notes) = Cardinality(AllPropertyNotes(target))
    BY <1>1, <1>2 DEF NotesTrue
  <1>7. IsFiniteSet(FeatureWords(target))
    <2>1. FeatureWords(target) \in SUBSET (SUBSET (0 .. 31))
      BY <1>3, WordsTyped
    <2>2. IsFiniteSet(0 .. 31)
      <3> DEFINE last == 31
      <3>1. last \in Int /\ 0 \in Int
        OBVIOUS
      <3> HIDE DEF last
      <3>2. IsFiniteSet(0 .. last)
        BY <3>1, FS_Interval
      <3> QED BY <3>2 DEF last
    <2>3. IsFiniteSet(SUBSET (0 .. 31))
      BY <2>2, FS_SUBSET
    <2> QED BY <2>1, <2>3, FS_Subset
  <1>8. (facts.conflicts # 0) = (Cardinality(FeatureWords(target)) > 1)
    <2>1. Cardinality(FeatureWords(target)) > 1 <=> \E a, b \in FeatureWords(target) : a # b
      BY <1>7, MoreThanOne
    <2>2. (\E a, b \in FeatureWords(target) : a # b) <=> ~(\A q, r \in FeaturesMet : WordAt(q) = WordAt(r))
      BY <1>3
    <2>3. facts.conflicts = 0 <=> \A q, r \in FeaturesMet : WordAt(q) = WordAt(r)
      BY <1>1 DEF FactsTrue
    <2> QED BY <2>1, <2>2, <2>3
  <1>9. ASSUME NEW bit \in {IBT, SHSTK} PROVE FeatureState(bit) = FeatureEvidence(target, bit)
    <2>1. facts.count = 0 <=> Features(target) = {}
      BY <1>1, <1>3, FactsTyped
    <2>2. bit \in 0 .. 31
      BY DEF IBT, SHSTK
    <2>3. Features(target) # {} =>
             /\ bit \in facts.and <=> \A w \in FeatureWords(target) : bit \in w
             /\ bit \in facts.or <=> \E w \in FeatureWords(target) : bit \in w
      BY <1>1, <1>3, <2>2 DEF FactsTrue
    <2>4. CASE Features(target) = {}
      BY <2>1, <2>4, FeatureStateIs, FeatureEvidenceIs
    <2>5. CASE Features(target) # {} /\ bit \notin facts.or
      <3>1. \A w \in FeatureWords(target) : bit \notin w
        BY <2>3, <2>5
      <3> QED BY <2>1, <2>5, <3>1, FeatureStateIs, FeatureEvidenceIs
    <2>6. CASE Features(target) # {} /\ bit \in facts.or /\ bit \in facts.and
      <3>1. \A w \in FeatureWords(target) : bit \in w
        BY <2>3, <2>6
      <3> QED BY <2>1, <2>6, <3>1, FeatureStateIs, FeatureEvidenceIs
    <2>7. CASE Features(target) # {} /\ bit \in facts.or /\ bit \notin facts.and
      <3>1. (\E w \in FeatureWords(target) : bit \in w) /\ (\E w \in FeatureWords(target) : bit \notin w)
        BY <2>3, <2>7
      <3> QED BY <2>1, <2>7, <3>1, FeatureStateIs, FeatureEvidenceIs
    <2> QED BY <2>4, <2>5, <2>6, <2>7
  <1>10. facts.ibt = FeatureState(IBT) /\ facts.shstk = FeatureState(SHSTK)
    BY <1>1 DEF FactsTrue
  <1>11. facts.ibt = FeatureEvidence(target, IBT) /\ facts.shstk = FeatureEvidence(target, SHSTK)
    BY <1>9, <1>10
  <1> QED BY <1>4, <1>5, <1>6, <1>8, <1>11 DEF EvidenceOfTheNotes

\* What x64lens_gnu_property_finalize leaves is the evidence of all the notes,
\* however many headers, notes and properties there are and in whatever order.
THEOREM GnuPropertyEvidenceOfTheNotes == Spec => []EvidenceOfTheNotes
  <1>1. Spec => [](IInv /\ EInv)
    BY InitInv, InitEvidence, StepInv, StepEvidence, PTL DEF Spec
  <1> QED BY <1>1, InvEvidence, PTL

ReadableIsAccepted == pc = "done" => (status = EXIT_OK <=> Readable(target))

\* Exactly the readable files are accepted: every refusal of x64lens_phdr_analyze
\* has a reason in the bytes, and no file with a bad header, note or property gets
\* through.
THEOREM GnuPropertyAcceptance == Spec => []ReadableIsAccepted
  <1>1. Spec => [](IInv /\ EInv)
    BY InitInv, InitEvidence, StepInv, StepEvidence, PTL DEF Spec
  <1>2. IInv /\ EInv => ReadableIsAccepted
    BY AcceptedIsReadable DEF EInv, ETrue, ReadableIsAccepted
  <1> QED BY <1>1, <1>2, PTL

-----------------------------------------------------------------------------
(* The dynamic table: sums of lengths.                                     *)

\* The module of the table counts as this one does.
LEMMA SameCardinality == \A S : D!Cardinality(S) = Cardinality(S)
  BY DEF D!Cardinality, Cardinality

LEMMA TotalsAre ==
    ASSUME NEW n \in Nat, NEW lengths, DOMAIN lengths = 1 .. n
    PROVE  /\ D!Totals(lengths)[0] = 0
           /\ \A i \in 1 .. n : D!Totals(lengths)[i] = D!Totals(lengths)[i - 1] + lengths[i]
  <1> DEFINE Sums(m, g) == /\ g = [i \in 0 .. m |-> g[i]]
                           /\ g[0] = 0 /\ \A i \in 1 .. m : g[i] = g[i - 1] + lengths[i]
             Summable(m) == \E g : Sums(m, g)
             S == {m \in Nat : m <= n => Summable(m)}
  <1>1. Summable(0)
    <2>1. Sums(0, [i \in 0 .. 0 |-> 0])
      OBVIOUS
    <2> QED BY <2>1
  <1>2. ASSUME NEW m \in Nat, Summable(m), m + 1 <= n PROVE Summable(m + 1)
    <2>1. PICK g : Sums(m, g)
      BY <1>2
    <2> DEFINE h == [i \in 0 .. m + 1 |-> IF i = m + 1 THEN g[m] + lengths[m + 1] ELSE g[i]]
    <2>2. h[0] = 0
      BY <2>1
    <2>3. ASSUME NEW i \in 1 .. m + 1 PROVE h[i] = h[i - 1] + lengths[i]
      <3>1. CASE i = m + 1
        BY <3>1
      <3>2. CASE i \in 1 .. m
        <4>1. h[i] = g[i] /\ h[i - 1] = g[i - 1]
          BY <3>2
        <4>2. g[i] = g[i - 1] + lengths[i]
          BY <2>1, <3>2
        <4> QED BY <4>1, <4>2
      <3> QED BY <3>1, <3>2
    <2>4. h = [i \in 0 .. m + 1 |-> h[i]]
      OBVIOUS
    <2> HIDE DEF h
    <2>5. Sums(m + 1, h)
      BY <2>2, <2>3, <2>4
    <2> QED BY <2>5
  <1>3. Summable(n)
    <2> HIDE DEF Summable
    <2>1. 0 \in S
      BY <1>1
    <2>2. \A m \in S : m + 1 \in S
      BY <1>2
    <2>3. S \in SUBSET Nat
      OBVIOUS
    <2> HIDE DEF S
    <2>4. S = Nat
      BY <2>1, <2>2, <2>3, SetInduction
    <2> QED BY <2>4 DEF S
  <1>4. PICK g : Sums(n, g)
    BY <1>3
  <1> DEFINE body(f) == [i \in {0} \cup DOMAIN lengths |-> IF i = 0 THEN 0 ELSE f[i - 1] + lengths[i]]
             total == D!Totals(lengths)
  <1>5. g = body(g)
    <2>1. {0} \cup DOMAIN lengths = 0 .. n
      OBVIOUS
    <2> QED BY <1>4, <2>1
  <1>6. total = CHOOSE f : f = body(f)
    BY DEF D!Totals
  <1>7. total = body(total)
    BY <1>5, <1>6
  <1> HIDE DEF total
  <1>8. total[0] = 0 /\ \A i \in 1 .. n : total[i] = total[i - 1] + lengths[i]
    BY <1>7
  <1> QED BY <1>8 DEF total

\* The sums of numbers are numbers and grow, and the first of them depend on the
\* first lengths only.
LEMMA TotalsGrow ==
    ASSUME NEW n \in Nat, NEW lengths, DOMAIN lengths = 1 .. n, \A i \in 1 .. n : lengths[i] \in Nat
    PROVE  /\ \A i \in 0 .. n : D!Totals(lengths)[i] \in Nat
           /\ \A i \in 0 .. n : D!Totals(lengths)[i] <= D!Totals(lengths)[n]
  <1> DEFINE total == D!Totals(lengths)
             S == {m \in Nat : m <= n => total[m] \in Nat}
             T == {m \in Nat : m <= n => \A i \in 0 .. m : total[i] <= total[m]}
  <1>1. total[0] = 0 /\ \A i \in 1 .. n : total[i] = total[i - 1] + lengths[i]
    BY TotalsAre
  <1> HIDE DEF total
  <1>2. S = Nat
    <2>1. 0 \in S
      BY <1>1
    <2>2. ASSUME NEW m \in S PROVE m + 1 \in S
      <3>1. m + 1 <= n => m + 1 \in 1 .. n /\ (m + 1) - 1 = m
        OBVIOUS
      <3> QED BY <1>1, <2>2, <3>1
    <2>3. S \in SUBSET Nat
      OBVIOUS
    <2> HIDE DEF S
    <2> QED BY <2>1, <2>2, <2>3, SetInduction
  <1>3. \A i \in 0 .. n : total[i] \in Nat
    BY <1>2
  <1>4. T = Nat
    <2>1. 0 \in T
      BY <1>1
    <2>2. ASSUME NEW m \in T, m + 1 <= n, NEW i \in 0 .. m + 1 PROVE total[i] <= total[m + 1]
      <3>1. m + 1 \in 1 .. n /\ (m + 1) - 1 = m /\ m \in Nat
        BY <2>2
      <3>2. total[m + 1] = total[m] + lengths[m + 1] /\ total[m] <= total[m + 1]
        BY <1>1, <1>3, <3>1
      <3>3. CASE i = m + 1
        BY <1>3, <3>1, <3>3
      <3>4. CASE i \in 0 .. m
        <4>1. total[i] <= total[m]
          BY <2>2, <3>4
        <4> QED BY <1>3, <3>1, <3>2, <3>4, <4>1
      <3> QED BY <3>3, <3>4
    <2>3. \A m \in T : m + 1 \in T
      BY <2>2
    <2>4. T \in SUBSET Nat
      OBVIOUS
    <2> HIDE DEF T
    <2> QED BY <2>1, <2>3, <2>4, SetInduction
  <1>5. \A i \in 0 .. n : total[i] <= total[n]
    BY <1>4
  <1> QED BY <1>3, <1>5 DEF total

LEMMA TotalsAgree ==
    ASSUME NEW m \in Nat, NEW n \in Nat, m <= n, NEW f, NEW g, DOMAIN f = 1 .. m, DOMAIN g = 1 .. n,
           \A i \in 1 .. m : f[i] = g[i]
    PROVE  \A i \in 0 .. m : D!Totals(f)[i] = D!Totals(g)[i]
  <1> DEFINE left == D!Totals(f)
             right == D!Totals(g)
             S == {k \in Nat : k <= m => left[k] = right[k]}
  <1>1. /\ left[0] = 0 /\ \A i \in 1 .. m : left[i] = left[i - 1] + f[i]
        /\ right[0] = 0 /\ \A i \in 1 .. n : right[i] = right[i - 1] + g[i]
    BY TotalsAre
  <1> HIDE DEF left, right
  <1>2. 0 \in S
    BY <1>1
  <1>3. ASSUME NEW k \in S, k + 1 <= m PROVE left[k + 1] = right[k + 1]
    <2>1. k + 1 \in 1 .. m /\ k + 1 \in 1 .. n /\ (k + 1) - 1 = k
      BY <1>3
    <2> QED BY <1>1, <1>3, <2>1
  <1>4. S = Nat
    <2>1. \A k \in S : k + 1 \in S
      BY <1>3
    <2>2. S \in SUBSET Nat
      OBVIOUS
    <2> HIDE DEF S
    <2> QED BY <1>2, <2>1, <2>2, SetInduction
  <1> QED BY <1>4 DEF left, right
-----------------------------------------------------------------------------
(* What the records hold.                                                  *)

FlagBits == {"TEXTREL", "BIND_NOW", "NOW", "PIE"}

Facets ==
    {"CONFLICT_FLAGS1", "CONFLICT_SONAME", "DT_SONAME", "ET_EXEC", "ET_DYN", "ENTRY_NONZERO",
     "PT_INTERP", "DUP_INTERP", "DF_1_PIE", "DUP_FLAGS1", "DUP_SONAME"}

Roles == {"unknown", "contradictory", "executable_like", "shared_object_like", "ambiguous"}

Summary ==
    [entryCount : Nat, nullSeen : BOOLEAN, bindNow : BOOLEAN, strtab : SUBSET Nat, strsz : SUBSET Nat,
     flags1Count : Nat, flags1 : SUBSET FlagBits, sonameCount : Nat, soname : Nat,
     canary : D!States, evidence : SUBSET Facets, role : Roles]

CarrierRecord == [tag : D!CarrierTags, index : Nat]
ValueRecord == [tag : D!Families, index : Nat, string : Nat, pool : Nat, length : Nat]

Context ==
    [carriers : Seq(CarrierRecord), textrels : Nat,
     flagsCount : Nat, flagsFirst : SUBSET FlagBits, flagsAnd : SUBSET FlagBits,
     flagsOr : SUBSET FlagBits, flagsConflicts : Nat,
     records : Seq(ValueRecord), pool : Seq(D!Byte), paths : [D!Families -> D!Search],
     complete : BOOLEAN, textrelConflict : BOOLEAN, textrel : D!States,
     search : [D!Families -> D!States]]

Shapes ==
    /\ dtarget \in DynamicTargets
    /\ dindex \in 0 .. D!Count /\ dstrings \in Nat
    /\ dsummary \in Summary /\ dcontext \in Context

\* One field at a time.
LEMMA SummaryUpdate ==
    ASSUME NEW s \in Summary
    PROVE  /\ \A v \in Nat : /\ [s EXCEPT !.entryCount = v] \in Summary
                            /\ [s EXCEPT !.flags1Count = v] \in Summary
                            /\ [s EXCEPT !.sonameCount = v] \in Summary
                            /\ [s EXCEPT !.soname = v] \in Summary
           /\ \A v \in BOOLEAN : /\ [s EXCEPT !.nullSeen = v] \in Summary
                                /\ [s EXCEPT !.bindNow = v] \in Summary
           /\ \A v \in SUBSET Nat : /\ [s EXCEPT !.strtab = v] \in Summary
                                   /\ [s EXCEPT !.strsz = v] \in Summary
           /\ \A v \in SUBSET FlagBits : [s EXCEPT !.flags1 = v] \in Summary
           /\ \A v \in SUBSET Facets : [s EXCEPT !.evidence = v] \in Summary
           /\ \A v \in D!States : [s EXCEPT !.canary = v] \in Summary
           /\ \A v \in Roles : [s EXCEPT !.role = v] \in Summary
  BY DEF Summary

LEMMA ContextUpdate ==
    ASSUME NEW c \in Context
    PROVE  /\ \A v \in Nat : /\ [c EXCEPT !.textrels = v] \in Context
                            /\ [c EXCEPT !.flagsCount = v] \in Context
                            /\ [c EXCEPT !.flagsConflicts = v] \in Context
           /\ \A v \in BOOLEAN : /\ [c EXCEPT !.complete = v] \in Context
                                /\ [c EXCEPT !.textrelConflict = v] \in Context
           /\ \A v \in SUBSET FlagBits : /\ [c EXCEPT !.flagsFirst = v] \in Context
                                        /\ [c EXCEPT !.flagsAnd = v] \in Context
                                        /\ [c EXCEPT !.flagsOr = v] \in Context
           /\ \A v \in Seq(CarrierRecord) : [c EXCEPT !.carriers = v] \in Context
           /\ \A v \in Seq(ValueRecord) : [c EXCEPT !.records = v] \in Context
           /\ \A v \in Seq(D!Byte) : [c EXCEPT !.pool = v] \in Context
           /\ \A v \in [D!Families -> D!Search] : [c EXCEPT !.paths = v] \in Context
           /\ \A v \in D!States : [c EXCEPT !.textrel = v] \in Context
           /\ \A v \in [D!Families -> D!States] : [c EXCEPT !.search = v] \in Context
  BY DEF Context

LEMMA LimitsTypedD ==
    /\ DynamicEntryMax \in Nat /\ DynamicStringMax \in Nat /\ DynamicCarrierMax \in Nat
    /\ SearchRecords \in Nat /\ SearchBytes \in Nat
  <1>1. {DynamicEntryMax, DynamicStringMax, DynamicCarrierMax, SearchRecords, SearchBytes} \subseteq Nat
    BY MetadataAssumption DEF D!DynamicAssumption
  <1> QED BY <1>1

LEMMA TargetTyped ==
    ASSUME dtarget \in DynamicTargets
    PROVE  /\ dtarget.table \in Seq(D!DynEntry) /\ D!Count \in Nat /\ DOMAIN dtarget.table = 1 .. D!Count
           /\ dtarget.file \in Seq(D!Byte) /\ Len(dtarget.file) \in Nat /\ dtarget.tail \in Nat
           /\ dtarget.dynamic \in BOOLEAN /\ dtarget.entry \in BOOLEAN /\ dtarget.interps \in Nat
           /\ dtarget.type \in {"EXEC", "DYN", "REL"}
           /\ \A i \in DOMAIN dtarget.loads :
                 /\ dtarget.loads[i].vaddr \in Nat /\ dtarget.loads[i].offset \in Nat
                 /\ dtarget.loads[i].filesz \in Nat
                 /\ dtarget.loads[i].offset + dtarget.loads[i].filesz <= Len(dtarget.file)
           /\ DOMAIN dtarget.loads \subseteq Nat
           /\ ~dtarget.dynamic => dtarget.table = <<>> /\ dtarget.tail = 0
  <1>1. dtarget \in D!Target /\ (~dtarget.dynamic => dtarget.table = <<>> /\ dtarget.tail = 0)
        /\ \A i \in DOMAIN dtarget.loads :
              dtarget.loads[i].offset + dtarget.loads[i].filesz <= Len(dtarget.file)
    BY MetadataAssumption DEF D!DynamicAssumption
  <1>2. dtarget.table \in Seq(D!DynEntry) /\ dtarget.file \in Seq(D!Byte)
        /\ dtarget.loads \in Seq([vaddr : Nat, offset : Nat, filesz : Nat])
    BY <1>1 DEF D!Target
  <1>3. /\ \A i \in DOMAIN dtarget.loads : dtarget.loads[i] \in [vaddr : Nat, offset : Nat, filesz : Nat]
        /\ DOMAIN dtarget.loads \subseteq Nat
    <2> DEFINE loads == dtarget.loads
    <2>1. loads \in Seq([vaddr : Nat, offset : Nat, filesz : Nat])
      BY <1>2
    <2> HIDE DEF loads
    <2>2. DOMAIN loads = 1 .. Len(loads) /\ Len(loads) \in Nat
      BY <2>1, LenProperties
    <2>3. DOMAIN loads \subseteq Nat
      BY <2>2
    <2>4. \A i \in DOMAIN loads : loads[i] \in [vaddr : Nat, offset : Nat, filesz : Nat]
      BY <2>1, <2>2, ElementOfSeq
    <2> QED BY <2>3, <2>4 DEF loads
  <1>4. Len(dtarget.file) \in Nat /\ Len(dtarget.table) \in Nat /\ DOMAIN dtarget.table = 1 .. Len(dtarget.table)
    BY <1>2
  <1> QED BY <1>1, <1>2, <1>3, <1>4 DEF D!Target, D!Count

\* What an entry holds.
LEMMA EntryTyped ==
    ASSUME dtarget \in DynamicTargets, NEW i \in 1 .. D!Count
    PROVE  /\ dtarget.table[i].tag \in D!FlagTags \cup D!ValueTags \cup D!OtherTags
           /\ dtarget.table[i].tag \in D!FlagTags => dtarget.table[i].bits \in SUBSET FlagBits
           /\ dtarget.table[i].tag \in D!ValueTags => dtarget.table[i].value \in Nat
  <1>1. dtarget.table[i] \in D!DynEntry
    BY TargetTyped
  <1>2. CASE dtarget.table[i] \in [tag : D!FlagTags, bits : SUBSET {"TEXTREL", "BIND_NOW", "NOW", "PIE"}]
    BY <1>2 DEF D!FlagTags, D!ValueTags, D!Families, FlagBits
  <1>3. CASE dtarget.table[i] \in [tag : D!ValueTags, value : Nat]
    BY <1>3 DEF D!FlagTags, D!ValueTags, D!Families
  <1>4. CASE dtarget.table[i] \in [tag : D!OtherTags]
    BY <1>4 DEF D!FlagTags, D!ValueTags, D!Families, D!OtherTags
  <1> QED BY <1>1, <1>2, <1>3, <1>4 DEF D!DynEntry

LEMMA EntryAt ==
    ASSUME dtarget \in DynamicTargets, dindex \in 0 .. D!Count, dindex < D!Count
    PROVE  /\ dindex + 1 \in 1 .. D!Count /\ D!Entry.tag \in D!FlagTags \cup D!ValueTags \cup D!OtherTags
           /\ D!Entry.tag \in D!FlagTags => D!Entry.bits \in SUBSET FlagBits
           /\ D!Entry.tag \in D!ValueTags => D!Entry.value \in Nat
  <1>1. dindex + 1 \in 1 .. D!Count
    BY TargetTyped
  <1> QED BY <1>1, EntryTyped DEF D!Entry

\* The first pass reads an entry.
EntryStep ==
    \/ D!StringTableEntry \/ D!TextrelEntry \/ D!FlagsEntry \/ D!SearchPathEntry
    \/ D!BindNowEntry \/ D!Flags1Entry \/ D!SonameEntry \/ D!OtherEntry \/ D!NullEntry

SaysBindNow(i) ==
    LET entry == dtarget.table[i]
    IN \/ entry.tag = "BIND_NOW"
       \/ entry.tag = "FLAGS" /\ "BIND_NOW" \in entry.bits
       \/ entry.tag = "FLAGS_1" /\ "NOW" \in entry.bits

LEMMA EntryStepAt ==
    ASSUME EntryStep, Shapes
    PROVE  /\ dpc = "entry" /\ dindex < D!Count
           /\ dtarget' = dtarget /\ dstrings' = dstrings /\ dstatus' = dstatus
           /\ dsummary'.entryCount = dsummary.entryCount + 1
           /\ D!Entry.tag = "NULL" => dpc' = "finalize" /\ dindex' = dindex
           /\ D!Entry.tag # "NULL" => dpc' = "entry" /\ dindex' = dindex + 1
           /\ D!Entry.tag \in {"STRTAB", "STRSZ"} => ~D!SingletonSeen
           /\ D!Entry.tag \in D!CarrierTags => ~D!CarrierTableFull
  BY DEF EntryStep, Shapes, Summary, D!StringTableEntry, D!TextrelEntry, D!FlagsEntry, D!SearchPathEntry,
         D!BindNowEntry, D!Flags1Entry, D!SonameEntry, D!OtherEntry, D!NullEntry, D!AtEntry, D!NextEntry,
         D!CarrierTags, D!Families

LEMMA SummaryEffects ==
    ASSUME EntryStep, Shapes
    PROVE  /\ dsummary' \in Summary
           /\ dsummary'.nullSeen <=> dsummary.nullSeen \/ D!Entry.tag = "NULL"
           /\ dsummary'.bindNow <=> dsummary.bindNow \/ SaysBindNow(dindex + 1)
           /\ dsummary'.strtab = IF D!Entry.tag = "STRTAB" THEN {D!Entry.value} ELSE dsummary.strtab
           /\ dsummary'.strsz = IF D!Entry.tag = "STRSZ" THEN {D!Entry.value} ELSE dsummary.strsz
           /\ dsummary'.flags1 = IF D!Entry.tag = "FLAGS_1" THEN dsummary.flags1 \cup D!Entry.bits
                                 ELSE dsummary.flags1
           /\ dsummary'.flags1Count = IF D!Entry.tag = "FLAGS_1" THEN dsummary.flags1Count + 1
                                      ELSE dsummary.flags1Count
           /\ "CONFLICT_FLAGS1" \in dsummary'.evidence <=>
                 \/ "CONFLICT_FLAGS1" \in dsummary.evidence
                 \/ D!Entry.tag = "FLAGS_1" /\ dsummary.flags1Count # 0 /\ dsummary.flags1 # D!Entry.bits
           /\ dsummary'.soname = IF D!Entry.tag = "SONAME" /\ dsummary.sonameCount = 0 THEN D!Entry.value
                                 ELSE dsummary.soname
           /\ dsummary'.sonameCount = IF D!Entry.tag = "SONAME" THEN dsummary.sonameCount + 1
                                      ELSE dsummary.sonameCount
           /\ "CONFLICT_SONAME" \in dsummary'.evidence <=>
                 \/ "CONFLICT_SONAME" \in dsummary.evidence
                 \/ D!Entry.tag = "SONAME" /\ dsummary.sonameCount # 0 /\ dsummary.soname # D!Entry.value
           /\ dsummary'.evidence \subseteq dsummary.evidence \cup {"CONFLICT_FLAGS1", "CONFLICT_SONAME"}
           /\ dsummary'.canary = dsummary.canary /\ dsummary'.role = dsummary.role
  <1>1. /\ D!Entry.tag \in D!FlagTags => D!Entry.bits \in SUBSET FlagBits
        /\ D!Entry.tag \in D!ValueTags => D!Entry.value \in Nat
    BY EntryStepAt, EntryAt DEF Shapes
  <1>2. dsummary \in Summary /\ D!Entry = dtarget.table[dindex + 1]
    BY DEF Shapes, D!Entry
  <1>3. CASE D!StringTableEntry
    BY <1>1, <1>2, <1>3 DEF D!StringTableEntry, D!AtEntry, D!NextEntry, Summary, SaysBindNow, D!ValueTags
  <1>4. CASE D!FlagsEntry
    <2> DEFINE now == dsummary.bindNow \/ "BIND_NOW" \in D!Entry.bits
    <2>1. now \in BOOLEAN /\ D!Entry.tag = "FLAGS"
      BY <1>4 DEF D!FlagsEntry, D!AtEntry
    <2>2. dsummary' = [[dsummary EXCEPT !.bindNow = now] EXCEPT !.entryCount = @ + 1]
      BY <1>4 DEF D!FlagsEntry, D!NextEntry
    <2>3. now <=> dsummary.bindNow \/ SaysBindNow(dindex + 1)
      BY <1>2, <2>1 DEF SaysBindNow
    <2> HIDE DEF now
    <2>4. dsummary.entryCount + 1 \in Nat
      BY <1>2 DEF Summary
    <2>5. dsummary' \in Summary
      <3>1. dsummary' = [[dsummary EXCEPT !.bindNow = now] EXCEPT !.entryCount = dsummary.entryCount + 1]
        BY <1>2, <2>2 DEF Summary
      <3> QED BY <1>2, <2>1, <2>4, <3>1, SummaryUpdate
    <2>6. dsummary'.bindNow = now
      BY <1>2, <2>2 DEF Summary
    <2> QED BY <1>2, <2>1, <2>2, <2>3, <2>5, <2>6 DEF Summary
  <1>5. CASE D!SearchPathEntry \/ D!TextrelEntry \/ D!OtherEntry
    BY <1>1, <1>2, <1>5 DEF D!SearchPathEntry, D!TextrelEntry, D!OtherEntry, D!AtEntry, D!NextEntry,
       Summary, SaysBindNow,
                            D!Families
  <1>6. CASE D!BindNowEntry
    <2>1. dsummary' = [[dsummary EXCEPT !.bindNow = TRUE] EXCEPT !.entryCount = @ + 1]
          /\ D!Entry.tag = "BIND_NOW"
      BY <1>6 DEF D!BindNowEntry, D!NextEntry, D!AtEntry
    <2>2. SaysBindNow(dindex + 1)
      BY <1>2, <2>1 DEF SaysBindNow
    <2>3. dsummary'.bindNow /\ dsummary.entryCount + 1 \in Nat
      BY <1>2, <2>1 DEF Summary
    <2>4. dsummary' \in Summary
      <3>1. dsummary' = [[dsummary EXCEPT !.bindNow = TRUE] EXCEPT !.entryCount = dsummary.entryCount + 1]
        BY <1>2, <2>1 DEF Summary
      <3> QED BY <1>2, <2>3, <3>1, SummaryUpdate
    <2> QED BY <1>2, <2>1, <2>2, <2>3, <2>4 DEF Summary
  <1>9. CASE D!NullEntry
    <2>1. dsummary' = [dsummary EXCEPT !.nullSeen = TRUE, !.entryCount = @ + 1] /\ D!Entry.tag = "NULL"
      BY <1>9 DEF D!NullEntry, D!AtEntry
    <2>2. ~SaysBindNow(dindex + 1)
      BY <1>2, <2>1 DEF SaysBindNow
    <2>3. dsummary'.nullSeen /\ dsummary.entryCount + 1 \in Nat
      BY <1>2, <2>1 DEF Summary
    <2>4. dsummary' \in Summary
      <3>1. dsummary' = [[dsummary EXCEPT !.nullSeen = TRUE] EXCEPT !.entryCount = dsummary.entryCount + 1]
        BY <1>2, <2>1 DEF Summary
      <3> QED BY <1>2, <2>3, <3>1, SummaryUpdate
    <2> QED BY <1>2, <2>1, <2>2, <2>3, <2>4 DEF Summary
  <1>7. CASE D!Flags1Entry
    <2> DEFINE now == dsummary.bindNow \/ "NOW" \in D!Entry.bits
               found == IF dsummary.flags1Count # 0 /\ dsummary.flags1 # D!Entry.bits
                        THEN dsummary.evidence \cup {"CONFLICT_FLAGS1"} ELSE dsummary.evidence
    <2>1. now \in BOOLEAN /\ D!Entry.tag = "FLAGS_1" /\ D!Entry.bits \in SUBSET FlagBits
      BY <1>1, <1>7 DEF D!Flags1Entry, D!AtEntry, D!FlagTags
    <2>2. dsummary' = [[dsummary EXCEPT !.evidence = found, !.flags1 = @ \cup D!Entry.bits,
                                        !.flags1Count = @ + 1, !.bindNow = now] EXCEPT !.entryCount = @ + 1]
      BY <1>7 DEF D!Flags1Entry, D!NextEntry
    <2>3. now <=> dsummary.bindNow \/ SaysBindNow(dindex + 1)
      BY <1>2, <2>1 DEF SaysBindNow
    <2>4. /\ found \in SUBSET Facets
          /\ "CONFLICT_FLAGS1" \in found <=>
                 \/ "CONFLICT_FLAGS1" \in dsummary.evidence
                 \/ D!Entry.tag = "FLAGS_1" /\ dsummary.flags1Count # 0 /\ dsummary.flags1 # D!Entry.bits
          /\ "CONFLICT_SONAME" \in found <=> "CONFLICT_SONAME" \in dsummary.evidence
          /\ found \subseteq dsummary.evidence \cup {"CONFLICT_FLAGS1", "CONFLICT_SONAME"}
      BY <1>2, <2>1 DEF Summary, Facets
    <2> HIDE DEF now, found
    <2>5. dsummary'.bindNow = now /\ dsummary'.evidence = found
      BY <1>2, <2>2 DEF Summary
    <2>6. dsummary' \in Summary
      <3>1. dsummary' = [[[[[dsummary EXCEPT !.evidence = found]
                              EXCEPT !.flags1 = dsummary.flags1 \cup D!Entry.bits]
                              EXCEPT !.flags1Count = dsummary.flags1Count + 1] EXCEPT !.bindNow = now]
                              EXCEPT !.entryCount = dsummary.entryCount + 1]
        BY <1>2, <2>2 DEF Summary
      <3>2. /\ dsummary.flags1 \cup D!Entry.bits \in SUBSET FlagBits
            /\ dsummary.flags1Count + 1 \in Nat /\ dsummary.entryCount + 1 \in Nat
        BY <1>2, <2>1 DEF Summary
      <3> QED BY <1>2, <2>1, <2>4, <3>1, <3>2, SummaryUpdate
    <2> QED BY <1>2, <2>1, <2>2, <2>3, <2>4, <2>5, <2>6 DEF Summary
  <1>8. CASE D!SonameEntry
    <2> DEFINE found == IF dsummary.sonameCount # 0 /\ dsummary.soname # D!Entry.value
                        THEN dsummary.evidence \cup {"CONFLICT_SONAME"} ELSE dsummary.evidence
    <2>1. D!Entry.tag = "SONAME" /\ D!Entry.value \in Nat
      BY <1>1, <1>8 DEF D!SonameEntry, D!AtEntry, D!ValueTags
    <2>2. dsummary' = [[dsummary EXCEPT !.evidence = found,
                          !.soname = IF dsummary.sonameCount = 0 THEN D!Entry.value ELSE @,
                          !.sonameCount = @ + 1] EXCEPT !.entryCount = @ + 1]
      BY <1>8 DEF D!SonameEntry, D!NextEntry
    <2>3. ~SaysBindNow(dindex + 1)
      BY <1>2, <2>1 DEF SaysBindNow
    <2>4. /\ found \in SUBSET Facets
          /\ "CONFLICT_SONAME" \in found <=>
                 \/ "CONFLICT_SONAME" \in dsummary.evidence
                 \/ D!Entry.tag = "SONAME" /\ dsummary.sonameCount # 0 /\ dsummary.soname # D!Entry.value
          /\ "CONFLICT_FLAGS1" \in found <=> "CONFLICT_FLAGS1" \in dsummary.evidence
          /\ found \subseteq dsummary.evidence \cup {"CONFLICT_FLAGS1", "CONFLICT_SONAME"}
      BY <1>2, <2>1 DEF Summary, Facets
    <2> HIDE DEF found
    <2> DEFINE name == IF dsummary.sonameCount = 0 THEN D!Entry.value ELSE dsummary.soname
    <2>5. dsummary'.evidence = found /\ dsummary'.soname = name
      BY <1>2, <2>2 DEF Summary
    <2>6. dsummary' \in Summary
      <3>1. dsummary' = [[[[dsummary EXCEPT !.evidence = found] EXCEPT !.soname = name]
                              EXCEPT !.sonameCount = dsummary.sonameCount + 1]
                              EXCEPT !.entryCount = dsummary.entryCount + 1]
        BY <1>2, <2>2 DEF Summary
      <3>2. /\ name \in Nat
            /\ dsummary.sonameCount + 1 \in Nat /\ dsummary.entryCount + 1 \in Nat
        BY <1>2, <2>1 DEF Summary
      <3> HIDE DEF name
      <3> QED BY <1>2, <2>4, <3>1, <3>2, SummaryUpdate
    <2> QED BY <1>2, <2>1, <2>2, <2>3, <2>4, <2>5, <2>6 DEF Summary
  <1> QED BY <1>3, <1>4, <1>5, <1>6, <1>7, <1>8, <1>9 DEF EntryStep

\* What is entered into the table of carriers; the rest stays.
LEMMA CarrierAddedIs ==
    ASSUME Shapes, D!Entry.tag \in D!CarrierTags
    PROVE  /\ D!CarrierAdded \in Context
           /\ D!CarrierAdded.carriers = Append(dcontext.carriers, [tag |-> D!Entry.tag, index |-> dindex])
           /\ D!CarrierAdded.textrels = dcontext.textrels /\ D!CarrierAdded.flagsCount = dcontext.flagsCount
           /\ D!CarrierAdded.flagsFirst = dcontext.flagsFirst /\ D!CarrierAdded.flagsOr = dcontext.flagsOr
           /\ D!CarrierAdded.flagsAnd = dcontext.flagsAnd
           /\ D!CarrierAdded.flagsConflicts = dcontext.flagsConflicts
           /\ D!CarrierAdded.paths = dcontext.paths
           /\ D!CarrierAdded.records = dcontext.records /\ D!CarrierAdded.pool = dcontext.pool
  <1> DEFINE added == Append(dcontext.carriers, [tag |-> D!Entry.tag, index |-> dindex])
  <1>1. dcontext \in Context /\ dindex \in Nat
    BY TargetTyped DEF Shapes
  <1>2. added \in Seq(CarrierRecord)
    <2>1. dcontext.carriers \in Seq(CarrierRecord) /\ [tag |-> D!Entry.tag, index |-> dindex] \in CarrierRecord
      BY <1>1 DEF Context, CarrierRecord
    <2> QED BY <2>1, AppendProperties
  <1>3. D!CarrierAdded = [dcontext EXCEPT !.carriers = added]
    BY DEF D!CarrierAdded
  <1> HIDE DEF added
  <1>4. D!CarrierAdded \in Context /\ D!CarrierAdded.carriers = added
    BY <1>1, <1>2, <1>3 DEF Context
  <1>5. /\ D!CarrierAdded.textrels = dcontext.textrels /\ D!CarrierAdded.flagsCount = dcontext.flagsCount
        /\ D!CarrierAdded.flagsFirst = dcontext.flagsFirst /\ D!CarrierAdded.flagsOr = dcontext.flagsOr
        /\ D!CarrierAdded.flagsAnd = dcontext.flagsAnd
        /\ D!CarrierAdded.flagsConflicts = dcontext.flagsConflicts
        /\ D!CarrierAdded.paths = dcontext.paths
        /\ D!CarrierAdded.records = dcontext.records /\ D!CarrierAdded.pool = dcontext.pool
    BY <1>1, <1>3 DEF Context
  <1> QED BY <1>4, <1>5 DEF added

LEMMA ContextEffects ==
    ASSUME EntryStep, Shapes
    PROVE  /\ dcontext' \in Context
           /\ dcontext'.carriers = IF D!Entry.tag \in D!CarrierTags
                                   THEN Append(dcontext.carriers, [tag |-> D!Entry.tag, index |-> dindex])
                                   ELSE dcontext.carriers
           /\ dcontext'.textrels = IF D!Entry.tag = "TEXTREL" THEN dcontext.textrels + 1 ELSE dcontext.textrels
           /\ dcontext'.flagsCount = IF D!Entry.tag = "FLAGS" THEN dcontext.flagsCount + 1
                                     ELSE dcontext.flagsCount
           /\ dcontext'.flagsFirst = IF D!Entry.tag = "FLAGS" /\ dcontext.flagsCount = 0 THEN D!Entry.bits
                                     ELSE dcontext.flagsFirst
           /\ dcontext'.flagsOr = IF D!Entry.tag # "FLAGS" THEN dcontext.flagsOr
                                  ELSE IF dcontext.flagsCount = 0 THEN D!Entry.bits
                                  ELSE dcontext.flagsOr \cup D!Entry.bits
           /\ dcontext'.flagsAnd = IF D!Entry.tag # "FLAGS" THEN dcontext.flagsAnd
                                   ELSE IF dcontext.flagsCount = 0 THEN D!Entry.bits
                                   ELSE dcontext.flagsAnd \cap D!Entry.bits
           /\ dcontext'.flagsConflicts =
                 IF D!Entry.tag = "FLAGS" /\ dcontext.flagsCount # 0 /\ D!Entry.bits # dcontext.flagsFirst
                 THEN dcontext.flagsConflicts + 1 ELSE dcontext.flagsConflicts
           /\ \A f \in D!Families :
                 /\ dcontext'.paths[f].carriers = IF D!Entry.tag = f THEN dcontext.paths[f].carriers + 1
                                                  ELSE dcontext.paths[f].carriers
                 /\ dcontext'.paths[f].values = dcontext.paths[f].values
                 /\ dcontext'.paths[f].first = dcontext.paths[f].first
                 /\ dcontext'.paths[f].conflicts = dcontext.paths[f].conflicts
           /\ dcontext'.records = dcontext.records /\ dcontext'.pool = dcontext.pool
  <1>1. /\ D!Entry.tag \in D!FlagTags => D!Entry.bits \in SUBSET FlagBits
        /\ dcontext \in Context /\ dindex \in Nat
    BY EntryStepAt, EntryAt, TargetTyped DEF Shapes
  <1>2. dcontext.paths \in [D!Families -> D!Search] /\ \A f \in D!Families : dcontext.paths[f] \in D!Search
    BY <1>1 DEF Context
  <1> DEFINE c == D!CarrierAdded
  <1>3. D!Entry.tag \in D!CarrierTags =>
           /\ c \in Context
           /\ c.carriers = Append(dcontext.carriers, [tag |-> D!Entry.tag, index |-> dindex])
           /\ c.textrels = dcontext.textrels /\ c.flagsCount = dcontext.flagsCount
           /\ c.flagsFirst = dcontext.flagsFirst /\ c.flagsOr = dcontext.flagsOr
           /\ c.flagsAnd = dcontext.flagsAnd /\ c.flagsConflicts = dcontext.flagsConflicts
           /\ c.paths = dcontext.paths /\ c.records = dcontext.records /\ c.pool = dcontext.pool
    BY CarrierAddedIs
  <1>4. CASE D!StringTableEntry \/ D!BindNowEntry \/ D!Flags1Entry \/ D!SonameEntry \/ D!OtherEntry \/ D!NullEntry
    BY <1>1, <1>4 DEF D!StringTableEntry, D!BindNowEntry, D!Flags1Entry, D!SonameEntry, D!OtherEntry,
       D!NullEntry,
                      D!AtEntry, D!CarrierTags, D!Families
  <1>5. CASE D!TextrelEntry
    <2>1. dcontext' = [c EXCEPT !.textrels = @ + 1] /\ D!Entry.tag = "TEXTREL" /\ D!Entry.tag \in D!CarrierTags
      BY <1>5 DEF D!TextrelEntry, D!AtEntry, D!CarrierTags
    <2> HIDE DEF c
    <2>2. dcontext' \in Context
      <3>1. dcontext' = [c EXCEPT !.textrels = c.textrels + 1] /\ c.textrels + 1 \in Nat
        BY <1>3, <2>1 DEF Context
      <3> QED BY <1>3, <2>1, <3>1, ContextUpdate
    <2>3. dcontext'.paths = dcontext.paths
      BY <1>3, <2>1 DEF Context
    <2> QED BY <1>3, <2>1, <2>2, <2>3 DEF Context, D!Families
  <1>6. CASE D!FlagsEntry
    <2>1. /\ D!Entry.tag = "FLAGS" /\ D!Entry.tag \in D!CarrierTags /\ D!Entry.bits \in SUBSET FlagBits
          /\ dcontext' = IF dcontext.flagsCount = 0
                         THEN [c EXCEPT !.flagsCount = 1, !.flagsFirst = D!Entry.bits,
                                        !.flagsAnd = D!Entry.bits, !.flagsOr = D!Entry.bits]
                         ELSE [c EXCEPT
                                 !.flagsConflicts = IF D!Entry.bits # dcontext.flagsFirst THEN @ + 1 ELSE @,
                                 !.flagsAnd = @ \cap D!Entry.bits, !.flagsOr = @ \cup D!Entry.bits,
                                 !.flagsCount = @ + 1]
      BY <1>1, <1>6 DEF D!FlagsEntry, D!AtEntry, D!CarrierTags, D!FlagTags
    <2> HIDE DEF c
    <2>2. CASE dcontext.flagsCount = 0
      <3>1. dcontext' = [c EXCEPT !.flagsCount = 1, !.flagsFirst = D!Entry.bits,
                                  !.flagsAnd = D!Entry.bits, !.flagsOr = D!Entry.bits]
        BY <2>1, <2>2
      <3>2. dcontext' \in Context
        <4>1. dcontext' = [[[[c EXCEPT !.flagsCount = 1] EXCEPT !.flagsFirst = D!Entry.bits]
                              EXCEPT !.flagsAnd = D!Entry.bits] EXCEPT !.flagsOr = D!Entry.bits]
          BY <1>3, <2>1, <3>1 DEF Context
        <4> DEFINE d1 == [c EXCEPT !.flagsCount = 1]
                   d2 == [d1 EXCEPT !.flagsFirst = D!Entry.bits]
                   d3 == [d2 EXCEPT !.flagsAnd = D!Entry.bits]
        <4>2. d1 \in Context
          BY <1>3, <2>1, ContextUpdate
        <4>3. d2 \in Context
          BY <2>1, <4>2, ContextUpdate
        <4>4. d3 \in Context
          BY <2>1, <4>3, ContextUpdate
        <4>5. dcontext' = [d3 EXCEPT !.flagsOr = D!Entry.bits]
          BY <4>1
        <4> HIDE DEF d3
        <4>6. D!Entry.bits \in SUBSET FlagBits
          BY <2>1
        <4> QED BY <4>4, <4>5, <4>6, ContextUpdate
      <3>3. dcontext'.paths = dcontext.paths
        BY <1>3, <2>1, <3>1 DEF Context
      <3> QED BY <1>1, <1>3, <2>1, <2>2, <3>1, <3>2, <3>3 DEF Context, D!Families
    <2>3. CASE dcontext.flagsCount # 0
      <3> DEFINE more == IF D!Entry.bits # dcontext.flagsFirst THEN c.flagsConflicts + 1 ELSE c.flagsConflicts
      <3>1. dcontext' = [c EXCEPT !.flagsConflicts = more, !.flagsAnd = c.flagsAnd \cap D!Entry.bits,
                                  !.flagsOr = c.flagsOr \cup D!Entry.bits, !.flagsCount = c.flagsCount + 1]
        BY <2>1, <2>3
      <3>2. /\ more \in Nat
            /\ more = IF D!Entry.bits # dcontext.flagsFirst THEN dcontext.flagsConflicts + 1
                      ELSE dcontext.flagsConflicts
        BY <1>1, <1>3, <2>1 DEF Context
      <3> HIDE DEF more
      <3>3. dcontext' \in Context
        <4>1. dcontext' = [[[[c EXCEPT !.flagsConflicts = more] EXCEPT !.flagsAnd = c.flagsAnd \cap D!Entry.bits]
                              EXCEPT !.flagsOr = c.flagsOr \cup D!Entry.bits]
                              EXCEPT !.flagsCount = c.flagsCount + 1]
          BY <1>3, <2>1, <3>1 DEF Context
        <4>2. /\ c.flagsAnd \cap D!Entry.bits \in SUBSET FlagBits /\ c.flagsOr \cup D!Entry.bits \in SUBSET FlagBits
              /\ c.flagsCount + 1 \in Nat
          BY <1>3, <2>1 DEF Context
        <4> DEFINE d1 == [c EXCEPT !.flagsConflicts = more]
                   d2 == [d1 EXCEPT !.flagsAnd = c.flagsAnd \cap D!Entry.bits]
                   d3 == [d2 EXCEPT !.flagsOr = c.flagsOr \cup D!Entry.bits]
        <4>3. d1 \in Context
          BY <1>3, <2>1, <3>2, ContextUpdate
        <4>4. d2 \in Context
          BY <4>2, <4>3, ContextUpdate
        <4>5. d3 \in Context
          BY <4>2, <4>4, ContextUpdate
        <4>6. dcontext' = [d3 EXCEPT !.flagsCount = c.flagsCount + 1]
          BY <4>1
        <4> HIDE DEF d3
        <4> QED BY <4>2, <4>5, <4>6, ContextUpdate
      <3>4. dcontext'.paths = dcontext.paths /\ dcontext'.flagsConflicts = more
        BY <1>3, <2>1, <3>1 DEF Context
      <3>5. /\ dcontext'.flagsAnd = c.flagsAnd \cap D!Entry.bits
            /\ dcontext'.flagsOr = c.flagsOr \cup D!Entry.bits
            /\ dcontext'.flagsCount = c.flagsCount + 1 /\ dcontext'.flagsFirst = c.flagsFirst
        <4>1. c \in Context
          BY <1>3, <2>1
        <4> QED BY <3>1, <4>1 DEF Context
      <3>6. /\ dcontext'.carriers = c.carriers /\ dcontext'.textrels = c.textrels
            /\ dcontext'.records = c.records /\ dcontext'.pool = c.pool
        <4>1. c \in Context
          BY <1>3, <2>1
        <4> QED BY <3>1, <4>1 DEF Context
      <3> QED BY <1>3, <2>1, <2>3, <3>2, <3>3, <3>4, <3>5, <3>6 DEF D!Families
    <2> QED BY <2>2, <2>3
  <1>7. CASE D!SearchPathEntry
    <2>1. D!Entry.tag \in D!Families /\ D!Entry.tag \in D!CarrierTags
          /\ dcontext' = [D!CarrierAdded EXCEPT !.paths[D!Entry.tag].carriers = @ + 1]
      BY <1>7 DEF D!SearchPathEntry, D!AtEntry, D!CarrierTags
    <2>2. dcontext.paths \in [D!Families -> D!Search] /\ \A f \in D!Families : dcontext.paths[f] \in D!Search
      BY <1>2
    <2>3. D!CarrierAdded.paths = dcontext.paths /\ D!CarrierAdded \in Context
      BY <1>3, <2>1
    <2>4. dcontext' = [D!CarrierAdded EXCEPT !.paths =
                         [dcontext.paths EXCEPT ![D!Entry.tag] =
                           [dcontext.paths[D!Entry.tag] EXCEPT !.carriers = dcontext.paths[D!Entry.tag].carriers + 1]]]
      BY <2>1, <2>3
    <2> DEFINE added == [dcontext.paths EXCEPT ![D!Entry.tag] =
                          [dcontext.paths[D!Entry.tag] EXCEPT !.carriers = dcontext.paths[D!Entry.tag].carriers + 1]]
    <2>5. added \in [D!Families -> D!Search]
          /\ \A f \in D!Families :
                 /\ added[f].carriers = IF D!Entry.tag = f THEN dcontext.paths[f].carriers + 1
                                                   ELSE dcontext.paths[f].carriers
                 /\ added[f].values = dcontext.paths[f].values
                 /\ added[f].first = dcontext.paths[f].first
                 /\ added[f].conflicts = dcontext.paths[f].conflicts
      BY <2>1, <2>2 DEF D!Search
    <2> HIDE DEF added
    <2>6. dcontext' = [c EXCEPT !.paths = added]
      BY <2>4 DEF added
    <2> HIDE DEF c
    <2>7. dcontext' \in Context /\ dcontext'.paths = added
      BY <1>3, <2>1, <2>5, <2>6 DEF Context
    <2> QED BY <1>3, <2>1, <2>5, <2>6, <2>7 DEF Context, D!Families
  <1> QED BY <1>4, <1>5, <1>6, <1>7 DEF EntryStep
-----------------------------------------------------------------------------
(* The first pass: what is kept is what the entries read so far say.       *)

Meeting(n, tags) == {i \in 1 .. n : dtarget.table[i].tag \in tags}

NullTrue(n) == dsummary.nullSeen <=> Meeting(n, {"NULL"}) # {}

BindNowTrue(n) == dsummary.bindNow <=> \E i \in 1 .. n : SaysBindNow(i)

StringTableTrue(n) ==
    /\ \A v : v \in dsummary.strtab <=> \E i \in Meeting(n, {"STRTAB"}) : v = dtarget.table[i].value
    /\ \A v : v \in dsummary.strsz <=> \E i \in Meeting(n, {"STRSZ"}) : v = dtarget.table[i].value
    /\ \A i, j \in Meeting(n, {"STRTAB"}) : i = j
    /\ \A i, j \in Meeting(n, {"STRSZ"}) : i = j

Flags1True(n) ==
    /\ dsummary.flags1Count = Cardinality(Meeting(n, {"FLAGS_1"}))
    /\ \A b : b \in dsummary.flags1 <=> \E i \in Meeting(n, {"FLAGS_1"}) : b \in dtarget.table[i].bits
    /\ "CONFLICT_FLAGS1" \in dsummary.evidence <=>
          \E i, j \in Meeting(n, {"FLAGS_1"}) : dtarget.table[i].bits # dtarget.table[j].bits

SonameTrue(n) ==
    /\ dsummary.sonameCount = Cardinality(Meeting(n, {"SONAME"}))
    /\ IF Meeting(n, {"SONAME"}) = {} THEN dsummary.soname = 0
       ELSE \E i \in Meeting(n, {"SONAME"}) : dsummary.soname = dtarget.table[i].value
    /\ "CONFLICT_SONAME" \in dsummary.evidence <=>
          \E i, j \in Meeting(n, {"SONAME"}) : dtarget.table[i].value # dtarget.table[j].value

CarriersTrue(n) ==
    /\ Len(dcontext.carriers) = Cardinality(Meeting(n, D!CarrierTags))
    /\ \A i \in Meeting(n, D!CarrierTags) : \E k \in DOMAIN dcontext.carriers :
          dcontext.carriers[k] = [tag |-> dtarget.table[i].tag, index |-> i - 1]

TextrelTrue(n) == dcontext.textrels # 0 <=> Meeting(n, {"TEXTREL"}) # {}

FlagsTrue(n) ==
    /\ dcontext.flagsCount # 0 <=> Meeting(n, {"FLAGS"}) # {}
    /\ \A b : b \in dcontext.flagsOr <=> \E i \in Meeting(n, {"FLAGS"}) : b \in dtarget.table[i].bits
    /\ \A b : b \in dcontext.flagsAnd <=>
          /\ Meeting(n, {"FLAGS"}) # {}
          /\ \A i \in Meeting(n, {"FLAGS"}) : b \in dtarget.table[i].bits
    /\ Meeting(n, {"FLAGS"}) # {} =>
              \E i \in Meeting(n, {"FLAGS"}) : dcontext.flagsFirst = dtarget.table[i].bits
    /\ dcontext.flagsConflicts # 0 <=>
          \E i, j \in Meeting(n, {"FLAGS"}) : dtarget.table[i].bits # dtarget.table[j].bits

PathsTrue(n) == \A f \in D!Families : dcontext.paths[f].carriers # 0 <=> Meeting(n, {f}) # {}

FirstTrue(n) ==
    /\ NullTrue(n) /\ BindNowTrue(n) /\ StringTableTrue(n) /\ Flags1True(n) /\ SonameTrue(n)
    /\ CarriersTrue(n) /\ TextrelTrue(n) /\ FlagsTrue(n) /\ PathsTrue(n)

LEMMA MetFinite ==
    ASSUME NEW n \in Nat, NEW tags
    PROVE  IsFiniteSet(Meeting(n, tags)) /\ Cardinality(Meeting(n, tags)) \in 0 .. n
  <1>1. IsFiniteSet(1 .. n) /\ Cardinality(1 .. n) = n
    BY FS_Interval
  <1>2. Meeting(n, tags) \in SUBSET (1 .. n)
    BY DEF Meeting
  <1>3. IsFiniteSet(Meeting(n, tags)) /\ Cardinality(Meeting(n, tags)) <= Cardinality(1 .. n)
    BY <1>1, <1>2, FS_Subset
  <1> QED BY <1>1, <1>3, FS_CardinalityType

LEMMA MetNext ==
    ASSUME NEW n \in Nat, NEW tags
    PROVE  /\ dtarget.table[n + 1].tag \in tags =>
                 /\ Meeting(n + 1, tags) = Meeting(n, tags) \cup {n + 1}
                 /\ Cardinality(Meeting(n + 1, tags)) = Cardinality(Meeting(n, tags)) + 1
           /\ dtarget.table[n + 1].tag \notin tags => Meeting(n + 1, tags) = Meeting(n, tags)
  <1>1. \A i : i \in 1 .. n + 1 <=> i \in 1 .. n \/ i = n + 1
    OBVIOUS
  <1>2. dtarget.table[n + 1].tag \in tags => Meeting(n + 1, tags) = Meeting(n, tags) \cup {n + 1}
    BY <1>1 DEF Meeting
  <1>3. dtarget.table[n + 1].tag \notin tags => Meeting(n + 1, tags) = Meeting(n, tags)
    BY <1>1 DEF Meeting
  <1>4. n + 1 \notin Meeting(n, tags)
    BY DEF Meeting
  <1>5. Cardinality(Meeting(n, tags) \cup {n + 1}) = Cardinality(Meeting(n, tags)) + 1
    BY <1>4, MetFinite, FS_AddElement
  <1> QED BY <1>2, <1>3, <1>5

LEMMA SameMet ==
    ASSUME NEW n, NEW tags, dtarget' = dtarget
    PROVE  Meeting(n, tags)' = Meeting(n, tags)
  BY DEF Meeting

LEMMA NullNext ==
    ASSUME EntryStep, Shapes, NEW n \in Nat, n = dindex, NullTrue(n)
    PROVE  NullTrue(n + 1)'
  <1>1. dtarget' = dtarget /\ D!Entry = dtarget.table[n + 1]
    BY EntryStepAt DEF D!Entry
  <1>2. dsummary'.nullSeen <=> dsummary.nullSeen \/ D!Entry.tag = "NULL"
    BY SummaryEffects
  <1>3. Meeting(n + 1, {"NULL"})' = Meeting(n + 1, {"NULL"})
    BY <1>1, SameMet
  <1>4. CASE D!Entry.tag = "NULL"
    BY <1>1, <1>2, <1>3, <1>4, MetNext DEF NullTrue
  <1>5. CASE D!Entry.tag # "NULL"
    BY <1>1, <1>2, <1>3, <1>5, MetNext DEF NullTrue
  <1> QED BY <1>4, <1>5

LEMMA BindNowNext ==
    ASSUME EntryStep, Shapes, NEW n \in Nat, n = dindex, BindNowTrue(n)
    PROVE  BindNowTrue(n + 1)'
  <1>1. dtarget' = dtarget /\ dindex + 1 = n + 1
    BY EntryStepAt
  <1>2. dsummary'.bindNow <=> dsummary.bindNow \/ SaysBindNow(n + 1)
    BY <1>1, SummaryEffects
  <1>3. \A i : SaysBindNow(i)' <=> SaysBindNow(i)
    BY <1>1 DEF SaysBindNow
  <1>4. \A i : i \in 1 .. n + 1 <=> i \in 1 .. n \/ i = n + 1
    OBVIOUS
  <1> QED BY <1>2, <1>3, <1>4 DEF BindNowTrue

LEMMA StringTableNext ==
    ASSUME EntryStep, Shapes, NEW n \in Nat, n = dindex, StringTableTrue(n)
    PROVE  StringTableTrue(n + 1)'
  <1>1. /\ dtarget' = dtarget /\ D!Entry = dtarget.table[n + 1]
        /\ D!Entry.tag \in {"STRTAB", "STRSZ"} => ~D!SingletonSeen
    BY EntryStepAt DEF D!Entry
  <1>2. /\ Meeting(n + 1, {"STRTAB"})' = Meeting(n + 1, {"STRTAB"})
        /\ Meeting(n + 1, {"STRSZ"})' = Meeting(n + 1, {"STRSZ"})
    BY <1>1, SameMet
  <1>3. /\ dsummary'.strtab = IF D!Entry.tag = "STRTAB" THEN {D!Entry.value} ELSE dsummary.strtab
        /\ dsummary'.strsz = IF D!Entry.tag = "STRSZ" THEN {D!Entry.value} ELSE dsummary.strsz
    BY SummaryEffects
  <1>4. \A tag : IF D!Entry.tag = tag THEN Meeting(n + 1, {tag}) = Meeting(n, {tag}) \cup {n + 1}
                 ELSE Meeting(n + 1, {tag}) = Meeting(n, {tag})
    <2> TAKE tag
    <2>1. D!Entry.tag = tag <=> dtarget.table[n + 1].tag \in {tag}
      BY <1>1
    <2> QED BY <2>1, MetNext
  <1>5. CASE D!Entry.tag = "STRTAB"
    <2>1. Meeting(n, {"STRTAB"}) = {}
      BY <1>1, <1>5 DEF D!SingletonSeen, StringTableTrue
    <2>2. Meeting(n + 1, {"STRTAB"}) = {n + 1} /\ Meeting(n + 1, {"STRSZ"}) = Meeting(n, {"STRSZ"})
      BY <1>4, <1>5, <2>1
    <2>3. dsummary'.strtab = {dtarget.table[n + 1].value} /\ dsummary'.strsz = dsummary.strsz
      BY <1>1, <1>3, <1>5
    <2> QED BY <1>1, <1>2, <2>2, <2>3 DEF StringTableTrue
  <1>6. CASE D!Entry.tag = "STRSZ"
    <2>1. Meeting(n, {"STRSZ"}) = {}
      BY <1>1, <1>6 DEF D!SingletonSeen, StringTableTrue
    <2>2. Meeting(n + 1, {"STRSZ"}) = {n + 1} /\ Meeting(n + 1, {"STRTAB"}) = Meeting(n, {"STRTAB"})
      BY <1>4, <1>6, <2>1
    <2>3. dsummary'.strsz = {dtarget.table[n + 1].value} /\ dsummary'.strtab = dsummary.strtab
      BY <1>1, <1>3, <1>6
    <2> QED BY <1>1, <1>2, <2>2, <2>3 DEF StringTableTrue
  <1>7. CASE D!Entry.tag \notin {"STRTAB", "STRSZ"}
    <2>1. Meeting(n + 1, {"STRSZ"}) = Meeting(n, {"STRSZ"}) /\ Meeting(n + 1, {"STRTAB"}) = Meeting(n, {"STRTAB"})
      BY <1>4, <1>7
    <2>2. dsummary'.strsz = dsummary.strsz /\ dsummary'.strtab = dsummary.strtab
      BY <1>3, <1>7
    <2> QED BY <1>1, <1>2, <2>1, <2>2 DEF StringTableTrue
  <1> QED BY <1>5, <1>6, <1>7

LEMMA Flags1Next ==
    ASSUME EntryStep, Shapes, NEW n \in Nat, n = dindex, Flags1True(n)
    PROVE  Flags1True(n + 1)'
  <1>1. /\ dtarget' = dtarget /\ D!Entry = dtarget.table[n + 1]
    BY EntryStepAt DEF D!Entry
  <1>2. Meeting(n + 1, {"FLAGS_1"})' = Meeting(n + 1, {"FLAGS_1"})
    BY <1>1, SameMet
  <1>3. CASE D!Entry.tag = "FLAGS_1"
    <2>1. /\ Meeting(n + 1, {"FLAGS_1"}) = Meeting(n, {"FLAGS_1"}) \cup {n + 1}
          /\ Cardinality(Meeting(n + 1, {"FLAGS_1"})) = Cardinality(Meeting(n, {"FLAGS_1"})) + 1
      BY <1>1, <1>3, MetNext
    <2>2. /\ dsummary'.flags1 = dsummary.flags1 \cup D!Entry.bits
          /\ dsummary'.flags1Count = dsummary.flags1Count + 1
          /\ "CONFLICT_FLAGS1" \in dsummary'.evidence <=>
                 \/ "CONFLICT_FLAGS1" \in dsummary.evidence
                 \/ dsummary.flags1Count # 0 /\ dsummary.flags1 # D!Entry.bits
      BY <1>3, SummaryEffects
    <2>3. dsummary.flags1Count # 0 <=> Meeting(n, {"FLAGS_1"}) # {}
      BY MetFinite, FS_EmptySet DEF Flags1True
    <2>4. Meeting(n, {"FLAGS_1"}) # {} /\ (\A i, j \in Meeting(n, {"FLAGS_1"}) : dtarget.table[i].bits = dtarget.table[j].bits)
                 => \A i \in Meeting(n, {"FLAGS_1"}) : dsummary.flags1 = dtarget.table[i].bits
      <3> SUFFICES ASSUME \A i, j \in Meeting(n, {"FLAGS_1"}) : dtarget.table[i].bits = dtarget.table[j].bits,
                          NEW i \in Meeting(n, {"FLAGS_1"})
                   PROVE  dsummary.flags1 = dtarget.table[i].bits
        OBVIOUS
      <3>1. dtarget.table[i].bits \in SUBSET FlagBits /\ dsummary.flags1 \in SUBSET FlagBits
        <4>1. i \in 1 .. D!Count /\ dtarget.table[i].tag = "FLAGS_1"
          BY EntryStepAt, TargetTyped DEF Shapes, Meeting
        <4> QED BY <4>1, EntryTyped DEF Shapes, D!FlagTags, Summary
      <3>2. \A b : b \in dsummary.flags1 <=> b \in dtarget.table[i].bits
        BY DEF Flags1True
      <3> QED BY <3>1, <3>2
    <2>5. "CONFLICT_FLAGS1" \in dsummary'.evidence <=>
            \E i, j \in Meeting(n + 1, {"FLAGS_1"}) : dtarget.table[i].bits # dtarget.table[j].bits
      BY <1>1, <2>1, <2>2, <2>3, <2>4 DEF Flags1True
    <2>6. \A b : b \in dsummary'.flags1 <=> \E i \in Meeting(n + 1, {"FLAGS_1"}) : b \in dtarget.table[i].bits
      BY <1>1, <2>1, <2>2 DEF Flags1True
    <2> QED BY <1>1, <1>2, <2>1, <2>2, <2>5, <2>6 DEF Flags1True
  <1>4. CASE D!Entry.tag # "FLAGS_1"
    <2>1. Meeting(n + 1, {"FLAGS_1"}) = Meeting(n, {"FLAGS_1"})
      BY <1>1, <1>4, MetNext
    <2>2. /\ dsummary'.flags1 = dsummary.flags1 /\ dsummary'.flags1Count = dsummary.flags1Count
          /\ "CONFLICT_FLAGS1" \in dsummary'.evidence <=> "CONFLICT_FLAGS1" \in dsummary.evidence
      BY <1>4, SummaryEffects
    <2> QED BY <1>1, <1>2, <2>1, <2>2 DEF Flags1True
  <1> QED BY <1>3, <1>4

LEMMA SonameNext ==
    ASSUME EntryStep, Shapes, NEW n \in Nat, n = dindex, SonameTrue(n)
    PROVE  SonameTrue(n + 1)'
  <1>1. /\ dtarget' = dtarget /\ D!Entry = dtarget.table[n + 1]
    BY EntryStepAt DEF D!Entry
  <1>2. Meeting(n + 1, {"SONAME"})' = Meeting(n + 1, {"SONAME"})
    BY <1>1, SameMet
  <1>3. CASE D!Entry.tag = "SONAME"
    <2>1. /\ Meeting(n + 1, {"SONAME"}) = Meeting(n, {"SONAME"}) \cup {n + 1}
          /\ Cardinality(Meeting(n + 1, {"SONAME"})) = Cardinality(Meeting(n, {"SONAME"})) + 1
      BY <1>1, <1>3, MetNext
    <2>2. /\ dsummary'.soname = IF dsummary.sonameCount = 0 THEN D!Entry.value ELSE dsummary.soname
          /\ dsummary'.sonameCount = dsummary.sonameCount + 1
          /\ "CONFLICT_SONAME" \in dsummary'.evidence <=>
                 \/ "CONFLICT_SONAME" \in dsummary.evidence
                 \/ dsummary.sonameCount # 0 /\ dsummary.soname # D!Entry.value
      BY <1>3, SummaryEffects
    <2>3. dsummary.sonameCount # 0 <=> Meeting(n, {"SONAME"}) # {}
      BY MetFinite, FS_EmptySet DEF SonameTrue
    <2>4. "CONFLICT_SONAME" \in dsummary'.evidence <=>
            \E i, j \in Meeting(n + 1, {"SONAME"}) : dtarget.table[i].value # dtarget.table[j].value
      BY <1>1, <2>1, <2>2, <2>3 DEF SonameTrue
    <2>5. \E i \in Meeting(n + 1, {"SONAME"}) : dsummary'.soname = dtarget.table[i].value
      BY <1>1, <2>1, <2>2, <2>3 DEF SonameTrue
    <2> QED BY <1>1, <1>2, <2>1, <2>2, <2>4, <2>5 DEF SonameTrue
  <1>4. CASE D!Entry.tag # "SONAME"
    <2>1. Meeting(n + 1, {"SONAME"}) = Meeting(n, {"SONAME"})
      BY <1>1, <1>4, MetNext
    <2>2. /\ dsummary'.soname = dsummary.soname /\ dsummary'.sonameCount = dsummary.sonameCount
          /\ "CONFLICT_SONAME" \in dsummary'.evidence <=> "CONFLICT_SONAME" \in dsummary.evidence
      BY <1>4, SummaryEffects
    <2> QED BY <1>1, <1>2, <2>1, <2>2 DEF SonameTrue
  <1> QED BY <1>3, <1>4

LEMMA CarriersNext ==
    ASSUME EntryStep, Shapes, NEW n \in Nat, n = dindex, CarriersTrue(n)
    PROVE  CarriersTrue(n + 1)'
  <1>1. /\ dtarget' = dtarget /\ D!Entry = dtarget.table[n + 1]
    BY EntryStepAt DEF D!Entry
  <1>2. Meeting(n + 1, D!CarrierTags)' = Meeting(n + 1, D!CarrierTags)
    BY <1>1, SameMet
  <1>3. CASE D!Entry.tag \in D!CarrierTags
    <2> DEFINE new == [tag |-> D!Entry.tag, index |-> n]
    <2>1. /\ Meeting(n + 1, D!CarrierTags) = Meeting(n, D!CarrierTags) \cup {n + 1}
          /\ Cardinality(Meeting(n + 1, D!CarrierTags)) = Cardinality(Meeting(n, D!CarrierTags)) + 1
      BY <1>1, <1>3, MetNext
    <2>2. dcontext'.carriers = Append(dcontext.carriers, new)
      BY <1>3, ContextEffects
    <2>3. dcontext.carriers \in Seq(CarrierRecord) /\ new \in CarrierRecord
      BY <1>3 DEF Shapes, Context, CarrierRecord
    <2>4. new = [tag |-> dtarget.table[n + 1].tag, index |-> (n + 1) - 1]
      BY <1>1
    <2> HIDE DEF new
    <2>5. /\ Len(dcontext'.carriers) = Len(dcontext.carriers) + 1
          /\ \A k \in 1 .. Len(dcontext.carriers) : dcontext'.carriers[k] = dcontext.carriers[k]
          /\ dcontext'.carriers[Len(dcontext.carriers) + 1] = new
          /\ DOMAIN dcontext'.carriers = 1 .. Len(dcontext.carriers) + 1
          /\ DOMAIN dcontext.carriers = 1 .. Len(dcontext.carriers) /\ Len(dcontext.carriers) \in Nat
      BY <2>2, <2>3, AppendProperties, LenProperties
    <2>6. \A i \in Meeting(n + 1, D!CarrierTags) : \E k \in DOMAIN dcontext'.carriers :
             dcontext'.carriers[k] = [tag |-> dtarget.table[i].tag, index |-> i - 1]
      <3> TAKE i \in Meeting(n + 1, D!CarrierTags)
      <3>1. CASE i = n + 1
        BY <2>4, <2>5, <3>1
      <3>2. CASE i \in Meeting(n, D!CarrierTags)
        <4>1. PICK k \in DOMAIN dcontext.carriers :
                 dcontext.carriers[k] = [tag |-> dtarget.table[i].tag, index |-> i - 1]
          BY <3>2 DEF CarriersTrue
        <4>2. k \in 1 .. Len(dcontext.carriers) /\ k \in DOMAIN dcontext'.carriers
          BY <2>5
        <4> QED BY <2>5, <4>1, <4>2
      <3> QED BY <2>1, <3>1, <3>2
    <2> QED BY <1>1, <1>2, <2>1, <2>5, <2>6 DEF CarriersTrue
  <1>4. CASE D!Entry.tag \notin D!CarrierTags
    <2>1. Meeting(n + 1, D!CarrierTags) = Meeting(n, D!CarrierTags)
      BY <1>1, <1>4, MetNext
    <2>2. dcontext'.carriers = dcontext.carriers
      BY <1>4, ContextEffects
    <2> QED BY <1>1, <1>2, <2>1, <2>2 DEF CarriersTrue
  <1> QED BY <1>3, <1>4

LEMMA TextrelNext ==
    ASSUME EntryStep, Shapes, NEW n \in Nat, n = dindex, TextrelTrue(n)
    PROVE  TextrelTrue(n + 1)'
  <1>1. dtarget' = dtarget /\ D!Entry = dtarget.table[n + 1]
    BY EntryStepAt DEF D!Entry
  <1>2. Meeting(n + 1, {"TEXTREL"})' = Meeting(n + 1, {"TEXTREL"})
    BY <1>1, SameMet
  <1>3. /\ dcontext'.textrels = IF D!Entry.tag = "TEXTREL" THEN dcontext.textrels + 1 ELSE dcontext.textrels
        /\ dcontext.textrels \in Nat
    BY ContextEffects DEF Shapes, Context
  <1>4. CASE D!Entry.tag = "TEXTREL"
    <2>1. Meeting(n + 1, {"TEXTREL"}) # {}
      BY <1>1, <1>4, MetNext
    <2> QED BY <1>2, <1>3, <1>4, <2>1 DEF TextrelTrue
  <1>5. CASE D!Entry.tag # "TEXTREL"
    <2>1. Meeting(n + 1, {"TEXTREL"}) = Meeting(n, {"TEXTREL"})
      BY <1>1, <1>5, MetNext
    <2> QED BY <1>2, <1>3, <1>5, <2>1 DEF TextrelTrue
  <1> QED BY <1>4, <1>5

LEMMA FlagsNext ==
    ASSUME EntryStep, Shapes, NEW n \in Nat, n = dindex, FlagsTrue(n)
    PROVE  FlagsTrue(n + 1)'
  <1>1. /\ dtarget' = dtarget /\ D!Entry = dtarget.table[n + 1]
        /\ dcontext.flagsCount \in Nat /\ dcontext.flagsConflicts \in Nat
    BY EntryStepAt DEF D!Entry, Shapes, Context
  <1>2. Meeting(n + 1, {"FLAGS"})' = Meeting(n + 1, {"FLAGS"})
    BY <1>1, SameMet
  <1>3. CASE D!Entry.tag = "FLAGS"
    <2>1. Meeting(n + 1, {"FLAGS"}) = Meeting(n, {"FLAGS"}) \cup {n + 1}
      BY <1>1, <1>3, MetNext
    <2>2. /\ dcontext'.flagsCount = dcontext.flagsCount + 1
          /\ dcontext'.flagsFirst = IF dcontext.flagsCount = 0 THEN D!Entry.bits ELSE dcontext.flagsFirst
          /\ dcontext'.flagsOr = IF dcontext.flagsCount = 0 THEN D!Entry.bits
                                  ELSE dcontext.flagsOr \cup D!Entry.bits
          /\ dcontext'.flagsAnd = IF dcontext.flagsCount = 0 THEN D!Entry.bits
                                   ELSE dcontext.flagsAnd \cap D!Entry.bits
          /\ dcontext'.flagsConflicts =
                 IF dcontext.flagsCount # 0 /\ D!Entry.bits # dcontext.flagsFirst
                 THEN dcontext.flagsConflicts + 1 ELSE dcontext.flagsConflicts
      BY <1>3, ContextEffects
    <2>3. dcontext'.flagsCount # 0
      BY <1>1, <2>2
    <2>4. \A b : b \in dcontext'.flagsOr <=> \E i \in Meeting(n + 1, {"FLAGS"}) : b \in dtarget.table[i].bits
      BY <1>1, <2>1, <2>2 DEF FlagsTrue
    <2>5. \A b : b \in dcontext'.flagsAnd <=>
             /\ Meeting(n + 1, {"FLAGS"}) # {}
             /\ \A i \in Meeting(n + 1, {"FLAGS"}) : b \in dtarget.table[i].bits
      BY <1>1, <2>1, <2>2 DEF FlagsTrue
    <2>6. \E i \in Meeting(n + 1, {"FLAGS"}) : dcontext'.flagsFirst = dtarget.table[i].bits
      BY <1>1, <2>1, <2>2 DEF FlagsTrue
    <2>7. dcontext'.flagsConflicts # 0 <=>
             dcontext.flagsConflicts # 0 \/ (dcontext.flagsCount # 0 /\ D!Entry.bits # dcontext.flagsFirst)
      BY <1>1, <2>2
    <2>8. dcontext'.flagsConflicts # 0 <=>
             \E i, j \in Meeting(n + 1, {"FLAGS"}) : dtarget.table[i].bits # dtarget.table[j].bits
      BY <1>1, <2>1, <2>7 DEF FlagsTrue
    <2> QED BY <1>1, <1>2, <2>1, <2>3, <2>4, <2>5, <2>6, <2>8 DEF FlagsTrue
  <1>4. CASE D!Entry.tag # "FLAGS"
    <2>1. Meeting(n + 1, {"FLAGS"}) = Meeting(n, {"FLAGS"})
      BY <1>1, <1>4, MetNext
    <2>2. /\ dcontext'.flagsCount = dcontext.flagsCount /\ dcontext'.flagsFirst = dcontext.flagsFirst
          /\ dcontext'.flagsOr = dcontext.flagsOr /\ dcontext'.flagsAnd = dcontext.flagsAnd
          /\ dcontext'.flagsConflicts = dcontext.flagsConflicts
      BY <1>4, ContextEffects
    <2> QED BY <1>1, <1>2, <2>1, <2>2 DEF FlagsTrue
  <1> QED BY <1>3, <1>4

LEMMA PathsNext ==
    ASSUME EntryStep, Shapes, NEW n \in Nat, n = dindex, PathsTrue(n)
    PROVE  PathsTrue(n + 1)'
  <1> SUFFICES ASSUME NEW f \in D!Families
               PROVE  dcontext'.paths[f].carriers # 0 <=> Meeting(n + 1, {f})' # {}
    BY DEF PathsTrue
  <1>1. dtarget' = dtarget /\ D!Entry = dtarget.table[n + 1]
    BY EntryStepAt DEF D!Entry
  <1>2. Meeting(n + 1, {f})' = Meeting(n + 1, {f})
    BY <1>1, SameMet
  <1>3. /\ dcontext'.paths[f].carriers = IF D!Entry.tag = f THEN dcontext.paths[f].carriers + 1
                                         ELSE dcontext.paths[f].carriers
        /\ dcontext.paths[f].carriers \in Nat
    BY ContextEffects DEF Shapes, Context, D!Search
  <1>4. CASE D!Entry.tag = f
    <2>1. Meeting(n + 1, {f}) # {}
      BY <1>1, <1>4, MetNext
    <2>2. dcontext'.paths[f].carriers # 0
      BY <1>3, <1>4
    <2> QED BY <1>2, <2>1, <2>2
  <1>5. CASE D!Entry.tag # f
    <2>1. Meeting(n + 1, {f}) = Meeting(n, {f})
      BY <1>1, <1>5, MetNext
    <2> QED BY <1>2, <1>3, <1>5, <2>1 DEF PathsTrue
  <1> QED BY <1>4, <1>5

LEMMA FirstNext ==
    ASSUME EntryStep, Shapes, NEW n \in Nat, n = dindex, FirstTrue(n)
    PROVE  FirstTrue(n + 1)'
  BY NullNext, BindNowNext, StringTableNext, Flags1Next, SonameNext, CarriersNext, TextrelNext,
     FlagsNext,
     PathsNext DEF FirstTrue

\* What does not change stays true.
LEMMA FirstSame ==
    ASSUME NEW n \in Nat, FirstTrue(n), dtarget' = dtarget, dsummary'.nullSeen = dsummary.nullSeen,
           dsummary'.bindNow = dsummary.bindNow, dsummary'.strtab = dsummary.strtab,
           dsummary'.strsz = dsummary.strsz, dsummary'.flags1 = dsummary.flags1,
           dsummary'.flags1Count = dsummary.flags1Count, dsummary'.soname = dsummary.soname,
           dsummary'.sonameCount = dsummary.sonameCount,
           \A c \in {"CONFLICT_FLAGS1", "CONFLICT_SONAME"} : c \in dsummary'.evidence <=> c \in dsummary.evidence,
           dcontext'.carriers = dcontext.carriers, dcontext'.textrels = dcontext.textrels,
           dcontext'.flagsCount = dcontext.flagsCount, dcontext'.flagsFirst = dcontext.flagsFirst,
           dcontext'.flagsOr = dcontext.flagsOr, dcontext'.flagsAnd = dcontext.flagsAnd,
           dcontext'.flagsConflicts = dcontext.flagsConflicts,
           \A f \in D!Families : dcontext'.paths[f].carriers = dcontext.paths[f].carriers
    PROVE  FirstTrue(n)'
  <1>1. \A tags : Meeting(n, tags)' = Meeting(n, tags)
    BY SameMet
  <1>2. \A i : SaysBindNow(i)' <=> SaysBindNow(i)
    BY DEF SaysBindNow
  <1>3. NullTrue(n)' /\ BindNowTrue(n)' /\ StringTableTrue(n)'
    BY <1>1, <1>2 DEF FirstTrue, NullTrue, BindNowTrue, StringTableTrue
  <1>4. Flags1True(n)' /\ SonameTrue(n)'
    BY <1>1 DEF FirstTrue, Flags1True, SonameTrue
  <1>5. CarriersTrue(n)' /\ TextrelTrue(n)'
    BY <1>1 DEF FirstTrue, CarriersTrue, TextrelTrue
  <1>6. FlagsTrue(n)' /\ PathsTrue(n)'
    BY <1>1 DEF FirstTrue, FlagsTrue, PathsTrue
  <1> QED BY <1>3, <1>4, <1>5, <1>6 DEF FirstTrue
-----------------------------------------------------------------------------
(* The entries up to DT_NULL, and the strings of a table that was found.   *)

LEMMA ReadWhole ==
    ASSUME dtarget \in DynamicTargets, NEW n \in 0 .. D!Count,
           \A i \in 1 .. n : i < n => dtarget.table[i].tag # "NULL",
           n = D!Count \/ (n > 0 /\ dtarget.table[n].tag = "NULL")
    PROVE  D!Read(dtarget) = 1 .. n
  <1>1. DOMAIN dtarget.table = 1 .. D!Count /\ D!Count \in Nat
    BY TargetTyped
  <1>2. \A i \in 1 .. n : i \in D!Read(dtarget)
    BY <1>1 DEF D!Read
  <1>3. \A i \in D!Read(dtarget) : i \in 1 .. n
    <2> SUFFICES ASSUME NEW i \in D!Read(dtarget), i \notin 1 .. n PROVE FALSE
      OBVIOUS
    <2>1. i \in 1 .. D!Count /\ \A j \in 1 .. i - 1 : dtarget.table[j].tag # "NULL"
      BY <1>1 DEF D!Read
    <2>2. n \in 1 .. i - 1 /\ dtarget.table[n].tag = "NULL"
      BY <1>1, <2>1
    <2> QED BY <2>1, <2>2
  <1> QED BY <1>2, <1>3

LEMMA ReadPart ==
    ASSUME dtarget \in DynamicTargets, NEW n \in 0 .. D!Count, \A i \in 1 .. n : dtarget.table[i].tag # "NULL",
           NEW m \in 1 .. D!Count, m <= n + 1
    PROVE  m \in D!Read(dtarget)
  <1>1. DOMAIN dtarget.table = 1 .. D!Count /\ D!Count \in Nat
    BY TargetTyped
  <1>2. \A j \in 1 .. m - 1 : j \in 1 .. n
    BY <1>1
  <1> QED BY <1>1, <1>2 DEF D!Read

LEMMA TaggedIsMet ==
    ASSUME NEW n, D!Read(dtarget) = 1 .. n, NEW tags
    PROVE  D!Tagged(dtarget, tags) = Meeting(n, tags)
  BY DEF D!Tagged, Meeting

\* The entries a table consists of are finitely many.
LEMMA TaggedFinite ==
    ASSUME dtarget \in DynamicTargets, NEW tags
    PROVE  /\ IsFiniteSet(D!Tagged(dtarget, tags)) /\ Cardinality(D!Tagged(dtarget, tags)) \in Nat
           /\ D!Tagged(dtarget, tags) \subseteq 1 .. D!Count
  <1>1. DOMAIN dtarget.table = 1 .. D!Count /\ D!Count \in Nat
    BY TargetTyped
  <1>2. D!Tagged(dtarget, tags) \in SUBSET (1 .. D!Count)
    BY <1>1 DEF D!Tagged, D!Read
  <1>3. IsFiniteSet(1 .. D!Count)
    BY <1>1, FS_Interval
  <1>4. IsFiniteSet(D!Tagged(dtarget, tags))
    BY <1>2, <1>3, FS_Subset
  <1> QED BY <1>2, <1>4, FS_CardinalityType

\* Where the string table is said to be.
LEMMA TableIs ==
    ASSUME Shapes, NEW n, D!Read(dtarget) = 1 .. n, StringTableTrue(n)
    PROVE  /\ D!Values(dtarget, "STRTAB") = dsummary.strtab
           /\ D!Values(dtarget, "STRSZ") = dsummary.strsz
           /\ D!TableNamed <=> D!StringTableNamed(dtarget)
           /\ D!TableNamed => /\ D!Strtab \in Nat /\ D!Strsz \in Nat
                              /\ dsummary.strtab = {D!Strtab} /\ dsummary.strsz = {D!Strsz}
  <1>1. /\ D!Values(dtarget, "STRTAB") = {dtarget.table[i].value : i \in Meeting(n, {"STRTAB"})}
        /\ D!Values(dtarget, "STRSZ") = {dtarget.table[i].value : i \in Meeting(n, {"STRSZ"})}
    BY TaggedIsMet DEF D!Values
  <1>2. D!Values(dtarget, "STRTAB") = dsummary.strtab
    <2>1. \A v : v \in dsummary.strtab <=> \E i \in Meeting(n, {"STRTAB"}) : v = dtarget.table[i].value
      BY DEF StringTableTrue
    <2>2. \A v : v \in dsummary.strtab <=> v \in D!Values(dtarget, "STRTAB")
      BY <1>1, <2>1
    <2> QED BY <2>2
  <1>3. D!Values(dtarget, "STRSZ") = dsummary.strsz
    <2>1. \A v : v \in dsummary.strsz <=> \E i \in Meeting(n, {"STRSZ"}) : v = dtarget.table[i].value
      BY DEF StringTableTrue
    <2>2. \A v : v \in dsummary.strsz <=> v \in D!Values(dtarget, "STRSZ")
      BY <1>1, <2>1
    <2> QED BY <2>2
  <1>4. D!TableNamed <=> D!StringTableNamed(dtarget)
    BY <1>2, <1>3 DEF D!TableNamed, D!StringTableNamed
  <1>5. dsummary.strtab \in SUBSET Nat /\ dsummary.strsz \in SUBSET Nat
    BY DEF Shapes, Summary
  <1>6. \A v, w \in dsummary.strtab : v = w
    BY DEF StringTableTrue
  <1>7. \A v, w \in dsummary.strsz : v = w
    BY DEF StringTableTrue
  <1>8. D!TableNamed => D!Strtab \in dsummary.strtab /\ D!Strsz \in dsummary.strsz
    BY DEF D!TableNamed, D!Strtab, D!Strsz
  <1>9. D!TableNamed => dsummary.strtab = {D!Strtab} /\ dsummary.strsz = {D!Strsz}
    BY <1>6, <1>7, <1>8
  <1> QED BY <1>2, <1>3, <1>4, <1>5, <1>8, <1>9

Base == D!StringLoad.offset + (D!Strtab - D!StringLoad.vaddr)

LEMMA TableFound ==
    ASSUME Shapes, NEW n, D!Read(dtarget) = 1 .. n, StringTableTrue(n), D!TableNamed
    PROVE  /\ D!StringLoads = {} => D!StringTables(dtarget) = {}
           /\ D!StringLoads # {} =>
                 /\ Base \in Nat /\ Base + D!Strsz <= Len(dtarget.file)
                 /\ D!StringTables(dtarget) = {SubSeq(dtarget.file, Base + 1, Base + D!Strsz)}
  <1> DEFINE loads == dtarget.loads
             homes == {l \in DOMAIN loads : /\ loads[l].vaddr <= D!Strtab
                                            /\ D!Strtab + D!Strsz <= loads[l].vaddr + loads[l].filesz}
             bytes(l) == SubSeq(dtarget.file, loads[l].offset + D!Strtab - loads[l].vaddr + 1,
                                loads[l].offset + D!Strtab - loads[l].vaddr + D!Strsz)
  <1>1. /\ D!Values(dtarget, "STRTAB") = dsummary.strtab /\ D!Values(dtarget, "STRSZ") = dsummary.strsz
        /\ D!Strtab \in Nat /\ D!Strsz \in Nat
    BY TableIs
  <1>2. /\ (CHOOSE v \in D!Values(dtarget, "STRTAB") : TRUE) = D!Strtab
        /\ (CHOOSE v \in D!Values(dtarget, "STRSZ") : TRUE) = D!Strsz
    BY <1>1 DEF D!Strtab, D!Strsz
  <1>3. D!StringTables(dtarget) = {bytes(l) : l \in {h \in homes : \A k \in homes : h <= k}}
    BY <1>2 DEF D!StringTables
  <1>4. /\ \A i \in DOMAIN loads :
              /\ loads[i].vaddr \in Nat /\ loads[i].offset \in Nat /\ loads[i].filesz \in Nat
              /\ loads[i].offset + loads[i].filesz <= Len(dtarget.file)
        /\ DOMAIN loads \subseteq Nat /\ Len(dtarget.file) \in Nat
    BY TargetTyped DEF Shapes
  <1>5. homes = D!StringLoads
    <2>1. \A l \in DOMAIN loads : l \in homes <=> l \in D!StringLoads
      BY <1>1, <1>4 DEF D!StringLoads, D!HoldsStrings
    <2> QED BY <2>1 DEF D!StringLoads
  <1> HIDE DEF homes
  <1>6. CASE D!StringLoads = {}
    BY <1>3, <1>5, <1>6
  <1>7. CASE D!StringLoads # {}
    <2>1. homes \in SUBSET Nat /\ homes # {}
      BY <1>4, <1>5, <1>7 DEF homes
    <2>2. PICK first \in homes : \A k \in homes : ~(k < first)
      BY <2>1, LeastElement
    <2>3. \A k \in homes : first <= k
      BY <2>1, <2>2
    <2>4. \A h \in homes : (\A k \in homes : h <= k) => h = first
      BY <2>1, <2>3
    <2>5. {h \in homes : \A k \in homes : h <= k} = {first}
      BY <2>3, <2>4
    <2>6. D!StringLoad = loads[first]
      <3>1. (CHOOSE i \in D!StringLoads : \A j \in D!StringLoads : i <= j) = first
        BY <1>5, <2>3, <2>4
      <3> QED BY <3>1 DEF D!StringLoad
    <2>7. D!StringTables(dtarget) = {bytes(first)}
      BY <1>3, <2>5
    <2>8. /\ first \in DOMAIN loads /\ loads[first].vaddr <= D!Strtab
          /\ D!Strtab + D!Strsz <= loads[first].vaddr + loads[first].filesz
      BY <2>2 DEF homes
    <2>9. Base = loads[first].offset + (D!Strtab - loads[first].vaddr)
      BY <2>6 DEF Base
    <2>10. Base = loads[first].offset + D!Strtab - loads[first].vaddr /\ Base \in Nat
           /\ Base + D!Strsz <= Len(dtarget.file)
      <3> DEFINE vaddr == loads[first].vaddr
                 offset == loads[first].offset
                 filesz == loads[first].filesz
      <3>1. /\ vaddr \in Nat /\ offset \in Nat /\ filesz \in Nat /\ Len(dtarget.file) \in Nat
            /\ offset + filesz <= Len(dtarget.file)
        BY <1>4, <2>8
      <3>2. /\ vaddr <= D!Strtab /\ D!Strtab + D!Strsz <= vaddr + filesz /\ Base = offset + (D!Strtab - vaddr)
            /\ D!Strtab \in Nat /\ D!Strsz \in Nat
        BY <1>1, <2>8, <2>9
      <3> HIDE DEF vaddr, offset, filesz
      <3>3. Base = offset + D!Strtab - vaddr /\ Base \in Nat /\ Base + D!Strsz <= Len(dtarget.file)
        BY <3>1, <3>2
      <3> QED BY <3>3 DEF vaddr, offset
    <2> QED BY <1>7, <2>7, <2>10
  <1> QED BY <1>6, <1>7

\* A string table that was found: what is in it.
Found ==
    /\ D!TableNamed /\ D!Strsz \in Nat /\ D!Strsz <= DynamicStringMax
    /\ dstrings + D!Strsz <= Len(dtarget.file)
    /\ D!StringTables(dtarget) = {SubSeq(dtarget.file, dstrings + 1, dstrings + D!Strsz)}

LEMMA TableBytes ==
    ASSUME Shapes, Found
    PROVE  /\ D!StringTable(dtarget) = SubSeq(dtarget.file, dstrings + 1, dstrings + D!Strsz)
           /\ D!StringTable(dtarget) \in Seq(D!Byte) /\ Len(D!StringTable(dtarget)) = D!Strsz
           /\ \A o \in 1 .. D!Strsz : D!StringTable(dtarget)[o] = dtarget.file[dstrings + o]
           /\ \A i \in dstrings + 1 .. dstrings + D!Strsz : dtarget.file[i] \in D!Byte
  <1>1. dtarget.file \in Seq(D!Byte) /\ dstrings \in Nat /\ D!Strsz \in Nat /\ Len(dtarget.file) \in Nat
    BY TargetTyped DEF Shapes, Found
  <1>2. \A i \in dstrings + 1 .. dstrings + D!Strsz : dtarget.file[i] \in D!Byte
    <2>1. \A i \in 1 .. Len(dtarget.file) : dtarget.file[i] \in D!Byte
      BY <1>1, ElementOfSeq
    <2> QED BY <1>1, <2>1 DEF Found
  <1>3. D!StringTable(dtarget) = SubSeq(dtarget.file, dstrings + 1, dstrings + D!Strsz)
    BY DEF Found, D!StringTable
  <1> DEFINE table == SubSeq(dtarget.file, dstrings + 1, dstrings + D!Strsz)
  <1>4. /\ table \in Seq(D!Byte)
        /\ Len(table) = IF dstrings + 1 <= dstrings + D!Strsz THEN (dstrings + D!Strsz) - (dstrings + 1) + 1 ELSE 0
        /\ \A i \in 1 .. (dstrings + D!Strsz) - (dstrings + 1) + 1 :
              table[i] = dtarget.file[(dstrings + 1) + i - 1]
    BY <1>1, <1>2, SubSeqProperties
  <1> HIDE DEF table
  <1>5. Len(table) = D!Strsz /\ \A o \in 1 .. D!Strsz : table[o] = dtarget.file[dstrings + o]
    <2> DEFINE size == D!Strsz
    <2>1. size \in Nat /\ D!Strsz = size
      BY <1>1
    <2> HIDE DEF size
    <2>2. (dstrings + size) - (dstrings + 1) + 1 = size
      BY <1>1, <2>1
    <2>3. Len(table) = size
      BY <1>1, <1>4, <2>1, <2>2
    <2>4. ASSUME NEW o \in 1 .. size PROVE table[o] = dtarget.file[dstrings + o]
      <3>1. table[o] = dtarget.file[(dstrings + 1) + o - 1]
        BY <1>4, <2>1, <2>2
      <3>2. (dstrings + 1) + o - 1 = dstrings + o
        BY <1>1, <2>1
      <3> QED BY <3>1, <3>2
    <2> QED BY <2>1, <2>3, <2>4
  <1> QED BY <1>2, <1>3, <1>4, <1>5 DEF table

\* The string at an offset: none, or the one that the scan finds.
LEMMA TextIs ==
    ASSUME Shapes, Found, NEW o \in Nat
    PROVE  /\ o >= D!Strsz => D!Texts(D!StringTable(dtarget), o) = {}
           /\ o < D!Strsz /\ D!Terminators(o) = {} => D!Texts(D!StringTable(dtarget), o) = {}
           /\ o < D!Strsz /\ D!Terminators(o) # {} =>
                 /\ D!Texts(D!StringTable(dtarget), o) = {D!Bytes(o)}
                 /\ D!Length(o) \in D!Terminators(o) /\ \A m \in D!Terminators(o) : D!Length(o) <= m
                 /\ D!Bytes(o) \in Seq(D!Byte) /\ Len(D!Bytes(o)) = D!Length(o) /\ D!Length(o) \in Nat
                 /\ D!Bytes(o) # <<>> <=> D!StringByte(o) # D!NUL
  <1> DEFINE table == D!StringTable(dtarget)
             ends == {m \in o .. Len(table) - 1 :
                        table[m + 1] = D!NUL /\ \A k \in o + 1 .. m : table[k] # D!NUL}
  <1>1. /\ table = SubSeq(dtarget.file, dstrings + 1, dstrings + D!Strsz)
        /\ table \in Seq(D!Byte) /\ Len(table) = D!Strsz
        /\ \A i \in 1 .. D!Strsz : table[i] = dtarget.file[dstrings + i]
        /\ \A i \in dstrings + 1 .. dstrings + D!Strsz : dtarget.file[i] \in D!Byte
    BY TableBytes
  <1>2. D!Texts(table, o) = {SubSeq(table, o + 1, n) : n \in ends}
    BY DEF D!Texts
  <1> HIDE DEF table
  <1>3. dstrings \in Nat /\ D!Strsz \in Nat
    BY DEF Shapes, Found
  <1>4. CASE o >= D!Strsz
    <2>1. ends = {}
      BY <1>1, <1>3, <1>4
    <2>2. D!Texts(D!StringTable(dtarget), o) = {}
      BY <1>2, <2>1 DEF table
    <2> QED BY <1>3, <1>4, <2>2
  <1>5. ASSUME o < D!Strsz
        PROVE  \A m \in o .. D!Strsz - 1 : /\ m - o \in 0 .. D!Strsz - o - 1
                                           /\ table[m + 1] = D!StringByte(m)
    <2> TAKE m \in o .. D!Strsz - 1
    <2>1. m + 1 \in 1 .. D!Strsz /\ m - o \in 0 .. D!Strsz - o - 1 /\ dstrings + (m + 1) = dstrings + m + 1
      BY <1>3
    <2> QED BY <1>1, <2>1 DEF D!StringByte
  <1>6. ASSUME o < D!Strsz
        PROVE  \A m \in o .. D!Strsz - 1 : table[m + 1] = D!NUL <=> m - o \in D!Terminators(o)
    <2> TAKE m \in o .. D!Strsz - 1
    <2>1. o + (m - o) = m
      BY <1>3
    <2> QED BY <1>5, <1>6, <2>1 DEF D!Terminators
  <1>7. CASE o < D!Strsz /\ D!Terminators(o) = {}
    <2>1. ends = {}
      BY <1>1, <1>6, <1>7
    <2> QED BY <1>2, <1>3, <1>7, <2>1 DEF table
  <1>8. CASE o < D!Strsz /\ D!Terminators(o) # {}
    <2>1. D!Terminators(o) \in SUBSET Nat
      BY <1>3 DEF D!Terminators
    <2>2. PICK first \in D!Terminators(o) : \A m \in D!Terminators(o) : ~(m < first)
      BY <1>8, <2>1, LeastElement
    <2>3. \A m \in D!Terminators(o) : first <= m
      BY <2>1, <2>2
    <2>4. \A h \in D!Terminators(o) : (\A m \in D!Terminators(o) : h <= m) => h = first
      BY <2>1, <2>3
    <2>5. D!Length(o) = first
      BY <2>3, <2>4 DEF D!Length
    <2>6. first \in Nat /\ first \in 0 .. D!Strsz - o - 1 /\ D!StringByte(o + first) = D!NUL
      BY <1>3, <2>2 DEF D!Terminators
    <2>7. o + first \in ends
      <3>1. o + first \in o .. D!Strsz - 1 /\ (o + first) - o = first
        BY <1>3, <2>6
      <3>2. table[(o + first) + 1] = D!NUL
        BY <1>6, <1>8, <3>1
      <3>3. ASSUME NEW k \in o + 1 .. o + first PROVE table[k] # D!NUL
        <4>1. k - 1 \in o .. D!Strsz - 1 /\ (k - 1) + 1 = k /\ (k - 1) - o < first
          BY <1>3, <2>6
        <4> QED BY <1>6, <1>8, <2>2, <4>1
      <3> QED BY <1>1, <3>1, <3>2, <3>3
    <2>8. ASSUME NEW m \in ends PROVE m = o + first
      <3>1. m \in o .. D!Strsz - 1 /\ table[m + 1] = D!NUL /\ \A k \in o + 1 .. m : table[k] # D!NUL
        BY <1>1
      <3>2. m - o \in D!Terminators(o)
        BY <1>6, <1>8, <3>1
      <3>3. first <= m - o
        BY <2>3, <3>2
      <3>4. table[(o + first) + 1] = D!NUL
        BY <2>7
      <3>5. CASE o + first < m
        <4>1. (o + first) + 1 \in o + 1 .. m
          BY <2>6, <3>1, <3>5
        <4> QED BY <3>1, <3>4, <4>1
      <3> QED BY <1>3, <2>6, <3>1, <3>3, <3>5
    <2>9. ends = {o + first}
      BY <2>7, <2>8
    <2> HIDE DEF ends
    <2>10. D!Texts(table, o) = {SubSeq(table, o + 1, o + first)}
      BY <1>2, <2>9
    <2>11. /\ D!Bytes(o) \in Seq(D!Byte) /\ Len(D!Bytes(o)) = first
           /\ \A i \in 1 .. first : D!Bytes(o)[i] = dtarget.file[dstrings + o + i]
      <3> DEFINE lo == dstrings + o + 1
                 hi == dstrings + o + first
      <3>1. lo \in Int /\ hi \in Int /\ \A i \in lo .. hi : i \in dstrings + 1 .. dstrings + D!Strsz
        BY <1>3, <2>6
      <3>2. \A i \in lo .. hi : dtarget.file[i] \in D!Byte
        BY <1>1, <3>1
      <3>3. D!Bytes(o) = SubSeq(dtarget.file, lo, hi)
        BY <2>5 DEF D!Bytes
      <3> HIDE DEF lo, hi
      <3>4. /\ D!Bytes(o) \in Seq(D!Byte)
            /\ Len(D!Bytes(o)) = IF lo <= hi THEN hi - lo + 1 ELSE 0
            /\ \A i \in 1 .. hi - lo + 1 : D!Bytes(o)[i] = dtarget.file[lo + i - 1]
        BY <3>1, <3>2, <3>3, SubSeqProperties
      <3>5. hi - lo + 1 = first /\ (lo <= hi <=> first # 0)
            /\ \A i \in 1 .. first : lo + i - 1 = dstrings + o + i
        BY <1>3, <2>6 DEF lo, hi
      <3> QED BY <2>6, <3>4, <3>5
    <2>12. SubSeq(table, o + 1, o + first) = D!Bytes(o)
      <3> DEFINE text == SubSeq(table, o + 1, o + first)
      <3>1. \A i \in o + 1 .. o + first : i \in 1 .. D!Strsz /\ table[i] \in D!Byte
        <4>1. \A i \in 1 .. D!Strsz : table[i] \in D!Byte
          BY <1>1, ElementOfSeq
        <4> QED BY <1>3, <2>6, <4>1
      <3>2. /\ text \in Seq(D!Byte)
            /\ Len(text) = IF o + 1 <= o + first THEN (o + first) - (o + 1) + 1 ELSE 0
            /\ \A i \in 1 .. (o + first) - (o + 1) + 1 : text[i] = table[(o + 1) + i - 1]
        BY <2>6, <3>1, SubSeqProperties
      <3> HIDE DEF text
      <3>3. Len(text) = first /\ \A i \in 1 .. first : text[i] = table[o + i]
        BY <2>6, <3>2
      <3>4. \A i \in 1 .. first : o + i \in 1 .. D!Strsz /\ dstrings + (o + i) = dstrings + o + i
        BY <1>3, <2>6
      <3>5. \A i \in 1 .. first : text[i] = D!Bytes(o)[i]
        BY <1>1, <2>11, <3>3, <3>4
      <3>6. text = D!Bytes(o)
        BY <2>11, <3>2, <3>3, <3>5, SeqEqual
      <3> QED BY <3>6 DEF text
    <2>13. D!Bytes(o) # <<>> <=> D!StringByte(o) # D!NUL
      <3>1. D!Bytes(o) # <<>> <=> first # 0
        BY <2>6, <2>11, EmptySeq
      <3>2. 0 \in D!Terminators(o) <=> D!StringByte(o) = D!NUL
        BY <1>3, <1>8 DEF D!Terminators
      <3>3. 0 \in D!Terminators(o) <=> first = 0
        BY <2>2, <2>3, <2>6
      <3> QED BY <3>1, <3>2, <3>3
    <2>14. D!Texts(D!StringTable(dtarget), o) = {D!Bytes(o)}
      BY <2>10, <2>12 DEF table
    <2> QED BY <1>3, <1>8, <2>2, <2>3, <2>5, <2>6, <2>11, <2>13, <2>14
  <1> QED BY <1>3, <1>4, <1>7, <1>8
-----------------------------------------------------------------------------
(* The second pass: the values that are kept are the strings of the        *)
(* entries resolved so far.                                                *)

TextsAt(i) == D!Texts(D!StringTable(dtarget), dtarget.table[i].value)

Kept(n, tags) == IF dcontext.complete THEN Meeting(n, tags) ELSE {}

TextsTrue(n) ==
    /\ \A i \in Meeting(n, {"SONAME"}) : \E text \in TextsAt(i) : text # <<>>
    /\ \A i \in Kept(n, D!Families) : TextsAt(i) # {}

RecordsTrue(n) ==
    /\ Len(dcontext.records) = Cardinality(Kept(n, D!Families))
    /\ \A k \in DOMAIN dcontext.records :
          LET record == dcontext.records[k]
          IN /\ record.index + 1 \in Kept(n, D!Families)
             /\ record.tag = dtarget.table[record.index + 1].tag
             /\ record.string = dtarget.table[record.index + 1].value
             /\ {D!ValueOf(record)} = D!Texts(D!StringTable(dtarget), record.string)
             /\ record.pool = D!RecordStart(k)
             /\ record.pool + record.length <= Len(dcontext.pool)
             /\ \A j \in 1 .. k - 1 : dcontext.records[j].index < record.index

PoolTrue(n) ==
    /\ Len(dcontext.pool) = D!RecordStart(Len(dcontext.records) + 1)
    /\ dcontext.complete => Len(dcontext.pool) = D!Totals(D!ValueLengths(dtarget))[n]

SearchTrue(n) ==
    \A f \in D!Families :
       LET path == dcontext.paths[f]
       IN /\ path.values # 0 <=> Kept(n, {f}) # {}
          /\ path.values = 0 => path.conflicts = 0
          /\ path.values # 0 =>
                /\ path.first \in DOMAIN dcontext.records
                /\ \E i \in Kept(n, {f}) : TextsAt(i) = {D!ValueOf(dcontext.records[path.first])}
          /\ path.conflicts # 0 <=> \E i, j \in Kept(n, {f}) : TextsAt(i) # TextsAt(j)

Resolved(n) == TextsTrue(n) /\ RecordsTrue(n) /\ PoolTrue(n) /\ SearchTrue(n)

\* Where the second pass is.
Resolving(n) ==
    /\ Shapes /\ Found
    /\ dsummary.entryCount \in 0 .. D!Count /\ FirstTrue(dsummary.entryCount)
    /\ D!Read(dtarget) = 1 .. dsummary.entryCount
    /\ n \in 0 .. D!Count /\ n = dindex
    /\ \A i \in 1 .. n : dtarget.table[i].tag # "NULL"

LEMMA ResolvingAt ==
    ASSUME NEW n, Resolving(n), dindex < D!Count
    PROVE  /\ n + 1 \in 1 .. dsummary.entryCount /\ n + 1 \in D!Read(dtarget)
           /\ D!Entry = dtarget.table[n + 1] /\ n \in Nat /\ n + 1 \in 1 .. D!Count
  <1>1. D!Count \in Nat /\ n \in 0 .. D!Count /\ n + 1 \in 1 .. D!Count
    BY TargetTyped DEF Resolving, Shapes
  <1>2. n + 1 \in D!Read(dtarget)
    BY <1>1, ReadPart DEF Resolving, Shapes
  <1> QED BY <1>1, <1>2 DEF Resolving, D!Entry

\* A prefix of the pool does not change when values are added behind it.
LEMMA PoolGrows ==
    ASSUME NEW p \in Seq(D!Byte), NEW q \in Seq(D!Byte)
    PROVE  /\ p \o q \in Seq(D!Byte) /\ Len(p \o q) = Len(p) + Len(q)
           /\ SubSeq(p \o q, Len(p) + 1, Len(p) + Len(q)) = q
           /\ \A a, l \in Nat : a + l <= Len(p) => SubSeq(p \o q, a + 1, a + l) = SubSeq(p, a + 1, a + l)
  <1>1. /\ p \o q \in Seq(D!Byte) /\ Len(p \o q) = Len(p) + Len(q)
        /\ \A i \in 1 .. Len(p) + Len(q) : (p \o q)[i] = IF i <= Len(p) THEN p[i] ELSE q[i - Len(p)]
        /\ Len(p) \in Nat /\ Len(q) \in Nat
    BY ConcatProperties, LenProperties
  <1>2. \A i \in 1 .. Len(p) + Len(q) : (p \o q)[i] \in D!Byte
    BY <1>1, ElementOfSeq
  <1>3. \A i \in 1 .. Len(p) : p[i] \in D!Byte
    BY ElementOfSeq
  <1> DEFINE s == p \o q
  <1> HIDE DEF s
  <1>4. SubSeq(s, Len(p) + 1, Len(p) + Len(q)) = q
    <2> DEFINE b == SubSeq(s, Len(p) + 1, Len(p) + Len(q))
    <2>1. \A i \in Len(p) + 1 .. Len(p) + Len(q) : s[i] \in D!Byte
      BY <1>1, <1>2 DEF s
    <2>2. /\ b \in Seq(D!Byte)
          /\ Len(b) = IF Len(p) + 1 <= Len(p) + Len(q) THEN (Len(p) + Len(q)) - (Len(p) + 1) + 1 ELSE 0
          /\ \A i \in 1 .. (Len(p) + Len(q)) - (Len(p) + 1) + 1 : b[i] = s[(Len(p) + 1) + i - 1]
      BY <1>1, <2>1, SubSeqProperties
    <2> HIDE DEF b
    <2>3. Len(b) = Len(q) /\ \A i \in 1 .. Len(q) : b[i] = s[Len(p) + i]
      BY <1>1, <2>2
    <2>4. \A i \in 1 .. Len(q) : Len(p) + i \in 1 .. Len(p) + Len(q) /\ ~(Len(p) + i <= Len(p))
                                 /\ (Len(p) + i) - Len(p) = i
      BY <1>1
    <2>5. \A i \in 1 .. Len(b) : b[i] = q[i]
      BY <1>1, <2>3, <2>4 DEF s
    <2>6. b = q
      BY <2>2, <2>3, <2>5, SeqEqual
    <2> QED BY <2>6 DEF b
  <1>5. ASSUME NEW a \in Nat, NEW l \in Nat, a + l <= Len(p)
        PROVE  SubSeq(s, a + 1, a + l) = SubSeq(p, a + 1, a + l)
    <2> DEFINE b == SubSeq(s, a + 1, a + l)
               c == SubSeq(p, a + 1, a + l)
    <2>1. \A i \in a + 1 .. a + l : i \in 1 .. Len(p) /\ i \in 1 .. Len(p) + Len(q) /\ i <= Len(p)
      BY <1>1, <1>5
    <2>2. \A i \in a + 1 .. a + l : s[i] = p[i] /\ s[i] \in D!Byte /\ p[i] \in D!Byte
      BY <1>1, <1>3, <2>1 DEF s
    <2>3. /\ b \in Seq(D!Byte)
          /\ Len(b) = IF a + 1 <= a + l THEN (a + l) - (a + 1) + 1 ELSE 0
          /\ \A i \in 1 .. (a + l) - (a + 1) + 1 : b[i] = s[(a + 1) + i - 1]
      BY <2>2, SubSeqProperties
    <2>4. /\ c \in Seq(D!Byte)
          /\ Len(c) = IF a + 1 <= a + l THEN (a + l) - (a + 1) + 1 ELSE 0
          /\ \A i \in 1 .. (a + l) - (a + 1) + 1 : c[i] = p[(a + 1) + i - 1]
      BY <2>2, SubSeqProperties
    <2> HIDE DEF b, c
    <2>5. Len(b) = l /\ Len(c) = l /\ (a + l) - (a + 1) + 1 = l
      BY <2>3, <2>4
    <2>6. \A i \in 1 .. l : (a + 1) + i - 1 \in a + 1 .. a + l
      OBVIOUS
    <2>7. \A i \in 1 .. Len(b) : b[i] = c[i]
      BY <2>2, <2>3, <2>4, <2>5, <2>6
    <2>8. b = c
      BY <2>3, <2>4, <2>5, <2>7, SeqEqual
    <2> QED BY <2>8 DEF b, c
  <1> QED BY <1>1, <1>4, <1>5 DEF s

\* Entries that leave no value behind.
LEMMA NothingKept ==
    ASSUME NEW n, Resolving(n), Resolved(n), dindex < D!Count, dtarget' = dtarget, dcontext' = dcontext,
           D!Entry.tag \in D!Families => ~dcontext.complete,
           D!Entry.tag = "SONAME" => \E text \in TextsAt(n + 1) : text # <<>>
    PROVE  Resolved(n + 1)'
  <1>1. n + 1 \in 1 .. D!Count /\ D!Entry = dtarget.table[n + 1] /\ n \in Nat /\ n + 1 \in D!Read(dtarget)
    BY ResolvingAt
  <1>2. \A f \in D!Families : Kept(n + 1, {f}) = Kept(n, {f})
    <2> TAKE f \in D!Families
    <2>1. dcontext.complete => dtarget.table[n + 1].tag \notin {f}
      BY <1>1
    <2> QED BY <1>1, <2>1, MetNext DEF Kept
  <1>3. Kept(n + 1, D!Families) = Kept(n, D!Families)
    BY <1>1, MetNext DEF Kept
  <1>4. Meeting(n + 1, {"SONAME"}) = IF D!Entry.tag = "SONAME" THEN Meeting(n, {"SONAME"}) \cup {n + 1}
                                     ELSE Meeting(n, {"SONAME"})
    BY <1>1, MetNext
  <1>5. TextsTrue(n + 1)
    BY <1>3, <1>4 DEF Resolved, TextsTrue
  <1>6. RecordsTrue(n + 1) /\ SearchTrue(n + 1)
    BY <1>2, <1>3 DEF Resolved, RecordsTrue, SearchTrue
  <1>7. PoolTrue(n + 1)
    <2> SUFFICES ASSUME dcontext.complete
                 PROVE  D!Totals(D!ValueLengths(dtarget))[n + 1] = D!Totals(D!ValueLengths(dtarget))[n]
      BY DEF Resolved, PoolTrue
    <2>1. DOMAIN D!ValueLengths(dtarget) = 1 .. D!Count /\ D!Count \in Nat
      BY TargetTyped DEF Resolving, Shapes, D!ValueLengths
    <2>2. D!ValueLengths(dtarget)[n + 1] = 0
      BY <1>1, <2>1 DEF D!ValueLengths, D!Tagged
    <2>3. D!Totals(D!ValueLengths(dtarget))[n + 1] = D!Totals(D!ValueLengths(dtarget))[(n + 1) - 1] + D!ValueLengths(dtarget)[n + 1]
      BY <1>1, <2>1, TotalsAre
    <2>4. D!Totals(D!ValueLengths(dtarget))[n] \in Nat
      <3>1. Len(dcontext.pool) \in Nat
        BY DEF Resolving, Shapes, Context
      <3> QED BY <3>1 DEF Resolved, PoolTrue
    <2>5. (n + 1) - 1 = n
      BY <1>1
    <2> QED BY <2>2, <2>3, <2>4, <2>5
  <1>8. TextsTrue(n + 1)' /\ SearchTrue(n + 1)'
    BY <1>5, <1>6 DEF TextsTrue, SearchTrue, TextsAt, Kept, Meeting, D!ValueOf
  <1>9. RecordsTrue(n + 1)' /\ PoolTrue(n + 1)'
    BY <1>6, <1>7 DEF RecordsTrue, PoolTrue, Kept, Meeting, D!ValueOf, D!RecordStart
  <1> QED BY <1>8, <1>9 DEF Resolved
\* A value is read, and kept behind the others.
Value == D!Bytes(D!Entry.value)
NewRecord == [tag |-> D!Entry.tag, index |-> dindex, string |-> D!Entry.value,
              pool |-> Len(dcontext.pool), length |-> Len(Value)]
NewPath ==
    LET path == dcontext.paths[D!Entry.tag]
        differs == path.values # 0 /\ D!ValueOf(dcontext.records[path.first]) # Value
    IN [path EXCEPT !.values = @ + 1,
                    !.first = IF path.values = 0 THEN Len(dcontext.records) + 1 ELSE @,
                    !.conflicts = IF differs THEN @ + 1 ELSE @]

LEMMA ValueRead ==
    ASSUME NEW n, Resolving(n), D!SearchPathResolved
    PROVE  /\ dindex < D!Count /\ D!Entry.tag \in D!Families /\ dcontext.complete
           /\ D!Entry.value \in Nat /\ TextsAt(n + 1) = {Value} /\ Value \in Seq(D!Byte)
           /\ Len(dcontext.pool) + Len(Value) <= SearchBytes
           /\ Len(dcontext.records) < SearchRecords
  <1>1. dindex < D!Count /\ D!Entry.tag \in D!Families /\ dcontext.complete /\ D!SearchPathStatus = D!EXIT_OK
    BY DEF D!SearchPathResolved, D!AtString
  <1>2. D!Entry.value \in Nat /\ D!Entry = dtarget.table[n + 1]
    BY <1>1, EntryAt, ResolvingAt DEF Resolving, Shapes, D!ValueTags
  <1>3. /\ ~(D!Entry.value >= D!Strsz) /\ \E t \in D!Terminators(D!Entry.value) : t <= D!Remaining
        /\ ~(Len(dcontext.records) >= SearchRecords)
    BY <1>1 DEF D!SearchPathStatus, D!EXIT_OK, D!EXIT_MALFORMED_ELF, D!EXIT_BOUNDS, D!EXIT_UNSUPPORTED
  <1>4. D!Strsz \in Nat /\ Len(dcontext.pool) \in Nat /\ Len(dcontext.records) \in Nat /\ Shapes /\ Found
    BY DEF Resolving, Found, Shapes, Context
  <1>5. /\ D!Texts(D!StringTable(dtarget), D!Entry.value) = {Value}
        /\ \A m \in D!Terminators(D!Entry.value) : D!Length(D!Entry.value) <= m
        /\ Value \in Seq(D!Byte) /\ Len(Value) = D!Length(D!Entry.value) /\ D!Length(D!Entry.value) \in Nat
    BY <1>2, <1>3, <1>4, TextIs DEF Value
  <1>6. Len(dcontext.pool) + Len(Value) <= SearchBytes
    <2>1. PICK t \in D!Terminators(D!Entry.value) : t <= SearchBytes - Len(dcontext.pool)
      BY <1>3 DEF D!Remaining
    <2>2. t \in Nat
      BY <1>2, <1>4, <2>1 DEF D!Terminators
    <2> QED BY <1>4, <1>5, <2>1, <2>2, LimitsTypedD
  <1> QED BY <1>1, <1>2, <1>3, <1>4, <1>5, <1>6, LimitsTypedD DEF TextsAt

LEMMA ValueEffects ==
    ASSUME NEW n, Resolving(n), D!SearchPathResolved
    PROVE  /\ dtarget' = dtarget /\ dindex' = dindex + 1 /\ dpc' = dpc /\ dstrings' = dstrings
           /\ dsummary' = dsummary /\ dstatus' = dstatus
           /\ dcontext' \in Context
           /\ dcontext'.records = Append(dcontext.records, NewRecord)
           /\ dcontext'.pool = dcontext.pool \o Value
           /\ dcontext'.paths = [dcontext.paths EXCEPT ![D!Entry.tag] = NewPath]
           /\ dcontext'.carriers = dcontext.carriers /\ dcontext'.textrels = dcontext.textrels
           /\ dcontext'.flagsCount = dcontext.flagsCount /\ dcontext'.flagsFirst = dcontext.flagsFirst
           /\ dcontext'.flagsOr = dcontext.flagsOr /\ dcontext'.flagsAnd = dcontext.flagsAnd
           /\ dcontext'.flagsConflicts = dcontext.flagsConflicts
           /\ dcontext'.complete = dcontext.complete
  <1>1. dcontext \in Context /\ dindex \in Nat
    BY TargetTyped DEF Resolving, Shapes
  <1>2. /\ D!Entry.tag \in D!Families /\ D!Entry.value \in Nat /\ Value \in Seq(D!Byte)
    BY ValueRead
  <1>3. dcontext.paths \in [D!Families -> D!Search] /\ dcontext.paths[D!Entry.tag] \in D!Search
        /\ dcontext.records \in Seq(ValueRecord) /\ dcontext.pool \in Seq(D!Byte)
    BY <1>1, <1>2 DEF Context
  <1>4. NewRecord \in ValueRecord
    BY <1>1, <1>2, <1>3 DEF NewRecord, ValueRecord
  <1>5. NewPath \in D!Search
    <2> DEFINE path == dcontext.paths[D!Entry.tag]
               first == IF path.values = 0 THEN Len(dcontext.records) + 1 ELSE path.first
               conflicts == IF path.values # 0 /\ D!ValueOf(dcontext.records[path.first]) # Value
                            THEN path.conflicts + 1 ELSE path.conflicts
    <2>1. first \in Nat /\ conflicts \in Nat /\ path.values + 1 \in Nat
      <3>1. /\ dcontext.paths[D!Entry.tag].values \in Nat /\ dcontext.paths[D!Entry.tag].first \in Nat
            /\ dcontext.paths[D!Entry.tag].conflicts \in Nat
        BY <1>3 DEF D!Search
      <3>2. Len(dcontext.records) \in Nat
        BY <1>3
      <3> QED BY <3>1, <3>2
    <2>2. NewPath = [path EXCEPT !.values = path.values + 1, !.first = first, !.conflicts = conflicts]
      BY DEF NewPath
    <2> HIDE DEF first, conflicts
    <2> QED BY <1>3, <2>1, <2>2 DEF D!Search
  <1> DEFINE R == Append(dcontext.records, NewRecord)
             P == dcontext.pool \o Value
             Q == [dcontext.paths EXCEPT ![D!Entry.tag] = NewPath]
             d1 == [dcontext EXCEPT !.records = R]
             d2 == [d1 EXCEPT !.pool = P]
             d3 == [d2 EXCEPT !.paths = Q]
  <1>6. R \in Seq(ValueRecord) /\ P \in Seq(D!Byte) /\ Q \in [D!Families -> D!Search]
    BY <1>2, <1>3, <1>4, <1>5
  <1>7. dcontext' = [dcontext EXCEPT !.records = Append(@, NewRecord), !.pool = @ \o Value,
                                     !.paths[D!Entry.tag] = NewPath]
    BY DEF D!SearchPathResolved, NewRecord, NewPath, Value, D!PoolPlace
  <1> HIDE DEF R, P, Q
  <1>8. dcontext' = [dcontext EXCEPT !.records = R, !.pool = P, !.paths = Q]
    BY <1>7 DEF R, P, Q
  <1>9. d1 \in Context
    BY <1>1, <1>6, ContextUpdate
  <1>10. d2 \in Context
    BY <1>6, <1>9, ContextUpdate
  <1>11. d3 \in Context
    BY <1>6, <1>10, ContextUpdate
  <1>12. dcontext' = d3
    BY <1>8
  <1>13. dcontext' \in Context
    BY <1>11, <1>12
  <1>14. /\ dcontext'.records = R /\ dcontext'.pool = P /\ dcontext'.paths = Q
         /\ dcontext'.carriers = dcontext.carriers /\ dcontext'.textrels = dcontext.textrels
         /\ dcontext'.flagsCount = dcontext.flagsCount /\ dcontext'.flagsFirst = dcontext.flagsFirst
         /\ dcontext'.flagsOr = dcontext.flagsOr /\ dcontext'.flagsAnd = dcontext.flagsAnd
         /\ dcontext'.flagsConflicts = dcontext.flagsConflicts
         /\ dcontext'.complete = dcontext.complete
    BY <1>1, <1>8 DEF Context
  <1> QED BY <1>13, <1>14 DEF D!SearchPathResolved, D!NextString, R, P, Q

\* What was kept keeps its place.
LEMMA ValuesStay ==
    ASSUME NEW n, Resolving(n), Resolved(n), D!SearchPathResolved
    PROVE  /\ DOMAIN dcontext'.records = 1 .. Len(dcontext.records) + 1
           /\ DOMAIN dcontext.records = 1 .. Len(dcontext.records)
           /\ Len(dcontext'.records) = Len(dcontext.records) + 1 /\ Len(dcontext.records) \in Nat
           /\ dcontext'.records[Len(dcontext.records) + 1] = NewRecord
           /\ SubSeq(dcontext'.pool, NewRecord.pool + 1, NewRecord.pool + NewRecord.length) = Value
           /\ \A k \in 1 .. Len(dcontext.records) :
                 /\ dcontext'.records[k] = dcontext.records[k]
                 /\ SubSeq(dcontext'.pool, dcontext.records[k].pool + 1,
                           dcontext.records[k].pool + dcontext.records[k].length)
                      = D!ValueOf(dcontext.records[k])
  <1>1. /\ dcontext'.records = Append(dcontext.records, NewRecord)
        /\ dcontext'.pool = dcontext.pool \o Value
        /\ dcontext.records \in Seq(ValueRecord) /\ dcontext.pool \in Seq(D!Byte) /\ Value \in Seq(D!Byte)
    BY ValueEffects, ValueRead DEF Resolving, Shapes, Context
  <1> DEFINE records == dcontext.records
  <1>2. /\ Len(dcontext.records) \in Nat /\ DOMAIN dcontext.records = 1 .. Len(dcontext.records)
        /\ Len(dcontext'.records) = Len(dcontext.records) + 1
        /\ dcontext'.records[Len(dcontext.records) + 1] = NewRecord
        /\ \A k \in 1 .. Len(dcontext.records) : dcontext'.records[k] = dcontext.records[k]
        /\ DOMAIN dcontext'.records = 1 .. Len(dcontext.records) + 1
    BY <1>1
  <1>3. ASSUME NEW k \in 1 .. Len(dcontext.records)
        PROVE  SubSeq(dcontext'.pool, dcontext.records[k].pool + 1,
                           dcontext.records[k].pool + dcontext.records[k].length)
                      = D!ValueOf(dcontext.records[k])
    <2>1. dcontext.records[k] \in ValueRecord
      BY <1>1, <1>2
    <2>2. dcontext.records[k].pool \in Nat /\ dcontext.records[k].length \in Nat
      BY <2>1 DEF ValueRecord
    <2>3. dcontext.records[k].pool + dcontext.records[k].length <= Len(dcontext.pool)
      BY <1>2 DEF Resolved, RecordsTrue
    <2>4. \A a, l \in Nat : a + l <= Len(dcontext.pool) =>
             SubSeq(dcontext.pool \o Value, a + 1, a + l) = SubSeq(dcontext.pool, a + 1, a + l)
      BY <1>1, PoolGrows
    <2>5. SubSeq(dcontext.pool \o Value, dcontext.records[k].pool + 1,
                 dcontext.records[k].pool + dcontext.records[k].length)
            = SubSeq(dcontext.pool, dcontext.records[k].pool + 1,
                     dcontext.records[k].pool + dcontext.records[k].length)
      BY <2>2, <2>3, <2>4
    <2> QED BY <1>1, <2>5 DEF D!ValueOf
  <1>4. SubSeq(dcontext'.pool, NewRecord.pool + 1, NewRecord.pool + NewRecord.length) = Value
    <2>1. SubSeq(dcontext.pool \o Value, Len(dcontext.pool) + 1, Len(dcontext.pool) + Len(Value)) = Value
      BY <1>1, PoolGrows
    <2> QED BY <1>1, <2>1 DEF NewRecord
  <1> QED BY <1>2, <1>3, <1>4

ValueIn(c, k) == SubSeq(c.pool, c.records[k].pool + 1, c.records[k].pool + c.records[k].length)

LEMMA StartsStay ==
    ASSUME NEW n, Resolving(n), Resolved(n), D!SearchPathResolved, NEW m, m = Len(dcontext.records)
    PROVE  /\ \A k \in 1 .. m + 1 : D!RecordStart(k)' = D!RecordStart(k)
           /\ D!RecordStart(m + 2)' = D!RecordStart(m + 1) + Len(Value)
  <1> DEFINE old == [j \in DOMAIN dcontext.records |-> dcontext.records[j].length]
             new == [j \in DOMAIN dcontext'.records |-> dcontext'.records[j].length]
  <1>1. /\ m \in Nat /\ DOMAIN dcontext.records = 1 .. m /\ DOMAIN dcontext'.records = 1 .. m + 1
        /\ Len(dcontext'.records) = m + 1 /\ dcontext'.records[m + 1] = NewRecord
        /\ \A k \in 1 .. m : dcontext'.records[k] = dcontext.records[k]
    BY ValuesStay
  <1>2. DOMAIN old = 1 .. m /\ DOMAIN new = 1 .. m + 1 /\ \A i \in 1 .. m : old[i] = new[i]
    BY <1>1
  <1>3. new[m + 1] = Len(Value) /\ m + 1 \in 1 .. m + 1
    BY <1>1 DEF NewRecord
  <1>4. /\ \A k : D!RecordStart(k) = D!Totals(old)[k - 1]
        /\ \A k : D!RecordStart(k)' = D!Totals(new)[k - 1]
    BY DEF D!RecordStart
  <1> HIDE DEF old, new
  <1>5. \A i \in 0 .. m : D!Totals(old)[i] = D!Totals(new)[i]
    BY <1>1, <1>2, TotalsAgree
  <1>6. \A k \in 1 .. m + 1 : D!RecordStart(k)' = D!RecordStart(k)
    <2> TAKE k \in 1 .. m + 1
    <2>1. k - 1 \in 0 .. m
      BY <1>1
    <2> QED BY <1>4, <1>5, <2>1
  <1>7. D!RecordStart(m + 2)' = D!RecordStart(m + 1) + Len(Value)
    <2>1. D!Totals(new)[m + 1] = D!Totals(new)[(m + 1) - 1] + new[m + 1]
      BY <1>1, <1>2, <1>3, TotalsAre
    <2>2. (m + 1) - 1 = m /\ (m + 2) - 1 = m + 1 /\ m \in 0 .. m
      BY <1>1
    <2> QED BY <1>3, <1>4, <1>5, <2>1, <2>2
  <1> QED BY <1>6, <1>7

LEMMA KeptNext ==
    ASSUME NEW n, Resolving(n), D!SearchPathResolved
    PROVE  /\ \A tags : Kept(n + 1, tags)' = Kept(n + 1, tags)
           /\ Kept(n + 1, D!Families) = Kept(n, D!Families) \cup {n + 1}
           /\ Cardinality(Kept(n + 1, D!Families)) = Cardinality(Kept(n, D!Families)) + 1
           /\ \A f \in D!Families : Kept(n + 1, {f}) = IF f = D!Entry.tag THEN Kept(n, {f}) \cup {n + 1}
                                                       ELSE Kept(n, {f})
           /\ \A tags : Kept(n, tags) \subseteq 1 .. n
           /\ n \in Nat /\ dindex = n /\ n + 1 \in 1 .. D!Count /\ D!Entry = dtarget.table[n + 1]
           /\ n + 1 \in D!Read(dtarget)
           /\ \A i : TextsAt(i)' = TextsAt(i)
  <1>1. dindex < D!Count /\ D!Entry.tag \in D!Families /\ dcontext.complete
        /\ dcontext'.complete = dcontext.complete /\ dtarget' = dtarget
    BY ValueRead, ValueEffects
  <1>2. n \in Nat /\ dindex = n /\ n + 1 \in 1 .. D!Count /\ D!Entry = dtarget.table[n + 1] /\ n + 1 \in D!Read(dtarget)
    BY <1>1, ResolvingAt DEF Resolving
  <1>3. \A tags : Kept(n, tags) = Meeting(n, tags) /\ Kept(n + 1, tags) = Meeting(n + 1, tags)
    BY <1>1 DEF Kept
  <1>4. \A tags : Kept(n + 1, tags)' = Kept(n + 1, tags)
    BY <1>1 DEF Kept, Meeting
  <1>5. \A f \in D!Families : Meeting(n + 1, {f}) = IF f = D!Entry.tag THEN Meeting(n, {f}) \cup {n + 1}
                                                           ELSE Meeting(n, {f})
    BY <1>2, MetNext
  <1>6. /\ Meeting(n + 1, D!Families) = Meeting(n, D!Families) \cup {n + 1}
        /\ Cardinality(Meeting(n + 1, D!Families)) = Cardinality(Meeting(n, D!Families)) + 1
    BY <1>1, <1>2, MetNext
  <1>7. \A tags : Meeting(n, tags) \subseteq 1 .. n
    BY DEF Meeting
  <1>8. \A i : TextsAt(i)' = TextsAt(i)
    BY <1>1 DEF TextsAt
  <1>9. /\ Kept(n + 1, D!Families) = Kept(n, D!Families) \cup {n + 1}
        /\ Cardinality(Kept(n + 1, D!Families)) = Cardinality(Kept(n, D!Families)) + 1
    BY <1>3, <1>6
  <1>10. \A f \in D!Families : Kept(n + 1, {f}) = IF f = D!Entry.tag THEN Kept(n, {f}) \cup {n + 1}
                                                  ELSE Kept(n, {f})
    BY <1>3, <1>5
  <1>11. \A tags : Kept(n, tags) \subseteq 1 .. n
    BY <1>3, <1>7
  <1> QED BY <1>2, <1>4, <1>8, <1>9, <1>10, <1>11

LEMMA ValueResolved ==
    ASSUME NEW n, Resolving(n), Resolved(n), D!SearchPathResolved
    PROVE  Resolved(n + 1)'
  <1>0. PICK m : m = Len(dcontext.records)
    OBVIOUS
  <1>1. /\ dindex < D!Count /\ D!Entry.tag \in D!Families /\ dcontext.complete
        /\ TextsAt(n + 1) = {Value} /\ Value \in Seq(D!Byte)
    BY ValueRead
  <1>2. /\ dtarget' = dtarget /\ dcontext'.complete = dcontext.complete
        /\ dcontext'.pool = dcontext.pool \o Value
        /\ dcontext'.paths = [dcontext.paths EXCEPT ![D!Entry.tag] = NewPath]
        /\ dcontext.paths \in [D!Families -> D!Search] /\ dcontext.pool \in Seq(D!Byte)
    BY ValueEffects DEF Resolving, Shapes, Context
  <1>3. /\ DOMAIN dcontext'.records = 1 .. m + 1 /\ DOMAIN dcontext.records = 1 .. m
        /\ Len(dcontext'.records) = m + 1 /\ m \in Nat
        /\ dcontext'.records[m + 1] = NewRecord
        /\ SubSeq(dcontext'.pool, NewRecord.pool + 1, NewRecord.pool + NewRecord.length) = Value
        /\ \A k \in 1 .. m :
                 /\ dcontext'.records[k] = dcontext.records[k]
                 /\ SubSeq(dcontext'.pool, dcontext.records[k].pool + 1,
                           dcontext.records[k].pool + dcontext.records[k].length)
                      = D!ValueOf(dcontext.records[k])
    BY <1>0, ValuesStay
  <1>4. /\ \A k \in 1 .. m + 1 : D!RecordStart(k)' = D!RecordStart(k)
        /\ D!RecordStart(m + 2)' = D!RecordStart(m + 1) + Len(Value)
    BY <1>0, StartsStay
  <1>5. /\ \A tags : Kept(n + 1, tags)' = Kept(n + 1, tags)
        /\ Kept(n + 1, D!Families) = Kept(n, D!Families) \cup {n + 1}
        /\ Cardinality(Kept(n + 1, D!Families)) = Cardinality(Kept(n, D!Families)) + 1
        /\ \A f \in D!Families : Kept(n + 1, {f}) = IF f = D!Entry.tag THEN Kept(n, {f}) \cup {n + 1}
                                                       ELSE Kept(n, {f})
        /\ \A tags : Kept(n, tags) \subseteq 1 .. n
        /\ n \in Nat /\ dindex = n /\ n + 1 \in 1 .. D!Count /\ D!Entry = dtarget.table[n + 1]
        /\ n + 1 \in D!Read(dtarget)
        /\ \A i : TextsAt(i)' = TextsAt(i)
    BY KeptNext
  <1>6. /\ Len(dcontext'.pool) = Len(dcontext.pool) + Len(Value)
        /\ Len(dcontext.pool) \in Nat /\ Len(Value) \in Nat
    BY <1>1, <1>2, PoolGrows, LenProperties
  <1>7. Len(dcontext.pool) = D!RecordStart(m + 1)
    BY <1>0 DEF Resolved, PoolTrue
  <1>8. TextsTrue(n + 1)'
    <2>1. Meeting(n + 1, {"SONAME"})' = Meeting(n, {"SONAME"})
      <3>1. D!Entry.tag \notin {"SONAME"}
        BY <1>1 DEF D!Families
      <3>2. Meeting(n + 1, {"SONAME"})' = Meeting(n + 1, {"SONAME"})
        BY <1>2, SameMet
      <3> QED BY <1>5, <3>1, <3>2, MetNext
    <2>2. \A i \in Kept(n + 1, D!Families) : TextsAt(i) # {}
      BY <1>1, <1>5 DEF Resolved, TextsTrue
    <2> QED BY <1>5, <2>1, <2>2 DEF Resolved, TextsTrue
  <1>9. RecordsTrue(n + 1)'
    <2>1. Len(dcontext'.records) = Cardinality(Kept(n + 1, D!Families)')
      BY <1>0, <1>3, <1>5 DEF Resolved, RecordsTrue
    <2>2. ASSUME NEW k \in 1 .. m
          PROVE  /\ dcontext'.records[k].index + 1 \in Kept(n + 1, D!Families)'
                 /\ dcontext'.records[k].tag = dtarget'.table[dcontext'.records[k].index + 1].tag
                 /\ dcontext'.records[k].string = dtarget'.table[dcontext'.records[k].index + 1].value
                 /\ {SubSeq(dcontext'.pool, dcontext'.records[k].pool + 1,
                            dcontext'.records[k].pool + dcontext'.records[k].length)}
                      = D!Texts(D!StringTable(dtarget'), dcontext'.records[k].string)
                 /\ dcontext'.records[k].pool = D!RecordStart(k)'
                 /\ dcontext'.records[k].pool + dcontext'.records[k].length <= Len(dcontext'.pool)
                 /\ \A j \in 1 .. k - 1 : dcontext'.records[j].index < dcontext'.records[k].index
      <3>1. k \in DOMAIN dcontext.records /\ k \in 1 .. m + 1 /\ dcontext'.records[k] = dcontext.records[k]
        BY <1>3
      <3>2. /\ dcontext.records[k].index + 1 \in Kept(n, D!Families)
            /\ dcontext.records[k].tag = dtarget.table[dcontext.records[k].index + 1].tag
            /\ dcontext.records[k].string = dtarget.table[dcontext.records[k].index + 1].value
            /\ {D!ValueOf(dcontext.records[k])} = D!Texts(D!StringTable(dtarget), dcontext.records[k].string)
            /\ dcontext.records[k].pool = D!RecordStart(k)
            /\ dcontext.records[k].pool + dcontext.records[k].length <= Len(dcontext.pool)
            /\ \A j \in 1 .. k - 1 : dcontext.records[j].index < dcontext.records[k].index
        BY <3>1 DEF Resolved, RecordsTrue
      <3>3. \A j \in 1 .. k - 1 : dcontext'.records[j] = dcontext.records[j]
        BY <1>3
      <3>4. dcontext.records[k] \in ValueRecord
        <4>1. dcontext.records \in Seq(ValueRecord)
          BY DEF Resolving, Shapes, Context
        <4> QED BY <3>1, <4>1
      <3>5. dcontext.records[k].pool + dcontext.records[k].length <= Len(dcontext'.pool)
        BY <1>6, <3>2, <3>4 DEF ValueRecord
      <3>6. {SubSeq(dcontext'.pool, dcontext'.records[k].pool + 1,
                             dcontext'.records[k].pool + dcontext'.records[k].length)}
                      = D!Texts(D!StringTable(dtarget'), dcontext'.records[k].string)
        BY <1>2, <1>3, <3>1, <3>2
      <3> QED BY <1>2, <1>4, <1>5, <3>1, <3>2, <3>3, <3>5, <3>6
    <2>3. /\ NewRecord.index + 1 \in Kept(n + 1, D!Families)'
          /\ NewRecord.tag = dtarget'.table[NewRecord.index + 1].tag
          /\ NewRecord.string = dtarget'.table[NewRecord.index + 1].value
          /\ {SubSeq(dcontext'.pool, NewRecord.pool + 1, NewRecord.pool + NewRecord.length)}
               = D!Texts(D!StringTable(dtarget'), NewRecord.string)
          /\ NewRecord.pool = D!RecordStart(m + 1)'
          /\ NewRecord.pool + NewRecord.length <= Len(dcontext'.pool)
          /\ \A j \in 1 .. m : dcontext'.records[j].index < NewRecord.index
      <3>1. NewRecord.index = n /\ NewRecord.tag = D!Entry.tag /\ NewRecord.string = D!Entry.value
            /\ NewRecord.pool = Len(dcontext.pool) /\ NewRecord.length = Len(Value)
        BY <1>5 DEF NewRecord
      <3>2. \A j \in 1 .. m : dcontext'.records[j].index < n
        <4> TAKE j \in 1 .. m
        <4>1. dcontext'.records[j] = dcontext.records[j] /\ j \in DOMAIN dcontext.records
          BY <1>3
        <4>2. dcontext.records[j].index + 1 \in 1 .. n
          BY <1>5, <4>1 DEF Resolved, RecordsTrue
        <4>3. dcontext.records[j].index \in Nat
          <5>1. dcontext.records \in Seq(ValueRecord)
            BY DEF Resolving, Shapes, Context
          <5>2. dcontext.records[j] \in ValueRecord
            BY <4>1, <5>1
          <5> QED BY <5>2 DEF ValueRecord
        <4> QED BY <1>5, <4>1, <4>2, <4>3
      <3>3. D!RecordStart(m + 1)' = Len(dcontext.pool)
        BY <1>3, <1>4, <1>7
      <3>4. D!Texts(D!StringTable(dtarget'), NewRecord.string) = {Value}
        BY <1>1, <1>2, <1>5, <3>1 DEF TextsAt
      <3>5. NewRecord.index + 1 \in Kept(n + 1, D!Families)'
        BY <1>5, <3>1
      <3>6. /\ NewRecord.tag = dtarget'.table[NewRecord.index + 1].tag
            /\ NewRecord.string = dtarget'.table[NewRecord.index + 1].value
        BY <1>2, <1>5, <3>1
      <3>7. {SubSeq(dcontext'.pool, NewRecord.pool + 1, NewRecord.pool + NewRecord.length)}
               = D!Texts(D!StringTable(dtarget'), NewRecord.string)
        BY <1>3, <3>4
      <3>8. /\ NewRecord.pool = D!RecordStart(m + 1)'
            /\ NewRecord.pool + NewRecord.length <= Len(dcontext'.pool)
        BY <1>6, <3>1, <3>3
      <3> QED BY <3>1, <3>2, <3>5, <3>6, <3>7, <3>8
    <2>4. \A k \in 1 .. m + 1 : k \in 1 .. m \/ k = m + 1
      BY <1>3
    <2>5. (m + 1) - 1 = m
      BY <1>3
    <2> QED BY <1>3, <2>1, <2>2, <2>3, <2>4, <2>5 DEF RecordsTrue, D!ValueOf
  <1>10. PoolTrue(n + 1)'
    <2>1. Len(dcontext'.pool) = D!RecordStart(m + 2)' /\ Len(dcontext'.records) + 1 = m + 2
      BY <1>3, <1>4, <1>6, <1>7
    <2>2. DOMAIN D!ValueLengths(dtarget) = 1 .. D!Count /\ D!Count \in Nat
      BY TargetTyped DEF Resolving, Shapes, D!ValueLengths
    <2>3. D!ValueLengths(dtarget)[n + 1] = Len(Value)
      <3>1. n + 1 \in D!Tagged(dtarget, D!Families)
        BY <1>1, <1>5 DEF D!Tagged
      <3>2. (CHOOSE x \in D!Texts(D!StringTable(dtarget), dtarget.table[n + 1].value) : TRUE) = Value
        BY <1>1 DEF TextsAt
      <3> QED BY <1>5, <2>2, <3>1, <3>2 DEF D!ValueLengths
    <2>4. D!Totals(D!ValueLengths(dtarget))[n + 1] = D!Totals(D!ValueLengths(dtarget))[(n + 1) - 1] + D!ValueLengths(dtarget)[n + 1]
      BY <1>5, <2>2, TotalsAre
    <2>5. (n + 1) - 1 = n
      BY <1>5
    <2>6. Len(dcontext.pool) = D!Totals(D!ValueLengths(dtarget))[n]
      BY <1>1 DEF Resolved, PoolTrue
    <2>7. Len(dcontext'.pool) = D!Totals(D!ValueLengths(dtarget))[n + 1]
      BY <1>6, <2>3, <2>4, <2>5, <2>6
    <2> QED BY <1>2, <2>1, <2>7 DEF PoolTrue
  <1>11. ASSUME NEW f \in D!Families, f # D!Entry.tag
         PROVE  /\ dcontext'.paths[f] = dcontext.paths[f] /\ Kept(n + 1, {f})' = Kept(n, {f})
    BY <1>2, <1>5, <1>11
  <1>12. SearchTrue(n + 1)'
    <2> SUFFICES ASSUME NEW f \in D!Families
                 PROVE  LET path == dcontext'.paths[f]
                        IN /\ path.values # 0 <=> Kept(n + 1, {f})' # {}
                           /\ path.values = 0 => path.conflicts = 0
                           /\ path.values # 0 =>
                                 /\ path.first \in DOMAIN dcontext'.records
                                 /\ \E i \in Kept(n + 1, {f})' : TextsAt(i) = {ValueIn(dcontext', path.first)}
                           /\ path.conflicts # 0 <=> \E i, j \in Kept(n + 1, {f})' : TextsAt(i) # TextsAt(j)
      BY <1>5 DEF SearchTrue, ValueIn, D!ValueOf
    <2> DEFINE path == dcontext.paths[f]
    <2>1. /\ path.values # 0 <=> Kept(n, {f}) # {}
          /\ path.values = 0 => path.conflicts = 0
          /\ path.values # 0 =>
                /\ path.first \in DOMAIN dcontext.records
                /\ \E i \in Kept(n, {f}) : TextsAt(i) = {ValueIn(dcontext, path.first)}
          /\ path.conflicts # 0 <=> \E i, j \in Kept(n, {f}) : TextsAt(i) # TextsAt(j)
          /\ path.values \in Nat /\ path.conflicts \in Nat
      BY <1>2 DEF Resolved, SearchTrue, D!Search, ValueIn, D!ValueOf
    <2>2. \A k \in DOMAIN dcontext.records : ValueIn(dcontext', k) = ValueIn(dcontext, k)
      BY <1>3 DEF ValueIn, D!ValueOf
    <2>3. \A k \in DOMAIN dcontext.records : k \in DOMAIN dcontext'.records
      BY <1>3
    <2>4. CASE f # D!Entry.tag
      BY <1>11, <2>1, <2>2, <2>3, <2>4
    <2>5. CASE f = D!Entry.tag
      <3>1. dcontext'.paths[f] = NewPath /\ Kept(n + 1, {f})' = Kept(n, {f}) \cup {n + 1}
        BY <1>2, <1>5, <2>5
      <3>2. path \in D!Search
        BY <1>2
      <3>3. /\ NewPath.values = path.values + 1
            /\ NewPath.first = IF path.values = 0 THEN m + 1 ELSE path.first
            /\ NewPath.conflicts = IF path.values # 0 /\ ValueIn(dcontext, path.first) # Value
                                   THEN path.conflicts + 1 ELSE path.conflicts
        BY <1>0, <2>5, <3>2 DEF NewPath, D!Search, ValueIn, D!ValueOf
      <3>4. ValueIn(dcontext', m + 1) = Value
        BY <1>3 DEF ValueIn, D!ValueOf
      <3>5. CASE path.values = 0
        <4>1. Kept(n + 1, {f})' = {n + 1}
          BY <2>1, <3>1, <3>5
        <4>0. path.conflicts = 0
          BY <2>1, <3>5
        <4> HIDE DEF path
        <4>4. NewPath.values # 0 /\ NewPath.conflicts = 0 /\ NewPath.first = m + 1
          BY <4>0, <3>3, <3>5
        <4>2. m + 1 \in DOMAIN dcontext'.records
          BY <1>3
        <4>3. TextsAt(n + 1) = {ValueIn(dcontext', m + 1)}
          BY <1>1, <3>4
        <4> QED BY <3>1, <4>1, <4>2, <4>3, <4>4
      <3>6. CASE path.values # 0
        <4>1. NewPath.values # 0 /\ NewPath.first = path.first
              /\ path.first \in DOMAIN dcontext.records
          BY <2>1, <3>3, <3>6
        <4>2. PICK i0 \in Kept(n, {f}) : TextsAt(i0) = {ValueIn(dcontext, path.first)}
          BY <2>1, <3>6
        <4>3. ValueIn(dcontext', path.first) = ValueIn(dcontext, path.first)
          BY <2>2, <4>1
        <4>4. NewPath.conflicts # 0 <=> path.conflicts # 0 \/ ValueIn(dcontext, path.first) # Value
          BY <2>1, <3>3, <3>6
        <4>5. ValueIn(dcontext, path.first) # Value <=> TextsAt(i0) # TextsAt(n + 1)
          BY <1>1, <4>2
        <4>6. NewPath.conflicts # 0 <=> \E i, j \in Kept(n, {f}) \cup {n + 1} : TextsAt(i) # TextsAt(j)
          <5> HIDE DEF path
          <5>1. ASSUME NEW i \in Kept(n, {f}) \cup {n + 1}, NEW j \in Kept(n, {f}) \cup {n + 1},
                       TextsAt(i) # TextsAt(j), path.conflicts = 0
                PROVE  TextsAt(i0) # TextsAt(n + 1)
            <6>1. \A k \in Kept(n, {f}) : TextsAt(k) = TextsAt(i0)
              BY <2>1, <5>1
            <6> QED BY <5>1, <6>1
          <5> QED BY <2>1, <4>4, <4>5, <5>1
        <4>7. \E i \in Kept(n, {f}) \cup {n + 1} : TextsAt(i) = {ValueIn(dcontext', path.first)}
          BY <4>2, <4>3
        <4>8. path.first \in DOMAIN dcontext'.records
          BY <2>3, <4>1
        <4>9. Kept(n, {f}) \cup {n + 1} # {}
          OBVIOUS
        <4> QED BY <3>1, <4>1, <4>6, <4>7, <4>8, <4>9
      <3> QED BY <3>5, <3>6
    <2> QED BY <2>4, <2>5
  <1> QED BY <1>8, <1>9, <1>10, <1>12 DEF Resolved
-----------------------------------------------------------------------------
(* What is refused is not readable.                                        *)

\* Where the first pass is.
Entering(n) ==
    /\ Shapes /\ FirstTrue(n) /\ n \in 0 .. D!Count /\ n = dindex
    /\ \A i \in 1 .. n : dtarget.table[i].tag # "NULL"

LEMMA MetIsTagged ==
    ASSUME NEW n, Entering(n), NEW tags
    PROVE  /\ Meeting(n, tags) \subseteq D!Tagged(dtarget, tags)
           /\ dindex < D!Count => Meeting(n + 1, tags) \subseteq D!Tagged(dtarget, tags)
           /\ n \in Nat /\ dindex < D!Count => D!Entry = dtarget.table[n + 1]
  <1>1. D!Count \in Nat /\ dtarget \in DynamicTargets /\ n \in 0 .. D!Count
    BY TargetTyped DEF Entering, Shapes
  <1>2. \A m \in 1 .. n : m \in D!Read(dtarget)
    BY <1>1, ReadPart DEF Entering
  <1>3. dindex < D!Count => \A m \in 1 .. n + 1 : m \in D!Read(dtarget)
    BY <1>1, ReadPart DEF Entering
  <1> QED BY <1>1, <1>2, <1>3 DEF Meeting, D!Tagged, D!Entry, Entering

LEMMA RepeatedUnreadable ==
    ASSUME NEW n, Entering(n), D!StringTableRepeated
    PROVE  ~D!Readable(dtarget)
  <1>1. dindex < D!Count /\ D!Entry.tag \in {"STRTAB", "STRSZ"} /\ D!SingletonSeen
    BY DEF D!StringTableRepeated, D!AtEntry
  <1>2. D!Entry = dtarget.table[n + 1] /\ n \in Nat /\ dtarget \in DynamicTargets
    BY <1>1, MetIsTagged DEF Entering, Shapes
  <1>3. PICK tag \in {"STRTAB", "STRSZ"} : tag = D!Entry.tag
    BY <1>1
  <1>4. PICK i \in Meeting(n, {tag}) : TRUE
    <2>1. tag = "STRTAB" => dsummary.strtab # {}
      BY <1>1, <1>3 DEF D!SingletonSeen
    <2>2. tag = "STRSZ" => dsummary.strsz # {}
      BY <1>1, <1>3 DEF D!SingletonSeen
    <2>3. Meeting(n, {tag}) # {}
      BY <1>3, <2>1, <2>2 DEF Entering, FirstTrue, StringTableTrue
    <2> QED BY <2>3
  <1>5. i \in D!Tagged(dtarget, {tag}) /\ n + 1 \in D!Tagged(dtarget, {tag}) /\ i # n + 1
    <2>1. n + 1 \in Meeting(n + 1, {tag})
      BY <1>2, <1>3, MetNext
    <2>2. i \in 1 .. n
      BY DEF Meeting
    <2> QED BY <1>1, <1>2, <2>1, <2>2, MetIsTagged
  <1>6. Cardinality(D!Tagged(dtarget, {tag})) > 1 /\ Cardinality(D!Tagged(dtarget, {tag})) \in Nat
    BY <1>2, <1>5, MoreThanOne, TaggedFinite
  <1>7. ~(Cardinality(D!Tagged(dtarget, {tag})) <= 1)
    BY <1>6
  <1>8. ~\A t \in {"STRTAB", "STRSZ"} : Cardinality(D!Tagged(dtarget, {t})) <= 1
    BY <1>3, <1>7
  <1> QED BY <1>8, SameCardinality DEF D!Readable

LEMMA CarriersUnreadable ==
    ASSUME NEW n, Entering(n), D!CarrierRefused
    PROVE  ~D!Readable(dtarget)
  <1>1. dindex < D!Count /\ D!Entry.tag \in D!CarrierTags /\ Len(dcontext.carriers) >= DynamicCarrierMax
    BY DEF D!CarrierRefused, D!AtEntry, D!CarrierTableFull
  <1>2. D!Entry = dtarget.table[n + 1] /\ n \in Nat /\ dtarget \in DynamicTargets
        /\ Meeting(n + 1, D!CarrierTags) \subseteq D!Tagged(dtarget, D!CarrierTags)
    BY <1>1, MetIsTagged DEF Entering, Shapes
  <1>3. /\ Cardinality(Meeting(n + 1, D!CarrierTags)) = Cardinality(Meeting(n, D!CarrierTags)) + 1
        /\ Cardinality(Meeting(n, D!CarrierTags)) = Len(dcontext.carriers)
    BY <1>1, <1>2, MetNext DEF Entering, FirstTrue, CarriersTrue
  <1>4. /\ IsFiniteSet(D!Tagged(dtarget, D!CarrierTags)) /\ Cardinality(D!Tagged(dtarget, D!CarrierTags)) \in Nat
    BY <1>2, TaggedFinite
  <1>5. Cardinality(Meeting(n + 1, D!CarrierTags)) <= Cardinality(D!Tagged(dtarget, D!CarrierTags))
    BY <1>2, <1>4, FS_Subset
  <1>6. Cardinality(Meeting(n, D!CarrierTags)) \in Nat
    BY <1>2, MetFinite
  <1>7. ~(Cardinality(D!Tagged(dtarget, D!CarrierTags)) <= DynamicCarrierMax)
    BY <1>1, <1>3, <1>4, <1>5, <1>6, LimitsTypedD
  <1> QED BY <1>7, SameCardinality DEF D!Readable, D!CarrierTags

\* The first pass is over.
Passed ==
    /\ Shapes /\ dsummary.entryCount \in 0 .. D!Count /\ FirstTrue(dsummary.entryCount)
    /\ D!Read(dtarget) = 1 .. dsummary.entryCount

LEMMA MissingUnreadable ==
    ASSUME Passed, D!StringsMissing
    PROVE  ~D!Readable(dtarget)
  <1> DEFINE n == dsummary.entryCount
  <1>1. ~D!TableNamed /\ D!NeedsStrings
    BY DEF D!StringsMissing
  <1>2. ~D!StringTableNamed(dtarget)
    BY <1>1, TableIs DEF Passed, FirstTrue
  <1>3. Meeting(n, {"SONAME"}) # {} \/ \E f \in D!Families : Meeting(n, {f}) # {}
    <2>1. CASE dsummary.sonameCount # 0
      BY <2>1, FS_EmptySet DEF Passed, FirstTrue, SonameTrue
    <2>2. CASE \E f \in D!Families : dcontext.paths[f].carriers # 0
      BY <2>2 DEF Passed, FirstTrue, PathsTrue
    <2> QED BY <1>1, <2>1, <2>2 DEF D!NeedsStrings
  <1>4. D!NeededStrings(dtarget) = Meeting(n, {"SONAME"} \cup D!Families)
    BY TaggedIsMet DEF D!NeededStrings, Passed
  <1>5. D!NeededStrings(dtarget) # {}
    BY <1>3, <1>4 DEF Meeting
  <1> QED BY <1>2, <1>5 DEF D!Readable

LEMMA UnmappedUnreadable ==
    ASSUME Passed, D!StringsTooLong \/ D!StringsUnmapped
    PROVE  ~D!Readable(dtarget)
  <1>1. D!TableNamed
    BY DEF D!StringsTooLong, D!StringsUnmapped
  <1>2. D!StringTableNamed(dtarget) /\ D!Strsz \in D!Values(dtarget, "STRSZ") /\ D!Strsz \in Nat
    BY <1>1, TableIs DEF Passed, FirstTrue
  <1>3. CASE D!StringsTooLong
    <2>1. D!Strsz > DynamicStringMax
      BY <1>3 DEF D!StringsTooLong
    <2>2. ~(D!Strsz <= DynamicStringMax)
      BY <1>2, <2>1, LimitsTypedD
    <2> QED BY <1>2, <2>2 DEF D!Readable, D!StringsReadable
  <1>4. CASE D!StringsUnmapped
    <2>1. D!StringTables(dtarget) = {}
      BY <1>1, <1>4, TableFound DEF Passed, FirstTrue, D!StringsUnmapped
    <2> QED BY <1>2, <2>1 DEF D!Readable, D!StringsReadable
  <1> QED BY <1>3, <1>4

LEMMA SonameText ==
    ASSUME NEW n, Resolving(n), D!AtString({"SONAME"})
    PROVE  D!SonameValid <=> \E text \in TextsAt(n + 1) : text # <<>>
  <1>1. dindex < D!Count /\ D!Entry.tag = "SONAME"
    BY DEF D!AtString
  <1>2. D!Entry.value \in Nat /\ D!Entry = dtarget.table[n + 1]
    BY <1>1, EntryAt, ResolvingAt DEF Resolving, Shapes, D!ValueTags
  <1>3. Shapes /\ Found /\ D!Strsz \in Nat
    BY DEF Resolving, Found
  <1> DEFINE texts == D!Texts(D!StringTable(dtarget), D!Entry.value)
  <1>4. /\ D!Entry.value >= D!Strsz => texts = {}
        /\ D!Entry.value < D!Strsz /\ D!Terminators(D!Entry.value) = {} => texts = {}
        /\ D!Entry.value < D!Strsz /\ D!Terminators(D!Entry.value) # {} =>
              /\ texts = {D!Bytes(D!Entry.value)}
              /\ D!Bytes(D!Entry.value) # <<>> <=> D!StringByte(D!Entry.value) # D!NUL
    BY <1>2, <1>3, TextIs
  <1>5. TextsAt(n + 1) = texts
    BY <1>2 DEF TextsAt
  <1> HIDE DEF texts
  <1> QED BY <1>2, <1>3, <1>4, <1>5 DEF D!SonameValid

LEMMA SonameUnreadable ==
    ASSUME NEW n, Resolving(n), D!SonameRefused
    PROVE  ~D!Readable(dtarget)
  <1>1. D!AtString({"SONAME"}) /\ ~D!SonameValid /\ dindex < D!Count /\ D!Entry.tag = "SONAME"
    BY DEF D!SonameRefused, D!AtString
  <1>2. D!Entry = dtarget.table[n + 1] /\ n + 1 \in D!Read(dtarget)
    BY <1>1, ResolvingAt
  <1>3. D!Entry.value \in D!Values(dtarget, "SONAME")
    BY <1>1, <1>2 DEF D!Values, D!Tagged
  <1>4. ~\E text \in D!Texts(D!StringTable(dtarget), D!Entry.value) : text # <<>>
    BY <1>1, <1>2, SonameText DEF TextsAt
  <1>5. D!StringTableNamed(dtarget)
    BY TableIs DEF Resolving, Found, FirstTrue
  <1> QED BY <1>3, <1>4, <1>5 DEF D!Readable, D!StringsReadable

\* The lengths of the values are numbers when all of them can be read.
LEMMA LengthsTyped ==
    ASSUME Shapes, Found, \A i \in D!Tagged(dtarget, D!Families) : TextsAt(i) # {}
    PROVE  /\ DOMAIN D!ValueLengths(dtarget) = 1 .. D!Count /\ D!Count \in Nat
           /\ \A i \in 1 .. D!Count : D!ValueLengths(dtarget)[i] \in Nat
           /\ \A i \in D!Tagged(dtarget, D!Families) : \E text \in Seq(D!Byte) :
                 TextsAt(i) = {text} /\ D!ValueLengths(dtarget)[i] = Len(text)
  <1>1. DOMAIN dtarget.table = 1 .. D!Count /\ D!Count \in Nat
    BY TargetTyped DEF Shapes
  <1>2. DOMAIN D!ValueLengths(dtarget) = 1 .. D!Count
    BY <1>1 DEF D!ValueLengths
  <1>3. ASSUME NEW i \in D!Tagged(dtarget, D!Families)
        PROVE  \E text \in Seq(D!Byte) : TextsAt(i) = {text} /\ D!ValueLengths(dtarget)[i] = Len(text)
    <2>1. i \in 1 .. D!Count /\ dtarget.table[i].tag \in D!Families
      BY <1>1 DEF D!Tagged, D!Read
    <2>2. dtarget.table[i].value \in Nat
      BY <2>1, EntryTyped DEF Shapes, D!ValueTags
    <2>3. D!Strsz \in Nat
      BY DEF Found
    <2>4. TextsAt(i) = {D!Bytes(dtarget.table[i].value)} /\ D!Bytes(dtarget.table[i].value) \in Seq(D!Byte)
      BY <2>2, <2>3, TextIs DEF TextsAt
    <2>5. (CHOOSE x \in D!Texts(D!StringTable(dtarget), dtarget.table[i].value) : TRUE)
            = D!Bytes(dtarget.table[i].value)
      BY <2>4 DEF TextsAt
    <2>6. D!ValueLengths(dtarget)[i] = Len(D!Bytes(dtarget.table[i].value))
      BY <1>1, <2>1, <2>5 DEF D!ValueLengths
    <2> QED BY <2>4, <2>6
  <1>4. ASSUME NEW i \in 1 .. D!Count PROVE D!ValueLengths(dtarget)[i] \in Nat
    <2>1. CASE i \in D!Tagged(dtarget, D!Families)
      <3>1. PICK text \in Seq(D!Byte) : D!ValueLengths(dtarget)[i] = Len(text)
        BY <1>3, <2>1
      <3> QED BY <3>1, LenProperties
    <2>2. CASE i \notin D!Tagged(dtarget, D!Families)
      BY <1>1, <2>2 DEF D!ValueLengths
    <2> QED BY <2>1, <2>2
  <1> QED BY <1>1, <1>2, <1>3, <1>4

LEMMA OwnCarrierMet ==
    ASSUME NEW n, Resolving(n), dindex < D!Count, D!Entry.tag \in D!Families
    PROVE  D!OwnCarriers # {}
  <1>1. n + 1 \in 1 .. dsummary.entryCount /\ D!Entry = dtarget.table[n + 1] /\ n \in Nat /\ dindex = n
    BY ResolvingAt DEF Resolving
  <1>2. n + 1 \in Meeting(dsummary.entryCount, D!CarrierTags)
    BY <1>1 DEF Meeting, D!CarrierTags
  <1>3. PICK k \in DOMAIN dcontext.carriers :
           dcontext.carriers[k] = [tag |-> dtarget.table[n + 1].tag, index |-> (n + 1) - 1]
    BY <1>2 DEF Resolving, FirstTrue, CarriersTrue
  <1>4. (n + 1) - 1 = dindex
    BY <1>1
  <1> QED BY <1>1, <1>3, <1>4 DEF D!OwnCarriers

LEMMA SearchPathUnreadable ==
    ASSUME NEW n, Resolving(n), Resolved(n), dcontext.complete = D!Terminated(dtarget), D!SearchPathRefused
    PROVE  ~D!Readable(dtarget)
  <1>1. dindex < D!Count /\ D!Entry.tag \in D!Families /\ dcontext.complete /\ D!SearchPathStatus # D!EXIT_OK
    BY DEF D!SearchPathRefused, D!AtString
  <1>2. /\ D!Entry = dtarget.table[n + 1] /\ n + 1 \in D!Read(dtarget) /\ n \in Nat /\ dindex = n
        /\ n + 1 \in 1 .. D!Count /\ n + 1 \in 1 .. dsummary.entryCount
    BY <1>1, ResolvingAt DEF Resolving
  <1>3. D!Entry.value \in Nat /\ D!Strsz \in Nat /\ Len(dcontext.pool) \in Nat
        /\ Len(dcontext.records) \in Nat /\ Shapes /\ Found
    BY <1>1, EntryAt DEF Resolving, Shapes, D!ValueTags, Found, Context
  <1>4. D!Terminated(dtarget) /\ D!StringTableNamed(dtarget) /\ n + 1 \in D!Tagged(dtarget, D!Families)
    <2>1. D!StringTableNamed(dtarget)
      BY TableIs DEF Resolving, Found, FirstTrue
    <2> QED BY <1>1, <1>2, <2>1 DEF D!Tagged
  <1> SUFFICES ASSUME D!StringsReadable(dtarget) PROVE FALSE
    BY <1>4 DEF D!Readable
  <1>5. /\ \A f \in D!Families : \A o \in D!Values(dtarget, f) : D!Texts(D!StringTable(dtarget), o) # {}
        /\ Cardinality(D!Tagged(dtarget, D!Families)) <= SearchRecords
        /\ D!ValueBytes(dtarget) <= SearchBytes
    BY <1>4, SameCardinality DEF D!StringsReadable
  <1>6. \A i \in D!Tagged(dtarget, D!Families) : TextsAt(i) # {}
    <2> TAKE i \in D!Tagged(dtarget, D!Families)
    <2>1. dtarget.table[i].tag \in D!Families /\ i \in D!Tagged(dtarget, {dtarget.table[i].tag})
      BY DEF D!Tagged
    <2>2. dtarget.table[i].value \in D!Values(dtarget, dtarget.table[i].tag)
      BY <2>1 DEF D!Values
    <2> QED BY <1>5, <2>1, <2>2 DEF TextsAt
  <1>7. /\ D!Entry.value < D!Strsz /\ D!Terminators(D!Entry.value) # {}
        /\ TextsAt(n + 1) = {D!Bytes(D!Entry.value)} /\ Len(D!Bytes(D!Entry.value)) = D!Length(D!Entry.value)
        /\ D!Length(D!Entry.value) \in D!Terminators(D!Entry.value) /\ D!Length(D!Entry.value) \in Nat
    BY <1>2, <1>3, <1>4, <1>6, TextIs DEF TextsAt
  <1>8. D!OwnCarriers # {}
    BY <1>1, OwnCarrierMet
  <1>9. ~(Len(dcontext.records) >= SearchRecords)
    <2>1. Len(dcontext.records) = Cardinality(Meeting(n, D!Families))
      BY <1>1 DEF Resolved, RecordsTrue, Kept
    <2>2. Meeting(n + 1, D!Families) \subseteq D!Tagged(dtarget, D!Families)
      <3>1. \A i \in 1 .. n + 1 : i \in D!Read(dtarget)
        BY <1>2 DEF Resolving
      <3> QED BY <3>1 DEF Meeting, D!Tagged
    <2>3. Cardinality(Meeting(n + 1, D!Families)) = Cardinality(Meeting(n, D!Families)) + 1
      BY <1>1, <1>2, MetNext
    <2>4. IsFiniteSet(D!Tagged(dtarget, D!Families)) /\ Cardinality(D!Tagged(dtarget, D!Families)) \in Nat
      BY <1>3, TaggedFinite DEF Shapes
    <2>5. Cardinality(Meeting(n + 1, D!Families)) <= Cardinality(D!Tagged(dtarget, D!Families))
      BY <2>2, <2>4, FS_Subset
    <2> QED BY <1>3, <1>5, <2>1, <2>3, <2>4, <2>5, LimitsTypedD
  <1>10. D!Length(D!Entry.value) <= D!Remaining
    <2>1. /\ DOMAIN D!ValueLengths(dtarget) = 1 .. D!Count /\ D!Count \in Nat
          /\ \A i \in 1 .. D!Count : D!ValueLengths(dtarget)[i] \in Nat
          /\ \E text \in Seq(D!Byte) : TextsAt(n + 1) = {text} /\ D!ValueLengths(dtarget)[n + 1] = Len(text)
      BY <1>3, <1>4, <1>6, LengthsTyped
    <2>2. D!ValueLengths(dtarget)[n + 1] = D!Length(D!Entry.value)
      BY <1>7, <2>1
    <2>3. /\ D!Totals(D!ValueLengths(dtarget))[n + 1]
               = D!Totals(D!ValueLengths(dtarget))[(n + 1) - 1] + D!ValueLengths(dtarget)[n + 1]
      BY <1>2, <2>1, TotalsAre
    <2>4. (n + 1) - 1 = n /\ n + 1 \in 0 .. D!Count
      BY <1>2
    <2>5. D!Totals(D!ValueLengths(dtarget))[n] = Len(dcontext.pool)
      BY <1>1 DEF Resolved, PoolTrue
    <2>6. D!Totals(D!ValueLengths(dtarget))[n + 1] <= D!Totals(D!ValueLengths(dtarget))[D!Count]
          /\ D!Totals(D!ValueLengths(dtarget))[D!Count] \in Nat /\ D!Totals(D!ValueLengths(dtarget))[n + 1] \in Nat
      BY <2>1, <2>4, TotalsGrow
    <2>7. D!ValueBytes(dtarget) = D!Totals(D!ValueLengths(dtarget))[D!Count]
      BY DEF D!ValueBytes, D!Count
    <2>8. Len(dcontext.pool) + D!Length(D!Entry.value) <= SearchBytes
      BY <1>3, <1>5, <1>7, <2>2, <2>3, <2>4, <2>5, <2>6, <2>7, LimitsTypedD
    <2> QED BY <1>3, <1>7, <2>8, LimitsTypedD DEF D!Remaining
  <1>11. D!SearchPathStatus = D!EXIT_OK
    <2>1. ~(D!Entry.value >= D!Strsz)
      BY <1>3, <1>7
    <2> QED BY <1>7, <1>8, <1>9, <1>10, <2>1 DEF D!SearchPathStatus
  <1> QED BY <1>1, <1>11
-----------------------------------------------------------------------------
(* What is concluded from the entries is the evidence of the table.        *)

\* Elements without a length add nothing.
LEMMA TotalsRest ==
    ASSUME NEW n \in Nat, NEW lengths, DOMAIN lengths = 1 .. n, NEW m \in 0 .. n,
           D!Totals(lengths)[m] \in Nat, \A i \in m + 1 .. n : lengths[i] = 0
    PROVE  D!Totals(lengths)[n] = D!Totals(lengths)[m]
  <1> DEFINE total == D!Totals(lengths)
             S == {k \in Nat : m + k <= n => total[m + k] = total[m]}
  <1>1. \A i \in 1 .. n : total[i] = total[i - 1] + lengths[i]
    BY TotalsAre
  <1>2. total[m] \in Nat
    OBVIOUS
  <1> HIDE DEF total
  <1>3. 0 \in S
    BY <1>2
  <1>4. ASSUME NEW k \in S, m + (k + 1) <= n PROVE total[m + (k + 1)] = total[m]
    <2>1. /\ m + (k + 1) \in 1 .. n /\ (m + (k + 1)) - 1 = m + k /\ m + (k + 1) \in m + 1 .. n
          /\ m + k <= n
      BY <1>4
    <2> QED BY <1>1, <1>2, <1>4, <2>1
  <1>5. S = Nat
    <2>1. \A k \in S : k + 1 \in S
      BY <1>4
    <2>2. S \in SUBSET Nat
      OBVIOUS
    <2> HIDE DEF S
    <2> QED BY <1>3, <2>1, <2>2, SetInduction
  <1>6. \A k \in Nat : m + k <= n => total[m + k] = total[m]
    BY <1>5
  <1>7. n - m \in Nat /\ m + (n - m) = n
    OBVIOUS
  <1> QED BY <1>6, <1>7 DEF total

\* Nothing was resolved yet.
Untouched ==
    /\ dcontext.records = <<>> /\ dcontext.pool = <<>>
    /\ \A f \in D!Families : dcontext.paths[f].values = 0 /\ dcontext.paths[f].conflicts = 0

LEMMA NothingToResolve ==
    ASSUME Shapes, Untouched, NEW n \in 0 .. D!Count,
           Meeting(n, {"SONAME"}) = {}, Meeting(n, D!Families) = {}
    PROVE  Resolved(n)
  <1>1. D!Count \in Nat /\ DOMAIN D!ValueLengths(dtarget) = 1 .. D!Count
    BY TargetTyped DEF Shapes, D!ValueLengths
  <1>2. Kept(n, D!Families) = {} /\ \A f \in D!Families : Kept(n, {f}) = {}
    <2>1. \A f \in D!Families : Meeting(n, {f}) = {}
      BY DEF Meeting
    <2> QED BY <2>1 DEF Kept
  <1>3. TextsTrue(n)
    BY <1>2 DEF TextsTrue
  <1>4. RecordsTrue(n)
    <2>1. Len(dcontext.records) = 0 /\ DOMAIN dcontext.records = {}
      BY DEF Untouched
    <2>2. Cardinality(Kept(n, D!Families)) = 0
      BY <1>2, FS_EmptySet
    <2> QED BY <2>1, <2>2 DEF RecordsTrue
  <1>5. SearchTrue(n)
    BY <1>2 DEF SearchTrue, Untouched
  <1>6. D!RecordStart(Len(dcontext.records) + 1) = 0 /\ Len(dcontext.pool) = 0
    <2> DEFINE lengths == [j \in DOMAIN dcontext.records |-> dcontext.records[j].length]
    <2>1. DOMAIN lengths = 1 .. 0 /\ Len(dcontext.records) = 0 /\ Len(dcontext.pool) = 0
      BY DEF Untouched
    <2>2. D!RecordStart(Len(dcontext.records) + 1) = D!Totals(lengths)[(Len(dcontext.records) + 1) - 1]
      BY DEF D!RecordStart
    <2> HIDE DEF lengths
    <2>3. D!Totals(lengths)[0] = 0
      BY <2>1, TotalsAre
    <2> QED BY <2>1, <2>2, <2>3
  <1>7. D!Totals(D!ValueLengths(dtarget))[n] = 0
    <2> DEFINE lengths == D!ValueLengths(dtarget)
    <2>1. \A i \in 1 .. n : lengths[i] = 0
      <3> TAKE i \in 1 .. n
      <3>1. i \in DOMAIN dtarget.table /\ dtarget.table[i].tag \notin D!Families
        BY <1>1, TargetTyped DEF Meeting, Shapes
      <3> QED BY <3>1 DEF D!ValueLengths, D!Tagged
    <2>2. D!Totals(lengths)[0] = 0 /\ DOMAIN lengths = 1 .. D!Count
      BY <1>1, TotalsAre
    <2> DEFINE first == [i \in 1 .. n |-> lengths[i]]
    <2>3. DOMAIN first = 1 .. n /\ (\A i \in 1 .. n : first[i] = lengths[i]) /\ \A i \in 0 + 1 .. n : first[i] = 0
      BY <2>1
    <2> HIDE DEF lengths, first
    <2>4. n \in Nat /\ n <= D!Count /\ 0 \in 0 .. n /\ n \in 0 .. n
      BY <1>1
    <2>5. \A i \in 0 .. n : D!Totals(first)[i] = D!Totals(lengths)[i]
      BY <1>1, <2>2, <2>3, <2>4, TotalsAgree
    <2>6. D!Totals(first)[0] = 0
      BY <2>2, <2>4, <2>5
    <2>7. D!Totals(first)[n] = D!Totals(first)[0]
      BY <2>3, <2>4, <2>6, TotalsRest
    <2> QED BY <2>4, <2>5, <2>6, <2>7 DEF lengths
  <1>8. PoolTrue(n)
    BY <1>6, <1>7 DEF PoolTrue
  <1> QED BY <1>3, <1>4, <1>5, <1>8 DEF Resolved

\* What is not written stays resolved.
LEMMA ResolvedSame ==
    ASSUME NEW n, Resolved(n), dtarget' = dtarget, dcontext'.records = dcontext.records,
           dcontext'.pool = dcontext.pool, dcontext'.paths = dcontext.paths,
           dcontext'.complete = dcontext.complete
    PROVE  Resolved(n)'
  <1>1. TextsTrue(n)' /\ SearchTrue(n)'
    BY DEF Resolved, TextsTrue, SearchTrue, TextsAt, Kept, Meeting, D!ValueOf
  <1>2. RecordsTrue(n)' /\ PoolTrue(n)'
    BY DEF Resolved, RecordsTrue, PoolTrue, Kept, Meeting, D!ValueOf, D!RecordStart
  <1> QED BY <1>1, <1>2 DEF Resolved

Admitted == dtarget.tail = 0 /\ D!Count <= DynamicEntryMax

Bounded ==
    /\ Len(dcontext.carriers) <= DynamicCarrierMax
    /\ Len(dcontext.records) <= SearchRecords
    /\ Len(dcontext.pool) <= SearchBytes

\* Every string that is needed was read.
Settled ==
    /\ IF D!TableNamed THEN Found ELSE ~D!NeedsStrings
    /\ Resolved(dsummary.entryCount)

LEMMA SettledReadable ==
    ASSUME Admitted, Bounded, Passed, Settled, dcontext.complete = D!Terminated(dtarget)
    PROVE  D!Readable(dtarget)
  <1> DEFINE n == dsummary.entryCount
  <1>1. /\ dtarget \in DynamicTargets /\ Shapes /\ n \in Nat /\ n \in 0 .. D!Count /\ D!Count \in Nat
    BY TargetTyped DEF Passed, Shapes
  <1>2. \A tags : D!Tagged(dtarget, tags) = Meeting(n, tags)
    BY TaggedIsMet DEF Passed
  <1> HIDE DEF n
  <1>3. \A tag \in {"STRTAB", "STRSZ"} : Cardinality(D!Tagged(dtarget, {tag})) <= 1
    <2> TAKE tag \in {"STRTAB", "STRSZ"}
    <2>1. \A i, j \in D!Tagged(dtarget, {tag}) : i = j
      BY <1>2 DEF Passed, FirstTrue, StringTableTrue, n
    <2>2. IsFiniteSet(D!Tagged(dtarget, {tag})) /\ Cardinality(D!Tagged(dtarget, {tag})) \in Nat
      BY <1>1, TaggedFinite
    <2>3. ~(Cardinality(D!Tagged(dtarget, {tag})) > 1)
      BY <2>1, <2>2, MoreThanOne
    <2> QED BY <2>2, <2>3
  <1>4. Cardinality(D!Tagged(dtarget, D!CarrierTags)) <= DynamicCarrierMax
    BY <1>2 DEF Passed, FirstTrue, CarriersTrue, Bounded, n
  <1>5. D!TableNamed <=> D!StringTableNamed(dtarget)
    BY TableIs DEF Passed, FirstTrue
  <1>6. CASE ~D!TableNamed
    <2>1. ~D!NeedsStrings
      BY <1>6 DEF Settled
    <2>2. Meeting(n, {"SONAME"}) = {}
      <3>1. Cardinality(Meeting(n, {"SONAME"})) = 0
        BY <2>1 DEF D!NeedsStrings, Passed, FirstTrue, SonameTrue, n
      <3> QED BY <1>1, <3>1, MetFinite, FS_EmptySet
    <2>3. \A f \in D!Families : Meeting(n, {f}) = {}
      BY <2>1 DEF D!NeedsStrings, Passed, FirstTrue, PathsTrue, n
    <2>4. D!NeededStrings(dtarget) = {}
      BY <1>2, <2>2, <2>3 DEF D!NeededStrings, Meeting
    <2> QED BY <1>3, <1>4, <1>5, <1>6, <2>4, SameCardinality DEF D!Readable, Admitted, D!CarrierTags,
       D!Count
  <1>7. CASE D!TableNamed
    <2>1. Found /\ Resolved(n)
      BY <1>7 DEF Settled, n
    <2>2. \A size \in D!Values(dtarget, "STRSZ") : size <= DynamicStringMax
      <3>1. D!Values(dtarget, "STRSZ") = {D!Strsz}
        BY <1>7, TableIs DEF Passed, FirstTrue
      <3> QED BY <2>1, <3>1 DEF Found
    <2>3. D!StringTables(dtarget) # {}
      BY <2>1 DEF Found
    <2>4. \A o \in D!Values(dtarget, "SONAME") : \E text \in D!Texts(D!StringTable(dtarget), o) : text # <<>>
      BY <1>2, <2>1 DEF D!Values, Resolved, TextsTrue, TextsAt
    <2>5. ASSUME D!Terminated(dtarget)
          PROVE  /\ \A f \in D!Families : \A o \in D!Values(dtarget, f) : D!Texts(D!StringTable(dtarget), o) # {}
                 /\ Cardinality(D!Tagged(dtarget, D!Families)) <= SearchRecords
                 /\ D!ValueBytes(dtarget) <= SearchBytes
      <3>1. \A tags : Kept(n, tags) = D!Tagged(dtarget, tags)
        BY <1>2, <2>5 DEF Kept
      <3>2. \A i \in D!Tagged(dtarget, D!Families) : TextsAt(i) # {}
        BY <2>1, <3>1 DEF Resolved, TextsTrue
      <3>3. \A f \in D!Families : \A o \in D!Values(dtarget, f) : D!Texts(D!StringTable(dtarget), o) # {}
        <4> TAKE f \in D!Families
        <4> TAKE o \in D!Values(dtarget, f)
        <4>1. PICK i \in D!Tagged(dtarget, {f}) : o = dtarget.table[i].value
          BY DEF D!Values
        <4>2. i \in D!Tagged(dtarget, D!Families)
          BY DEF D!Tagged
        <4> QED BY <3>2, <4>1, <4>2 DEF TextsAt
      <3>4. Cardinality(D!Tagged(dtarget, D!Families)) <= SearchRecords
        BY <2>1, <3>1 DEF Resolved, RecordsTrue, Bounded
      <3>5. D!ValueBytes(dtarget) <= SearchBytes
        <4> DEFINE lengths == D!ValueLengths(dtarget)
        <4>1. DOMAIN lengths = 1 .. D!Count
          BY TargetTyped DEF Shapes, D!ValueLengths, Passed
        <4>2. \A i \in n + 1 .. D!Count : lengths[i] = 0
          <5> TAKE i \in n + 1 .. D!Count
          <5>1. i \notin D!Tagged(dtarget, D!Families) /\ i \in DOMAIN dtarget.table
            BY <1>1, <1>2, <4>1 DEF Meeting, D!ValueLengths
          <5> QED BY <5>1 DEF D!ValueLengths
        <4> HIDE DEF lengths
        <4>3. D!Totals(lengths)[n] = Len(dcontext.pool) /\ Len(dcontext.pool) \in Nat
          BY <2>1, <2>5 DEF Resolved, PoolTrue, Passed, Shapes, Context, lengths
        <4>4. D!Totals(lengths)[D!Count] = D!Totals(lengths)[n]
          BY <1>1, <4>1, <4>2, <4>3, TotalsRest
        <4>5. D!ValueBytes(dtarget) = D!Totals(lengths)[D!Count]
          BY DEF D!ValueBytes, lengths, D!Count
        <4> QED BY <4>3, <4>4, <4>5 DEF Bounded
      <3> QED BY <3>3, <3>4, <3>5
    <2>6. D!StringsReadable(dtarget)
      BY <2>2, <2>3, <2>4, <2>5, SameCardinality DEF D!StringsReadable
    <2> QED BY <1>3, <1>4, <1>5, <1>7, <2>6, SameCardinality DEF D!Readable, Admitted, D!CarrierTags,
       D!Count
  <1> QED BY <1>6, <1>7

\* The values of a function on a finite set.
LEMMA ImageFinite ==
    ASSUME NEW S, IsFiniteSet(S), NEW f, f = [x \in S |-> f[x]]
    PROVE  IsFiniteSet({f[x] : x \in S})
  <1>1. f \in Surjection(S, {f[x] : x \in S})
    BY DEF Surjection
  <1> QED BY <1>1, FS_Surjection

LEMMA NullIsTerminator ==
    ASSUME Passed
    PROVE  (dtarget.dynamic /\ dsummary.nullSeen) = D!Terminated(dtarget)
  <1>1. dsummary.nullSeen <=> D!Terminated(dtarget)
    BY TaggedIsMet DEF Passed, FirstTrue, NullTrue, D!Terminated
  <1>2. D!Terminated(dtarget) => dtarget.dynamic
    <2>1. dtarget.dynamic \in BOOLEAN /\ (~dtarget.dynamic => dtarget.table = <<>>)
      BY TargetTyped DEF Passed, Shapes
    <2>2. dtarget.table = <<>> => D!Tagged(dtarget, {"NULL"}) = {}
      BY DEF D!Tagged, D!Read
    <2> QED BY <2>1, <2>2 DEF D!Terminated
  <1>3. dsummary.nullSeen \in BOOLEAN /\ D!Terminated(dtarget) \in BOOLEAN
    BY DEF Passed, Shapes, Summary, D!Terminated
  <1> QED BY <1>1, <1>2, <1>3

LEMMA TextrelConflictIs ==
    ASSUME Passed
    PROVE  /\ D!TextrelConflict <=> Cardinality(D!TextrelBits(dtarget)) > 1
           /\ D!TextrelConflict <=> D!TextrelBits(dtarget) = BOOLEAN
           /\ "TEXTREL" \in dcontext.flagsOr <=> TRUE \in D!TextrelBits(dtarget)
  <1> DEFINE n == dsummary.entryCount
             flags == Meeting(n, {"FLAGS"})
             says(i) == "TEXTREL" \in dtarget.table[i].bits
  <1>1. D!TextrelBits(dtarget) = {says(i) : i \in flags}
    BY TaggedIsMet DEF Passed, D!TextrelBits
  <1>2. "TEXTREL" \in dcontext.flagsOr <=> \E i \in flags : says(i)
    BY DEF Passed, FirstTrue, FlagsTrue
  <1>3. "TEXTREL" \in dcontext.flagsAnd <=> flags # {} /\ \A i \in flags : says(i)
    BY DEF Passed, FirstTrue, FlagsTrue
  <1>4. \A i : says(i) \in BOOLEAN
    OBVIOUS
  <1> HIDE DEF flags, says
  <1>5. TRUE \in D!TextrelBits(dtarget) <=> \E i \in flags : says(i)
    BY <1>1, <1>4
  <1>6. FALSE \in D!TextrelBits(dtarget) <=> \E i \in flags : ~says(i)
    BY <1>1, <1>4
  <1>7. D!TextrelBits(dtarget) \subseteq BOOLEAN
    BY <1>1, <1>4
  <1>8. D!TextrelConflict <=> TRUE \in D!TextrelBits(dtarget) /\ FALSE \in D!TextrelBits(dtarget)
    <2>1. "TEXTREL" \in dcontext.flagsOr <=> TRUE \in D!TextrelBits(dtarget)
      BY <1>2, <1>5
    <2>2. "TEXTREL" \in dcontext.flagsAnd
            <=> TRUE \in D!TextrelBits(dtarget) /\ ~(FALSE \in D!TextrelBits(dtarget))
      BY <1>3, <1>5, <1>6
    <2>3. D!TextrelConflict <=> ~("TEXTREL" \in dcontext.flagsOr <=> "TEXTREL" \in dcontext.flagsAnd)
      BY DEF D!TextrelConflict
    <2> QED BY <2>1, <2>2, <2>3
  <1>9. IsFiniteSet(D!TextrelBits(dtarget))
    <2>1. IsFiniteSet({TRUE, FALSE})
      <3>1. IsFiniteSet({TRUE}) /\ {TRUE} \cup {FALSE} = {TRUE, FALSE}
        BY FS_Singleton
      <3>2. IsFiniteSet({TRUE} \cup {FALSE})
        BY <3>1, FS_AddElement
      <3> QED BY <3>1, <3>2
    <2>2. D!TextrelBits(dtarget) \subseteq {TRUE, FALSE}
      BY <1>7
    <2> QED BY <2>1, <2>2, FS_Subset
  <1>10. Cardinality(D!TextrelBits(dtarget)) > 1 <=> \E a, b \in D!TextrelBits(dtarget) : a # b
    BY <1>9, MoreThanOne
  <1>11. Cardinality(D!TextrelBits(dtarget)) > 1
           <=> TRUE \in D!TextrelBits(dtarget) /\ FALSE \in D!TextrelBits(dtarget)
    BY <1>7, <1>10
  <1>12. D!TextrelBits(dtarget) = BOOLEAN
           <=> TRUE \in D!TextrelBits(dtarget) /\ FALSE \in D!TextrelBits(dtarget)
    BY <1>7
  <1> QED BY <1>2, <1>5, <1>8, <1>11, <1>12

LEMMA TextrelIs ==
    ASSUME Passed, D!Terminated(dtarget)
    PROVE  D!TextrelState = D!TextrelEvidence(dtarget)
  <1>1. /\ D!TextrelConflict <=> D!TextrelBits(dtarget) = BOOLEAN
        /\ "TEXTREL" \in dcontext.flagsOr <=> TRUE \in D!TextrelBits(dtarget)
    BY TextrelConflictIs
  <1>2. dcontext.textrels # 0 <=> D!Tagged(dtarget, {"TEXTREL"}) # {}
    BY TaggedIsMet DEF Passed, FirstTrue, TextrelTrue
  <1> QED BY <1>1, <1>2 DEF D!TextrelState, D!TextrelEvidence

LEMMA SearchIs ==
    ASSUME Passed, Settled, D!Terminated(dtarget), dcontext.complete, NEW f \in D!Families
    PROVE  D!SearchState(dcontext.paths[f]) = D!SearchEvidence(dtarget, f)
  <1> DEFINE n == dsummary.entryCount
             path == dcontext.paths[f]
             mine == D!Tagged(dtarget, {f})
  <1>1. Kept(n, {f}) = mine /\ Meeting(n, {f}) = mine
    BY TaggedIsMet DEF Passed, Kept
  <1>2. /\ path.values # 0 <=> mine # {}
        /\ path.values = 0 => path.conflicts = 0
        /\ path.conflicts # 0 <=> \E i, j \in mine : TextsAt(i) # TextsAt(j)
    BY <1>1 DEF Settled, Resolved, SearchTrue
  <1>3. path.carriers # 0 <=> mine # {}
    BY <1>1 DEF Passed, FirstTrue, PathsTrue
  <1>4. D!SearchValues(dtarget, f) = UNION {TextsAt(i) : i \in mine}
    BY DEF D!SearchValues, D!Values, TextsAt
  <1> HIDE DEF path
  <1>5. CASE mine = {}
    <2>1. D!SearchState(path) = "absent"
      BY <1>2, <1>3, <1>5 DEF D!SearchState
    <2>2. D!SearchEvidence(dtarget, f) = "absent"
      <3>1. D!SearchValues(dtarget, f) = {}
        BY <1>4, <1>5
      <3>2. Cardinality(D!SearchValues(dtarget, f)) # 1
        BY <3>1, FS_EmptySet
      <3> QED BY <1>5, <3>2, SameCardinality DEF D!SearchEvidence
    <2> QED BY <2>1, <2>2 DEF path
  <1>6. CASE mine # {}
    <2>1. Found
      <3>1. D!NeedsStrings
        BY <1>3, <1>6 DEF D!NeedsStrings, path
      <3> QED BY <3>1 DEF Settled
    <2>2. \A i \in D!Tagged(dtarget, D!Families) : TextsAt(i) # {}
      <3>1. Kept(n, D!Families) = D!Tagged(dtarget, D!Families)
        BY TaggedIsMet DEF Passed, Kept
      <3> QED BY <3>1 DEF Settled, Resolved, TextsTrue
    <2>3. \A i \in mine : \E text : TextsAt(i) = {text}
      <3>1. \A i \in mine : i \in D!Tagged(dtarget, D!Families)
        BY DEF D!Tagged
      <3>2. \A i \in D!Tagged(dtarget, D!Families) : \E text \in Seq(D!Byte) : TextsAt(i) = {text}
        BY <2>1, <2>2, LengthsTyped DEF Passed
      <3> QED BY <3>1, <3>2
    <2> HIDE DEF mine
    <2>4. PICK i0 \in mine : TRUE
      BY <1>6
    <2>5. PICK text0 : TextsAt(i0) = {text0}
      BY <2>3, <2>4
    <2>6. text0 \in D!SearchValues(dtarget, f)
      BY <1>4, <2>4, <2>5
    <2>7. CASE \E i, j \in mine : TextsAt(i) # TextsAt(j)
      <3>1. D!SearchState(path) = "contradictory"
        BY <1>2, <2>7 DEF D!SearchState
      <3>2. PICK i \in mine : TextsAt(i) # TextsAt(i0)
        BY <2>4, <2>7
      <3>3. PICK text : TextsAt(i) = {text}
        BY <2>3, <3>2
      <3>4. text \in D!SearchValues(dtarget, f) /\ text # text0
        BY <1>4, <2>5, <3>2, <3>3
      <3>5. Cardinality(D!SearchValues(dtarget, f)) # 1
        <4> SUFFICES ASSUME Cardinality(D!SearchValues(dtarget, f)) = 1 PROVE FALSE
          OBVIOUS
        <4> DEFINE V == D!SearchValues(dtarget, f)
        <4>1. IsFiniteSet(V)
          <5> DEFINE chosen == [k \in mine |-> CHOOSE x \in TextsAt(k) : TRUE]
          <5>1. IsFiniteSet(mine)
            BY TaggedFinite DEF mine, Passed, Shapes
          <5>2. \A k \in mine : TextsAt(k) = {chosen[k]}
            BY <2>3
          <5>3. chosen = [k \in mine |-> chosen[k]]
            OBVIOUS
          <5> HIDE DEF chosen
          <5>4. IsFiniteSet({chosen[k] : k \in mine})
            BY <5>1, <5>3, ImageFinite
          <5>5. V \subseteq {chosen[k] : k \in mine}
            BY <1>4, <5>2
          <5> QED BY <5>4, <5>5, FS_Subset
        <4>2. Cardinality(V) > 1
          BY <2>6, <3>4, <4>1, MoreThanOne
        <4> QED BY <4>2
      <3>6. D!SearchEvidence(dtarget, f) = "contradictory"
        BY <1>6, <3>5, SameCardinality DEF D!SearchEvidence, mine
      <3> QED BY <3>1, <3>6 DEF path
    <2>8. CASE \A i, j \in mine : TextsAt(i) = TextsAt(j)
      <3>1. D!SearchState(path) = "present"
        BY <1>2, <1>6, <2>8 DEF D!SearchState
      <3>2. D!SearchValues(dtarget, f) = {text0}
        <4>1. \A i \in mine : TextsAt(i) = {text0}
          BY <2>4, <2>5, <2>8
        <4> QED BY <1>4, <1>6, <4>1
      <3>3. Cardinality(D!SearchValues(dtarget, f)) = 1
        BY <3>2, FS_Singleton
      <3>4. D!SearchEvidence(dtarget, f) = "present"
        BY <1>6, <3>3, SameCardinality DEF D!SearchEvidence, mine
      <3> QED BY <3>1, <3>4 DEF path
    <2> QED BY <2>7, <2>8
  <1> QED BY <1>5, <1>6

\* The bytes of a string that was found.
LEMMA BytesAre ==
    ASSUME Shapes, Found, NEW o \in Nat, o < D!Strsz, D!Terminators(o) # {}
    PROVE  /\ D!Length(o) \in 0 .. D!Strsz - o - 1 /\ D!StringByte(o + D!Length(o)) = D!NUL
           /\ \A k \in 1 .. D!Length(o) : D!Bytes(o)[k] = D!StringByte(o + k - 1)
           /\ \A m \in 0 .. D!Strsz - o - 1 : D!StringByte(o + m) = D!NUL => D!Length(o) <= m
  <1>1. /\ D!Length(o) \in D!Terminators(o) /\ \A m \in D!Terminators(o) : D!Length(o) <= m
        /\ D!Length(o) \in Nat /\ dstrings \in Nat /\ D!Strsz \in Nat
    BY TextIs DEF Shapes, Found
  <1>2. D!Length(o) \in 0 .. D!Strsz - o - 1 /\ D!StringByte(o + D!Length(o)) = D!NUL
    BY <1>1 DEF D!Terminators
  <1>3. \A m \in 0 .. D!Strsz - o - 1 : D!StringByte(o + m) = D!NUL => D!Length(o) <= m
    BY <1>1 DEF D!Terminators
  <1>4. \A k \in 1 .. D!Length(o) : D!Bytes(o)[k] = D!StringByte(o + k - 1)
    <2> DEFINE lo == dstrings + o + 1
               hi == dstrings + o + D!Length(o)
    <2>1. \A i \in dstrings + 1 .. dstrings + D!Strsz : dtarget.file[i] \in D!Byte
      BY TableBytes
    <2>2. lo \in Int /\ hi \in Int /\ \A i \in lo .. hi : i \in dstrings + 1 .. dstrings + D!Strsz
      BY <1>1, <1>2
    <2>3. D!Bytes(o) = SubSeq(dtarget.file, lo, hi)
      BY DEF D!Bytes
    <2> HIDE DEF lo, hi
    <2>4. \A i \in 1 .. hi - lo + 1 : D!Bytes(o)[i] = dtarget.file[lo + i - 1]
      BY <2>1, <2>2, <2>3, SubSeqProperties
    <2>5. \A k \in 1 .. D!Length(o) : k \in 1 .. hi - lo + 1 /\ lo + k - 1 = dstrings + (o + k - 1) + 1
      BY <1>1 DEF lo, hi
    <2> QED BY <2>4, <2>5 DEF D!StringByte
  <1> QED BY <1>2, <1>3, <1>4

LEMMA CanaryTyped ==
    /\ Canary \in Seq(D!Byte) /\ Len(Canary) \in Nat \ {0}
    /\ DOMAIN Canary = 1 .. Len(Canary)
    /\ \A n \in DOMAIN Canary : Canary[n] = D!NUL <=> n = Len(Canary)
  <1>1. Canary \in Seq(D!Byte) /\ Canary # <<>>
        /\ \A n \in DOMAIN Canary : Canary[n] = D!NUL <=> n = Len(Canary)
    BY MetadataAssumption DEF D!DynamicAssumption
  <1>2. Len(Canary) # 0
    BY <1>1, EmptySeq
  <1> QED BY <1>1, <1>2, LenProperties

\* Where the scan finds the symbol, a string of the table is the symbol.
LEMMA CanaryIs ==
    ASSUME Passed, Found
    PROVE  (D!Strsz >= Len(Canary) /\ \E i \in 0 .. D!Strsz - Len(Canary) : D!CanaryAt(i))
             <=> \E o \in 0 .. Len(D!StringTable(dtarget)) :
                    /\ o # 0 => D!StringTable(dtarget)[o] = D!NUL
                    /\ \E text \in D!Texts(D!StringTable(dtarget), o) : Append(text, D!NUL) = Canary
  <1> DEFINE table == D!StringTable(dtarget)
             len == Len(Canary)
  <1>1. /\ Canary \in Seq(D!Byte) /\ len \in Nat \ {0} /\ DOMAIN Canary = 1 .. len
        /\ \A n \in DOMAIN Canary : Canary[n] = D!NUL <=> n = len
    BY CanaryTyped
  <1>2. /\ Len(table) = D!Strsz /\ \A o \in 1 .. D!Strsz : table[o] = dtarget.file[dstrings + o]
        /\ D!Strsz \in Nat /\ dstrings \in Nat /\ Shapes
    BY TableBytes DEF Passed, Found, Shapes
  <1>3. \A o \in 1 .. D!Strsz : table[o] = D!StringByte(o - 1)
    <2> TAKE o \in 1 .. D!Strsz
    <2>1. dstrings + (o - 1) + 1 = dstrings + o
      BY <1>2
    <2> QED BY <1>2, <2>1 DEF D!StringByte
  <1> HIDE DEF len
  <1>4. ASSUME D!Strsz >= len, NEW i \in 0 .. D!Strsz - len, D!CanaryAt(i)
        PROVE  /\ i \in 0 .. D!Strsz /\ (i # 0 => table[i] = D!NUL)
               /\ \E text \in D!Texts(table, i) : Append(text, D!NUL) = Canary
    <2>1. i \in Nat /\ i \in 0 .. D!Strsz /\ i < D!Strsz
      BY <1>1, <1>2, <1>4
    <2>2. /\ i = 0 \/ D!StringByte(i - 1) = D!NUL
          /\ \A n \in 1 .. len : D!StringByte(i + n - 1) = Canary[n]
      BY <1>1, <1>4 DEF D!CanaryAt
    <2>3. i # 0 => table[i] = D!NUL
      BY <1>3, <2>1, <2>2
    <2>4. D!StringByte(i + (len - 1)) = D!NUL /\ len - 1 \in 0 .. D!Strsz - i - 1
      <3>1. i + len - 1 = i + (len - 1) /\ len \in 1 .. len /\ len - 1 \in 0 .. D!Strsz - i - 1
        BY <1>1, <1>2, <2>1
      <3> QED BY <1>1, <2>2, <3>1
    <2>5. D!Terminators(i) # {}
      BY <2>4 DEF D!Terminators
    <2>6. /\ D!Length(i) \in 0 .. D!Strsz - i - 1 /\ D!StringByte(i + D!Length(i)) = D!NUL
          /\ \A k \in 1 .. D!Length(i) : D!Bytes(i)[k] = D!StringByte(i + k - 1)
          /\ D!Length(i) <= len - 1
      BY <1>2, <2>1, <2>4, <2>5, BytesAre
    <2>7. D!Length(i) = len - 1
      <3>1. i + (D!Length(i) + 1) - 1 = i + D!Length(i) /\ D!Length(i) + 1 \in 1 .. len
        BY <1>1, <2>1, <2>6
      <3>2. Canary[D!Length(i) + 1] = D!NUL
        BY <2>2, <2>6, <3>1
      <3>3. D!Length(i) + 1 = len
        BY <1>1, <3>1, <3>2
      <3> QED BY <1>1, <2>6, <3>3
    <2>8. D!Texts(table, i) = {D!Bytes(i)} /\ D!Bytes(i) \in Seq(D!Byte) /\ Len(D!Bytes(i)) = D!Length(i)
      BY <1>2, <2>1, <2>5, TextIs
    <2>9. Append(D!Bytes(i), D!NUL) = Canary
      <3> DEFINE b == D!Bytes(i)
      <3>1. b \in Seq(D!Byte) /\ Len(b) = len - 1 /\ D!NUL \in D!Byte
        BY <2>7, <2>8 DEF D!NUL, D!Byte
      <3>2. \A k \in 1 .. len - 1 : b[k] = Canary[k]
        <4> TAKE k \in 1 .. len - 1
        <4>1. k \in 1 .. len /\ k \in 1 .. D!Length(i)
          BY <1>1, <2>7
        <4> QED BY <2>2, <2>6, <4>1
      <3> HIDE DEF b
      <3>3. /\ Append(b, D!NUL) \in Seq(D!Byte) /\ Len(Append(b, D!NUL)) = len
            /\ \A k \in 1 .. len : Append(b, D!NUL)[k] = IF k <= len - 1 THEN b[k] ELSE D!NUL
        BY <1>1, <3>1, AppendProperties
      <3>4. \A k \in 1 .. len : Append(b, D!NUL)[k] = Canary[k]
        <4> TAKE k \in 1 .. len
        <4>1. CASE k <= len - 1
          BY <1>1, <3>2, <3>3, <4>1
        <4>2. CASE k = len
          BY <1>1, <3>3, <4>2
        <4>3. k <= len - 1 \/ k = len
          BY <1>1
        <4> QED BY <4>1, <4>2, <4>3
      <3>5. Append(b, D!NUL) = Canary
        BY <1>1, <3>3, <3>4, SeqEqual DEF len
      <3> QED BY <3>5 DEF b
    <2> QED BY <2>1, <2>3, <2>8, <2>9
  <1>5. ASSUME NEW o \in 0 .. D!Strsz, o # 0 => table[o] = D!NUL,
               NEW text \in D!Texts(table, o), Append(text, D!NUL) = Canary
        PROVE  D!Strsz >= len /\ o \in 0 .. D!Strsz - len /\ D!CanaryAt(o)
    <2>1. o \in Nat
      OBVIOUS
    <2>2. o < D!Strsz /\ D!Terminators(o) # {}
      BY <1>2, <1>5, <2>1, TextIs
    <2>3. text = D!Bytes(o) /\ D!Bytes(o) \in Seq(D!Byte) /\ Len(D!Bytes(o)) = D!Length(o)
      BY <1>2, <1>5, <2>1, <2>2, TextIs
    <2>4. /\ D!Length(o) \in 0 .. D!Strsz - o - 1 /\ D!StringByte(o + D!Length(o)) = D!NUL
          /\ \A k \in 1 .. D!Length(o) : D!Bytes(o)[k] = D!StringByte(o + k - 1)
      BY <1>2, <2>1, <2>2, BytesAre
    <2>5. /\ len = D!Length(o) + 1
          /\ \A k \in 1 .. D!Length(o) : Canary[k] = D!Bytes(o)[k]
          /\ Canary[len] = D!NUL
      <3> DEFINE b == D!Bytes(o)
      <3>1. b \in Seq(D!Byte) /\ Len(b) = D!Length(o) /\ D!NUL \in D!Byte /\ Append(b, D!NUL) = Canary
            /\ D!Length(o) \in Nat
        BY <1>5, <2>3, <2>4 DEF D!NUL, D!Byte
      <3> HIDE DEF b
      <3>2. /\ Len(Append(b, D!NUL)) = Len(b) + 1
            /\ \A k \in 1 .. Len(b) : Append(b, D!NUL)[k] = b[k]
            /\ Append(b, D!NUL)[Len(b) + 1] = D!NUL
        BY <3>1, AppendProperties
      <3> QED BY <3>1, <3>2 DEF b, len
    <2>6. D!Strsz >= len /\ o \in 0 .. D!Strsz - len
      BY <1>2, <2>1, <2>4, <2>5
    <2>7. o = 0 \/ D!StringByte(o - 1) = D!NUL
      BY <1>3, <1>5, <2>1, <2>2
    <2>8. \A n \in 1 .. len : D!StringByte(o + n - 1) = Canary[n]
      <3> TAKE n \in 1 .. len
      <3>1. CASE n \in 1 .. D!Length(o)
        BY <2>4, <2>5, <3>1
      <3>2. CASE n = len
        <4>1. o + n - 1 = o + D!Length(o)
          BY <2>1, <2>4, <2>5, <3>2
        <4> QED BY <2>4, <2>5, <3>2, <4>1
      <3> QED BY <2>4, <2>5, <3>1, <3>2
    <2> QED BY <1>1, <2>6, <2>7, <2>8 DEF D!CanaryAt
  <1> QED BY <1>2, <1>4, <1>5 DEF len

\* What the role is concluded from.
Classifiable ==
    /\ "DT_SONAME" \in dsummary.evidence <=> dsummary.sonameCount # 0
    /\ dsummary.evidence \subseteq {"CONFLICT_FLAGS1", "CONFLICT_SONAME", "DT_SONAME"}

LEMMA FactsAgree ==
    ASSUME Passed, Classifiable
    PROVE  D!RoleFactsAgree
  <1> DEFINE n == dsummary.entryCount
  <1>1. n \in Nat /\ n \in 0 .. D!Count /\ D!Count \in Nat /\ dtarget \in DynamicTargets
    BY TargetTyped DEF Passed, Shapes
  <1>2. n # 0 => dtarget.dynamic
    <2>1. ~dtarget.dynamic => D!Count = 0
      BY <1>1, TargetTyped DEF D!Count
    <2> QED BY <1>1, <2>1
  <1>3. \A tags : /\ Cardinality(Meeting(n, tags)) \in 0 .. n
                  /\ Cardinality(Meeting(n, tags)) = 0 <=> Meeting(n, tags) = {}
    BY <1>1, MetFinite, FS_EmptySet
  <1>4. dsummary.flags1Count = Cardinality(Meeting(n, {"FLAGS_1"}))
        /\ dsummary.sonameCount = Cardinality(Meeting(n, {"SONAME"}))
    BY DEF Passed, FirstTrue, Flags1True, SonameTrue
  <1>5. dsummary.flags1Count = 0 => dsummary.flags1 = {}
    <2>1. \A b : b \in dsummary.flags1 <=> \E i \in Meeting(n, {"FLAGS_1"}) : b \in dtarget.table[i].bits
      BY DEF Passed, FirstTrue, Flags1True
    <2> QED BY <1>3, <1>4, <2>1
  <1>6. dsummary.sonameCount = 0 => dsummary.soname = 0
    <2>1. Meeting(n, {"SONAME"}) = {} => dsummary.soname = 0
      BY DEF Passed, FirstTrue, SonameTrue
    <2> QED BY <1>3, <1>4, <2>1
  <1>7. D!Carrier(dsummary.flags1Count, dsummary.flags1, {})
    <2>1. Cardinality(Meeting(n, {"FLAGS_1"})) \in 0 .. n
      BY <1>3
    <2> QED BY <1>1, <1>2, <1>4, <1>5, <2>1 DEF D!Carrier
  <1>8. D!Carrier(dsummary.sonameCount, dsummary.soname, 0)
    <2>1. Cardinality(Meeting(n, {"SONAME"})) \in 0 .. n
      BY <1>3
    <2> QED BY <1>1, <1>2, <1>4, <1>6, <2>1 DEF D!Carrier
  <1> QED BY <1>7, <1>8 DEF D!RoleFactsAgree, Classifiable

LEMMA FactsIn ==
    ASSUME Passed, NEW b
    PROVE  b \in D!RoleBits <=>
              \/ b \in dsummary.evidence
              \/ b = "ET_EXEC" /\ dtarget.type = "EXEC"
              \/ b = "ET_DYN" /\ dtarget.type = "DYN"
              \/ b = "ENTRY_NONZERO" /\ dtarget.entry
              \/ b = "PT_INTERP" /\ dtarget.interps # 0
              \/ b = "DUP_INTERP" /\ dtarget.interps > 1
              \/ b = "DF_1_PIE" /\ "PIE" \in dsummary.flags1
              \/ b = "DUP_FLAGS1" /\ dsummary.flags1Count > 1
              \/ b = "DUP_SONAME" /\ dsummary.sonameCount > 1
  <1>1. b \in D!RoleBits <=> b \in dsummary.evidence \/ \E f \in D!Facts : f[2] /\ f[1] = b
    BY DEF D!RoleBits
  <1>2. (\E f \in D!Facts : f[2] /\ f[1] = b) <=>
              \/ b = "ET_EXEC" /\ dtarget.type = "EXEC"
              \/ b = "ET_DYN" /\ dtarget.type = "DYN"
              \/ b = "ENTRY_NONZERO" /\ dtarget.entry
              \/ b = "PT_INTERP" /\ dtarget.interps # 0
              \/ b = "DUP_INTERP" /\ dtarget.interps > 1
              \/ b = "DF_1_PIE" /\ "PIE" \in dsummary.flags1
              \/ b = "DUP_FLAGS1" /\ dsummary.flags1Count > 1
              \/ b = "DUP_SONAME" /\ dsummary.sonameCount > 1
    <2> DEFINE Says(x, p) == \E f \in {<<x, p>>} : f[2] /\ f[1] = b
    <2>1. \A x : \A p \in BOOLEAN : Says(x, p) <=> b = x /\ p
      OBVIOUS
    <2>2. (\E f \in D!Facts : f[2] /\ f[1] = b) <=>
              \/ Says("ET_EXEC", dtarget.type = "EXEC") \/ Says("ET_DYN", dtarget.type = "DYN")
              \/ Says("ENTRY_NONZERO", dtarget.entry)
              \/ Says("PT_INTERP", dtarget.interps # 0) \/ Says("DUP_INTERP", dtarget.interps > 1)
              \/ Says("DF_1_PIE", "PIE" \in dsummary.flags1)
              \/ Says("DUP_FLAGS1", dsummary.flags1Count > 1)
              \/ Says("DUP_SONAME", dsummary.sonameCount > 1)
      BY Zenon DEF D!Facts
    <2> HIDE DEF Says
    <2>3. dtarget.entry \in BOOLEAN
      BY TargetTyped DEF Passed, Shapes
    <2>4. /\ Says("ET_EXEC", dtarget.type = "EXEC") <=> b = "ET_EXEC" /\ dtarget.type = "EXEC"
          /\ Says("ET_DYN", dtarget.type = "DYN") <=> b = "ET_DYN" /\ dtarget.type = "DYN"
          /\ Says("ENTRY_NONZERO", dtarget.entry) <=> b = "ENTRY_NONZERO" /\ dtarget.entry
      BY <2>1, <2>3
    <2>7. /\ (dtarget.interps # 0) \in BOOLEAN /\ (dtarget.interps > 1) \in BOOLEAN
          /\ ("PIE" \in dsummary.flags1) \in BOOLEAN
          /\ (dsummary.flags1Count > 1) \in BOOLEAN /\ (dsummary.sonameCount > 1) \in BOOLEAN
      OBVIOUS
    <2>5. /\ Says("PT_INTERP", dtarget.interps # 0) <=> b = "PT_INTERP" /\ dtarget.interps # 0
          /\ Says("DUP_INTERP", dtarget.interps > 1) <=> b = "DUP_INTERP" /\ dtarget.interps > 1
          /\ Says("DF_1_PIE", "PIE" \in dsummary.flags1) <=> b = "DF_1_PIE" /\ "PIE" \in dsummary.flags1
      BY Zenon, <2>1, <2>7
    <2>6. /\ Says("DUP_FLAGS1", dsummary.flags1Count > 1) <=> b = "DUP_FLAGS1" /\ dsummary.flags1Count > 1
          /\ Says("DUP_SONAME", dsummary.sonameCount > 1) <=> b = "DUP_SONAME" /\ dsummary.sonameCount > 1
      BY Zenon, <2>1, <2>7
    <2> QED BY <2>2, <2>4, <2>5, <2>6
  <1> QED BY <1>1, <1>2

LEMMA RoleIs ==
    ASSUME Passed, Classifiable
    PROVE  /\ D!RoleOf(D!RoleBits) = D!RoleEvidence(dtarget)
           /\ D!RoleBits \in SUBSET Facets /\ D!RoleOf(D!RoleBits) \in Roles
           /\ \A c \in {"CONFLICT_FLAGS1", "CONFLICT_SONAME"} : c \in D!RoleBits <=> c \in dsummary.evidence
  <1> DEFINE n == dsummary.entryCount
  <1>1. /\ dtarget \in DynamicTargets /\ dtarget.interps \in Nat /\ dtarget.type \in {"EXEC", "DYN", "REL"}
        /\ dtarget.entry \in BOOLEAN /\ n \in Nat
        /\ dsummary.flags1Count \in Nat /\ dsummary.sonameCount \in Nat
    BY TargetTyped DEF Passed, Shapes, Summary
  <1>2. \A tags : D!Tagged(dtarget, tags) = Meeting(n, tags)
    BY TaggedIsMet DEF Passed
  <1>3. /\ dsummary.flags1Count = Cardinality(D!Tagged(dtarget, {"FLAGS_1"}))
        /\ dsummary.sonameCount = Cardinality(D!Tagged(dtarget, {"SONAME"}))
    BY <1>2 DEF Passed, FirstTrue, Flags1True, SonameTrue
  <1>4. "DT_SONAME" \in dsummary.evidence <=> D!SaysShared(dtarget)
    <2>1. Cardinality(D!Tagged(dtarget, {"SONAME"})) = 0 <=> D!Tagged(dtarget, {"SONAME"}) = {}
      BY <1>1, TaggedFinite, FS_EmptySet
    <2> QED BY <1>3, <2>1 DEF Classifiable, D!SaysShared
  <1>5. "PIE" \in dsummary.flags1 <=> "PIE" \in D!Bits(dtarget, "FLAGS_1")
    BY <1>2 DEF Passed, FirstTrue, Flags1True, D!Bits
  <1>6. "CONFLICT_FLAGS1" \in dsummary.evidence => dsummary.flags1Count > 1
    <2>1. "CONFLICT_FLAGS1" \in dsummary.evidence =>
             \E i, j \in D!Tagged(dtarget, {"FLAGS_1"}) : dtarget.table[i].bits # dtarget.table[j].bits
      BY <1>2 DEF Passed, FirstTrue, Flags1True
    <2>2. "CONFLICT_FLAGS1" \in dsummary.evidence => \E i, j \in D!Tagged(dtarget, {"FLAGS_1"}) : i # j
      BY <2>1
    <2> QED BY <1>1, <1>3, <2>2, TaggedFinite, MoreThanOne
  <1>7. "CONFLICT_SONAME" \in dsummary.evidence => dsummary.sonameCount > 1
    <2>1. "CONFLICT_SONAME" \in dsummary.evidence =>
             \E i, j \in D!Tagged(dtarget, {"SONAME"}) : dtarget.table[i].value # dtarget.table[j].value
      BY <1>2 DEF Passed, FirstTrue, SonameTrue
    <2>2. "CONFLICT_SONAME" \in dsummary.evidence => \E i, j \in D!Tagged(dtarget, {"SONAME"}) : i # j
      BY <2>1
    <2> QED BY <1>1, <1>3, <2>2, TaggedFinite, MoreThanOne
  <1>8. /\ "ET_EXEC" \in D!RoleBits <=> dtarget.type = "EXEC"
        /\ "ET_DYN" \in D!RoleBits <=> dtarget.type = "DYN"
        /\ "ENTRY_NONZERO" \in D!RoleBits <=> dtarget.entry
        /\ "PT_INTERP" \in D!RoleBits <=> dtarget.interps # 0
        /\ "DUP_INTERP" \in D!RoleBits <=> dtarget.interps > 1
        /\ "DF_1_PIE" \in D!RoleBits <=> "PIE" \in dsummary.flags1
    BY FactsIn DEF Classifiable
  <1>9. /\ "DUP_FLAGS1" \in D!RoleBits <=> dsummary.flags1Count > 1
        /\ "DUP_SONAME" \in D!RoleBits <=> dsummary.sonameCount > 1
        /\ "DT_SONAME" \in D!RoleBits <=> "DT_SONAME" \in dsummary.evidence
        /\ "CONFLICT_FLAGS1" \in D!RoleBits <=> "CONFLICT_FLAGS1" \in dsummary.evidence
        /\ "CONFLICT_SONAME" \in D!RoleBits <=> "CONFLICT_SONAME" \in dsummary.evidence
    BY FactsIn DEF Classifiable
  <1>10. D!RoleBits \in SUBSET Facets
    BY FactsIn DEF Classifiable, Facets
  <1>11. D!RoleBits \cap D!Contradictions # {} <=> D!Repeated(dtarget)
    <2>1. D!RoleBits \cap D!Contradictions # {}
            <=> dtarget.interps > 1 \/ dsummary.flags1Count > 1 \/ dsummary.sonameCount > 1
      BY <1>6, <1>7, <1>8, <1>9 DEF D!Contradictions
    <2> QED BY <1>3, <2>1, SameCardinality DEF D!Repeated
  <1>12. /\ D!RoleBits \cap {"DF_1_PIE", "DT_SONAME"} # {}
              <=> "PIE" \in D!Bits(dtarget, "FLAGS_1") \/ D!SaysShared(dtarget)
         /\ D!RoleBits \cap {"PT_INTERP", "DF_1_PIE"} # {} <=> D!SaysExecutable(dtarget)
         /\ D!RoleBits \cap {"PT_INTERP", "DF_1_PIE", "DT_SONAME"} # {}
              <=> D!SaysExecutable(dtarget) \/ D!SaysShared(dtarget)
    BY <1>4, <1>5, <1>8, <1>9 DEF D!SaysExecutable
  <1>13. "DT_SONAME" \in D!RoleBits <=> D!SaysShared(dtarget)
    BY <1>4, <1>9
  <1>14. CASE D!Repeated(dtarget)
    BY <1>9, <1>10, <1>11, <1>14 DEF D!RoleOf, D!RoleEvidence, Roles
  <1>15. CASE ~D!Repeated(dtarget) /\ dtarget.type = "EXEC"
    BY <1>8, <1>9, <1>10, <1>11, <1>12, <1>15 DEF D!RoleOf, D!RoleEvidence, Roles
  <1>16. CASE ~D!Repeated(dtarget) /\ dtarget.type = "DYN"
    <2> DEFINE role == CASE D!SaysExecutable(dtarget) /\ D!SaysShared(dtarget) -> "contradictory"
                         [] D!SaysExecutable(dtarget) /\ ~D!SaysShared(dtarget) -> "executable_like"
                         [] ~D!SaysExecutable(dtarget) /\ dtarget.entry -> "ambiguous"
                         [] ~D!SaysExecutable(dtarget) /\ ~dtarget.entry /\ D!SaysShared(dtarget) -> "shared_object_like"
                         [] OTHER -> "unknown"
    <2>1. D!RoleEvidence(dtarget) = role
      BY <1>16 DEF D!RoleEvidence
    <2>2. D!RoleOf(D!RoleBits) =
             IF D!SaysExecutable(dtarget)
             THEN IF D!SaysShared(dtarget) THEN "contradictory" ELSE "executable_like"
             ELSE IF dtarget.entry THEN "ambiguous"
             ELSE IF D!SaysShared(dtarget) THEN "shared_object_like" ELSE "unknown"
      BY <1>8, <1>11, <1>12, <1>13, <1>16 DEF D!RoleOf
    <2>3. D!RoleOf(D!RoleBits) = role
      BY <2>2
    <2>4. D!RoleOf(D!RoleBits) \in Roles
      BY <2>2 DEF Roles
    <2> QED BY <1>9, <1>10, <2>1, <2>3, <2>4
  <1>17. CASE ~D!Repeated(dtarget) /\ dtarget.type = "REL"
    <2>1. D!RoleEvidence(dtarget) = IF D!SaysExecutable(dtarget) \/ D!SaysShared(dtarget) THEN "contradictory" ELSE "unknown"
      BY <1>17 DEF D!RoleEvidence
    <2>2. D!RoleOf(D!RoleBits) = IF D!SaysExecutable(dtarget) \/ D!SaysShared(dtarget) THEN "contradictory" ELSE "unknown"
      BY <1>8, <1>11, <1>12, <1>17 DEF D!RoleOf
    <2> QED BY <1>9, <1>10, <2>1, <2>2 DEF Roles
  <1> QED BY <1>1, <1>14, <1>15, <1>16, <1>17

Concluded ==
    /\ dcontext.complete = D!Terminated(dtarget)
    /\ dcontext.textrelConflict = (Cardinality(D!TextrelBits(dtarget)) > 1)
    /\ dcontext.textrel = D!TextrelEvidence(dtarget)
    /\ \A f \in D!Families : dcontext.search[f] = D!SearchEvidence(dtarget, f)

LEMMA DisagreeIs ==
    ASSUME Passed
    PROVE  /\ D!Disagree(dtarget, "FLAGS", "bits") <=> dcontext.flagsConflicts # 0
           /\ D!Disagree(dtarget, "FLAGS_1", "bits") <=> "CONFLICT_FLAGS1" \in dsummary.evidence
           /\ D!Disagree(dtarget, "SONAME", "value") <=> "CONFLICT_SONAME" \in dsummary.evidence
  <1> DEFINE n == dsummary.entryCount
  <1>1. \A tags : D!Tagged(dtarget, tags) = Meeting(n, tags)
    BY TaggedIsMet DEF Passed
  <1>2. ASSUME NEW tag, NEW field
        PROVE  D!Disagree(dtarget, tag, field) <=>
                  \E i, j \in D!Tagged(dtarget, {tag}) : dtarget.table[i][field] # dtarget.table[j][field]
    <2> DEFINE mine == D!Tagged(dtarget, {tag})
               said == [i \in mine |-> dtarget.table[i][field]]
               all == {said[i] : i \in mine}
    <2>1. IsFiniteSet(mine)
      BY TaggedFinite DEF Passed, Shapes
    <2>2. said = [i \in mine |-> said[i]]
      OBVIOUS
    <2>3. all = {dtarget.table[i][field] : i \in mine}
      OBVIOUS
    <2>4. \A i \in mine : said[i] = dtarget.table[i][field]
      OBVIOUS
    <2> HIDE DEF said, mine
    <2>5. IsFiniteSet(all)
      BY <2>1, <2>2, ImageFinite
    <2>6. Cardinality(all) > 1 <=> \E a, b \in all : a # b
      BY <2>5, MoreThanOne
    <2>7. (\E a, b \in all : a # b) <=> \E i, j \in mine : said[i] # said[j]
      OBVIOUS
    <2>8. D!Disagree(dtarget, tag, field) <=> Cardinality(all) > 1
      BY <2>3, SameCardinality DEF D!Disagree, mine
    <2>9. D!Disagree(dtarget, tag, field)
            <=> \E i, j \in mine : dtarget.table[i][field] # dtarget.table[j][field]
      BY <2>4, <2>6, <2>7, <2>8
    <2> QED BY <2>9 DEF mine
  <1>3. D!Disagree(dtarget, "FLAGS", "bits") <=>
           \E i, j \in Meeting(n, {"FLAGS"}) : dtarget.table[i].bits # dtarget.table[j].bits
    BY <1>1, <1>2
  <1>4. D!Disagree(dtarget, "FLAGS_1", "bits") <=>
           \E i, j \in Meeting(n, {"FLAGS_1"}) : dtarget.table[i].bits # dtarget.table[j].bits
    BY <1>1, <1>2
  <1>5. D!Disagree(dtarget, "SONAME", "value") <=>
           \E i, j \in Meeting(n, {"SONAME"}) : dtarget.table[i].value # dtarget.table[j].value
    BY <1>1, <1>2
  <1> QED BY <1>3, <1>4, <1>5 DEF Passed, FirstTrue, FlagsTrue, Flags1True, SonameTrue

LEMMA BindNowIs ==
    ASSUME Passed
    PROVE  dsummary.bindNow = D!BindNowEvidence(dtarget)
  <1> DEFINE n == dsummary.entryCount
  <1>1. \A tags : D!Tagged(dtarget, tags) = Meeting(n, tags)
    BY TaggedIsMet DEF Passed
  <1>2. dsummary.bindNow <=> \E i \in 1 .. n : SaysBindNow(i)
    BY DEF Passed, FirstTrue, BindNowTrue
  <1>3. D!Tagged(dtarget, {"BIND_NOW"}) # {} <=> \E i \in 1 .. n : dtarget.table[i].tag = "BIND_NOW"
    BY <1>1 DEF Meeting
  <1>4. "BIND_NOW" \in D!Bits(dtarget, "FLAGS")
          <=> \E i \in 1 .. n : dtarget.table[i].tag = "FLAGS" /\ "BIND_NOW" \in dtarget.table[i].bits
    BY <1>1 DEF Meeting, D!Bits
  <1>5. "NOW" \in D!Bits(dtarget, "FLAGS_1")
          <=> \E i \in 1 .. n : dtarget.table[i].tag = "FLAGS_1" /\ "NOW" \in dtarget.table[i].bits
    BY <1>1 DEF Meeting, D!Bits
  <1> HIDE DEF n
  <1>6. (\E i \in 1 .. n : SaysBindNow(i)) <=>
           \/ \E i \in 1 .. n : dtarget.table[i].tag = "BIND_NOW"
           \/ \E i \in 1 .. n : dtarget.table[i].tag = "FLAGS" /\ "BIND_NOW" \in dtarget.table[i].bits
           \/ \E i \in 1 .. n : dtarget.table[i].tag = "FLAGS_1" /\ "NOW" \in dtarget.table[i].bits
    BY DEF SaysBindNow
  <1>7. dsummary.bindNow <=> D!BindNowEvidence(dtarget)
    BY <1>2, <1>3, <1>4, <1>5, <1>6 DEF D!BindNowEvidence
  <1>8. dsummary.bindNow \in BOOLEAN /\ D!BindNowEvidence(dtarget) \in BOOLEAN
    BY DEF Passed, Shapes, Summary, D!BindNowEvidence
  <1> QED BY <1>7, <1>8

LEMMA EvidenceFollows ==
    ASSUME Passed, Concluded, dsummary.canary = D!CanaryEvidence(dtarget), dsummary.role = D!RoleEvidence(dtarget)
    PROVE  D!EvidenceOfTheTable
  <1>1. dsummary.entryCount = Cardinality(D!Read(dtarget))
    <2>1. dsummary.entryCount \in Nat /\ D!Read(dtarget) = 1 .. dsummary.entryCount
      BY TargetTyped DEF Passed, Shapes, Summary
    <2> QED BY <2>1, FS_Interval
  <1>2. dsummary.bindNow = D!BindNowEvidence(dtarget)
    BY BindNowIs
  <1>3. /\ (dcontext.flagsConflicts # 0) = D!Disagree(dtarget, "FLAGS", "bits")
        /\ ("CONFLICT_FLAGS1" \in dsummary.evidence) = D!Disagree(dtarget, "FLAGS_1", "bits")
        /\ ("CONFLICT_SONAME" \in dsummary.evidence) = D!Disagree(dtarget, "SONAME", "value")
    <2>1. /\ D!Disagree(dtarget, "FLAGS", "bits") \in BOOLEAN
          /\ D!Disagree(dtarget, "FLAGS_1", "bits") \in BOOLEAN
          /\ D!Disagree(dtarget, "SONAME", "value") \in BOOLEAN
      BY DEF D!Disagree
    <2> QED BY <2>1, DisagreeIs
  <1> QED BY <1>1, <1>2, <1>3, SameCardinality DEF D!EvidenceOfTheTable, Concluded

\* The values are in place before the second pass, and while it reads on.
LEMMA UntouchedPlaced ==
    ASSUME Untouched
    PROVE  D!ValuesKeepTheirPlace
  <1> DEFINE lengths == [j \in DOMAIN dcontext.records |-> dcontext.records[j].length]
  <1>1. DOMAIN lengths = 1 .. 0 /\ Len(dcontext.records) = 0 /\ Len(dcontext.pool) = 0
        /\ DOMAIN dcontext.records = {}
    BY DEF Untouched
  <1>2. D!RecordStart(Len(dcontext.records) + 1) = D!Totals(lengths)[(Len(dcontext.records) + 1) - 1]
    BY DEF D!RecordStart
  <1> HIDE DEF lengths
  <1>3. D!Totals(lengths)[0] = 0
    BY <1>1, TotalsAre
  <1> QED BY <1>1, <1>2, <1>3 DEF D!ValuesKeepTheirPlace

LEMMA ResolvedPlaced ==
    ASSUME Passed, NEW n \in 0 .. dsummary.entryCount, Resolved(n)
    PROVE  D!ValuesKeepTheirPlace
  <1>1. Len(dcontext.pool) = D!RecordStart(Len(dcontext.records) + 1)
    BY DEF Resolved, PoolTrue
  <1>2. ASSUME NEW k \in DOMAIN dcontext.records
        PROVE  \E c \in DOMAIN dcontext.carriers :
                  dcontext.carriers[c] = [tag |-> dcontext.records[k].tag, index |-> dcontext.records[k].index]
    <2>1. dcontext.records[k].index + 1 \in Kept(n, D!Families)
          /\ dcontext.records[k].tag = dtarget.table[dcontext.records[k].index + 1].tag
      BY DEF Resolved, RecordsTrue
    <2>2. dsummary.entryCount \in Nat
      BY DEF Passed, Shapes, Summary
    <2>3. dcontext.records[k].index + 1 \in Meeting(dsummary.entryCount, D!CarrierTags)
      BY <2>1, <2>2 DEF Kept, Meeting, D!CarrierTags
    <2>4. PICK c \in DOMAIN dcontext.carriers :
             dcontext.carriers[c] = [tag |-> dtarget.table[dcontext.records[k].index + 1].tag,
                                     index |-> (dcontext.records[k].index + 1) - 1]
      BY <2>3 DEF Passed, FirstTrue, CarriersTrue
    <2>5. dcontext.records[k].index \in Nat
      <3>1. dcontext.records \in Seq(ValueRecord)
        BY DEF Passed, Shapes, Context
      <3>2. dcontext.records[k] \in ValueRecord
        BY <3>1
      <3> QED BY <3>2 DEF ValueRecord
    <2>6. (dcontext.records[k].index + 1) - 1 = dcontext.records[k].index
      BY <2>5
    <2> QED BY <2>1, <2>4, <2>6
  <1> QED BY <1>1, <1>2 DEF Resolved, RecordsTrue, D!ValuesKeepTheirPlace
-----------------------------------------------------------------------------
(* Where the analysis is, and what is known there.                         *)

FirstOnly ==
    /\ Untouched /\ dsummary.canary = "unknown"
    /\ dsummary.evidence \subseteq {"CONFLICT_FLAGS1", "CONFLICT_SONAME"}

Completed == dcontext.complete = D!Terminated(dtarget)

AtTable == dpc \in {"table", "entry"} => Entering(dsummary.entryCount) /\ FirstOnly

AtFinalize == dpc \in {"finalize", "strings"} => Passed /\ FirstOnly

AtResolve ==
    dpc = "resolve" =>
        /\ Resolving(dindex) /\ Resolved(dindex)
        /\ dsummary.canary = "absent"
        /\ dsummary.evidence \subseteq {"CONFLICT_FLAGS1", "CONFLICT_SONAME"}

AtCanary ==
    dpc = "canary" =>
        /\ Passed /\ Settled /\ Found /\ Classifiable
        /\ dsummary.canary = "absent"

AtRole ==
    dpc \in {"refinalize", "role", "done"} =>
        /\ Passed /\ Settled
        /\ dsummary.canary = D!CanaryEvidence(dtarget)
        /\ dpc = "done" \/ Classifiable

AtEnd ==
    /\ dpc \in {"role", "done"} => Concluded
    /\ dpc = "done" => dsummary.role = D!RoleEvidence(dtarget)

Going ==
    /\ dpc # "table" => Admitted
    /\ dpc \notin {"table", "entry", "finalize"} => Completed
    /\ AtTable /\ AtFinalize /\ AtResolve /\ AtCanary /\ AtRole /\ AtEnd

Refused == dpc = "done" /\ ~D!Readable(dtarget) /\ D!ValuesKeepTheirPlace

InBounds ==
    /\ Bounded
    /\ dsummary.entryCount <= D!Count /\ dstrings <= Len(dtarget.file)

Steps == {"table", "entry", "finalize", "strings", "resolve", "canary", "refinalize", "role", "done"}

DInv ==
    /\ Shapes /\ InBounds
    /\ dpc \in Steps
    /\ dstatus \in {D!EXIT_OK, D!EXIT_MALFORMED_ELF, D!EXIT_UNSUPPORTED}
    /\ IF dstatus = D!EXIT_OK THEN Going ELSE Refused

LEMMA StatusesDiffer ==
    D!EXIT_MALFORMED_ELF # D!EXIT_OK /\ D!EXIT_UNSUPPORTED # D!EXIT_OK
  BY DEF D!EXIT_OK, D!EXIT_MALFORMED_ELF, D!EXIT_UNSUPPORTED

LEMMA DInvPlaced ==
    ASSUME DInv
    PROVE  D!ValuesKeepTheirPlace
  <1>1. CASE dstatus # D!EXIT_OK
    BY <1>1 DEF DInv, Refused
  <1>2. CASE dstatus = D!EXIT_OK
    <2>1. Going /\ Shapes /\ dpc \in Steps
      BY <1>2 DEF DInv
    <2>2. CASE dpc \in {"table", "entry", "finalize", "strings"}
      <3>1. Untouched
        BY <2>1, <2>2 DEF Going, AtTable, AtFinalize, FirstOnly
      <3> QED BY <3>1, UntouchedPlaced
    <2>3. CASE dpc = "resolve"
      <3>1. Resolving(dindex) /\ Resolved(dindex)
        BY <2>1, <2>3 DEF Going, AtResolve
      <3>2. Passed
        BY <3>1 DEF Resolving, Passed
      <3>3. dindex \in 0 .. dsummary.entryCount
        <4>1. /\ D!Count \in Nat /\ dindex \in 0 .. D!Count /\ D!Read(dtarget) = 1 .. dsummary.entryCount
              /\ dsummary.entryCount \in Nat /\ dtarget \in DynamicTargets
              /\ \A i \in 1 .. dindex : dtarget.table[i].tag # "NULL"
          BY <3>1, TargetTyped DEF Resolving, Shapes, Summary
        <4>2. dindex # 0 => dindex \in D!Read(dtarget)
          BY <4>1, ReadPart
        <4> QED BY <4>1, <4>2
      <3> QED BY <3>1, <3>2, <3>3, ResolvedPlaced
    <2>4. CASE dpc \in {"canary", "refinalize", "role", "done"}
      <3>1. Passed /\ Settled
        BY <2>1, <2>4 DEF Going, AtCanary, AtRole
      <3>2. dsummary.entryCount \in 0 .. dsummary.entryCount
        BY <3>1 DEF Passed, Shapes, Summary
      <3> QED BY <3>1, <3>2, ResolvedPlaced DEF Settled
    <2> QED BY <2>1, <2>2, <2>3, <2>4 DEF Steps
  <1> QED BY <1>1, <1>2

LEMMA DInvTypes ==
    ASSUME DInv
    PROVE  D!TypeOK
  <1>1. dtarget \in D!Target /\ D!Count \in Nat /\ Len(dtarget.file) \in Nat
    <2>1. dtarget \in DynamicTargets
      BY DEF DInv, Shapes
    <2>2. dtarget \in D!Target
      BY <2>1, MetadataAssumption DEF D!DynamicAssumption
    <2> QED BY <2>1, <2>2, TargetTyped
  <1>2. /\ dindex \in 0 .. D!Count /\ dstrings \in 0 .. Len(dtarget.file)
        /\ dsummary.entryCount \in 0 .. D!Count
    BY <1>1 DEF DInv, Shapes, InBounds, Summary
  <1>3. /\ dcontext.paths \in [D!Families -> D!Search]
        /\ dcontext.textrel \in D!States /\ dcontext.search \in [D!Families -> D!States]
    BY DEF DInv, Shapes, Context
  <1> QED BY <1>1, <1>2, <1>3 DEF DInv, D!TypeOK, InBounds, Bounded, Steps

LEMMA DInvEvidence ==
    ASSUME DInv, dpc = "done"
    PROVE  D!EvidenceOfTheTable /\ (dstatus = D!EXIT_OK <=> D!Readable(dtarget))
  <1>1. CASE dstatus # D!EXIT_OK
    BY <1>1 DEF DInv, Refused, D!EvidenceOfTheTable
  <1>2. CASE dstatus = D!EXIT_OK
    <2>1. /\ Passed /\ Settled /\ Concluded /\ Admitted /\ Bounded /\ Completed
          /\ dsummary.canary = D!CanaryEvidence(dtarget) /\ dsummary.role = D!RoleEvidence(dtarget)
      BY <1>2 DEF DInv, InBounds, Going, AtRole, AtEnd
    <2> QED BY <1>2, <2>1, EvidenceFollows, SettledReadable DEF Completed
  <1> QED BY <1>1, <1>2

\* At the start nothing was read.
LEMMA InitDInv ==
    ASSUME D!Init
    PROVE  DInv
  <1>1. /\ dtarget \in DynamicTargets /\ dindex = 0 /\ dstrings = 0 /\ dsummary = D!EmptySummary
        /\ dcontext = D!EmptyContext /\ dstatus = D!EXIT_OK
        /\ dpc = IF dtarget.dynamic THEN "table" ELSE "finalize"
    BY DEF D!Init, D!Begins
  <1>2. D!Count \in Nat /\ Len(dtarget.file) \in Nat /\ (~dtarget.dynamic => D!Count = 0 /\ dtarget.tail = 0)
    BY <1>1, TargetTyped DEF D!Count
  <1>3. dsummary \in Summary
    BY <1>1 DEF D!EmptySummary, Summary, D!States, Roles
  <1>4. dcontext \in Context
    <2>1. [f \in D!Families |-> D!NoValues] \in [D!Families -> D!Search]
      BY DEF D!NoValues, D!Search
    <2>2. [f \in D!Families |-> "unknown"] \in [D!Families -> D!States]
      BY DEF D!States
    <2> QED BY <1>1, <2>1, <2>2 DEF D!EmptyContext, Context, D!States
  <1>5. Shapes /\ InBounds
    <2>1. Shapes
      BY <1>1, <1>2, <1>3, <1>4 DEF Shapes
    <2>2. Bounded
      BY <1>1, LimitsTypedD DEF Bounded, D!EmptyContext
    <2> QED BY <1>1, <1>2, <2>1, <2>2 DEF InBounds, D!EmptySummary
  <1>6. \A tags : Meeting(0, tags) = {}
    BY DEF Meeting
  <1>7. FirstTrue(0)
    <2>1. NullTrue(0) /\ BindNowTrue(0) /\ StringTableTrue(0) /\ TextrelTrue(0)
      BY <1>1, <1>6 DEF NullTrue, BindNowTrue, StringTableTrue, TextrelTrue, D!EmptySummary,
         D!EmptyContext
    <2>2. Flags1True(0) /\ SonameTrue(0)
      BY <1>1, <1>6, FS_EmptySet DEF Flags1True, SonameTrue, D!EmptySummary
    <2>3. CarriersTrue(0)
      BY <1>1, <1>6, FS_EmptySet DEF CarriersTrue, D!EmptyContext
    <2>4. FlagsTrue(0)
      BY <1>1, <1>6 DEF FlagsTrue, D!EmptyContext
    <2>5. PathsTrue(0)
      BY <1>1, <1>6 DEF PathsTrue, D!EmptyContext, D!NoValues
    <2> QED BY <2>1, <2>2, <2>3, <2>4, <2>5 DEF FirstTrue
  <1>8. FirstOnly
    BY <1>1 DEF FirstOnly, Untouched, D!EmptyContext, D!EmptySummary, D!NoValues
  <1>9. dsummary.entryCount = 0
    BY <1>1 DEF D!EmptySummary
  <1>10. CASE dtarget.dynamic
    <2>1. Entering(0)
      BY <1>1, <1>2, <1>5, <1>7 DEF Entering
    <2> QED BY <1>1, <1>5, <1>8, <1>9, <1>10, <2>1
            DEF DInv, Going, AtTable, AtFinalize, AtResolve, AtCanary, AtRole, AtEnd, Steps
  <1>11. CASE ~dtarget.dynamic
    <2>1. D!Read(dtarget) = 1 .. 0
      BY <1>1, <1>2, <1>11, ReadWhole
    <2>2. Passed
      BY <1>2, <1>5, <1>7, <1>9, <2>1 DEF Passed
    <2>3. Admitted
      BY <1>2, <1>11, LimitsTypedD DEF Admitted
    <2> QED BY <1>1, <1>5, <1>8, <1>11, <2>2, <2>3
            DEF DInv, Going, AtTable, AtFinalize, AtResolve, AtCanary, AtRole, AtEnd, Steps
  <1> QED BY <1>10, <1>11
-----------------------------------------------------------------------------
(* Every step.                                                             *)

LEMMA WhileRunning ==
    ASSUME DInv, dpc # "done"
    PROVE  dstatus = D!EXIT_OK /\ Going /\ Shapes /\ InBounds /\ dpc \in Steps
  BY DEF DInv, Refused

LEMMA RefuseKeeps ==
    ASSUME DInv, NEW rax \in {D!EXIT_MALFORMED_ELF, D!EXIT_UNSUPPORTED}, D!Refuse(rax), ~D!Readable(dtarget)
    PROVE  DInv'
  <1>1. /\ dpc' = "done" /\ dstatus' = rax /\ dtarget' = dtarget /\ dindex' = dindex /\ dstrings' = dstrings
        /\ dsummary' = dsummary /\ dcontext' = dcontext
    BY DEF D!Refuse
  <1>2. Shapes' /\ InBounds'
    BY <1>1 DEF DInv, Shapes, InBounds, Bounded, D!Count
  <1>3. D!ValuesKeepTheirPlace'
    <2>1. D!ValuesKeepTheirPlace
      BY DInvPlaced
    <2> QED BY <1>1, <2>1 DEF D!ValuesKeepTheirPlace, D!RecordStart, D!ValueOf
  <1>4. ~D!Readable(dtarget)'
    BY <1>1
  <1> QED BY <1>1, <1>2, <1>3, <1>4, StatusesDiffer DEF DInv, Refused, Steps

LEMMA RefusalSteps ==
    ASSUME DInv,
           \/ D!TableRefused \/ D!TableTooLong \/ D!StringTableRepeated \/ D!CarrierRefused
           \/ D!StringsMissing \/ D!StringsTooLong \/ D!StringsUnmapped \/ D!SonameRefused \/ D!SearchPathRefused
    PROVE  DInv'
  <1>1. dpc # "done"
    BY DEF D!TableRefused, D!TableTooLong, D!StringTableRepeated, D!CarrierRefused, D!StringsMissing,
       D!StringsTooLong,
           D!StringsUnmapped, D!SonameRefused, D!SearchPathRefused, D!AtEntry, D!AtString
  <1>2. Going /\ Shapes
    BY <1>1, WhileRunning
  <1>3. CASE D!TableRefused
    <2>1. ~D!Readable(dtarget)
      BY <1>3 DEF D!TableRefused, D!Readable
    <2> QED BY <1>3, <2>1, RefuseKeeps DEF D!TableRefused
  <1>4. CASE D!TableTooLong
    <2>1. ~D!Readable(dtarget)
      <3>1. D!Count > DynamicEntryMax /\ D!Count \in Nat
        BY <1>2, <1>4, TargetTyped DEF D!TableTooLong, Shapes
      <3> QED BY <3>1, LimitsTypedD DEF D!Readable, D!Count
    <2> QED BY <1>4, <2>1, RefuseKeeps DEF D!TableTooLong
  <1>5. CASE D!StringTableRepeated \/ D!CarrierRefused
    <2>1. Entering(dsummary.entryCount)
      BY <1>2, <1>5 DEF Going, AtTable, D!StringTableRepeated, D!CarrierRefused, D!AtEntry
    <2>2. ~D!Readable(dtarget)
      BY <1>5, <2>1, RepeatedUnreadable, CarriersUnreadable
    <2> QED BY <1>5, <2>2, RefuseKeeps DEF D!StringTableRepeated, D!CarrierRefused
  <1>6. CASE D!StringsMissing \/ D!StringsTooLong \/ D!StringsUnmapped
    <2>1. Passed
      BY <1>2, <1>6 DEF Going, AtFinalize, D!StringsMissing, D!StringsTooLong, D!StringsUnmapped
    <2>2. ~D!Readable(dtarget)
      BY <1>6, <2>1, MissingUnreadable, UnmappedUnreadable
    <2> QED BY <1>6, <2>2, RefuseKeeps DEF D!StringsMissing, D!StringsTooLong, D!StringsUnmapped
  <1>7. CASE D!SonameRefused
    <2>1. Resolving(dindex)
      BY <1>2, <1>7 DEF Going, AtResolve, D!SonameRefused, D!AtString
    <2>2. ~D!Readable(dtarget)
      BY <1>7, <2>1, SonameUnreadable
    <2> QED BY <1>7, <2>2, RefuseKeeps DEF D!SonameRefused
  <1>8. CASE D!SearchPathRefused
    <2>1. Resolving(dindex) /\ Resolved(dindex) /\ Completed
      BY <1>2, <1>8 DEF Going, AtResolve, D!SearchPathRefused, D!AtString
    <2>2. ~D!Readable(dtarget)
      BY <1>8, <2>1, SearchPathUnreadable DEF Completed
    <2>3. D!OwnCarriers # {}
      BY <1>8, <2>1, OwnCarrierMet DEF D!SearchPathRefused, D!AtString
    <2>4. D!SearchPathStatus \in {D!EXIT_MALFORMED_ELF, D!EXIT_UNSUPPORTED}
      BY <1>8, <2>3 DEF D!SearchPathRefused, D!SearchPathStatus
    <2> QED BY <1>8, <2>2, <2>4, RefuseKeeps DEF D!SearchPathRefused
  <1> QED BY <1>3, <1>4, <1>5, <1>6, <1>7, <1>8

\* The first pass.
LEMMA BeginTableStep ==
    ASSUME DInv, D!BeginTable
    PROVE  DInv'
  <1>1. /\ dpc = "table" /\ dpc' = "entry" /\ dtarget.tail = 0 /\ D!Count <= DynamicEntryMax
        /\ dtarget' = dtarget /\ dindex' = dindex /\ dstrings' = dstrings
        /\ dsummary' = dsummary /\ dcontext' = dcontext /\ dstatus' = dstatus
    BY DEF D!BeginTable
  <1>2. dstatus = D!EXIT_OK /\ Going /\ Shapes /\ InBounds
    BY <1>1, WhileRunning
  <1>3. Shapes' /\ InBounds'
    BY <1>1, <1>2 DEF Shapes, InBounds, Bounded, D!Count
  <1>4. Entering(dsummary.entryCount) /\ FirstOnly
    BY <1>1, <1>2 DEF Going, AtTable
  <1>5. FirstTrue(dsummary.entryCount)'
    <2>1. dsummary.entryCount \in Nat /\ FirstTrue(dsummary.entryCount)
      BY <1>2, <1>4 DEF Entering, Shapes, Summary
    <2>2. PICK n \in Nat : n = dsummary.entryCount
      BY <2>1
    <2>3. FirstTrue(n)'
      BY <1>1, <2>1, <2>2, FirstSame
    <2>4. dsummary'.entryCount = n
      BY <1>1, <2>2
    <2> QED BY <2>3, <2>4
  <1>6. Entering(dsummary.entryCount)'
    BY <1>1, <1>3, <1>4, <1>5 DEF Entering, D!Count
  <1>7. FirstOnly'
    BY <1>1, <1>4 DEF FirstOnly, Untouched
  <1>8. Admitted'
    BY <1>1 DEF Admitted, D!Count
  <1> QED BY <1>1, <1>2, <1>3, <1>6, <1>7, <1>8
          DEF DInv, Going, AtTable, AtFinalize, AtResolve, AtCanary, AtRole, AtEnd, Steps

\* The facts of the first pass, when only what the later steps write changes.
LEMMA PassedSame ==
    ASSUME Passed, Shapes', dtarget' = dtarget, dsummary'.entryCount = dsummary.entryCount,
           dsummary'.nullSeen = dsummary.nullSeen,
           dsummary'.bindNow = dsummary.bindNow, dsummary'.strtab = dsummary.strtab,
           dsummary'.strsz = dsummary.strsz, dsummary'.flags1 = dsummary.flags1,
           dsummary'.flags1Count = dsummary.flags1Count, dsummary'.soname = dsummary.soname,
           dsummary'.sonameCount = dsummary.sonameCount,
           \A c \in {"CONFLICT_FLAGS1", "CONFLICT_SONAME"} : c \in dsummary'.evidence <=> c \in dsummary.evidence,
           dcontext'.carriers = dcontext.carriers, dcontext'.textrels = dcontext.textrels,
           dcontext'.flagsCount = dcontext.flagsCount, dcontext'.flagsFirst = dcontext.flagsFirst,
           dcontext'.flagsOr = dcontext.flagsOr, dcontext'.flagsAnd = dcontext.flagsAnd,
           dcontext'.flagsConflicts = dcontext.flagsConflicts,
           \A f \in D!Families : dcontext'.paths[f].carriers = dcontext.paths[f].carriers
    PROVE  /\ Passed' /\ FirstTrue(dsummary.entryCount)'
           /\ D!Read(dtarget)' = 1 .. dsummary'.entryCount /\ dsummary'.entryCount \in (0 .. D!Count)'
  <1>1. dsummary.entryCount \in Nat
    BY DEF Passed, Shapes, Summary
  <1>2. PICK n \in Nat : n = dsummary.entryCount
    BY <1>1
  <1>3. FirstTrue(n)'
    BY <1>2, FirstSame DEF Passed
  <1>4. dsummary'.entryCount = n
    BY <1>2
  <1>5. FirstTrue(dsummary.entryCount)'
    BY <1>3, <1>4
  <1> QED BY <1>5 DEF Passed, D!Count

LEMMA EntrySteps ==
    ASSUME DInv, EntryStep
    PROVE  DInv'
  <1>1. dpc = "entry" /\ dindex < D!Count
    BY DEF EntryStep, D!StringTableEntry, D!TextrelEntry, D!FlagsEntry, D!SearchPathEntry,
       D!BindNowEntry,
           D!Flags1Entry, D!SonameEntry, D!OtherEntry, D!NullEntry, D!AtEntry
  <1>2. dstatus = D!EXIT_OK /\ Going /\ Shapes /\ InBounds
    BY <1>1, WhileRunning
  <1>3. PICK n : n = dsummary.entryCount
    OBVIOUS
  <1>4. Entering(n) /\ FirstOnly /\ Admitted
    BY <1>1, <1>2, <1>3 DEF Going, AtTable
  <1>5. /\ n \in Nat /\ n = dindex /\ n + 1 \in 1 .. D!Count /\ D!Count \in Nat /\ dtarget \in DynamicTargets
        /\ D!Entry = dtarget.table[n + 1] /\ \A i \in 1 .. n : dtarget.table[i].tag # "NULL"
    BY <1>1, <1>2, <1>4, TargetTyped DEF Entering, Shapes, D!Entry
  <1>6. /\ dtarget' = dtarget /\ dstrings' = dstrings /\ dstatus' = dstatus
        /\ dsummary'.entryCount = n + 1
        /\ D!Entry.tag = "NULL" => dpc' = "finalize" /\ dindex' = dindex
        /\ D!Entry.tag # "NULL" => dpc' = "entry" /\ dindex' = dindex + 1
        /\ D!Entry.tag \in D!CarrierTags => ~D!CarrierTableFull
    BY <1>2, <1>3, EntryStepAt
  <1>7. /\ dsummary' \in Summary
        /\ dsummary'.evidence \subseteq dsummary.evidence \cup {"CONFLICT_FLAGS1", "CONFLICT_SONAME"}
        /\ dsummary'.canary = dsummary.canary
    BY <1>2, SummaryEffects
  <1>8. /\ dcontext' \in Context
        /\ dcontext'.records = dcontext.records /\ dcontext'.pool = dcontext.pool
        /\ \A f \in D!Families : /\ dcontext'.paths[f].values = dcontext.paths[f].values
                                 /\ dcontext'.paths[f].conflicts = dcontext.paths[f].conflicts
    BY <1>2, ContextEffects
  <1>9. FirstTrue(n + 1)'
    BY <1>2, <1>4, <1>5, FirstNext DEF Entering
  <1>10. Shapes'
    <2>1. dindex' \in 0 .. D!Count
      BY <1>5, <1>6
    <2>2. dstrings' \in Nat
      BY <1>2, <1>6 DEF Shapes
    <2> QED BY <1>5, <1>6, <1>7, <1>8, <2>1, <2>2 DEF Shapes, D!Count
  <1>11. InBounds'
    <2>1. Len(dcontext'.carriers) <= DynamicCarrierMax
      <3>1. dcontext'.carriers = IF D!Entry.tag \in D!CarrierTags
                                 THEN Append(dcontext.carriers, [tag |-> D!Entry.tag, index |-> dindex])
                                 ELSE dcontext.carriers
        BY <1>2, ContextEffects
      <3>2. dcontext.carriers \in Seq(CarrierRecord) /\ Len(dcontext.carriers) <= DynamicCarrierMax
        BY <1>2 DEF Shapes, Context, InBounds, Bounded
      <3>3. Len(dcontext'.carriers) = IF D!Entry.tag \in D!CarrierTags THEN Len(dcontext.carriers) + 1
                                      ELSE Len(dcontext.carriers)
        BY <3>1, <3>2
      <3>4. D!Entry.tag \in D!CarrierTags => ~(Len(dcontext.carriers) >= DynamicCarrierMax)
        BY <1>6 DEF D!CarrierTableFull
      <3>5. Len(dcontext.carriers) \in Nat
        BY <3>2
      <3> QED BY <3>2, <3>3, <3>4, <3>5, LimitsTypedD
    <2> QED BY <1>2, <1>5, <1>6, <1>8, <2>1 DEF InBounds, Bounded, D!Count
  <1>12. FirstOnly'
    BY <1>4, <1>7, <1>8 DEF FirstOnly, Untouched
  <1>13. Admitted'
    BY <1>4, <1>6 DEF Admitted, D!Count
  <1>14. CASE D!Entry.tag = "NULL"
    <2>1. D!Read(dtarget) = 1 .. n + 1
      <3>1. n + 1 \in 0 .. D!Count /\ \A i \in 1 .. n + 1 : i < n + 1 => dtarget.table[i].tag # "NULL"
        BY <1>5
      <3>2. n + 1 > 0 /\ dtarget.table[n + 1].tag = "NULL"
        BY <1>5, <1>14
      <3> QED BY <1>5, <3>1, <3>2, ReadWhole
    <2>2. Passed'
      <3>1. FirstTrue(dsummary.entryCount)'
        BY <1>6, <1>9
      <3>2. dsummary'.entryCount \in 0 .. D!Count
        BY <1>5, <1>6
      <3> QED BY <1>6, <1>10, <2>1, <3>1, <3>2 DEF Passed, D!Count
    <2> QED BY <1>2, <1>6, <1>10, <1>11, <1>12, <1>13, <1>14, <2>2
            DEF DInv, Going, AtTable, AtFinalize, AtResolve, AtCanary, AtRole, AtEnd, Steps
  <1>15. CASE D!Entry.tag # "NULL"
    <2>1. Entering(dsummary.entryCount)'
      <3>1. FirstTrue(dsummary.entryCount)'
        BY <1>6, <1>9
      <3>2. dsummary'.entryCount \in 0 .. D!Count /\ dsummary'.entryCount = dindex'
        BY <1>5, <1>6, <1>15
      <3>3. \A i \in 1 .. n + 1 : dtarget.table[i].tag # "NULL"
        BY <1>5, <1>15
      <3> QED BY <1>6, <1>10, <3>1, <3>2, <3>3 DEF Entering, D!Count
    <2> QED BY <1>2, <1>6, <1>10, <1>11, <1>12, <1>13, <1>15, <2>1
            DEF DInv, Going, AtTable, AtFinalize, AtResolve, AtCanary, AtRole, AtEnd, Steps
  <1> QED BY <1>14, <1>15

LEMMA TableEndsStep ==
    ASSUME DInv, D!TableEnds
    PROVE  DInv'
  <1>1. /\ dpc = "entry" /\ dpc' = "finalize" /\ dindex >= D!Count
        /\ dtarget' = dtarget /\ dindex' = dindex /\ dstrings' = dstrings
        /\ dsummary' = dsummary /\ dcontext' = dcontext /\ dstatus' = dstatus
    BY DEF D!TableEnds
  <1>2. dstatus = D!EXIT_OK /\ Going /\ Shapes /\ InBounds
    BY <1>1, WhileRunning
  <1>3. Shapes' /\ InBounds'
    BY <1>1, <1>2 DEF Shapes, InBounds, Bounded, D!Count
  <1>4. Entering(dsummary.entryCount) /\ FirstOnly /\ Admitted
    BY <1>1, <1>2 DEF Going, AtTable
  <1>5. Passed
    <2>1. dsummary.entryCount = D!Count /\ D!Count \in Nat /\ dsummary.entryCount \in 0 .. D!Count
      BY <1>1, <1>2, <1>4, TargetTyped DEF Entering, Shapes
    <2>2. D!Read(dtarget) = 1 .. dsummary.entryCount
      BY <1>2, <1>4, <2>1, ReadWhole DEF Entering, Shapes
    <2> QED BY <1>2, <1>4, <2>1, <2>2 DEF Passed, Entering
  <1>6. Passed'
    BY <1>1, <1>3, <1>5, PassedSame
  <1>7. FirstOnly' /\ Admitted'
    BY <1>1, <1>4 DEF FirstOnly, Untouched, Admitted, D!Count
  <1> QED BY <1>1, <1>2, <1>3, <1>6, <1>7
          DEF DInv, Going, AtTable, AtFinalize, AtResolve, AtCanary, AtRole, AtEnd, Steps

\* The conclusions before the strings are read and after it.
LEMMA FinalizedIs ==
    ASSUME Shapes
    PROVE  LET complete == dtarget.dynamic /\ dsummary.nullSeen
           IN /\ D!Finalized \in Context
              /\ D!Finalized.complete = complete
              /\ D!Finalized.textrelConflict = D!TextrelConflict
              /\ D!Finalized.textrel = IF complete THEN D!TextrelState ELSE "unknown"
              /\ \A f \in D!Families :
                    D!Finalized.search[f] = IF complete THEN D!SearchState(dcontext.paths[f]) ELSE "unknown"
              /\ D!Finalized.carriers = dcontext.carriers /\ D!Finalized.textrels = dcontext.textrels
              /\ D!Finalized.flagsCount = dcontext.flagsCount /\ D!Finalized.flagsFirst = dcontext.flagsFirst
              /\ D!Finalized.flagsOr = dcontext.flagsOr /\ D!Finalized.flagsAnd = dcontext.flagsAnd
              /\ D!Finalized.flagsConflicts = dcontext.flagsConflicts
              /\ D!Finalized.records = dcontext.records /\ D!Finalized.pool = dcontext.pool
              /\ D!Finalized.paths = dcontext.paths
  <1> DEFINE complete == dtarget.dynamic /\ dsummary.nullSeen
             textrel == IF complete THEN D!TextrelState ELSE "unknown"
             search == [f \in D!Families |-> IF complete THEN D!SearchState(dcontext.paths[f]) ELSE "unknown"]
  <1>1. dcontext \in Context /\ complete \in BOOLEAN /\ D!TextrelConflict \in BOOLEAN
    BY DEF Shapes, D!TextrelConflict
  <1>2. textrel \in D!States
    BY DEF D!TextrelState, D!States
  <1>3. \A path : D!SearchState(path) \in D!States
    BY DEF D!SearchState, D!States
  <1>4. search \in [D!Families -> D!States]
    BY <1>3 DEF D!States
  <1>5. D!Finalized = [dcontext EXCEPT !.complete = complete, !.textrelConflict = D!TextrelConflict,
                                       !.textrel = textrel, !.search = search]
    BY DEF D!Finalized
  <1>6. \A f \in D!Families : search[f] = IF complete THEN D!SearchState(dcontext.paths[f]) ELSE "unknown"
    OBVIOUS
  <1> DEFINE conflict == D!TextrelConflict
  <1>7. D!Finalized = [dcontext EXCEPT !.complete = complete, !.textrelConflict = conflict,
                                       !.textrel = textrel, !.search = search]
        /\ conflict \in BOOLEAN
    BY <1>1, <1>5
  <1> DEFINE d1 == [dcontext EXCEPT !.complete = complete]
             d2 == [d1 EXCEPT !.textrelConflict = conflict]
             d3 == [d2 EXCEPT !.textrel = textrel]
             d4 == [d3 EXCEPT !.search = search]
  <1> HIDE DEF complete, textrel, search, conflict
  <1>8. d1 \in Context
    BY <1>1, ContextUpdate
  <1>9. d2 \in Context
    BY <1>7, <1>8, ContextUpdate
  <1>10. d3 \in Context
    BY <1>2, <1>9, ContextUpdate
  <1>11. d4 \in Context
    BY <1>4, <1>10, ContextUpdate
  <1>12. D!Finalized = d4
    BY <1>7
  <1>13. /\ D!Finalized.complete = complete /\ D!Finalized.textrelConflict = conflict
         /\ D!Finalized.textrel = textrel /\ D!Finalized.search = search
    BY <1>1, <1>7 DEF Context
  <1>14. /\ D!Finalized.carriers = dcontext.carriers /\ D!Finalized.textrels = dcontext.textrels
         /\ D!Finalized.flagsCount = dcontext.flagsCount /\ D!Finalized.flagsFirst = dcontext.flagsFirst
         /\ D!Finalized.flagsOr = dcontext.flagsOr /\ D!Finalized.flagsAnd = dcontext.flagsAnd
         /\ D!Finalized.flagsConflicts = dcontext.flagsConflicts
         /\ D!Finalized.records = dcontext.records /\ D!Finalized.pool = dcontext.pool
         /\ D!Finalized.paths = dcontext.paths
    BY <1>1, <1>7 DEF Context
  <1> QED BY <1>6, <1>11, <1>12, <1>13, <1>14 DEF complete, textrel, conflict

LEMMA FinalizeStep ==
    ASSUME DInv, D!Finalize
    PROVE  DInv'
  <1>1. /\ dpc \in {"finalize", "refinalize"} /\ dcontext' = D!Finalized
        /\ dpc' = IF dpc = "finalize" THEN "strings" ELSE "role"
        /\ dtarget' = dtarget /\ dindex' = dindex /\ dstrings' = dstrings
        /\ dsummary' = dsummary /\ dstatus' = dstatus
    BY DEF D!Finalize
  <1>2. dstatus = D!EXIT_OK /\ Going /\ Shapes /\ InBounds
    BY <1>1, WhileRunning
  <1>3. /\ dcontext' \in Context
        /\ dcontext'.complete = (dtarget.dynamic /\ dsummary.nullSeen)
        /\ dcontext'.textrelConflict = D!TextrelConflict
        /\ dcontext'.textrel = IF dtarget.dynamic /\ dsummary.nullSeen THEN D!TextrelState ELSE "unknown"
        /\ \A f \in D!Families : dcontext'.search[f] =
              IF dtarget.dynamic /\ dsummary.nullSeen THEN D!SearchState(dcontext.paths[f]) ELSE "unknown"
    BY <1>1, <1>2, FinalizedIs
  <1>4. /\ dcontext'.carriers = dcontext.carriers /\ dcontext'.textrels = dcontext.textrels
        /\ dcontext'.flagsCount = dcontext.flagsCount /\ dcontext'.flagsFirst = dcontext.flagsFirst
        /\ dcontext'.flagsOr = dcontext.flagsOr /\ dcontext'.flagsAnd = dcontext.flagsAnd
        /\ dcontext'.flagsConflicts = dcontext.flagsConflicts
        /\ dcontext'.records = dcontext.records /\ dcontext'.pool = dcontext.pool
        /\ dcontext'.paths = dcontext.paths
    BY <1>1, <1>2, FinalizedIs
  <1>5. Shapes' /\ InBounds'
    BY <1>1, <1>2, <1>3, <1>4 DEF Shapes, InBounds, Bounded, D!Count
  <1>6. Passed
    BY <1>1, <1>2 DEF Going, AtFinalize, AtRole
  <1>7. Passed'
    BY <1>1, <1>4, <1>5, <1>6, PassedSame
  <1>8. dcontext'.complete = D!Terminated(dtarget)
    BY <1>3, <1>6, NullIsTerminator
  <1>9. Completed'
    BY <1>1, <1>8 DEF Completed
  <1>10. Admitted'
    BY <1>1, <1>2 DEF Admitted, Going, D!Count
  <1>11. CASE dpc = "finalize"
    <2>1. FirstOnly'
      BY <1>1, <1>2, <1>4, <1>11 DEF Going, AtFinalize, FirstOnly, Untouched
    <2> QED BY <1>1, <1>2, <1>5, <1>7, <1>9, <1>10, <1>11, <2>1
            DEF DInv, Going, AtTable, AtFinalize, AtResolve, AtCanary, AtRole, AtEnd, Steps
  <1>12. CASE dpc = "refinalize"
    <2>1. Settled /\ Classifiable /\ dsummary.canary = D!CanaryEvidence(dtarget) /\ Completed
      BY <1>2, <1>12 DEF Going, AtRole
    <2>2. dcontext'.complete = dcontext.complete
      BY <1>8, <2>1 DEF Completed
    <2>3. Settled'
      <3>1. PICK n : n = dsummary.entryCount
        OBVIOUS
      <3>2. Resolved(n)
        BY <2>1, <3>1 DEF Settled
      <3>3. Resolved(n)'
        BY <1>1, <1>4, <2>2, <3>2, ResolvedSame
      <3>4. Resolved(dsummary.entryCount)'
        BY <1>1, <3>1, <3>3
      <3>5. IF D!TableNamed' THEN Found' ELSE ~D!NeedsStrings'
        BY <1>1, <1>4, <2>1 DEF Settled, D!TableNamed, Found, D!Strsz, D!NeedsStrings
      <3> QED BY <3>4, <3>5 DEF Settled
    <2>4. Concluded'
      <3>1. dcontext'.textrelConflict = (Cardinality(D!TextrelBits(dtarget)) > 1)
        <4>1. D!TextrelConflict <=> Cardinality(D!TextrelBits(dtarget)) > 1
          BY <1>6, TextrelConflictIs
        <4>2. D!TextrelConflict \in BOOLEAN /\ (Cardinality(D!TextrelBits(dtarget)) > 1) \in BOOLEAN
          BY DEF D!TextrelConflict
        <4>3. D!TextrelConflict = (Cardinality(D!TextrelBits(dtarget)) > 1)
          BY <4>1, <4>2
        <4> QED BY <1>3, <4>3
      <3>2. dcontext'.textrel = D!TextrelEvidence(dtarget)
        <4>1. CASE D!Terminated(dtarget)
          <5>1. D!TextrelState = D!TextrelEvidence(dtarget)
            BY <1>6, <4>1, TextrelIs
          <5> QED BY <1>3, <1>8, <4>1, <5>1
        <4>2. CASE ~D!Terminated(dtarget)
          <5>1. D!TextrelEvidence(dtarget) = "unknown"
            BY <4>2 DEF D!TextrelEvidence
          <5> QED BY <1>3, <1>8, <4>2, <5>1
        <4> QED BY <4>1, <4>2
      <3>3. ASSUME NEW f \in D!Families PROVE dcontext'.search[f] = D!SearchEvidence(dtarget, f)
        <4>1. CASE D!Terminated(dtarget)
          <5>1. dcontext.complete
            BY <2>1, <4>1 DEF Completed
          <5>2. D!SearchState(dcontext.paths[f]) = D!SearchEvidence(dtarget, f)
            BY <1>6, <2>1, <4>1, <5>1, SearchIs
          <5> QED BY <1>3, <1>8, <4>1, <5>2
        <4>2. CASE ~D!Terminated(dtarget)
          <5>1. D!SearchEvidence(dtarget, f) = "unknown"
            BY <4>2 DEF D!SearchEvidence
          <5> QED BY <1>3, <1>8, <4>2, <5>1
        <4> QED BY <4>1, <4>2
      <3> QED BY <1>1, <1>8, <3>1, <3>2, <3>3 DEF Concluded
    <2>5. Classifiable' /\ dsummary'.canary = D!CanaryEvidence(dtarget')
      BY <1>1, <2>1 DEF Classifiable
    <2> QED BY <1>1, <1>2, <1>5, <1>7, <1>9, <1>10, <1>12, <2>3, <2>4, <2>5
            DEF DInv, Going, AtTable, AtFinalize, AtResolve, AtCanary, AtRole, AtEnd, Steps
  <1> QED BY <1>1, <1>11, <1>12

\* The string table.
LEMMA NotNeededStep ==
    ASSUME DInv, D!StringsNotNeeded
    PROVE  DInv'
  <1>1. /\ dpc = "strings" /\ dpc' = "refinalize" /\ ~D!TableNamed /\ ~D!NeedsStrings
        /\ dtarget' = dtarget /\ dindex' = dindex /\ dstrings' = dstrings
        /\ dsummary' = dsummary /\ dcontext' = dcontext /\ dstatus' = dstatus
    BY DEF D!StringsNotNeeded
  <1>2. dstatus = D!EXIT_OK /\ Going /\ Shapes /\ InBounds
    BY <1>1, WhileRunning
  <1>3. Shapes' /\ InBounds'
    BY <1>1, <1>2 DEF Shapes, InBounds, Bounded, D!Count
  <1>4. Passed /\ FirstOnly /\ Admitted /\ Completed
    BY <1>1, <1>2 DEF Going, AtFinalize
  <1>5. Passed'
    BY <1>1, <1>3, <1>4, PassedSame
  <1>6. PICK n : n = dsummary.entryCount
    OBVIOUS
  <1>7. n \in Nat /\ n \in 0 .. D!Count /\ dsummary.sonameCount = 0
    BY <1>1, <1>4, <1>6 DEF Passed, Shapes, Summary, D!NeedsStrings
  <1>8. Meeting(n, {"SONAME"}) = {} /\ Meeting(n, D!Families) = {}
    <2>1. Cardinality(Meeting(n, {"SONAME"})) = 0
      BY <1>4, <1>6, <1>7 DEF Passed, FirstTrue, SonameTrue
    <2>2. \A f \in D!Families : Meeting(n, {f}) = {}
      BY <1>1, <1>4, <1>6 DEF Passed, FirstTrue, PathsTrue, D!NeedsStrings
    <2>3. Meeting(n, D!Families) = {}
      BY <2>2 DEF Meeting
    <2> QED BY <1>7, <2>1, <2>3, MetFinite, FS_EmptySet
  <1>9. Resolved(n)
    BY <1>2, <1>4, <1>7, <1>8, NothingToResolve DEF FirstOnly
  <1>10. Settled'
    <2>1. Resolved(n)'
      BY <1>1, <1>9, ResolvedSame
    <2>2. Resolved(dsummary.entryCount)'
      BY <1>1, <1>6, <2>1
    <2>3. ~D!TableNamed' /\ ~D!NeedsStrings'
      BY <1>1 DEF D!TableNamed, D!NeedsStrings
    <2> QED BY <2>2, <2>3 DEF Settled
  <1>11. Classifiable'
    BY <1>1, <1>4, <1>7 DEF Classifiable, FirstOnly
  <1>12. dsummary'.canary = D!CanaryEvidence(dtarget')
    <2>1. ~D!StringTableNamed(dtarget)
      BY <1>1, <1>4, TableIs DEF Passed, FirstTrue
    <2> QED BY <1>1, <1>4, <2>1 DEF D!CanaryEvidence, FirstOnly
  <1>13. Admitted' /\ Completed'
    BY <1>1, <1>4 DEF Admitted, Completed, D!Count
  <1> QED BY <1>1, <1>2, <1>3, <1>5, <1>10, <1>11, <1>12, <1>13
          DEF DInv, Going, AtTable, AtFinalize, AtResolve, AtCanary, AtRole, AtEnd, Steps

LEMMA MappedStep ==
    ASSUME DInv, D!StringsMapped
    PROVE  DInv'
  <1>1. /\ dpc = "strings" /\ dpc' = "resolve" /\ D!TableNamed /\ D!Strsz <= DynamicStringMax /\ D!StringLoads # {}
        /\ dsummary' = [dsummary EXCEPT !.canary = "absent"]
        /\ dstrings' = Base /\ dindex' = 0
        /\ dtarget' = dtarget /\ dcontext' = dcontext /\ dstatus' = dstatus
    BY DEF D!StringsMapped, Base
  <1>2. dstatus = D!EXIT_OK /\ Going /\ Shapes /\ InBounds
    BY <1>1, WhileRunning
  <1>3. Passed /\ FirstOnly /\ Admitted /\ Completed
    BY <1>1, <1>2 DEF Going, AtFinalize
  <1>4. /\ Base \in Nat /\ Base + D!Strsz <= Len(dtarget.file) /\ D!Strsz \in Nat /\ Len(dtarget.file) \in Nat
        /\ D!StringTables(dtarget) = {SubSeq(dtarget.file, Base + 1, Base + D!Strsz)}
    BY <1>1, <1>2, <1>3, TableFound, TableIs, TargetTyped DEF Passed, FirstTrue, Shapes
  <1>5. /\ dsummary' \in Summary /\ dsummary'.canary = "absent"
        /\ dsummary'.entryCount = dsummary.entryCount /\ dsummary'.nullSeen = dsummary.nullSeen
        /\ dsummary'.bindNow = dsummary.bindNow /\ dsummary'.strtab = dsummary.strtab
        /\ dsummary'.strsz = dsummary.strsz /\ dsummary'.flags1 = dsummary.flags1
        /\ dsummary'.flags1Count = dsummary.flags1Count /\ dsummary'.soname = dsummary.soname
        /\ dsummary'.sonameCount = dsummary.sonameCount /\ dsummary'.evidence = dsummary.evidence
    BY <1>1, <1>2 DEF Shapes, Summary, D!States
  <1>6. D!Count \in Nat
    BY <1>2, TargetTyped DEF Shapes
  <1>7. Shapes' /\ InBounds'
    BY <1>1, <1>2, <1>4, <1>5, <1>6 DEF Shapes, InBounds, Bounded, D!Count
  <1>8. /\ Passed' /\ FirstTrue(dsummary.entryCount)'
        /\ D!Read(dtarget)' = 1 .. dsummary'.entryCount /\ dsummary'.entryCount \in (0 .. D!Count)'
    BY <1>1, <1>3, <1>5, <1>7, PassedSame
  <1>9. Found'
    BY <1>1, <1>4, <1>5 DEF Found, D!TableNamed, D!Strsz
  <1>10. Resolving(dindex)'
    BY <1>1, <1>6, <1>7, <1>8, <1>9 DEF Resolving, D!Count
  <1>11. Resolved(dindex)'
    <2>1. Meeting(0, {"SONAME"}) = {} /\ Meeting(0, D!Families) = {}
      BY DEF Meeting
    <2>2. 0 \in 0 .. D!Count
      BY <1>6
    <2>3. Resolved(0)
      BY <1>2, <1>3, <2>1, <2>2, NothingToResolve DEF FirstOnly
    <2>4. Resolved(0)'
      BY <1>1, <2>3, ResolvedSame
    <2> QED BY <1>1, <2>4
  <1>12. Admitted' /\ Completed'
    BY <1>1, <1>3 DEF Admitted, Completed, D!Count
  <1>13. dsummary'.evidence \subseteq {"CONFLICT_FLAGS1", "CONFLICT_SONAME"}
    BY <1>3, <1>5 DEF FirstOnly
  <1> QED BY <1>1, <1>2, <1>5, <1>7, <1>10, <1>11, <1>12, <1>13
          DEF DInv, Going, AtTable, AtFinalize, AtResolve, AtCanary, AtRole, AtEnd, Steps

\* The second pass.
LEMMA ResolvingNext ==
    ASSUME NEW n, Resolving(n), dindex < D!Count, D!Entry.tag # "NULL", Shapes', dtarget' = dtarget,
           dstrings' = dstrings, dsummary' = dsummary, dindex' = dindex + 1,
           dcontext'.carriers = dcontext.carriers, dcontext'.textrels = dcontext.textrels,
           dcontext'.flagsCount = dcontext.flagsCount, dcontext'.flagsFirst = dcontext.flagsFirst,
           dcontext'.flagsOr = dcontext.flagsOr, dcontext'.flagsAnd = dcontext.flagsAnd,
           dcontext'.flagsConflicts = dcontext.flagsConflicts,
           \A f \in D!Families : dcontext'.paths[f].carriers = dcontext.paths[f].carriers
    PROVE  Resolving(n + 1)'
  <1>1. n + 1 \in 1 .. D!Count /\ D!Entry = dtarget.table[n + 1] /\ n \in Nat /\ n = dindex /\ D!Count \in Nat
    BY ResolvingAt, TargetTyped DEF Resolving, Shapes
  <1>2. Passed
    BY DEF Resolving, Passed
  <1>3. /\ FirstTrue(dsummary.entryCount)' /\ D!Read(dtarget)' = 1 .. dsummary'.entryCount
        /\ dsummary'.entryCount \in (0 .. D!Count)'
    BY <1>2, PassedSame
  <1>4. Found'
    BY DEF Resolving, Found, D!TableNamed, D!Strsz
  <1>5. \A i \in 1 .. n + 1 : dtarget.table[i].tag # "NULL"
    BY <1>1 DEF Resolving
  <1>6. n + 1 \in 0 .. D!Count /\ n + 1 = dindex'
    BY <1>1
  <1> QED BY <1>3, <1>4, <1>5, <1>6 DEF Resolving, D!Count

\* The step of an entry that leaves no value behind.
PassesEntry ==
    \/ D!SonameResolved \/ D!SearchPathUnread \/ D!EntryWithoutString

LEMMA PassesSteps ==
    ASSUME DInv, PassesEntry
    PROVE  DInv'
  <1>1. /\ dpc = "resolve" /\ dpc' = dpc /\ dindex < D!Count /\ dindex' = dindex + 1
        /\ dtarget' = dtarget /\ dstrings' = dstrings /\ dsummary' = dsummary
        /\ dcontext' = dcontext /\ dstatus' = dstatus
        /\ D!Entry.tag # "NULL"
        /\ D!Entry.tag \in D!Families => ~dcontext.complete
        /\ D!Entry.tag = "SONAME" => D!AtString({"SONAME"}) /\ D!SonameValid
    BY DEF PassesEntry, D!SonameResolved, D!SearchPathUnread, D!EntryWithoutString, D!AtString,
       D!NextString, D!Families
  <1>2. dstatus = D!EXIT_OK /\ Going /\ Shapes /\ InBounds
    BY <1>1, WhileRunning
  <1>3. PICK n : n = dindex
    OBVIOUS
  <1>4. Resolving(n) /\ Resolved(n) /\ dsummary.canary = "absent" /\ Admitted /\ Completed
        /\ dsummary.evidence \subseteq {"CONFLICT_FLAGS1", "CONFLICT_SONAME"}
    BY <1>1, <1>2, <1>3 DEF Going, AtResolve
  <1>5. n + 1 \in 1 .. D!Count /\ n \in Nat /\ D!Count \in Nat
    BY <1>1, <1>4, ResolvingAt, TargetTyped DEF Resolving, Shapes
  <1>6. Shapes' /\ InBounds'
    BY <1>1, <1>2, <1>3, <1>5 DEF Shapes, InBounds, Bounded, D!Count
  <1>7. Resolving(n + 1)'
    BY <1>1, <1>4, <1>6, ResolvingNext
  <1>8. Resolved(n + 1)'
    <2>1. D!Entry.tag = "SONAME" => \E text \in TextsAt(n + 1) : text # <<>>
      BY <1>1, <1>4, SonameText
    <2> QED BY <1>1, <1>4, <2>1, NothingKept
  <1>9. Resolving(dindex)' /\ Resolved(dindex)'
    BY <1>1, <1>3, <1>7, <1>8
  <1>10. Admitted' /\ Completed'
    BY <1>1, <1>4 DEF Admitted, Completed, D!Count
  <1> QED BY <1>1, <1>2, <1>4, <1>6, <1>9, <1>10
          DEF DInv, Going, AtTable, AtFinalize, AtResolve, AtCanary, AtRole, AtEnd, Steps

LEMMA SearchPathStep ==
    ASSUME DInv, D!SearchPathResolved
    PROVE  DInv'
  <1>1. dpc = "resolve"
    BY DEF D!SearchPathResolved, D!AtString
  <1>2. dstatus = D!EXIT_OK /\ Going /\ Shapes /\ InBounds
    BY <1>1, WhileRunning
  <1>3. PICK n : n = dindex
    OBVIOUS
  <1>4. Resolving(n) /\ Resolved(n) /\ dsummary.canary = "absent" /\ Admitted /\ Completed
        /\ dsummary.evidence \subseteq {"CONFLICT_FLAGS1", "CONFLICT_SONAME"}
    BY <1>1, <1>2, <1>3 DEF Going, AtResolve
  <1>5. /\ dindex < D!Count /\ D!Entry.tag \in D!Families /\ Value \in Seq(D!Byte)
        /\ Len(dcontext.pool) + Len(Value) <= SearchBytes
        /\ Len(dcontext.records) < SearchRecords
    BY <1>4, ValueRead
  <1>6. /\ dtarget' = dtarget /\ dindex' = dindex + 1 /\ dpc' = dpc /\ dstrings' = dstrings
        /\ dsummary' = dsummary /\ dstatus' = dstatus
        /\ dcontext' \in Context
        /\ dcontext'.pool = dcontext.pool \o Value
        /\ dcontext'.paths = [dcontext.paths EXCEPT ![D!Entry.tag] = NewPath]
        /\ dcontext'.carriers = dcontext.carriers /\ dcontext'.textrels = dcontext.textrels
        /\ dcontext'.flagsCount = dcontext.flagsCount /\ dcontext'.flagsFirst = dcontext.flagsFirst
        /\ dcontext'.flagsOr = dcontext.flagsOr /\ dcontext'.flagsAnd = dcontext.flagsAnd
        /\ dcontext'.flagsConflicts = dcontext.flagsConflicts
        /\ dcontext'.complete = dcontext.complete
    BY <1>4, ValueEffects
  <1>7. n + 1 \in 1 .. D!Count /\ n \in Nat /\ D!Count \in Nat
    BY <1>4, <1>5, ResolvingAt, TargetTyped DEF Resolving, Shapes
  <1>8. Shapes'
    BY <1>2, <1>3, <1>6, <1>7 DEF Shapes, D!Count
  <1>9. InBounds'
    <2>1. Len(dcontext'.records) = Len(dcontext.records) + 1 /\ Len(dcontext.records) \in Nat
      BY <1>4, ValuesStay
    <2>2. Len(dcontext'.pool) = Len(dcontext.pool) + Len(Value)
      <3>1. dcontext.pool \in Seq(D!Byte)
        BY <1>2 DEF Shapes, Context
      <3> QED BY <1>5, <1>6, <3>1, PoolGrows
    <2> QED BY <1>2, <1>5, <1>6, <2>1, <2>2, LimitsTypedD DEF InBounds, Bounded, D!Count
  <1>10. \A f \in D!Families : dcontext'.paths[f].carriers = dcontext.paths[f].carriers
    <2>1. dcontext.paths \in [D!Families -> D!Search]
      BY <1>2 DEF Shapes, Context
    <2>2. NewPath.carriers = dcontext.paths[D!Entry.tag].carriers
      <3>1. dcontext.paths[D!Entry.tag] \in D!Search
        BY <1>5, <2>1
      <3> QED BY <3>1 DEF NewPath, D!Search
    <2> QED BY <1>5, <1>6, <2>1, <2>2
  <1>11. D!Entry.tag # "NULL"
    BY <1>5 DEF D!Families
  <1>12. Resolving(n + 1)'
    BY <1>4, <1>5, <1>6, <1>8, <1>10, <1>11, ResolvingNext
  <1>13. Resolved(n + 1)'
    BY <1>4, ValueResolved
  <1>14. Resolving(dindex)' /\ Resolved(dindex)'
    BY <1>3, <1>6, <1>12, <1>13
  <1>15. Admitted' /\ Completed'
    BY <1>4, <1>6 DEF Admitted, Completed, D!Count
  <1> QED BY <1>1, <1>2, <1>4, <1>6, <1>8, <1>9, <1>14, <1>15
          DEF DInv, Going, AtTable, AtFinalize, AtResolve, AtCanary, AtRole, AtEnd, Steps

LEMMA StringsResolvedStep ==
    ASSUME DInv, D!StringsResolved
    PROVE  DInv'
  <1> DEFINE found == IF dsummary.sonameCount # 0 THEN dsummary.evidence \cup {"DT_SONAME"}
                      ELSE dsummary.evidence
  <1>1. /\ dpc = "resolve" /\ dpc' = "canary" /\ (dindex < D!Count => D!Entry.tag = "NULL")
        /\ dsummary' = [dsummary EXCEPT !.evidence = found]
        /\ dtarget' = dtarget /\ dindex' = dindex /\ dstrings' = dstrings
        /\ dcontext' = dcontext /\ dstatus' = dstatus
    BY DEF D!StringsResolved
  <1>2. dstatus = D!EXIT_OK /\ Going /\ Shapes /\ InBounds
    BY <1>1, WhileRunning
  <1>3. PICK n : n = dindex
    OBVIOUS
  <1>4. Resolving(n) /\ Resolved(n) /\ dsummary.canary = "absent" /\ Admitted /\ Completed
        /\ dsummary.evidence \subseteq {"CONFLICT_FLAGS1", "CONFLICT_SONAME"}
    BY <1>1, <1>2, <1>3 DEF Going, AtResolve
  <1>5. /\ n \in 0 .. D!Count /\ D!Count \in Nat /\ n \in Nat /\ D!Read(dtarget) = 1 .. dsummary.entryCount
        /\ \A i \in 1 .. n : dtarget.table[i].tag # "NULL"
        /\ dsummary.entryCount \in Nat /\ dtarget \in DynamicTargets
    <2>1. dsummary.entryCount \in Nat /\ dtarget \in DynamicTargets /\ D!Count \in Nat
      BY <1>2, TargetTyped DEF Shapes, Summary
    <2>2. n \in 0 .. D!Count /\ D!Read(dtarget) = 1 .. dsummary.entryCount
      BY <1>4 DEF Resolving
    <2>3. \A i \in 1 .. n : dtarget.table[i].tag # "NULL"
      BY <1>4 DEF Resolving
    <2> QED BY <2>1, <2>2, <2>3
  <1>6. Resolved(dsummary.entryCount)
    <2>1. CASE dindex < D!Count
      <3>1. D!Entry = dtarget.table[n + 1] /\ n + 1 \in 1 .. D!Count /\ D!Entry.tag = "NULL"
        BY <1>1, <1>4, <2>1, ResolvingAt
      <3>2. D!Read(dtarget) = 1 .. n + 1
        <4>1. n + 1 \in 0 .. D!Count /\ n + 1 > 0 /\ dtarget.table[n + 1].tag = "NULL"
          BY <1>5, <3>1
        <4>2. \A i \in 1 .. n + 1 : i < n + 1 => dtarget.table[i].tag # "NULL"
          BY <1>5
        <4> QED BY <1>5, <4>1, <4>2, ReadWhole
      <3>3. dsummary.entryCount = n + 1
        BY <1>5, <3>2
      <3>4. Meeting(n + 1, {"SONAME"}) = Meeting(n, {"SONAME"}) /\ \A tags : "NULL" \notin tags => Kept(n + 1, tags) = Kept(n, tags)
        BY <1>5, <3>1, MetNext DEF Kept
      <3>5. Kept(n + 1, D!Families) = Kept(n, D!Families) /\ \A f \in D!Families : Kept(n + 1, {f}) = Kept(n, {f})
        BY <3>4 DEF D!Families
      <3>6. TextsTrue(n + 1) /\ RecordsTrue(n + 1) /\ SearchTrue(n + 1)
        BY <1>4, <3>4, <3>5 DEF Resolved, TextsTrue, RecordsTrue, SearchTrue
      <3>7. PoolTrue(n + 1)
        <4> SUFFICES ASSUME dcontext.complete
                     PROVE  D!Totals(D!ValueLengths(dtarget))[n + 1] = D!Totals(D!ValueLengths(dtarget))[n]
          BY <1>4 DEF Resolved, PoolTrue
        <4>1. DOMAIN D!ValueLengths(dtarget) = 1 .. D!Count
          BY <1>5, TargetTyped DEF D!ValueLengths
        <4>2. D!ValueLengths(dtarget)[n + 1] = 0
          <5>1. n + 1 \notin D!Tagged(dtarget, D!Families)
            BY <3>1 DEF D!Tagged, D!Families
          <5> QED BY <3>1, <4>1, <5>1 DEF D!ValueLengths
        <4>3. D!Totals(D!ValueLengths(dtarget))[n + 1]
                 = D!Totals(D!ValueLengths(dtarget))[(n + 1) - 1] + D!ValueLengths(dtarget)[n + 1]
          BY <1>5, <3>1, <4>1, TotalsAre
        <4>4. D!Totals(D!ValueLengths(dtarget))[n] \in Nat
          <5>1. Len(dcontext.pool) \in Nat
            BY <1>2 DEF Shapes, Context
          <5> QED BY <1>4, <5>1 DEF Resolved, PoolTrue
        <4>5. (n + 1) - 1 = n
          BY <1>5
        <4> QED BY <4>2, <4>3, <4>4, <4>5
      <3> QED BY <3>3, <3>6, <3>7 DEF Resolved
    <2>2. CASE ~(dindex < D!Count)
      <3>1. n = D!Count
        BY <1>3, <1>5, <2>2
      <3>2. D!Read(dtarget) = 1 .. n
        BY <1>5, <3>1, ReadWhole
      <3>3. dsummary.entryCount = n
        BY <1>5, <3>2
      <3> QED BY <1>4, <3>3
    <2> QED BY <2>1, <2>2
  <1>7. found \in SUBSET Facets
    BY <1>4 DEF Facets
  <1>8. /\ dsummary' \in Summary /\ dsummary'.canary = "absent" /\ dsummary'.evidence = found
        /\ dsummary'.entryCount = dsummary.entryCount /\ dsummary'.nullSeen = dsummary.nullSeen
        /\ dsummary'.bindNow = dsummary.bindNow /\ dsummary'.strtab = dsummary.strtab
        /\ dsummary'.strsz = dsummary.strsz /\ dsummary'.flags1 = dsummary.flags1
        /\ dsummary'.flags1Count = dsummary.flags1Count /\ dsummary'.soname = dsummary.soname
        /\ dsummary'.sonameCount = dsummary.sonameCount
    <2> HIDE DEF found
    <2> QED BY <1>1, <1>2, <1>4, <1>7 DEF Shapes, Summary
  <1>9. /\ \A c \in {"CONFLICT_FLAGS1", "CONFLICT_SONAME"} : c \in dsummary'.evidence <=> c \in dsummary.evidence
        /\ Classifiable'
    BY <1>4, <1>8 DEF Classifiable
  <1>10. Shapes' /\ InBounds'
    BY <1>1, <1>2, <1>8 DEF Shapes, InBounds, Bounded, D!Count
  <1>11. Passed
    BY <1>4 DEF Resolving, Passed
  <1>12. Passed'
    BY <1>1, <1>8, <1>9, <1>10, <1>11, PassedSame
  <1>13. Found'
    BY <1>1, <1>4, <1>8 DEF Resolving, Found, D!TableNamed, D!Strsz
  <1>14. Settled'
    <2>1. PICK m : m = dsummary.entryCount
      OBVIOUS
    <2>2. Resolved(m)'
      BY <1>1, <1>6, <2>1, ResolvedSame
    <2>3. Resolved(dsummary.entryCount)'
      BY <1>8, <2>1, <2>2
    <2>4. D!TableNamed'
      BY <1>13 DEF Found
    <2> QED BY <1>13, <2>3, <2>4 DEF Settled
  <1>15. Admitted' /\ Completed'
    BY <1>1, <1>4 DEF Admitted, Completed, D!Count
  <1> QED BY <1>1, <1>2, <1>8, <1>9, <1>10, <1>12, <1>13, <1>14, <1>15
          DEF DInv, Going, AtTable, AtFinalize, AtResolve, AtCanary, AtRole, AtEnd, Steps

LEMMA CanaryStep ==
    ASSUME DInv, D!CanaryScan
    PROVE  DInv'
  <1> DEFINE canary == IF D!Strsz >= Len(Canary)
                          /\ \E i \in 0 .. D!Strsz - Len(Canary) : D!CanaryAt(i)
                       THEN "present" ELSE dsummary.canary
  <1>1. /\ dpc = "canary" /\ dpc' = "refinalize" /\ dsummary' = [dsummary EXCEPT !.canary = canary]
        /\ dtarget' = dtarget /\ dindex' = dindex /\ dstrings' = dstrings
        /\ dcontext' = dcontext /\ dstatus' = dstatus
    BY DEF D!CanaryScan
  <1>2. dstatus = D!EXIT_OK /\ Going /\ Shapes /\ InBounds
    BY <1>1, WhileRunning
  <1>3. Passed /\ Settled /\ Found /\ Classifiable /\ dsummary.canary = "absent" /\ Admitted /\ Completed
    BY <1>1, <1>2 DEF Going, AtCanary
  <1>4. canary = D!CanaryEvidence(dtarget)
    <2>1. D!StringTableNamed(dtarget)
      BY <1>3, TableIs DEF Passed, Found, FirstTrue
    <2> QED BY <1>3, <2>1, CanaryIs DEF D!CanaryEvidence
  <1>5. canary \in D!States
    BY <1>3 DEF D!States
  <1> HIDE DEF canary
  <1>6. /\ dsummary' \in Summary /\ dsummary'.canary = canary /\ dsummary'.evidence = dsummary.evidence
        /\ dsummary'.entryCount = dsummary.entryCount /\ dsummary'.nullSeen = dsummary.nullSeen
        /\ dsummary'.bindNow = dsummary.bindNow /\ dsummary'.strtab = dsummary.strtab
        /\ dsummary'.strsz = dsummary.strsz /\ dsummary'.flags1 = dsummary.flags1
        /\ dsummary'.flags1Count = dsummary.flags1Count /\ dsummary'.soname = dsummary.soname
        /\ dsummary'.sonameCount = dsummary.sonameCount
    BY <1>1, <1>2, <1>5 DEF Shapes, Summary
  <1>7. Shapes' /\ InBounds'
    BY <1>1, <1>2, <1>6 DEF Shapes, InBounds, Bounded, D!Count
  <1>8. Passed'
    BY <1>1, <1>3, <1>6, <1>7, PassedSame
  <1>9. Settled'
    <2>1. PICK m : m = dsummary.entryCount
      OBVIOUS
    <2>2. Resolved(m)'
      BY <1>1, <1>3, <2>1, ResolvedSame DEF Settled
    <2>3. Resolved(dsummary.entryCount)'
      BY <1>6, <2>1, <2>2
    <2>4. Found'
      BY <1>1, <1>3, <1>6 DEF Found, D!TableNamed, D!Strsz
    <2>5. D!TableNamed'
      BY <2>4 DEF Found
    <2> QED BY <2>3, <2>4, <2>5 DEF Settled
  <1>10. Classifiable' /\ dsummary'.canary = D!CanaryEvidence(dtarget')
    BY <1>1, <1>3, <1>4, <1>6 DEF Classifiable
  <1>11. Admitted' /\ Completed'
    BY <1>1, <1>3 DEF Admitted, Completed, D!Count
  <1> QED BY <1>1, <1>2, <1>7, <1>8, <1>9, <1>10, <1>11
          DEF DInv, Going, AtTable, AtFinalize, AtResolve, AtCanary, AtRole, AtEnd, Steps

LEMMA ClassifyStep ==
    ASSUME DInv, D!ClassifyRole
    PROVE  DInv'
  <1>1. dpc = "role"
    BY DEF D!ClassifyRole
  <1>2. dstatus = D!EXIT_OK /\ Going /\ Shapes /\ InBounds
    BY <1>1, WhileRunning
  <1>3. /\ Passed /\ Settled /\ Classifiable /\ Concluded /\ Admitted /\ Completed
        /\ dsummary.canary = D!CanaryEvidence(dtarget)
    BY <1>1, <1>2 DEF Going, AtRole, AtEnd
  <1> DEFINE bits == D!RoleBits
             role == D!RoleOf(D!RoleBits)
  <1>4. /\ dpc' = "done" /\ dsummary' = [dsummary EXCEPT !.evidence = bits, !.role = role]
        /\ dtarget' = dtarget /\ dindex' = dindex /\ dstrings' = dstrings
        /\ dcontext' = dcontext /\ dstatus' = dstatus
    BY <1>3, FactsAgree DEF D!ClassifyRole
  <1>5. /\ role = D!RoleEvidence(dtarget) /\ bits \in SUBSET Facets /\ role \in Roles
        /\ \A c \in {"CONFLICT_FLAGS1", "CONFLICT_SONAME"} : c \in bits <=> c \in dsummary.evidence
    BY <1>3, RoleIs
  <1> HIDE DEF bits, role
  <1>6. /\ dsummary' \in Summary /\ dsummary'.evidence = bits /\ dsummary'.role = role
        /\ dsummary'.canary = dsummary.canary
        /\ dsummary'.entryCount = dsummary.entryCount /\ dsummary'.nullSeen = dsummary.nullSeen
        /\ dsummary'.bindNow = dsummary.bindNow /\ dsummary'.strtab = dsummary.strtab
        /\ dsummary'.strsz = dsummary.strsz /\ dsummary'.flags1 = dsummary.flags1
        /\ dsummary'.flags1Count = dsummary.flags1Count /\ dsummary'.soname = dsummary.soname
        /\ dsummary'.sonameCount = dsummary.sonameCount
    BY <1>2, <1>4, <1>5 DEF Shapes, Summary
  <1>7. Shapes' /\ InBounds'
    BY <1>2, <1>4, <1>6 DEF Shapes, InBounds, Bounded, D!Count
  <1>8. Passed'
    BY <1>3, <1>4, <1>5, <1>6, <1>7, PassedSame
  <1>9. Settled'
    <2>1. PICK m : m = dsummary.entryCount
      OBVIOUS
    <2>2. Resolved(m)'
      BY <1>3, <1>4, <2>1, ResolvedSame DEF Settled
    <2>3. Resolved(dsummary.entryCount)'
      BY <1>6, <2>1, <2>2
    <2>4. IF D!TableNamed' THEN Found' ELSE ~D!NeedsStrings'
      BY <1>3, <1>4, <1>6 DEF Settled, D!TableNamed, Found, D!Strsz, D!NeedsStrings
    <2> QED BY <2>3, <2>4 DEF Settled
  <1>10. Concluded' /\ Admitted' /\ Completed'
    BY <1>3, <1>4 DEF Concluded, Admitted, Completed, D!Count
  <1>11. dsummary'.canary = D!CanaryEvidence(dtarget') /\ dsummary'.role = D!RoleEvidence(dtarget')
    BY <1>3, <1>4, <1>5, <1>6
  <1> QED BY <1>2, <1>4, <1>7, <1>8, <1>9, <1>10, <1>11
          DEF DInv, Going, AtTable, AtFinalize, AtResolve, AtCanary, AtRole, AtEnd, Steps

LEMMA StutterD ==
    ASSUME DInv, UNCHANGED D!vars
    PROVE  DInv'
  <1>1. /\ dtarget' = dtarget /\ dindex' = dindex /\ dstrings' = dstrings /\ dpc' = dpc
        /\ dsummary' = dsummary /\ dcontext' = dcontext /\ dstatus' = dstatus
    BY DEF D!vars
  <1>2. Shapes' /\ InBounds'
    BY <1>1 DEF DInv, Shapes, InBounds, Bounded, D!Count
  <1>3. CASE dstatus # D!EXIT_OK
    <2>1. D!ValuesKeepTheirPlace'
      BY <1>1, <1>3 DEF DInv, Refused, D!ValuesKeepTheirPlace, D!RecordStart, D!ValueOf
    <2> QED BY <1>1, <1>2, <1>3, <2>1 DEF DInv, Refused
  <1>4. CASE dstatus = D!EXIT_OK
    <2>0. Going
      BY <1>4 DEF DInv
    <2>1. PICK n : n = dsummary.entryCount
      OBVIOUS
    <2>2. PICK m : m = dindex
      OBVIOUS
    <2>3. FirstTrue(n) /\ n \in Nat => FirstTrue(n)'
      BY <1>1, FirstSame
    <2>4. Passed => Passed'
      BY <1>1, <1>2, PassedSame
    <2>5. Found => Found'
      BY <1>1 DEF Found, D!TableNamed, D!Strsz
    <2>6. Resolved(n) => Resolved(n)'
      BY <1>1, ResolvedSame
    <2>7. Resolved(m) => Resolved(m)'
      BY <1>1, ResolvedSame
    <2>8. Settled => Settled'
      <3>1. (IF D!TableNamed THEN Found ELSE ~D!NeedsStrings) => IF D!TableNamed' THEN Found' ELSE ~D!NeedsStrings'
        BY <1>1 DEF D!TableNamed, Found, D!Strsz, D!NeedsStrings
      <3>2. Resolved(dsummary.entryCount) => Resolved(dsummary.entryCount)'
        BY <1>1, <2>1, <2>6
      <3> QED BY <3>1, <3>2 DEF Settled
    <2>9. dsummary.entryCount \in Nat
      BY DEF DInv, Shapes, Summary
    <2>10. FirstTrue(dsummary.entryCount) => FirstTrue(dsummary.entryCount)'
      BY <1>1, <2>1, <2>3, <2>9
    <2>11. Entering(dsummary.entryCount) => Entering(dsummary.entryCount)'
      BY <1>1, <1>2, <2>10 DEF Entering, D!Count
    <2>12. Resolving(dindex) => Resolving(dindex)'
      BY <1>1, <1>2, <2>5, <2>10 DEF Resolving, D!Count
    <2>13. Resolved(dindex) => Resolved(dindex)'
      BY <1>1, <2>2, <2>7
    <2>14. FirstOnly => FirstOnly'
      BY <1>1 DEF FirstOnly, Untouched
    <2>20. Classifiable => Classifiable'
      BY <1>1 DEF Classifiable
    <2>21. Concluded => Concluded'
      BY <1>1 DEF Concluded
    <2>22. (Admitted => Admitted') /\ (Completed => Completed')
      BY <1>1 DEF Admitted, Completed, D!Count
    <2>15. AtTable'
      BY <1>1, <2>0, <2>11, <2>14 DEF Going, AtTable
    <2>16. AtFinalize' /\ AtCanary'
      <3>1. AtFinalize /\ AtCanary
        BY <2>0 DEF Going
      <3>2. AtFinalize'
        BY <1>1, <3>1, <2>4, <2>14 DEF AtFinalize
      <3>3. AtCanary'
        BY <1>1, <3>1, <2>4, <2>5, <2>8, <2>20 DEF AtCanary
      <3> QED BY <3>2, <3>3
    <2>17. AtResolve'
      BY <1>1, <2>0, <2>12, <2>13 DEF Going, AtResolve
    <2>18. AtRole' /\ AtEnd'
      <3>1. AtRole /\ AtEnd
        BY <2>0 DEF Going
      <3>2. D!CanaryEvidence(dtarget)' = D!CanaryEvidence(dtarget) /\ D!RoleEvidence(dtarget)' = D!RoleEvidence(dtarget)
        BY <1>1
      <3>3. AtRole'
        BY <1>1, <3>1, <3>2, <2>4, <2>8, <2>20 DEF AtRole
      <3>4. AtEnd'
        BY <1>1, <3>1, <3>2, <2>21 DEF AtEnd
      <3> QED BY <3>3, <3>4
    <2>19. Going'
      <3>1. dpc' # "table" => Admitted'
        BY <1>1, <2>0, <2>22 DEF Going
      <3>2. dpc' \notin {"table", "entry", "finalize"} => Completed'
        BY <1>1, <2>0, <2>22 DEF Going
      <3> QED BY <3>1, <3>2, <2>15, <2>16, <2>17, <2>18 DEF Going
    <2> QED BY <1>1, <1>2, <1>4, <2>19 DEF DInv
  <1> QED BY <1>3, <1>4

\* Every action of the two passes keeps it: a refusal has its reason in the table,
\* an entry that is read adds what it says to the counters and the records, and
\* the end of a pass draws the conclusion of all its entries.
THEOREM StepDInv == DInv /\ [D!Next]_(D!vars) => DInv'
  <1> SUFFICES ASSUME DInv, [D!Next]_(D!vars) PROVE DInv'
    OBVIOUS
  <1>1. CASE UNCHANGED D!vars
    BY <1>1, StutterD
  <1>2. CASE D!FirstPass
    BY <1>2, RefusalSteps, BeginTableStep, EntrySteps, TableEndsStep DEF D!FirstPass, EntryStep
  <1>3. CASE D!SecondPass
    BY <1>3, RefusalSteps, NotNeededStep, MappedStep, PassesSteps, SearchPathStep, StringsResolvedStep,
       CanaryStep DEF D!SecondPass, PassesEntry
  <1>4. CASE D!Finalize \/ D!ClassifyRole
    BY <1>4, FinalizeStep, ClassifyStep
  <1>5. CASE D!Done
    BY <1>5, StutterD DEF D!Done
  <1> QED BY <1>1, <1>2, <1>3, <1>4, <1>5 DEF D!Next

\* What the two passes of phdr.asm and dynamic_metadata.asm keep, for every table
\* and every limit.
THEOREM DynamicInv == D!Spec => []DInv
  <1>1. D!Init => DInv
    BY InitDInv
  <1> QED BY <1>1, StepDInv, PTL DEF D!Spec

\* Only the classification of the role ends an analysis that nothing refused.
LEMMA ReadingGoesOn ==
    ASSUME D!FirstPass \/ D!SecondPass \/ D!Finalize
    PROVE  ~(dpc' = "done" /\ dstatus' = D!EXIT_OK)
  <1>1. CASE \/ D!TableRefused \/ D!TableTooLong \/ D!StringTableRepeated \/ D!CarrierRefused
             \/ D!StringsMissing \/ D!StringsTooLong \/ D!StringsUnmapped
    <2>1. dstatus' \in {D!EXIT_MALFORMED_ELF, D!EXIT_UNSUPPORTED}
      BY <1>1 DEF D!TableRefused, D!TableTooLong, D!StringTableRepeated, D!CarrierRefused,
                  D!StringsMissing, D!StringsTooLong, D!StringsUnmapped, D!Refuse
    <2> QED BY <2>1, StatusesDiffer
  <1>2. CASE D!SonameRefused \/ D!SearchPathRefused
    <2>1. dstatus' # D!EXIT_OK
      BY <1>2, StatusesDiffer DEF D!SonameRefused, D!SearchPathRefused, D!Refuse
    <2> QED BY <2>1
  <1>3. CASE D!BeginTable \/ D!NullEntry \/ D!TableEnds \/ D!Finalize
    BY <1>3 DEF D!BeginTable, D!NullEntry, D!TableEnds, D!Finalize
  <1>4. CASE \/ D!StringTableEntry \/ D!TextrelEntry \/ D!FlagsEntry \/ D!SearchPathEntry
             \/ D!BindNowEntry \/ D!Flags1Entry \/ D!SonameEntry \/ D!OtherEntry
    <2>1. dpc = "entry" /\ dpc' = dpc
      BY <1>4 DEF D!StringTableEntry, D!TextrelEntry, D!FlagsEntry, D!SearchPathEntry, D!BindNowEntry,
                  D!Flags1Entry, D!SonameEntry, D!OtherEntry, D!AtEntry, D!NextEntry
    <2> QED BY <2>1
  <1>5. CASE D!SonameResolved \/ D!SearchPathUnread \/ D!SearchPathResolved \/ D!EntryWithoutString
    <2>1. dpc = "resolve" /\ dpc' = dpc
      BY <1>5 DEF D!SonameResolved, D!SearchPathUnread, D!SearchPathResolved, D!EntryWithoutString,
                  D!AtString, D!NextString
    <2> QED BY <2>1
  <1>6. CASE D!StringsNotNeeded \/ D!StringsMapped \/ D!StringsResolved \/ D!CanaryScan
    BY <1>6 DEF D!StringsNotNeeded, D!StringsMapped, D!StringsResolved, D!CanaryScan
  <1> QED BY <1>1, <1>2, <1>3, <1>4, <1>5, <1>6 DEF D!FirstPass, D!SecondPass

-----------------------------------------------------------------------------
(* The composition: what is proved of a part is proved of the whole.       *)

\* The analysis of phdr.asm runs the parser of the notes as module GnuProperty
\* says, whatever the dynamic table makes of it in between.
THEOREM NotesAreParsedAlone == MetadataSpec => Spec
  <1>1. MetadataInit => Init
    BY MetadataAssumption DEF MetadataInit, Init
  <1>2. [MetadataNext]_metadataVars => [Next]_vars
    BY DEF MetadataNext, RegistersHeaders, ReadsDynamicTable, ParsesNotes, ClassifiesRole, Ends,
       metadataVars,
           Next
  <1> QED BY <1>1, <1>2, PTL DEF MetadataSpec, Spec

\* And it runs the two passes over the dynamic table and the classification of
\* the role as module DynamicMetadata says.
THEOREM TableIsReadAlone == MetadataSpec => D!Spec
  <1>1. MetadataInit => D!Init
    BY MetadataAssumption DEF MetadataInit, D!Init
  <1>2. [MetadataNext]_metadataVars => [D!Next]_(D!vars)
    BY DEF MetadataNext, RegistersHeaders, ReadsDynamicTable, ParsesNotes, ClassifiesRole, Ends,
       metadataVars,
           dynamicVars, D!Next, D!vars
  <1> QED BY <1>1, <1>2, PTL DEF MetadataSpec, D!Spec

\* The metadata of a report: the parser reads no byte outside its carriers,
\* takes none as evidence twice, and reports what all the notes say together.
THEOREM MetadataOfTheNotes == MetadataSpec => [](ReadsInside /\ NothingTwice /\ EvidenceOfTheNotes)
  BY NotesAreParsedAlone, GnuPropertyReadsInside, GnuPropertyNothingTwice, GnuPropertyEvidenceOfTheNotes,
     PTL

\* The metadata of a report: however the entries of the dynamic table are ordered
\* and repeated, the two passes retain what the table says, and every retained
\* search path is the string of its own entry.
THEOREM MetadataOfTheTable == MetadataSpec => []EvidenceOfTheTable
  <1>1. DInv => EvidenceOfTheTable
    BY DInvPlaced, DInvEvidence DEF EvidenceOfTheTable, D!EvidenceOfTheTable
  <1> QED BY <1>1, TableIsReadAlone, DynamicInv, PTL

TableIsTyped == D!TypeOK

\* The reader of the dynamic table stays within its record table, its pool and its
\* carrier table.
THEOREM TableTypes == MetadataSpec => []TableIsTyped
  <1>1. DInv => TableIsTyped
    BY DInvTypes DEF TableIsTyped
  <1> QED BY <1>1, TableIsReadAlone, DynamicInv, PTL

ReadableTableIsAccepted == dpc = "done" => (dstatus = D!EXIT_OK <=> D!Readable(dtarget))

\* Exactly the readable tables are accepted: nothing ambiguous, unterminated or
\* beyond a limit gets through, and nothing else is refused.
THEOREM TableAcceptance == MetadataSpec => []ReadableTableIsAccepted
  <1>1. DInv => ReadableTableIsAccepted
    BY DInvEvidence DEF ReadableTableIsAccepted
  <1> QED BY <1>1, TableIsReadAlone, DynamicInv, PTL

-----------------------------------------------------------------------------
(* The role is classified last.                                            *)

RoleIsLast == dpc = "done" /\ dstatus = D!EXIT_OK => pc = "done"

LEMMA ParserStops ==
    ASSUME pc = "done"
    PROVE  ~(Register \/ Parse \/ Finalize)
  <1>1. ~Register
    BY DEF Register, CarrierRefused, CarrierOverlaps, CarriersFull, CarrierAdded, CarrierShared,
           Registered, Registering
  <1>2. ~(BeginCarrier \/ LastCarrier \/ NoteTail \/ TailRefused \/ NoteRefused \/ NoteSkipped)
    BY DEF BeginCarrier, LastCarrier, NoteTail, TailRefused, NoteRefused, NoteSkipped, AtTail, AtNote,
           NoteRead
  <1>3. ~(\/ PropertyNoteRefused \/ PropertyNote \/ PropertyRefused \/ UnknownProperty
          \/ FeatureProperty \/ PropertiesEnd)
    BY DEF PropertyNoteRefused, PropertyNote, PropertyRefused, UnknownProperty, FeatureProperty,
           PropertiesEnd, AtNote, NoteRead, AtProperty
  <1>4. ~Finalize
    BY DEF Finalize
  <1> QED BY <1>1, <1>2, <1>3, <1>4 DEF Parse

LEMMA RoleIsLastAlways == MetadataSpec => []RoleIsLast
  <1>1. MetadataInit => RoleIsLast
    BY DEF MetadataInit, D!Begins, RoleIsLast
  <1>2. RoleIsLast /\ [MetadataNext]_metadataVars => RoleIsLast'
    <2> SUFFICES ASSUME RoleIsLast, [MetadataNext]_metadataVars PROVE RoleIsLast'
      OBVIOUS
    <2>1. CASE RegistersHeaders \/ ParsesNotes
      <3>1. pc # "done" /\ dpc' = dpc /\ dstatus' = dstatus
        BY <2>1, ParserStops DEF RegistersHeaders, ParsesNotes, dynamicVars
      <3> QED BY <3>1 DEF RoleIsLast, D!EXIT_OK
    <2>2. CASE ReadsDynamicTable
      BY <2>2, ReadingGoesOn DEF ReadsDynamicTable, RoleIsLast, D!EXIT_OK
    <2>3. CASE ClassifiesRole
      BY <2>3 DEF ClassifiesRole, RoleIsLast, vars
    <2>4. CASE UNCHANGED metadataVars
      BY <2>4 DEF metadataVars, vars, dynamicVars, RoleIsLast, D!EXIT_OK
    <2> QED BY <2>1, <2>2, <2>3, <2>4 DEF MetadataNext, Ends
  <1> QED BY <1>1, <1>2, PTL DEF MetadataSpec

\* x64lens_phdr_analyze succeeds on exactly the files whose dynamic table and whose
\* notes are both readable, whichever of the two it refuses first.
THEOREM MetadataAcceptance == MetadataSpec => []AcceptsExactlyTheReadable
  <1>1. Spec => [](IInv /\ EInv)
    BY InitInv, InitEvidence, StepInv, StepEvidence, PTL DEF Spec
  <1>2. ReadableIsAccepted /\ EInv /\ ReadableTableIsAccepted /\ RoleIsLast => AcceptsExactlyTheReadable
    <2> SUFFICES ASSUME ReadableIsAccepted, EInv, ReadableTableIsAccepted, RoleIsLast, Over
                 PROVE  status = EXIT_OK /\ dstatus = EXIT_OK <=> Readable(target) /\ D!Readable(dtarget)
      BY DEF AcceptsExactlyTheReadable
    <2>1. CASE status # EXIT_OK
      BY <2>1 DEF EInv
    <2>2. CASE status = EXIT_OK
      <3>1. dpc = "done" /\ D!EXIT_OK = EXIT_OK
        BY <2>2 DEF Over, D!EXIT_OK, EXIT_OK
      <3>2. dstatus = EXIT_OK <=> D!Readable(dtarget)
        BY <3>1 DEF ReadableTableIsAccepted
      <3>3. dstatus = EXIT_OK => Readable(target)
        BY <2>2, <3>1 DEF RoleIsLast, ReadableIsAccepted
      <3> QED BY <2>2, <3>2, <3>3
    <2> QED BY <2>1, <2>2
  <1> QED BY <1>1, <1>2, NotesAreParsedAlone, GnuPropertyAcceptance, TableAcceptance, RoleIsLastAlways,
     PTL
=============================================================================
