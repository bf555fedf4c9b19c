----------------------------- MODULE GnuProperty -----------------------------
(***************************************************************************)
(* src/src/gnu_property.asm: the PT_NOTE and PT_GNU_PROPERTY headers are   *)
(* registered one by one as carriers, then the notes of every carrier and  *)
(* the properties of every GNU property note are read.  One action is one  *)
(* header, one note or one property.                                       *)
(*                                                                         *)
(* Ranges are compared without wrapping: bounds.asm checks them first.  A  *)
(* feature word is the set of its bits.  A refused analysis leaves facts   *)
(* that nobody reads.                                                      *)
(***************************************************************************)
EXTENDS GnuPropertyEvidence

VARIABLES target,
          pc,
          index,           \* the header that is registered
          carriers,        \* the canonical views
          contributors,    \* the headers and the carriers they name
          slot,            \* the carrier that is parsed
          cursor,          \* offset of its note
          property,        \* offset of the property in the note
          prior,           \* type of the property before it: none, or one
          scanned,         \* note headers read
          entries,         \* properties read
          notes,           \* the recognised GNU property notes
          facts,           \* the counts and aggregates of the context
          status

vars == <<target, pc, index, carriers, contributors, slot, cursor, property, prior, scanned,
          entries, notes, facts, status>>

EXIT_OK == 0
EXIT_MALFORMED_ELF == 5
EXIT_UNSUPPORTED == 6

\* x64lens_gnu_property_context_init
EmptyFacts ==
    [unknown |-> 0, count |-> 0, conflicts |-> 0, and |-> {}, or |-> {},
     ibt |-> "unknown", shstk |-> "unknown"]

Refuse(rax) ==
    /\ pc' = "done" /\ status' = rax
    /\ UNCHANGED <<target, index, carriers, contributors, slot, cursor, property, prior, scanned,
                   entries, notes, facts>>

-----------------------------------------------------------------------------
(***************************************************************************)
(* x64lens_gnu_property_register_carrier.                                  *)
(***************************************************************************)
Current == target.headers[index]

HeaderStatus ==
    IF Current.type = "NOTE" /\ Current.align \notin {0, 1, 4, 8} THEN EXIT_UNSUPPORTED
    ELSE IF Current.type = "PROPERTY" /\ Current.align # 8 THEN EXIT_MALFORMED_ELF
    ELSE IF Current.offset + Current.filesz > Len(target.file) THEN EXIT_MALFORMED_ELF
    ELSE IF Current.filesz > CarrierScanMax THEN EXIT_UNSUPPORTED ELSE EXIT_OK

CarrierAlign == IF Current.type = "PROPERTY" \/ Current.align = 8 THEN 8 ELSE 4

SameRange(carrier) == carrier.offset = Current.offset /\ carrier.size = Current.filesz

\* Defect: two carriers that touch in their last byte are taken for separate ones.
OverlapsLate(carrier) ==
    /\ Current.filesz # 0 /\ carrier.size # 0
    /\ Current.offset + 1 < carrier.offset + carrier.size
    /\ carrier.offset + 1 < Current.offset + Current.filesz

Overlaps(carrier) ==
    /\ Current.filesz # 0 /\ carrier.size # 0
    /\ Current.offset < carrier.offset + carrier.size
    /\ carrier.offset < Current.offset + Current.filesz

\* The carriers at which the search stops, and the first of them.
Met == {k \in DOMAIN carriers : SameRange(carriers[k]) \/ Overlaps(carriers[k])}
First(k) == k \in Met /\ \A j \in Met : k <= j

Registering == pc = "register" /\ index <= Len(target.headers)

CarrierRefused == Registering /\ HeaderStatus # EXIT_OK /\ Refuse(HeaderStatus)

CarrierOverlaps ==
    /\ Registering
    /\ HeaderStatus = EXIT_OK
    /\ \E k \in DOMAIN carriers : First(k) /\ ~SameRange(carriers[k])
    /\ Refuse(EXIT_MALFORMED_ELF)

ContributorsFull == Len(contributors) >= ContributorMax

CarriersFull ==
    /\ Registering
    /\ HeaderStatus = EXIT_OK
    /\ \/ Met = {} /\ (Len(carriers) >= CarrierMax \/ ContributorsFull)
       \/ ContributorsFull /\ \E k \in DOMAIN carriers : First(k) /\ SameRange(carriers[k])
    /\ Refuse(EXIT_UNSUPPORTED)

Contribute(k) ==
    /\ contributors' = Append(contributors, [index |-> index, type |-> Current.type, slot |-> k])
    /\ index' = index + 1
    /\ UNCHANGED <<target, pc, slot, cursor, property, prior, scanned, entries, notes, facts, status>>

CarrierAdded ==
    /\ Registering
    /\ HeaderStatus = EXIT_OK
    /\ Met = {} /\ Len(carriers) < CarrierMax /\ ~ContributorsFull
    /\ carriers' = Append(carriers, [offset |-> Current.offset, size |-> Current.filesz,
                                     kinds |-> {Current.type}, aligns |-> {CarrierAlign}])
    /\ Contribute(Len(carriers) + 1)

\* An exact duplicate adds its kind and its alignment to the masks of the carrier.
Merged(carrier) ==
    [offset |-> carrier.offset, size |-> carrier.size,
     kinds |-> carrier.kinds \cup {Current.type}, aligns |-> carrier.aligns \cup {CarrierAlign}]

CarrierShared ==
    /\ Registering
    /\ HeaderStatus = EXIT_OK
    /\ ~ContributorsFull
    /\ \E k \in DOMAIN carriers :
          /\ First(k) /\ SameRange(carriers[k])
          /\ carriers' = [carriers EXCEPT ![k] = Merged(@)]
          /\ Contribute(k)

Registered ==
    /\ pc = "register" /\ index > Len(target.headers)
    /\ pc' = "carrier"
    /\ UNCHANGED <<target, index, carriers, contributors, slot, cursor, property, prior, scanned,
                   entries, notes, facts, status>>

-----------------------------------------------------------------------------
(***************************************************************************)
(* x64lens_gnu_property_parse: the notes of a carrier.                     *)
(***************************************************************************)
View == carriers[slot]
End == View.offset + View.size
Align == IF 8 \in View.aligns THEN 8 ELSE 4

BeginCarrier ==
    /\ pc = "carrier" /\ slot <= Len(carriers)
    /\ cursor' = View.offset
    /\ pc' = "note"
    /\ UNCHANGED <<target, index, carriers, contributors, slot, property, prior, scanned, entries,
                   notes, facts, status>>

LastCarrier ==
    /\ pc = "carrier" /\ slot > Len(carriers)
    /\ pc' = "finalize"
    /\ UNCHANGED <<target, index, carriers, contributors, slot, cursor, property, prior, scanned,
                   entries, notes, facts, status>>

AtTail == pc = "note" /\ cursor + HeaderSize > End
AtNote == pc = "note" /\ cursor + HeaderSize <= End

NoteTail ==
    /\ AtTail
    /\ Zero(target.file, cursor, End)
    /\ slot' = slot + 1
    /\ pc' = "carrier"
    /\ UNCHANGED <<target, index, carriers, contributors, cursor, property, prior, scanned, entries,
                   notes, facts, status>>

TailRefused == AtTail /\ ~Zero(target.file, cursor, End) /\ Refuse(EXIT_MALFORMED_ELF)

Name == NameEnd(target.file, cursor)
Desc == DescStart(target.file, cursor, Align)
DescLimit == DescEnd(target.file, cursor, Align)
NextNote == NoteEnd(target.file, cursor, Align)

\* Defect: the padding after the descriptor is taken for granted.
NoteFitsUnpadded == DescLimit <= End /\ Zero(target.file, Name, Desc)

\* Every end is compared with the end of the carrier; the last one is the largest.
NoteFits ==
    /\ NextNote <= End
    /\ Zero(target.file, Name, Desc)
    /\ Zero(target.file, DescLimit, NextNote)

ScansExhausted == scanned >= NoteScanMax

NoteRefused ==
    /\ AtNote
    /\ ScansExhausted \/ ~NoteFits
    /\ Refuse(IF ScansExhausted THEN EXIT_UNSUPPORTED ELSE EXIT_MALFORMED_ELF)

Recognised ==
    /\ Dword(target.file, cursor) = OwnerSize
    /\ SubSeq(target.file, cursor + HeaderSize + 1, cursor + HeaderSize + OwnerSize) = GnuOwner
    /\ Dword(target.file, cursor + 8) = PropertyNoteType

ThisNote == [offset |-> cursor, size |-> NextNote - cursor]

NoteKnown == \E k \in DOMAIN notes : notes[k] = ThisNote

NoteOverlaps ==
    \E k \in DOMAIN notes : /\ cursor < notes[k].offset + notes[k].size
                            /\ notes[k].offset < NextNote

NoteStatus ==
    IF DescLimit - Desc > DescScanMax THEN EXIT_UNSUPPORTED
    ELSE IF DescLimit - Desc < EntryHeaderSize \/ (DescLimit - Desc) % 8 # 0 THEN EXIT_MALFORMED_ELF
    ELSE IF NoteKnown THEN EXIT_OK
    ELSE IF NoteOverlaps THEN EXIT_MALFORMED_ELF
    ELSE IF Len(notes) >= NoteMax THEN EXIT_UNSUPPORTED ELSE EXIT_OK

NoteRead == AtNote /\ ~ScansExhausted /\ NoteFits

\* A note of another owner or type, or one that was read before.
NoteSkipped ==
    /\ NoteRead
    /\ Recognised => NoteStatus = EXIT_OK /\ NoteKnown
    /\ cursor' = NextNote
    /\ scanned' = scanned + 1
    /\ UNCHANGED <<target, pc, index, carriers, contributors, slot, property, prior, entries, notes,
                   facts, status>>

PropertyNoteRefused ==
    NoteRead /\ Recognised /\ NoteStatus # EXIT_OK /\ Refuse(NoteStatus)

PropertyNote ==
    /\ NoteRead /\ Recognised
    /\ NoteStatus = EXIT_OK /\ ~NoteKnown
    /\ notes' = Append(notes, ThisNote)
    /\ scanned' = scanned + 1
    /\ property' = Desc
    /\ prior' = {}
    /\ pc' = "property"
    /\ UNCHANGED <<target, index, carriers, contributors, slot, cursor, entries, facts, status>>

-----------------------------------------------------------------------------
(***************************************************************************)
(* The properties of a note, in non-decreasing order of their types.       *)
(***************************************************************************)
AtProperty == pc = "property" /\ property < DescLimit

Type == Dword(target.file, property)
DataSize == Dword(target.file, property + 4)
NextProperty == PropertyEnd(target.file, property, Desc)

PropertyStatus ==
    IF property + EntryHeaderSize > DescLimit THEN EXIT_MALFORMED_ELF
    ELSE IF entries >= EntryMax THEN EXIT_UNSUPPORTED
    ELSE IF \E before \in prior : Type < before THEN EXIT_MALFORMED_ELF
    ELSE IF NextProperty > DescLimit THEN EXIT_MALFORMED_ELF
    ELSE IF ~Zero(target.file, DataEnd(target.file, property), NextProperty) THEN EXIT_MALFORMED_ELF
    ELSE IF Type = FeatureType /\ DataSize # 4 THEN EXIT_MALFORMED_ELF
    ELSE EXIT_OK

PropertyRefused == AtProperty /\ PropertyStatus # EXIT_OK /\ Refuse(PropertyStatus)

NextEntry ==
    /\ property' = NextProperty
    /\ prior' = {Type}
    /\ entries' = entries + 1
    /\ UNCHANGED <<target, pc, index, carriers, contributors, slot, cursor, scanned, notes, status>>

UnknownProperty ==
    /\ AtProperty /\ PropertyStatus = EXIT_OK
    /\ Type # FeatureType
    /\ facts' = [facts EXCEPT !.unknown = @ + 1]
    /\ NextEntry

FeatureProperty ==
    /\ AtProperty /\ PropertyStatus = EXIT_OK
    /\ Type = FeatureType
    /\ LET bits == Bits(target.file, property + EntryHeaderSize)
           first == facts.count = 0
       IN facts' = [facts EXCEPT
             !.unknown = IF bits \ {IBT, SHSTK} # {} THEN @ + 1 ELSE @,
             !.conflicts = IF ~first /\ facts.and # bits THEN @ + 1 ELSE @,
             !.and = IF first THEN bits ELSE @ \cap bits,
             !.or = IF first THEN bits ELSE @ \cup bits,
             !.count = @ + 1]
    /\ NextEntry

PropertiesEnd ==
    /\ pc = "property" /\ property >= DescLimit
    /\ cursor' = NextNote
    /\ pc' = "note"
    /\ UNCHANGED <<target, index, carriers, contributors, slot, property, prior, scanned, entries,
                   notes, facts, status>>

-----------------------------------------------------------------------------
\* Defect: a bit that some feature word lacks is absent, whatever the others say.
FeatureStateOfAnd(bit) ==
    IF facts.count = 0 THEN "unknown" ELSE IF bit \in facts.and THEN "present" ELSE "absent"

\* .derive_feature_state
FeatureState(bit) ==
    CASE facts.count = 0 -> "unknown"
      [] facts.count # 0 /\ bit \notin facts.or -> "absent"
      [] facts.count # 0 /\ bit \in facts.or /\ bit \in facts.and -> "present"
      [] OTHER -> "contradictory"

Finalize ==
    /\ pc = "finalize"
    /\ facts' = [facts EXCEPT !.ibt = FeatureState(IBT), !.shstk = FeatureState(SHSTK)]
    /\ pc' = "done"
    /\ UNCHANGED <<target, index, carriers, contributors, slot, cursor, property, prior, scanned,
                   entries, notes, status>>

Done == pc = "done" /\ UNCHANGED vars

Begins ==
    /\ pc = "register" /\ index = 1
    /\ carriers = <<>> /\ contributors = <<>> /\ notes = <<>>
    /\ slot = 1 /\ cursor = 0 /\ property = 0 /\ prior = {}
    /\ scanned = 0 /\ entries = 0
    /\ facts = EmptyFacts
    /\ status = EXIT_OK

Init == target \in Targets /\ Begins

Register ==
    CarrierRefused \/ CarrierOverlaps \/ CarriersFull \/ CarrierAdded \/ CarrierShared \/ Registered

Parse ==
    \/ BeginCarrier \/ LastCarrier
    \/ NoteTail \/ TailRefused \/ NoteRefused \/ NoteSkipped \/ PropertyNoteRefused \/ PropertyNote
    \/ PropertyRefused \/ UnknownProperty \/ FeatureProperty \/ PropertiesEnd

Next == Register \/ Parse \/ Finalize \/ Done

Spec == Init /\ [][Next]_vars

-----------------------------------------------------------------------------
Carrier ==
    [offset : Nat, size : Nat, kinds : SUBSET {"NOTE", "PROPERTY"}, aligns : SUBSET {4, 8}]

TypeOK ==
    /\ target \in Target
    /\ pc \in {"register", "carrier", "note", "property", "finalize", "done"}
    /\ index \in Nat \ {0} /\ slot \in Nat \ {0}
    /\ carriers \in Seq(Carrier) /\ Len(carriers) <= CarrierMax
    /\ contributors \in Seq([index : Nat, type : {"NOTE", "PROPERTY"}, slot : Nat])
    /\ Len(contributors) <= ContributorMax
    /\ notes \in Seq([offset : Nat, size : Nat]) /\ Len(notes) <= NoteMax
    /\ cursor \in Nat /\ property \in Nat /\ prior \in SUBSET Nat
    /\ scanned \in 0 .. NoteScanMax /\ entries \in 0 .. EntryMax
    /\ status \in {EXIT_OK, EXIT_MALFORMED_ELF, EXIT_UNSUPPORTED}

(***************************************************************************)
(* Every byte that gnu_property.asm dereferences lies in a carrier that    *)
(* lies in the file: the cursor never leaves its carrier, and while the    *)
(* properties are read the cursor among them never leaves a descriptor     *)
(* which ends, with its padding, inside the carrier.                       *)
(***************************************************************************)
CarriersInFile ==
    \A k \in DOMAIN carriers : carriers[k].offset + carriers[k].size <= Len(target.file)

CursorInCarrier == pc = "note" => slot \in DOMAIN carriers /\ cursor \in View.offset .. End

PropertyInNote ==
    pc = "property" =>
       /\ slot \in DOMAIN carriers
       /\ View.offset <= cursor /\ cursor + HeaderSize <= End /\ NextNote <= End
       /\ property \in Desc .. DescLimit

ReadsInside == CarriersInFile /\ CursorInCarrier /\ PropertyInNote

(***************************************************************************)
(* No byte is evidence twice: two carriers are the same range or share     *)
(* nothing, so the notes that are kept are pairwise apart, and the test    *)
(* for a note that was read before never succeeds.                         *)
(***************************************************************************)
RangesApart(a, b) ==
    a.size = 0 \/ b.size = 0 \/ a.offset + a.size <= b.offset \/ b.offset + b.size <= a.offset

CarriersApart ==
    \A j, k \in DOMAIN carriers : j # k => RangesApart(carriers[j], carriers[k])

NotesApart == \A j, k \in DOMAIN notes : j # k => RangesApart(notes[j], notes[k])

NothingTwice == CarriersApart /\ NotesApart /\ (NoteRead /\ Recognised => ~NoteKnown /\ ~NoteOverlaps)

(***************************************************************************)
(* What is kept is the evidence of all the property notes together: it     *)
(* does not depend on the order of the headers, repeated headers count     *)
(* once, and words that disagree about a bit are reported as such.         *)
(***************************************************************************)
EvidenceOfTheNotes ==
    pc = "done" /\ status = EXIT_OK =>
       /\ Len(carriers) = Cardinality(Views(target)) /\ Len(contributors) = Len(target.headers)
       /\ Len(notes) = Cardinality(AllPropertyNotes(target))
       /\ facts.count = Cardinality(Features(target))
       /\ facts.unknown = UnknownFacts(target)
       /\ (facts.conflicts # 0) = (Cardinality(FeatureWords(target)) > 1)
       /\ facts.ibt = FeatureEvidence(target, IBT)
       /\ facts.shstk = FeatureEvidence(target, SHSTK)
=============================================================================
