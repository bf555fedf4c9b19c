------------------------- MODULE GnuPropertyEvidence -------------------------
(***************************************************************************)
(* What the note headers of a file say about x86 features, whatever the    *)
(* order of the headers and however often they name the same bytes: the    *)
(* evidence that gnu_property.asm is to retain, and when it is to refuse.  *)
(***************************************************************************)
EXTENDS Naturals, Sequences, FiniteSets

CONSTANTS Targets,          \* the ELF files, as this part of the analysis sees them
          CarrierMax,       \* GNU_PROPERTY_CARRIER_MAX
          CarrierScanMax,   \* GNU_PROPERTY_CARRIER_SCAN_MAX
          ContributorMax,   \* GNU_PROPERTY_CONTRIBUTOR_MAX
          NoteMax,          \* GNU_PROPERTY_NOTE_MAX
          NoteScanMax,      \* GNU_PROPERTY_NOTE_SCAN_MAX
          DescScanMax,      \* GNU_PROPERTY_DESC_SCAN_MAX
          EntryMax,         \* GNU_PROPERTY_ENTRY_MAX
          FeatureType       \* GNU_PROPERTY_X86_FEATURE_1_AND

HeaderSize == 12
OwnerSize == 4
EntryHeaderSize == 8
GnuOwner == <<71, 78, 85, 0>>
PropertyNoteType == 5

IBT == 0
SHSTK == 1

Byte == 0 .. 255
Header == [type : {"NOTE", "PROPERTY"}, align : Nat, offset : Nat, filesz : Nat]

\* "headers" are the PT_NOTE and PT_GNU_PROPERTY headers, in file order.
Target == [headers : Seq(Header), file : Seq(Byte)]

ASSUME GnuPropertyAssumption ==
    /\ {CarrierMax, CarrierScanMax, ContributorMax, NoteMax, NoteScanMax, DescScanMax,
        EntryMax, FeatureType} \subseteq Nat
    /\ \A t \in Targets : t \in Target

-----------------------------------------------------------------------------
(***************************************************************************)
(* The layout of notes and properties.  Notes are aligned to file offsets, *)
(* properties to the start of their descriptor.                            *)
(***************************************************************************)
AlignUp(n, align) == n + ((align - (n % align)) % align)

Dword(file, i) ==
    file[i + 1] + 256 * file[i + 2] + 65536 * file[i + 3] + 16777216 * file[i + 4]

\* The bits that are set in the dword.
Bits(file, i) ==
    {n \in 0 .. 31 : (file[i + 1 + (n \div 8)] \div (2 ^ (n % 8))) % 2 = 1}

Zero(file, from, to) == \A i \in from .. to - 1 : file[i + 1] = 0

NameEnd(file, p) == p + HeaderSize + Dword(file, p)
DescStart(file, p, align) == AlignUp(NameEnd(file, p), align)
DescEnd(file, p, align) == DescStart(file, p, align) + Dword(file, p + 4)
NoteEnd(file, p, align) == AlignUp(DescEnd(file, p, align), align)

DataEnd(file, q) == q + EntryHeaderSize + Dword(file, q + 4)
PropertyEnd(file, q, desc) == desc + AlignUp(DataEnd(file, q) - desc, 8)

-----------------------------------------------------------------------------
(***************************************************************************)
(* The evidence: headers that name the same bytes name one view, which is  *)
(* read with the strongest alignment that any of them gives.               *)
(***************************************************************************)
Views(t) == {<<t.headers[i].offset, t.headers[i].filesz>> : i \in DOMAIN t.headers}

ViewEnd(view) == view[1] + view[2]

ViewAlign(t, view) ==
    IF \E i \in DOMAIN t.headers : /\ <<t.headers[i].offset, t.headers[i].filesz>> = view
                                   /\ t.headers[i].align = 8
    THEN 8 ELSE 4

\* What is met from each offset on, when one item of at least size bytes ends where the next begins.
Chain(ends, size, end) ==
    LET from[p \in DOMAIN ends] ==
          IF p + size > end THEN {}
          ELSE {p} \cup (IF ends[p] \in p + size .. end THEN from[ends[p]] ELSE {})
    IN from

\* The offsets of the notes from each offset on.
NotesFrom(t, align, end) ==
    Chain([p \in 0 .. end |-> NoteEnd(t.file, p, align)], HeaderSize, end)

Notes(t, view) == NotesFrom(t, ViewAlign(t, view), ViewEnd(view))[view[1]]

IsPropertyNote(t, p) ==
    /\ Dword(t.file, p) = OwnerSize
    /\ SubSeq(t.file, p + HeaderSize + 1, p + HeaderSize + OwnerSize) = GnuOwner
    /\ Dword(t.file, p + 8) = PropertyNoteType

PropertyNotes(t, view) == {p \in Notes(t, view) : IsPropertyNote(t, p)}

\* The offsets of the properties of a note.
Properties(t, view, p) ==
    LET align == ViewAlign(t, view)
        desc == DescStart(t.file, p, align)
        end == DescEnd(t.file, p, align)
    IN Chain([q \in desc .. end |-> PropertyEnd(t.file, q, desc)], EntryHeaderSize, end)[desc]

AllNotes(t) == UNION {Notes(t, view) : view \in Views(t)}
AllPropertyNotes(t) == UNION {PropertyNotes(t, view) : view \in Views(t)}
AllProperties(t) ==
    UNION {UNION {Properties(t, view, p) : p \in PropertyNotes(t, view)} : view \in Views(t)}

Features(t) == {q \in AllProperties(t) : Dword(t.file, q) = FeatureType}
FeatureWords(t) == {Bits(t.file, q + EntryHeaderSize) : q \in Features(t)}

UnknownFacts(t) ==
    Cardinality(AllProperties(t) \ Features(t))
      + Cardinality({q \in Features(t) : Bits(t.file, q + EntryHeaderSize) \ {IBT, SHSTK} # {}})

FeatureEvidence(t, bit) ==
    CASE Features(t) = {} -> "unknown"
      [] Features(t) # {} /\ \A w \in FeatureWords(t) : bit \in w -> "present"
      [] Features(t) # {} /\ \A w \in FeatureWords(t) : bit \notin w -> "absent"
      [] OTHER -> "contradictory"

-----------------------------------------------------------------------------
HeaderReadable(t, h) ==
    /\ IF h.type = "PROPERTY" THEN h.align = 8 ELSE h.align \in {0, 1, 4, 8}
    /\ h.offset + h.filesz <= Len(t.file)
    /\ h.filesz <= CarrierScanMax

Apart(v, w) ==
    v = w \/ v[2] = 0 \/ w[2] = 0 \/ ViewEnd(v) <= w[1] \/ ViewEnd(w) <= v[1]

PropertiesReadable(t, view, p) ==
    LET align == ViewAlign(t, view)
        desc == DescStart(t.file, p, align)
        end == DescEnd(t.file, p, align)
        all == Properties(t, view, p)
    IN /\ end - desc \in EntryHeaderSize .. DescScanMax /\ (end - desc) % 8 = 0
       /\ \A q \in all :
             /\ PropertyEnd(t.file, q, desc) <= end
             /\ Zero(t.file, DataEnd(t.file, q), PropertyEnd(t.file, q, desc))
             /\ Dword(t.file, q) = FeatureType => Dword(t.file, q + 4) = 4
             /\ \A r \in all : q < r => Dword(t.file, q) <= Dword(t.file, r)

NoteReadable(t, view, p) ==
    LET align == ViewAlign(t, view)
    IN /\ NoteEnd(t.file, p, align) <= ViewEnd(view)
       /\ Zero(t.file, NameEnd(t.file, p), DescStart(t.file, p, align))
       /\ Zero(t.file, DescEnd(t.file, p, align), NoteEnd(t.file, p, align))
       /\ IsPropertyNote(t, p) => PropertiesReadable(t, view, p)

\* What is left after the last note of a view is shorter than a note, and zero.
TailReadable(t, view) ==
    LET ends == {view[1]} \cup {NoteEnd(t.file, p, ViewAlign(t, view)) : p \in Notes(t, view)}
        last == CHOOSE e \in ends : \A f \in ends : f <= e
    IN Zero(t.file, last, ViewEnd(view))

Readable(t) ==
    /\ \A i \in DOMAIN t.headers : HeaderReadable(t, t.headers[i])
    /\ \A v, w \in Views(t) : Apart(v, w)
    /\ Len(t.headers) <= ContributorMax /\ Cardinality(Views(t)) <= CarrierMax
    /\ \A view \in Views(t) :
          /\ \A p \in Notes(t, view) : NoteReadable(t, view, p)
          /\ TailReadable(t, view)
    /\ Cardinality(AllNotes(t)) <= NoteScanMax
    /\ Cardinality(AllPropertyNotes(t)) <= NoteMax
    /\ Cardinality(AllProperties(t)) <= EntryMax
=============================================================================
