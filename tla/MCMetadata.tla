----------------------------- MODULE MCMetadata -----------------------------
(***************************************************************************)
(* Dynamic tables of up to three entries of every kind around a string     *)
(* table, with and without DT_NULL, and a file whose two loads overlap;    *)
(* and files of up to three pieces, notes and broken notes, with every     *)
(* pair of headers over them and longer lists that repeat a few headers.   *)
(* Each is analysed with a plain one of the other kind.                    *)
(***************************************************************************)
EXTENDS Metadata

NUL == 0      \* as in DynamicMetadata

MCSymbol == <<99, NUL>>

\* "c", "p", "p" again, "pq", the empty string, and one without a NUL.
Strings == <<99, NUL, 112, NUL, 112, NUL, 112, 113, NUL, NUL, 112>>

MCFile == <<1, 2>> \o Strings \o Strings

MCLoads ==
    <<[vaddr |-> 20, offset |-> 0, filesz |-> 5],
      [vaddr |-> 40, offset |-> 2, filesz |-> 11], [vaddr |-> 38, offset |-> 0, filesz |-> 24]>>

Valued(tag, values) == {[tag |-> tag, value |-> v] : v \in values}
Flagged(tag, sets) == {[tag |-> tag, bits |-> b] : b \in sets}
Bare(tags) == {[tag |-> t] : t \in tags}

Entries ==
    Valued("SONAME", {2, 9, 10}) \cup Valued("RPATH", {2, 4, 6, 10, 11}) \cup Valued("RUNPATH", {2, 9})
      \cup Flagged("FLAGS", {{}, {"TEXTREL"}, {"BIND_NOW"}})
      \cup Flagged("FLAGS_1", {{"NOW"}, {"PIE"}})
      \cup Bare({"NULL", "TEXTREL", "BIND_NOW", "OTHER"})

Body(n) == UNION {[1 .. m -> Entries] : m \in 0 .. n}

Named == <<[tag |-> "STRTAB", value |-> 40], [tag |-> "STRSZ", value |-> 11]>>

Null == <<[tag |-> "NULL"]>>

Tables ==
    {Named \o body \o end : body \in Body(3), end \in {<<>>, Null}}
      \cup {body \o Named \o Null : body \in Body(2)}
      \cup {body \o Null : body \in Body(2)}
      \cup {<<[tag |-> "STRTAB", value |-> v], [tag |-> "STRSZ", value |-> s]>> \o body \o Null :
              v \in {20, 38, 40, 41, 51, 62}, s \in {0, 2, 5, 13}, body \in Body(1)}
      \cup {Named \o body \o end : body \in [1 .. 4 -> Valued("RPATH", {2}) \cup Bare({"TEXTREL"})],
                                  end \in {<<>>, Null}}
      \cup {Named \o <<e>> \o Null : e \in Valued("STRTAB", {40, 41}) \cup Valued("STRSZ", {0, 11})}

Elf(type, entry, interps, dynamic, table, tail) ==
    [type |-> type, entry |-> entry, interps |-> interps, dynamic |-> dynamic, table |-> table,
     tail |-> tail, loads |-> MCLoads, file |-> MCFile]

Number(n) == <<n, 0, 0, 0>>
Zeros(n) == [i \in 1 .. n |-> 0]
Feature(bits) == Number(2) \o Number(4) \o Number(bits) \o Number(0)
Flag(type) == Number(type) \o Number(0)

Note(owner, type, desc) ==
    Number(Len(owner)) \o Number(Len(desc)) \o Number(type) \o owner \o desc
GnuNote(desc) == Note(GnuOwner, 5, desc)

\* Property notes: feature words, other properties before and after them.
PropertyPieces ==
    {GnuNote(Feature(bits)) : bits \in 1 .. 3}
      \cup {GnuNote(Feature(5)), GnuNote(Flag(1)), GnuNote(Flag(1) \o Feature(3)),
            GnuNote(Feature(2) \o Flag(2)), GnuNote(Flag(3) \o Feature(1)), GnuNote(Flag(4) \o Flag(4))}

\* A wrong size of the feature word, padding that is not zero, too short, too long.
BrokenProperties ==
    {GnuNote(Number(2) \o Number(8) \o Zeros(8)), GnuNote(Number(1) \o Number(1) \o <<9, 9>> \o Zeros(6)),
     GnuNote(Number(1) \o Number(30)), GnuNote(<<>>), GnuNote(Zeros(12)),
     GnuNote(Flag(1) \o Flag(1) \o Flag(1) \o Flag(1))}

\* Other notes, whose ends depend on the alignment, and what is no note.
OtherPieces ==
    {Note(GnuOwner, 3, Zeros(4)), Note(<<67, 79, 82, 69, 0, 0, 0, 0>>, 5, Zeros(4)),
     Note(<<67, 0, 0, 0>>, 5, <<>>), Note(<<1, 0>>, 1, <<7>>) \o <<0>>, <<0, 0, 0, 0>>, <<0, 0, 9, 0>>,
     Number(60) \o Number(0) \o Number(1)}

Pieces == PropertyPieces \cup BrokenProperties \cup OtherPieces

\* A file and the offsets of its second and third piece.
Cut(pieces) ==
    [file |-> pieces[1] \o pieces[2] \o pieces[3], a |-> Len(pieces[1]),
     b |-> Len(pieces[1]) + Len(pieces[2])]

NoteFiles ==
    {Cut(<<p, q, <<>>>>) : p \in Pieces, q \in PropertyPieces}
      \cup {Cut(<<p, q, <<>>>>) : p \in PropertyPieces, q \in Pieces}
      \cup {Cut(<<p, q, r>>) : p, q \in PropertyPieces, r \in {Zeros(4), GnuNote(Feature(2))}}

Whole(c) == <<0, Len(c.file)>>
Front(c) == <<0, c.a>>
Rest(c) == <<c.a, Len(c.file) - c.a>>

Ranges(c) == {Whole(c), Front(c), Rest(c), <<c.a - 1, 2>>, <<c.b, 0>>, <<c.a, Len(c.file)>>}

At(range, type, align) == [type |-> type, align |-> align, offset |-> range[1], filesz |-> range[2]]

Sound(ranges) ==
    {At(r, "NOTE", 4) : r \in ranges} \cup {At(r, "NOTE", 8) : r \in ranges}
      \cup {At(r, "PROPERTY", 8) : r \in ranges}

Seqs(S, n) == UNION {[1 .. m -> S] : m \in 0 .. n}

HeaderLists(c) ==
    Seqs(Sound(Ranges(c)), 1)
      \cup {<<At(Whole(c), "NOTE", a)>> : a \in {0, 1, 2}} \cup {<<At(Whole(c), "PROPERTY", 4)>>}
      \cup Seqs({At(Front(c), "NOTE", 4), At(Rest(c), "NOTE", 4), At(Rest(c), "PROPERTY", 8),
                 At(<<c.b, 0>>, "NOTE", 4)}, 2)

Overlapping(c) == Seqs(Sound(Ranges(c)), 2)
Long(c) ==
    Seqs({At(Front(c), "NOTE", 4), At(Rest(c), "NOTE", 1), At(Front(c), "PROPERTY", 8)}, 4)
      \cup Seqs({At(<<c.b, 0>>, "NOTE", 4), At(<<0, 0>>, "NOTE", 4), At(Front(c), "NOTE", 4)}, 3)

MCPlainTables == {Elf("DYN", FALSE, 0, FALSE, <<>>, 0)}

SoundNotes ==
    LET c == Cut(<<GnuNote(Feature(1)), GnuNote(Feature(3)), <<>>>>)
    IN  [headers |-> <<At(Whole(c), "PROPERTY", 8)>>, file |-> c.file]

MCPlainNotes == {SoundNotes}

MCDynamicTargets ==
    {Elf("DYN", FALSE, 0, TRUE, table, 0) : table \in Tables}
      \cup {Elf(type, entry, interps, TRUE, Named \o body \o Null, tail) :
              type \in {"EXEC", "DYN", "REL"}, entry \in BOOLEAN, interps \in 0 .. 2,
              tail \in {0, 8}, body \in Body(1)}
      \cup {Elf(type, FALSE, 0, FALSE, <<>>, 0) : type \in {"EXEC", "DYN"}}

MCTargets ==
    MCPlainNotes
      \cup UNION {{[headers |-> list, file |-> c.file] : list \in HeaderLists(c)} : c \in NoteFiles}
      \cup UNION {{[headers |-> list, file |-> c.file] : list \in Overlapping(c) \cup Long(c)} :
                     c \in {Cut(<<GnuNote(Feature(1)), Note(GnuOwner, 3, Zeros(4)), Zeros(4)>>),
                            Cut(<<GnuNote(Feature(3)), GnuNote(Feature(2)), <<>>>>)}}
=============================================================================
