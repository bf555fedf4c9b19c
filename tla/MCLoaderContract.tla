-------------------------- MODULE MCLoaderContract --------------------------
(***************************************************************************)
(* Files of eight bytes with four-bit words and one-byte program headers:  *)
(* every pair of headers from a list with loads at both ends of the file   *)
(* and of the address space, and triples for the region table of two, in   *)
(* files whose other numbers are ordinary; then files of the sizes around  *)
(* the ELF header with every set of wrong fields, and loadable files whose *)
(* numbers are around the domains the ELF header and section header zero   *)
(* share.                                                                  *)
(***************************************************************************)
EXTENDS ElfGate

MCLoad(flags, align, offset, vaddr, filesz, memsz) ==
    [type |-> "LOAD", flags |-> flags, align |-> align, offset |-> offset, vaddr |-> vaddr,
     filesz |-> filesz, memsz |-> memsz]

MCOther(type, flags, filesz) ==
    [type |-> type, flags |-> flags, align |-> 1, offset |-> 7, vaddr |-> 0, filesz |-> filesz,
     memsz |-> 3]

X == {"X"}
WX == {"W", "X"}

MCLoads ==
    { MCLoad(X, 1, 3, 5, 2, 3), MCLoad(WX, 0, 4, 8, 4, 6),
      MCLoad(X, 4, 2, 6, 3, 4), MCLoad(X, 4, 2, 7, 3, 4), MCLoad(X, 6, 2, 2, 1, 2),
      MCLoad(X, 1, 7, 2, 2, 3), MCLoad(X, 1, 14, 2, 3, 3), MCLoad(X, 1, 0, 13, 2, 2),
      MCLoad(X, 1, 0, 13, 2, 3), MCLoad(X, 1, 2, 3, 4, 3),
      MCLoad({"W"}, 2, 2, 4, 2, 4), MCLoad({}, 1, 0, 0, 0, 15) }

MCOthers ==
    { MCOther("GNU_STACK", {}, 0), MCOther("GNU_STACK", X, 0), MCOther("GNU_RELRO", {}, 0),
      MCOther("NULL", {}, 0), MCOther("INTERP", {}, 0), MCOther("INTERP", {}, 1),
      MCOther("INTERP", {}, 2), MCOther("INTERP", {}, 3), MCOther("DYNAMIC", {}, 1),
      MCOther("DYNAMIC", {}, 2), MCOther("NOTE", {}, 1), MCOther("GNU_PROPERTY", {}, 1) }

MCHeaders == MCLoads \cup MCOthers

MCFile(entry, phoff, phentsize, phdrs) ==
    [fileSize |-> 8, entry |-> entry, phoff |-> phoff, phentsize |-> phentsize, phdrs |-> phdrs]

MCGoodLoads == { MCLoad(X, 1, 3, 5, 2, 3), MCLoad(WX, 0, 4, 8, 4, 6), MCLoad({}, 1, 0, 0, 0, 15) }

ContractObjects ==
    {MCFile(entry, phoff, phentsize, phdrs) : entry \in {0, 7}, phoff \in {0, 2, 8},
        phentsize \in {1, 2}, phdrs \in {<<>>} \cup {<<h>> : h \in MCGoodLoads}}
    \cup
    {MCFile(entry, phoff, 1, <<h, g>>) : entry \in {0, 8}, phoff \in {6, 7},
        h \in MCHeaders, g \in MCHeaders}
    \cup
    {MCFile(8, 1, 1, <<f, g, h>>) : f \in MCGoodLoads, g \in MCGoodLoads,
        h \in MCGoodLoads \cup MCOthers}

\* Two loads, at offsets where three, four and five headers fit and do not.
NumberObjects ==
    {MCFile(8, phoff, phentsize, <<f, f>>) :
        phoff \in {1, 4, 5}, phentsize \in {1, 2}, f \in {MCLoad(WX, 0, 4, 8, 4, 6)}}
    \cup {MCFile(0, 0, 1, <<>>)}

IdentityObjects == {[MCFile(0, 0, 1, <<>>) EXCEPT !.fileSize = n] : n \in {1, 2, 3, 4}}

MCObjects == ContractObjects \cup NumberObjects \cup IdentityObjects

MCZero(null, size, link, info) == [null |-> null, size |-> size, link |-> link, info |-> info]

MCEhdr(wrong, phnum, shoff, shentsize, shnum, shstrndx, zero) ==
    [wrong |-> wrong, phnum |-> phnum, shoff |-> shoff, shentsize |-> shentsize, shnum |-> shnum,
     shstrndx |-> shstrndx, zero |-> zero]

Wrong(n) == {MCEhdr(wrong, n, 0, 0, 0, 0, MCZero(TRUE, 0, 0, 0)) : wrong \in SUBSET IdentityFields}

Numbers(n) ==
    {MCEhdr({}, phnum, shoff, 1, shnum, shstrndx, MCZero(TRUE, size, link, info)) :
        phnum \in {n, PN_XNUM}, shoff \in {0, 4, 5, 8}, shnum \in {0, 1, 2, 3},
        shstrndx \in {0, 1, 3, 4}, size \in {0, 2, 3, 4}, link \in {0, 2, 3}, info \in {0, 3, 4, 5}}
    \cup {MCEhdr({}, phnum, 4, shentsize, shnum, 1, MCZero(null, size, 0, info)) :
        phnum \in {n, PN_XNUM}, shentsize \in {1, 2}, shnum \in {0, 2}, null \in BOOLEAN,
        size \in {0, 3}, info \in {0, 4}}

MCEhdrs(o) ==
    CASE o \in IdentityObjects -> Wrong(Len(o.phdrs))
      [] o \in NumberObjects   -> Numbers(Len(o.phdrs))
      [] OTHER -> {MCEhdr({}, Len(o.phdrs), 0, 0, 0, 0, MCZero(TRUE, 0, 0, 0))}
=============================================================================
