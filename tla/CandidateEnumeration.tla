------------------------ MODULE CandidateEnumeration ------------------------
(***************************************************************************)
(* What the analysis of x64lens promises, without saying how it scans: of  *)
(* one object it either has every return-terminated candidate of every     *)
(* executable region, or it has none and says why.  Nothing here has a     *)
(* cursor, a word size or an order of discovery.                           *)
(***************************************************************************)
EXTENDS Integers, FiniteSets, Sequences

CONSTANTS DepthLimit,     \* GADGET_MAX_DEPTH_LIMIT
          RET,            \* the byte 0xc3
          RET_IMM16,      \* the byte 0xc2
          HeaderSize      \* ELF64_SHDR_SIZE

VARIABLES object,         \* the mapped file, its executable regions, depth and capacity
          outcome         \* the answer, or Pending

Pending == [status |-> "pending", found |-> {}, count |-> 0]

(***************************************************************************)
(* The candidates of an object, in numbers.                                *)
(***************************************************************************)
End(r) == r.fileOffset + r.filesz

InFile(o, r) == End(r) <= o.fileSize

TerminatorLength(byte) == IF byte = RET THEN 1 ELSE 3

IsTerminator(o, r, at) ==
    \/ o.image[at] = RET
    \/ o.image[at] = RET_IMM16 /\ at + 3 <= End(r)

\* The candidate that ends at offset "at": up to depth bytes of the region before
\* the terminator, and the terminator itself.
Candidate(o, i, at) ==
    LET r == o.regions[i]
        start == IF at - o.depth > r.fileOffset THEN at - o.depth ELSE r.fileOffset
    IN  [region |-> i,
         fileOffset |-> at,
         virtualAddress |-> r.vaddr + (at - r.fileOffset),
         byteStart |-> start,
         byteLen |-> (at - start) + TerminatorLength(o.image[at]),
         terminator |-> o.image[at]]

CandidatesOf(o, i) ==
    LET r == o.regions[i] IN
    {Candidate(o, i, at) : at \in {b \in r.fileOffset .. End(r) - 1 : IsTerminator(o, r, b)}}

CandidatesUpTo(o, n) == UNION {CandidatesOf(o, i) : i \in 1 .. n}

\* The regions that can be trusted: those before the first one outside the file.
TrustedRegions(o) ==
    LET outside == {i \in DOMAIN o.regions : ~InFile(o, o.regions[i])} IN
    IF outside = {} THEN Len(o.regions)
    ELSE (CHOOSE i \in outside : \A j \in outside : i <= j) - 1

\* The section headers an object has, which the commands look at before they scan.
SectionsInFile(o) ==
    \/ o.sections.count = 0
    \/ /\ o.sections.entsize = HeaderSize /\ o.sections.offset # 0
       /\ o.sections.offset + HeaderSize * o.sections.count <= o.fileSize

DepthAccepted(o) == o.depth # 0 /\ o.depth <= DepthLimit

\* One place for each candidate: at most "capacity" of them, or no report at all.
Answer(o) ==
    LET trusted == TrustedRegions(o)
        found == CandidatesUpTo(o, trusted)
        refused(status) == [status |-> status, found |-> {}, count |-> 0]
    IN  IF ~SectionsInFile(o) THEN refused("malformed")
        ELSE IF ~DepthAccepted(o) \/ Cardinality(found) > o.capacity THEN refused("unsupported")
        ELSE IF trusted < Len(o.regions) THEN refused("malformed")
        ELSE [status |-> "ok", found |-> found, count |-> Cardinality(found)]

Init == outcome = Pending

Enumerate == outcome = Pending /\ outcome' = Answer(object) /\ UNCHANGED object

Next == Enumerate

vars == <<object, outcome>>

SafeSpec == Init /\ [][Next]_vars

Spec == SafeSpec /\ WF_vars(Next)
=============================================================================
