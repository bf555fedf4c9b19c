------------------------ MODULE LoaderContractProofs ------------------------
(***************************************************************************)
(* Proofs about the loader contract, for every word size, every set of     *)
(* files and every limit.                                                  *)
(***************************************************************************)
EXTENDS ElfGate, FiniteSetTheorems, TLAPS

-----------------------------------------------------------------------------
(* The checked arithmetic, as in PrimitivesProofs: the two sets of proofs  *)
(* cannot extend one another, since the specifications share names.        *)

\* A product of words is a natural number (stated once: the provers are slow
\* to see it inside a larger goal).
LEMMA ProductNat ==
    ASSUME NEW a \in Nat, NEW b \in Nat
    PROVE  a * b \in Nat
  OBVIOUS

\* ADD keeps the number itself exactly when it does not carry.
LEMMA SumExact ==
    ASSUME NEW a \in Nat, NEW b \in Nat, a + b <= WordMax
    PROVE  WordSum(a, b) = a + b /\ ~Carries(a, b)
  BY WordMaxAssumption DEF WordSum, Carries

\* The product is monotonic in its second factor, one step at a time.
LEMMA ProductStep ==
    ASSUME NEW a \in Nat, NEW i \in Nat, NEW n \in Nat, i < n
    PROVE  a * i + a <= a * n
  <1>1. PICK k \in Nat : n = i + 1 + k
    <2>1. n - (i + 1) \in Nat /\ n = i + 1 + (n - (i + 1))
      OBVIOUS
    <2> QED BY <2>1
  <1>2. a * n = a * i + a + a * k
    BY <1>1
  <1>3. a * k \in Nat /\ a * i \in Nat
    BY ProductNat
  <1> QED BY <1>2, <1>3

-----------------------------------------------------------------------------
(* The helpers.                                                            *)

LEMMA RangeExact ==
    ASSUME NEW fileSize \in Word, NEW offset \in Word, NEW length \in Word
    PROVE  /\ RangeEndValid(fileSize, offset, length) <=> (offset + length <= fileSize)
           /\ RangeValid(fileSize, offset, length) <=> RangeEndValid(fileSize, offset, length)
           /\ RangeEndValid(fileSize, offset, length) =>
                 RangeEnd(offset, length) = offset + length
  BY WordMaxAssumption
     DEF RangeEndValid, RangeValid, RangeEnd, Word, Carries, WordSum, WordDifference

LEMMA ExtentExact ==
    ASSUME NEW fileSize \in Word, NEW offset \in Word, NEW stride \in Word, NEW count \in Word
    PROVE  /\ TableExtentValid(fileSize, offset, stride, count) <=>
                 /\ offset + stride * count <= fileSize
                 /\ count # 0 => stride # 0
           /\ TableExtentValid(fileSize, offset, stride, count) =>
                 TableEnd(offset, stride, count) = offset + stride * count
  <1> DEFINE bytes == stride * count
  <1>1. bytes \in Nat /\ fileSize \in Nat /\ offset \in Nat
    BY ProductNat, WordMaxAssumption DEF Word
  <1>2. CASE count = 0
    <2>1. bytes = 0
      BY <1>2, WordMaxAssumption DEF Word
    <2>2. TableExtentValid(fileSize, offset, stride, count) <=> offset <= fileSize
      BY <1>1, <1>2 DEF TableExtentValid
    <2>3. TableEnd(offset, stride, count) = offset
      BY <1>2 DEF TableEnd
    <2> HIDE DEF bytes
    <2>4. offset + bytes = offset
      BY <1>1, <2>1
    <2> QED BY <1>2, <2>2, <2>3, <2>4 DEF bytes
  <1>3. CASE count # 0
    <2>1. HighWordNonzero(stride, count) <=> bytes > WordMax
      BY DEF HighWordNonzero
    <2>2. ~HighWordNonzero(stride, count) => WordProduct(stride, count) = bytes
      BY DEF WordProduct
    <2>3. TableExtentValid(fileSize, offset, stride, count) <=>
             /\ stride # 0
             /\ ~HighWordNonzero(stride, count)
             /\ ~Carries(bytes, offset)
             /\ ~(WordSum(bytes, offset) > fileSize)
      BY <1>3, <2>2 DEF TableExtentValid, TableEnd
    <2>4. ~HighWordNonzero(stride, count) =>
             TableEnd(offset, stride, count) = WordSum(bytes, offset)
      BY <1>3, <2>2 DEF TableEnd
    <2> HIDE DEF bytes
    <2>5. TableExtentValid(fileSize, offset, stride, count) <=>
             (stride # 0 /\ offset + bytes <= fileSize)
      BY <1>1, <2>1, <2>3, WordMaxAssumption DEF Carries, WordSum, Word
    <2>6. TableExtentValid(fileSize, offset, stride, count) =>
             TableEnd(offset, stride, count) = offset + bytes
      BY <1>1, <2>3, <2>4, WordMaxAssumption DEF Carries, WordSum, Word
    <2> QED BY <1>3, <2>5, <2>6 DEF bytes
  <1> QED BY <1>2, <1>3

LEMMA EntryExact ==
    ASSUME NEW fileSize \in Word, NEW offset \in Word, NEW stride \in Word,
           NEW count \in Word, NEW k \in Word
    PROVE  /\ EntryOffsetValid(fileSize, offset, stride, count, k) <=>
                 /\ k < count
                 /\ stride # 0
                 /\ offset + stride * k + stride <= fileSize
           /\ EntryOffsetValid(fileSize, offset, stride, count, k) =>
                 EntryOffset(offset, stride, k) = offset + stride * k
  <1> DEFINE delta == stride * k
  <1>1. delta \in Nat /\ fileSize \in Nat /\ offset \in Nat /\ stride \in Nat
        /\ k \in Nat /\ count \in Nat /\ fileSize <= WordMax
    BY ProductNat, WordMaxAssumption DEF Word
  <1>2. HighWordNonzero(stride, k) <=> delta > WordMax
    BY DEF HighWordNonzero
  <1>3. ~HighWordNonzero(stride, k) => WordProduct(stride, k) = delta
    BY DEF WordProduct
  <1>4. ~HighWordNonzero(stride, k) =>
           EntryOffset(offset, stride, k) = WordSum(delta, offset)
    BY <1>3 DEF EntryOffset
  <1>5. EntryOffsetValid(fileSize, offset, stride, count, k) <=>
           /\ k < count
           /\ stride # 0
           /\ ~HighWordNonzero(stride, k)
           /\ ~Carries(delta, offset)
           /\ ~Carries(WordSum(delta, offset), stride)
           /\ ~(WordSum(WordSum(delta, offset), stride) > fileSize)
    BY <1>1, <1>3, <1>4 DEF EntryOffsetValid
  <1> HIDE DEF delta
  <1>6. EntryOffsetValid(fileSize, offset, stride, count, k) <=>
           k < count /\ stride # 0 /\ offset + delta + stride <= fileSize
    BY <1>1, <1>2, <1>5, WordMaxAssumption DEF Carries, WordSum
  <1>7. EntryOffsetValid(fileSize, offset, stride, count, k) =>
           EntryOffset(offset, stride, k) = offset + delta
    BY <1>1, <1>4, <1>5, WordMaxAssumption DEF Carries, WordSum
  <1> QED BY <1>6, <1>7 DEF delta

LEMMA EntriesCovered ==
    ASSUME NEW fileSize \in Word, NEW offset \in Word, NEW stride \in Word,
           NEW count \in Word, NEW k \in Word, k < count,
           TableExtentValid(fileSize, offset, stride, count)
    PROVE  /\ EntryOffsetValid(fileSize, offset, stride, count, k)
           /\ EntryOffset(offset, stride, k) >= offset
           /\ EntryOffset(offset, stride, k) + stride <= TableEnd(offset, stride, count)
  <1>1. stride \in Nat /\ k \in Nat /\ count \in Nat /\ offset \in Nat /\ fileSize \in Nat
    BY WordMaxAssumption DEF Word
  <1>2. /\ offset + stride * count <= fileSize
        /\ count # 0 => stride # 0
        /\ TableEnd(offset, stride, count) = offset + stride * count
    BY ExtentExact
  <1>3. stride * k + stride <= stride * count
    BY <1>1, ProductStep
  <1>4. stride * k \in Nat /\ stride * count \in Nat
    BY <1>1, ProductNat
  <1>5. stride # 0
    BY <1>1, <1>2
  <1>6. offset + stride * k + stride <= fileSize
    BY <1>1, <1>2, <1>3, <1>4
  <1>7. /\ EntryOffsetValid(fileSize, offset, stride, count, k)
        /\ EntryOffset(offset, stride, k) = offset + stride * k
    BY <1>5, <1>6, EntryExact
  <1> QED BY <1>1, <1>2, <1>3, <1>4, <1>7

-----------------------------------------------------------------------------
(* The checks of one header, in numbers.                                   *)

TableLoadable ==
    /\ PhdrCount = 0 => object.phoff = 0 /\ object.entry = 0
    /\ PhdrCount > 0 => /\ object.phentsize = PhdrSize
                        /\ object.phoff > 0
                        /\ object.phoff + PhdrSize * PhdrCount <= object.fileSize

HeaderLoadable(h) == /\ h.align > 1 => PowerOfTwo(h.align)
                     /\ h.type = "LOAD" => LoadFits(h)

FileTyped == object \in ElfFile /\ PhdrCount \in Word

LEMMA TableExact ==
    ASSUME FileTyped
    PROVE  TableAccepted <=> TableLoadable
  <1>1. /\ object.fileSize \in Word /\ object.phoff \in Word
        /\ PhdrSize \in Word \ {0} /\ PhdrCount \in Word
    BY LoaderAssumption DEF FileTyped, ElfFile
  <1>2. /\ object.phoff > 0 <=> object.phoff # 0
        /\ PhdrCount > 0 <=> PhdrCount # 0
    BY <1>1, WordMaxAssumption DEF Word
  <1>3. TableExtentValid(object.fileSize, object.phoff, PhdrSize, PhdrCount) <=>
           object.phoff + PhdrSize * PhdrCount <= object.fileSize
    BY <1>1, ExtentExact
  <1> QED BY <1>2, <1>3 DEF TableAccepted, TableLoadable

\* An accepted table has every entry inside it, so no entry is unreadable.
LEMMA EveryEntryReadable ==
    ASSUME FileTyped, TableAccepted, index \in Nat, index < PhdrCount
    PROVE  HeaderReadable
  <1>1. /\ object.fileSize \in Word /\ object.phoff \in Word
        /\ PhdrSize \in Word /\ PhdrCount \in Word /\ index \in Word
    BY LoaderAssumption, WordMaxAssumption DEF FileTyped, ElfFile, Word
  <1>2. PhdrCount # 0
    BY <1>1, WordMaxAssumption DEF Word
  <1>3. TableExtentValid(object.fileSize, object.phoff, PhdrSize, PhdrCount)
    BY <1>2 DEF TableAccepted
  <1> QED BY <1>1, <1>3, EntriesCovered DEF HeaderReadable

LEMMA HeaderExact ==
    ASSUME FileTyped, NEW h \in Phdr
    PROVE  /\ HeaderAccepted(h) <=> HeaderLoadable(h)
           /\ HeaderAccepted(h) => (HoldsEntry(h) <=> object.entry # 0 /\ EntryIn(h))
  <1>1. /\ object.fileSize \in Word /\ object.entry \in Word
        /\ h.offset \in Word /\ h.vaddr \in Word /\ h.filesz \in Word /\ h.memsz \in Word
    BY DEF FileTyped, ElfFile, Phdr
  <1>2. /\ object.entry \in Int /\ h.vaddr \in Int /\ h.memsz \in Int
        /\ h.vaddr \in Nat /\ h.memsz \in Nat
    BY <1>1, WordMaxAssumption DEF Word
  <1>3. RangeEndValid(object.fileSize, h.offset, h.filesz) <=>
           h.offset + h.filesz <= object.fileSize
    BY <1>1, RangeExact
  <1>4. Carries(h.vaddr, h.memsz) <=> ~(h.vaddr + h.memsz <= WordMax)
    BY <1>2, WordMaxAssumption DEF Carries
  <1>5. h.type = "LOAD" => (LoadFits(h) <=> /\ LoadInFile(h)
                                            /\ ~Carries(h.vaddr, h.memsz)
                                            /\ LoadCongruent(h))
    BY <1>3, <1>4 DEF LoadFits, LoadInFile, LoadCongruent
  <1>6. HeaderAccepted(h) <=> HeaderLoadable(h)
    BY <1>5 DEF HeaderAccepted, HeaderLoadable
  <1>7. ASSUME HeaderAccepted(h), h.type = "LOAD"
        PROVE  WordSum(h.vaddr, h.memsz) = h.vaddr + h.memsz
    BY <1>4, <1>7, <1>2, SumExact DEF HeaderAccepted
  <1>8. object.entry >= h.vaddr <=> h.vaddr <= object.entry
    BY <1>2
  <1>9. HeaderAccepted(h) => (HoldsEntry(h) <=> object.entry # 0 /\ EntryIn(h))
    BY <1>7, <1>8 DEF HoldsEntry, EntryIn
  <1> QED BY <1>6, <1>9

LEMMA PhdrTyped ==
    ASSUME FileTyped, NEW i \in 1 .. PhdrCount
    PROVE  object.phdrs[i] \in Phdr
  BY DEF FileTyped, ElfFile, PhdrCount

-----------------------------------------------------------------------------
(* The inductive invariant: what the contract's loop knows of the headers  *)
(* it has passed.                                                          *)

Passed == 1 .. index

ContractLoop ==
    pc = "contract_header" =>
       /\ TableAccepted /\ PhdrCount # 0
       /\ \A i \in Passed : HeaderAccepted(object.phdrs[i])
       /\ entryInLoad <=> \E i \in Passed : HoldsEntry(object.phdrs[i])

Position ==
    /\ FileTyped
    /\ index \in Nat /\ index <= PhdrCount
    /\ entryInLoad \in BOOLEAN
    /\ caller \in {"elf64_validate", "phdr_analyze"}
    /\ pc = "header" => caller = "phdr_analyze"

AcceptedIsLoadable == pc = "accepted" => Loadable

IInv == Position /\ ContractLoop /\ AcceptedIsLoadable /\ ContractExact

-----------------------------------------------------------------------------
(* The verdict of the loop.                                                *)

LEMMA LoadableParts ==
    ASSUME FileTyped
    PROVE  Loadable <=> /\ TableLoadable
                        /\ \A i \in 1 .. PhdrCount : HeaderLoadable(object.phdrs[i])
                        /\ object.entry = 0 \/ \E i \in 1 .. PhdrCount : EntryIn(object.phdrs[i])
  <1>1. PhdrCount \in Nat
    BY WordMaxAssumption DEF FileTyped, Word
  <1>2. PhdrCount = 0 => 1 .. PhdrCount = {}
    BY <1>1
  <1>3. (\A h \in Headers : HeaderLoadable(h)) <=>
           \A i \in 1 .. PhdrCount : HeaderLoadable(object.phdrs[i])
    BY DEF Headers
  <1>4. (\E h \in Headers : EntryIn(h)) <=> \E i \in 1 .. PhdrCount : EntryIn(object.phdrs[i])
    BY DEF Headers
  <1>5. Loadable <=> /\ PhdrCount = 0 => object.phoff = 0
                     /\ PhdrCount > 0 =>
                           /\ object.phentsize = PhdrSize
                           /\ object.phoff > 0
                           /\ object.phoff + PhdrSize * PhdrCount <= object.fileSize
                     /\ \A h \in Headers : HeaderLoadable(h)
                     /\ object.entry = 0 \/ \E h \in Headers : EntryIn(h)
    BY DEF Loadable, HeaderLoadable
  <1> QED BY <1>2, <1>3, <1>4, <1>5 DEF TableLoadable

LEMMA TableNotLoadable ==
    ASSUME FileTyped, ~TableAccepted
    PROVE  ~Loadable
  BY TableExact, LoadableParts

LEMMA EmptyTableLoadable ==
    ASSUME FileTyped, TableAccepted, PhdrCount = 0
    PROVE  Loadable
  <1>1. TableLoadable
    BY TableExact
  <1>2. object.entry = 0
    BY <1>1 DEF TableLoadable
  <1>3. 1 .. PhdrCount = {}
    OBVIOUS
  <1> QED BY <1>1, <1>2, <1>3, LoadableParts

LEMMA HeaderNotLoadable ==
    ASSUME FileTyped, TableAccepted, index \in Nat, index < PhdrCount,
           ~(HeaderReadable /\ HeaderAccepted(Header))
    PROVE  ~Loadable
  <1>1. ~HeaderAccepted(Header)
    BY EveryEntryReadable
  <1>2. index + 1 \in 1 .. PhdrCount
    BY WordMaxAssumption DEF FileTyped, Word
  <1>3. object.phdrs[index + 1] \in Phdr
    BY <1>2, PhdrTyped
  <1>4. ~HeaderLoadable(object.phdrs[index + 1])
    BY <1>1, <1>3, HeaderExact DEF Header
  <1> QED BY <1>2, <1>4, LoadableParts

LEMMA WholeTableVerdict ==
    ASSUME FileTyped, TableAccepted, index \in Nat, index <= PhdrCount, index >= PhdrCount,
           \A i \in Passed : HeaderAccepted(object.phdrs[i]),
           entryInLoad <=> \E i \in Passed : HoldsEntry(object.phdrs[i])
    PROVE  Loadable <=> (object.entry = 0 \/ entryInLoad)
  <1>1. PhdrCount \in Nat /\ Passed = 1 .. PhdrCount
    BY WordMaxAssumption DEF FileTyped, Word, Passed
  <1>2. \A i \in 1 .. PhdrCount :
           /\ HeaderLoadable(object.phdrs[i])
           /\ HoldsEntry(object.phdrs[i]) <=> object.entry # 0 /\ EntryIn(object.phdrs[i])
    BY <1>1, PhdrTyped, HeaderExact
  <1>3. TableLoadable
    BY TableExact
  <1> QED BY <1>1, <1>2, <1>3, LoadableParts

-----------------------------------------------------------------------------
(* The invariant is inductive.                                             *)

LEMMA SameFile ==
    ASSUME object' = object
    PROVE  /\ FileTyped' <=> FileTyped
           /\ PhdrCount' = PhdrCount
           /\ TableAccepted' <=> TableAccepted
           /\ Loadable' <=> Loadable
           /\ \A i : (HeaderAccepted(object.phdrs[i]))' <=> HeaderAccepted(object.phdrs[i])
           /\ \A i : (HoldsEntry(object.phdrs[i]))' <=> HoldsEntry(object.phdrs[i])
  <1>1. PhdrCount' = PhdrCount /\ Headers' = Headers
    BY DEF PhdrCount, Headers
  <1>2. FileTyped' <=> FileTyped
    BY <1>1 DEF FileTyped
  <1>3. TableAccepted' <=> TableAccepted
    BY <1>1 DEF TableAccepted
  <1>4. Loadable' <=> Loadable
    BY <1>1 DEF Loadable, LoadFits, EntryIn
  <1>5. \A i : (HeaderAccepted(object.phdrs[i]))' <=> HeaderAccepted(object.phdrs[i])
    BY DEF HeaderAccepted, LoadInFile
  <1>6. \A i : (HoldsEntry(object.phdrs[i]))' <=> HoldsEntry(object.phdrs[i])
    BY DEF HoldsEntry
  <1> QED BY <1>1, <1>2, <1>3, <1>4, <1>5, <1>6

LEMMA InitInvariant == Init => IInv
  <1> SUFFICES ASSUME Init PROVE IInv
    OBVIOUS
  <1>1. FileTyped
    BY LoaderAssumption DEF Init, FileTyped, PhdrCount
  <1>2. PhdrCount \in Nat
    BY <1>1, WordMaxAssumption DEF FileTyped, Word
  <1>3. Position
    <2>1. index \in Nat /\ index <= PhdrCount
      BY <1>2 DEF Init
    <2>2. /\ entryInLoad \in BOOLEAN /\ caller \in {"elf64_validate", "phdr_analyze"}
          /\ pc # "header"
      BY DEF Init
    <2> QED BY <1>1, <2>1, <2>2 DEF Position
  <1>4. ContractLoop /\ AcceptedIsLoadable /\ ContractExact
    BY DEF Init, ContractLoop, AcceptedIsLoadable, ContractExact
  <1> QED BY <1>3, <1>4 DEF IInv

\* A refusal leaves everything but the status where it was.
LEMMA RefusalKeepsInvariant ==
    ASSUME IInv, NEW rax, Refuse(rax),
           caller = "elf64_validate" => ~Loadable /\ rax = EXIT_MALFORMED_ELF
    PROVE  IInv'
  <1>1. /\ object' = object /\ caller' = caller /\ index' = index
        /\ entryInLoad' = entryInLoad /\ pc' = "done" /\ status' = rax
    BY DEF Refuse
  <1>2. Position'
    BY <1>1, SameFile DEF IInv, Position
  <1>3. ContractLoop' /\ AcceptedIsLoadable'
    BY <1>1 DEF ContractLoop, AcceptedIsLoadable
  <1>4. ContractExact'
    BY <1>1, SameFile DEF IInv, ContractExact
  <1> QED BY <1>2, <1>3, <1>4 DEF IInv

\* The loop of phdr_analyze runs on a file already found loadable.
LEMMA AnalysisKeepsInvariant ==
    ASSUME IInv, pc = "header", pc' \in {"header", "done"},
           UNCHANGED <<object, caller, entryInLoad>>, index' \in Nat, index' <= PhdrCount
    PROVE  IInv'
  <1>1. caller = "phdr_analyze" /\ Loadable
    BY DEF IInv, Position, ContractExact
  <1>2. Position'
    BY <1>1, SameFile DEF IInv, Position
  <1>3. ContractLoop' /\ AcceptedIsLoadable'
    BY DEF ContractLoop, AcceptedIsLoadable
  <1>4. ContractExact'
    BY <1>1, SameFile DEF ContractExact
  <1> QED BY <1>2, <1>3, <1>4 DEF IInv

LEMMA HeaderStepKeepsInvariant == IInv /\ HeaderStep => IInv'
  <1> SUFFICES ASSUME IInv, HeaderStep PROVE IInv'
    OBVIOUS
  <1>1. pc = "header"
    BY DEF HeaderStep, HeaderMalformed, HeaderUnsupported, DataLoad, ExecutableLoad,
           StackHeader, RelroHeader, InterpHeader, DynamicHeader, OtherHeader,
           ContentRefused, HeadersDone, MetadataRefused, TakesHeader, AtHeader
  <1>2. index \in Nat /\ index <= PhdrCount /\ PhdrCount \in Nat
    BY WordMaxAssumption DEF IInv, Position, FileTyped, Word
  <1>3. ASSUME NEW facts, AtHeader, NextHeader(facts) PROVE IInv'
    <2>1. index' \in Nat /\ index' <= PhdrCount
      BY <1>2, <1>3 DEF AtHeader, NextHeader
    <2>2. pc' = "header" /\ UNCHANGED <<object, caller, entryInLoad>>
      BY <1>1, <1>3 DEF NextHeader
    <2> QED BY <1>1, <2>1, <2>2, AnalysisKeepsInvariant
  <1>4. ASSUME NEW rax, Refuse(rax) PROVE IInv'
    BY <1>1, <1>2, <1>4, AnalysisKeepsInvariant DEF Refuse
  <1>5. CASE HeadersDone
    BY <1>1, <1>2, <1>5, AnalysisKeepsInvariant DEF HeadersDone
  <1>6. CASE HeaderMalformed \/ HeaderUnsupported \/ ContentRefused \/ MetadataRefused
    BY <1>4, <1>6 DEF HeaderMalformed, HeaderUnsupported, ContentRefused, MetadataRefused
  <1>7. CASE DataLoad \/ ExecutableLoad
    BY <1>3, <1>7 DEF DataLoad, ExecutableLoad, TakesHeader
  <1>8. CASE StackHeader \/ RelroHeader \/ InterpHeader \/ DynamicHeader \/ OtherHeader
    BY <1>3, <1>8 DEF StackHeader, RelroHeader, InterpHeader, DynamicHeader, OtherHeader,
                      TakesHeader
  <1> QED BY <1>5, <1>6, <1>7, <1>8 DEF HeaderStep

LEMMA ContractStepKeepsInvariant == IInv /\ ContractStep => IInv'
  <1> SUFFICES ASSUME IInv, ContractStep PROVE IInv'
    OBVIOUS
  <1>1. /\ FileTyped /\ index \in Nat /\ index <= PhdrCount /\ PhdrCount \in Nat
        /\ entryInLoad \in BOOLEAN
    BY WordMaxAssumption DEF IInv, Position, FileTyped, Word
  <1>2. CASE TableRefused
    <2>1. ~Loadable
      BY <1>1, <1>2, TableNotLoadable DEF TableRefused
    <2> QED BY <1>2, <2>1, RefusalKeepsInvariant DEF TableRefused
  <1>3. CASE HeaderRefused
    <2>1. ~Loadable
      BY <1>1, <1>3, HeaderNotLoadable DEF HeaderRefused, IInv, ContractLoop
    <2> QED BY <1>3, <2>1, RefusalKeepsInvariant DEF HeaderRefused
  <1>4. CASE EntryRefused
    <2>1. ~Loadable
      BY <1>1, <1>4, WholeTableVerdict DEF EntryRefused, IInv, ContractLoop
    <2> QED BY <1>4, <2>1, RefusalKeepsInvariant DEF EntryRefused
  <1>5. CASE BeginContract
    <2>1. /\ object' = object /\ caller' = caller /\ index' = 0 /\ entryInLoad' = FALSE
          /\ pc' = IF PhdrCount = 0 THEN "accepted" ELSE "contract_header"
      BY <1>5 DEF BeginContract
    <2>2. Position'
      <3>1. index' \in Nat /\ index' <= PhdrCount
        BY <1>1, <2>1
      <3>2. entryInLoad' \in BOOLEAN /\ pc' # "header"
        BY <2>1
      <3> QED BY <2>1, <3>1, <3>2, SameFile DEF IInv, Position
    <2>3. ContractLoop'
      <3>1. Passed' = {}
        BY <2>1 DEF Passed
      <3>2. pc' = "contract_header" => TableAccepted /\ PhdrCount # 0
        BY <1>5, <2>1 DEF BeginContract
      <3> QED BY <2>1, <3>1, <3>2, SameFile DEF ContractLoop
    <2>4. AcceptedIsLoadable'
      <3>1. pc' = "accepted" => Loadable
        BY <1>1, <1>5, <2>1, EmptyTableLoadable DEF BeginContract
      <3> QED BY <2>1, <3>1, SameFile DEF AcceptedIsLoadable
    <2>5. ContractExact'
      BY <2>1, SameFile DEF IInv, ContractExact
    <2> QED BY <2>2, <2>3, <2>4, <2>5 DEF IInv
  <1>6. CASE ContractHeader
    <2>1. /\ object' = object /\ caller' = caller /\ index' = index + 1 /\ pc' = pc
          /\ pc = "contract_header" /\ index < PhdrCount /\ HeaderAccepted(Header)
          /\ entryInLoad' = (entryInLoad \/ HoldsEntry(Header))
      BY <1>6 DEF ContractHeader
    <2>2. Position'
      <3>1. index' \in Nat /\ index' <= PhdrCount /\ entryInLoad' \in BOOLEAN
        BY <1>1, <2>1
      <3> QED BY <2>1, <3>1, SameFile DEF IInv, Position
    <2>3. ContractLoop'
      <3>1. Passed' = Passed \cup {index + 1}
        BY <1>1, <2>1 DEF Passed
      <3>2. /\ TableAccepted /\ PhdrCount # 0
            /\ \A i \in Passed : HeaderAccepted(object.phdrs[i])
            /\ entryInLoad <=> \E i \in Passed : HoldsEntry(object.phdrs[i])
        BY <2>1 DEF IInv, ContractLoop
      <3>3. \A i \in Passed' : HeaderAccepted(object.phdrs[i])
        BY <2>1, <3>1, <3>2 DEF Header
      <3>4. entryInLoad' <=> \E i \in Passed' : HoldsEntry(object.phdrs[i])
        BY <2>1, <3>1, <3>2 DEF Header
      <3> QED BY <2>1, <3>2, <3>3, <3>4, SameFile DEF ContractLoop
    <2>4. AcceptedIsLoadable' /\ ContractExact'
      BY <2>1, SameFile DEF IInv, AcceptedIsLoadable, ContractExact
    <2> QED BY <2>2, <2>3, <2>4 DEF IInv
  <1>7. CASE EntryAccepted
    <2>1. /\ object' = object /\ caller' = caller /\ index' = index /\ pc' = "accepted"
          /\ entryInLoad' = entryInLoad
      BY <1>7 DEF EntryAccepted
    <2>2. Loadable
      BY <1>1, <1>7, WholeTableVerdict DEF EntryAccepted, IInv, ContractLoop
    <2>3. Position'
      BY <2>1, SameFile DEF IInv, Position
    <2> QED BY <2>1, <2>2, <2>3, SameFile
            DEF IInv, ContractLoop, AcceptedIsLoadable, ContractExact
  <1>8. CASE BeginAnalysis
    <2>1. /\ object' = object /\ caller' = "phdr_analyze" /\ index' = index /\ pc' = "contract"
          /\ entryInLoad' = entryInLoad /\ Loadable
      BY <1>8 DEF BeginAnalysis, IInv, AcceptedIsLoadable
    <2>2. Position'
      BY <2>1, SameFile DEF IInv, Position
    <2> QED BY <2>1, <2>2, SameFile DEF IInv, ContractLoop, AcceptedIsLoadable, ContractExact
  <1>9. CASE BeginHeaders
    <2>1. /\ object' = object /\ caller' = caller /\ caller = "phdr_analyze" /\ index' = 0
          /\ pc' = "header" /\ entryInLoad' = entryInLoad /\ Loadable
      BY <1>9 DEF BeginHeaders, IInv, AcceptedIsLoadable
    <2>2. Position'
      BY <1>1, <2>1, SameFile DEF IInv, Position
    <2> QED BY <2>1, <2>2, SameFile DEF IInv, ContractLoop, AcceptedIsLoadable, ContractExact
  <1> QED BY <1>2, <1>3, <1>4, <1>5, <1>6, <1>7, <1>8, <1>9 DEF ContractStep

(***************************************************************************)
(* Up to the end of the contract the loop has seen only loadable headers,  *)
(* and its flag says whether one of them holds the entrypoint.             *)
(***************************************************************************)
THEOREM LoaderInvariant == Spec => []IInv
  <1>1. IInv /\ UNCHANGED vars => IInv'
    <2> SUFFICES ASSUME IInv, UNCHANGED vars PROVE IInv'
      OBVIOUS
    <2>1. /\ object' = object /\ caller' = caller /\ index' = index /\ pc' = pc
          /\ entryInLoad' = entryInLoad /\ status' = status /\ Passed' = Passed
      BY DEF vars, Passed
    <2> QED BY <2>1, SameFile
            DEF IInv, Position, ContractLoop, AcceptedIsLoadable, ContractExact
  <1>2. IInv /\ [Next]_vars => IInv'
    BY <1>1, ContractStepKeepsInvariant, HeaderStepKeepsInvariant DEF Next, Done
  <1> QED BY InitInvariant, <1>2, PTL DEF Spec

(***************************************************************************)
(* elf64_validate lets a file through exactly when the table as a whole    *)
(* is loadable, in unbounded arithmetic.                                   *)
(***************************************************************************)
THEOREM ContractExactTheorem == Spec => []ContractExact
  <1>1. IInv => ContractExact
    BY DEF IInv
  <1> QED BY LoaderInvariant, <1>1, PTL

-----------------------------------------------------------------------------
(* The loop of phdr_analyze.  Its invariant says of the headers it has     *)
(* passed what AnalysisOfTheHeaders says of the table.                     *)

Loads       == {i \in 1 .. PhdrCount : object.phdrs[i].type = "LOAD"}
RwxLoads    == {i \in Loads : object.phdrs[i].flags = {"W", "X"}}
Interps     == {i \in 1 .. PhdrCount : object.phdrs[i].type = "INTERP"}
Dynamics    == {i \in 1 .. PhdrCount : object.phdrs[i].type = "DYNAMIC"}
Relros      == {i \in 1 .. PhdrCount : object.phdrs[i].type = "GNU_RELRO"}
Stacks      == {i \in 1 .. PhdrCount : object.phdrs[i].type = "GNU_STACK"}
ExecStacks  == {i \in Stacks : "X" \in object.phdrs[i].flags}

Summary == [loads : Nat, rwx : Nat, stackSeen : BOOLEAN, stackExec : BOOLEAN, relro : BOOLEAN,
            dynamicSeen : BOOLEAN, interps : Nat]

Region == [fileOffset : Word, vaddr : Word, filesz : Word, memsz : Word,
           flags : SUBSET {"W", "X"}, phdrIndex : Nat]

FactsSoFar ==
    /\ summary.loads = Cardinality(Loads \cap Passed)
    /\ summary.rwx = Cardinality(RwxLoads \cap Passed)
    /\ summary.interps = Cardinality(Interps \cap Passed)
    /\ summary.dynamicSeen <=> Dynamics \cap Passed # {}
    /\ summary.relro <=> Relros \cap Passed # {}
    /\ summary.stackSeen <=> Stacks \cap Passed # {}
    /\ summary.stackExec <=> ExecStacks \cap Passed # {}

RegionsSoFar ==
    /\ Len(regions) = Cardinality(ExecutableLoads \cap Passed)
    /\ Len(regions) <= RegionMax
    /\ \A k \in 1 .. Len(regions) :
          /\ regions[k].phdrIndex + 1 \in ExecutableLoads \cap Passed
          /\ regions[k] = RegionFrom(object.phdrs[regions[k].phdrIndex + 1], regions[k].phdrIndex)
    /\ \A j, k \in 1 .. Len(regions) : j < k => regions[j].phdrIndex < regions[k].phdrIndex
    /\ \A i \in ExecutableLoads \cap Passed : \E k \in 1 .. Len(regions) : regions[k].phdrIndex + 1 = i

AnalysisTyped == summary \in Summary /\ regions \in Seq(Region)

AnalysisNotBegun ==
    pc \notin {"header", "done"} => summary = EmptySummary /\ regions = <<>>

AnalysisSoFar ==
    caller = "phdr_analyze" /\ pc \in {"header", "done"} => FactsSoFar /\ RegionsSoFar

\* The loop ends at a refused header, or after the last.
AnalysisOutcome ==
    caller = "phdr_analyze" /\ pc = "done" =>
       /\ status = EXIT_OK => index = PhdrCount
       /\ AcceptedOnceAcceptedTwice

AInv == AnalysisTyped /\ AnalysisNotBegun /\ AnalysisSoFar /\ AnalysisOutcome

-----------------------------------------------------------------------------
(* One header more.                                                        *)

LEMMA CountNext ==
    ASSUME NEW S, NEW n \in Nat
    PROVE  /\ Cardinality(S \cap (1 .. n)) \in Nat
           /\ n + 1 \in S => /\ S \cap (1 .. n + 1) = (S \cap (1 .. n)) \cup {n + 1}
                             /\ Cardinality(S \cap (1 .. n + 1)) = Cardinality(S \cap (1 .. n)) + 1
           /\ n + 1 \notin S => /\ S \cap (1 .. n + 1) = S \cap (1 .. n)
                                /\ Cardinality(S \cap (1 .. n + 1)) = Cardinality(S \cap (1 .. n))
  <1>1. IsFiniteSet(S \cap (1 .. n))
    <2>1. IsFiniteSet(1 .. n)
      BY FS_Interval
    <2> QED BY <2>1, FS_Intersection
  <1>2. 1 .. n + 1 = (1 .. n) \cup {n + 1} /\ n + 1 \notin 1 .. n
    OBVIOUS
  <1>3. n + 1 \in S => S \cap (1 .. n + 1) = (S \cap (1 .. n)) \cup {n + 1}
    BY <1>2
  <1>4. n + 1 \notin S => S \cap (1 .. n + 1) = S \cap (1 .. n)
    BY <1>2
  <1>5. Cardinality(S \cap (1 .. n)) \in Nat
    BY <1>1, FS_CardinalityType
  <1>6. Cardinality((S \cap (1 .. n)) \cup {n + 1}) = Cardinality(S \cap (1 .. n)) + 1
    BY <1>1, <1>2, FS_AddElement
  <1> QED BY <1>3, <1>4, <1>5, <1>6

LEMMA NonePassed ==
    ASSUME NEW S, index = 0
    PROVE  S \cap Passed = {} /\ Cardinality(S \cap Passed) = 0
  <1>1. S \cap Passed = {}
    BY DEF Passed
  <1> QED BY <1>1, FS_EmptySet

LEMMA AllPassed ==
    ASSUME NEW S \in SUBSET (1 .. PhdrCount), index = PhdrCount
    PROVE  S \cap Passed = S
  BY DEF Passed

LEMMA SameTable ==
    ASSUME object' = object
    PROVE  /\ ExecutableLoads' = ExecutableLoads
           /\ Loads' = Loads /\ RwxLoads' = RwxLoads /\ Interps' = Interps
           /\ Dynamics' = Dynamics /\ Relros' = Relros
           /\ Stacks' = Stacks /\ ExecStacks' = ExecStacks
  <1>1. PhdrCount' = PhdrCount
    BY SameFile
  <1> QED BY <1>1 DEF ExecutableLoads, Loads, RwxLoads, Interps, Dynamics, Relros, Stacks, ExecStacks

\* The header the loop is at, in the terms of the sets.
LEMMA AtWhichHeader ==
    ASSUME FileTyped, index \in Nat, index < PhdrCount
    PROVE  /\ index + 1 \in 1 .. PhdrCount
           /\ Header = object.phdrs[index + 1] /\ Header \in Phdr
           /\ index + 1 \in ExecutableLoads <=> Header.type = "LOAD" /\ "X" \in Header.flags
           /\ index + 1 \in Loads <=> Header.type = "LOAD"
           /\ index + 1 \in RwxLoads <=> Header.type = "LOAD" /\ {"W", "X"} \subseteq Header.flags
           /\ index + 1 \in Interps <=> Header.type = "INTERP"
           /\ index + 1 \in Dynamics <=> Header.type = "DYNAMIC"
           /\ index + 1 \in Relros <=> Header.type = "GNU_RELRO"
           /\ index + 1 \in Stacks <=> Header.type = "GNU_STACK"
           /\ index + 1 \in ExecStacks <=> Header.type = "GNU_STACK" /\ "X" \in Header.flags
  <1>1. index + 1 \in 1 .. PhdrCount
    BY WordMaxAssumption DEF FileTyped, Word
  <1>2. Header = object.phdrs[index + 1] /\ Header \in Phdr
    BY <1>1, PhdrTyped DEF Header
  <1>3. Header.flags = {"W", "X"} <=> {"W", "X"} \subseteq Header.flags
    BY <1>2 DEF Phdr
  <1> QED BY <1>1, <1>2, <1>3
          DEF ExecutableLoads, Loads, RwxLoads, Interps, Dynamics, Relros, Stacks, ExecStacks

\* What a loadable file's header cannot be refused for.
LEMMA AnalyzedHeaderFits ==
    ASSUME IInv, AtHeader
    PROVE  /\ caller = "phdr_analyze" /\ FileTyped /\ Loadable
           /\ index \in Nat /\ index < PhdrCount /\ PhdrCount \in Nat
           /\ HeaderReadable
           /\ Header.type = "LOAD" => LoadInFile(Header)
  <1>1. /\ caller = "phdr_analyze" /\ FileTyped /\ Loadable
        /\ index \in Nat /\ index < PhdrCount /\ PhdrCount \in Nat
    BY WordMaxAssumption DEF AtHeader, IInv, Position, ContractExact, FileTyped, Word
  <1>2. TableAccepted
    BY <1>1, TableExact, LoadableParts
  <1>3. HeaderReadable
    BY <1>1, <1>2, EveryEntryReadable
  <1>4. HeaderAccepted(Header)
    BY <1>1, AtWhichHeader, LoadableParts, HeaderExact
  <1> QED BY <1>1, <1>3, <1>4 DEF HeaderAccepted

-----------------------------------------------------------------------------
(* The facts, one header more.                                             *)

LEMMA FactsNext ==
    ASSUME IInv, AInv, AtHeader, NEW facts, NextHeader(facts),
           facts.loads = summary.loads + (IF Header.type = "LOAD" THEN 1 ELSE 0),
           facts.rwx = summary.rwx + (IF Header.type = "LOAD" /\ {"W", "X"} \subseteq Header.flags
                                      THEN 1 ELSE 0),
           facts.interps = summary.interps + (IF Header.type = "INTERP" THEN 1 ELSE 0),
           facts.dynamicSeen <=> summary.dynamicSeen \/ Header.type = "DYNAMIC",
           facts.relro <=> summary.relro \/ Header.type = "GNU_RELRO",
           facts.stackSeen <=> summary.stackSeen \/ Header.type = "GNU_STACK",
           facts.stackExec <=> summary.stackExec \/ (Header.type = "GNU_STACK" /\ "X" \in Header.flags)
    PROVE  FactsSoFar'
  <1>1. /\ FileTyped /\ index \in Nat /\ index < PhdrCount /\ object' = object
        /\ index' = index + 1 /\ summary' = facts
    BY AnalyzedHeaderFits DEF NextHeader
  <1>2. Passed = 1 .. index /\ Passed' = 1 .. index + 1
    BY <1>1 DEF Passed
  <1>3. FactsSoFar
    BY AnalyzedHeaderFits DEF AInv, AnalysisSoFar, AtHeader
  <1>4. \A S : /\ Cardinality(S \cap Passed) \in Nat
               /\ Cardinality(S \cap Passed') =
                     Cardinality(S \cap Passed) + (IF index + 1 \in S THEN 1 ELSE 0)
               /\ S \cap Passed' # {} <=> S \cap Passed # {} \/ index + 1 \in S
    <2> SUFFICES ASSUME NEW S
                 PROVE  /\ Cardinality(S \cap Passed) \in Nat
                        /\ Cardinality(S \cap Passed') =
                              Cardinality(S \cap Passed) + (IF index + 1 \in S THEN 1 ELSE 0)
                        /\ S \cap Passed' # {} <=> S \cap Passed # {} \/ index + 1 \in S
      OBVIOUS
    <2>1. CASE index + 1 \in S
      BY <1>1, <1>2, <2>1, CountNext
    <2>2. CASE index + 1 \notin S
      BY <1>1, <1>2, <2>2, CountNext
    <2> QED BY <2>1, <2>2
  <1>5. /\ summary'.loads = Cardinality(Loads \cap Passed')
        /\ summary'.rwx = Cardinality(RwxLoads \cap Passed')
        /\ summary'.interps = Cardinality(Interps \cap Passed')
    BY <1>1, <1>3, <1>4, AtWhichHeader DEF FactsSoFar
  <1>6. /\ summary'.dynamicSeen <=> Dynamics \cap Passed' # {}
        /\ summary'.relro <=> Relros \cap Passed' # {}
        /\ summary'.stackSeen <=> Stacks \cap Passed' # {}
        /\ summary'.stackExec <=> ExecStacks \cap Passed' # {}
    BY <1>1, <1>3, <1>4, AtWhichHeader DEF FactsSoFar
  <1> QED BY <1>1, <1>5, <1>6, SameTable DEF FactsSoFar

-----------------------------------------------------------------------------
(* The regions, one header more.                                           *)

\* RegionsSoFar and AnalysisTyped, of the file's table at this point.
LEMMA RegionsAtHeader ==
    ASSUME IInv, AInv, AtHeader
    PROVE  /\ RegionsSoFar /\ regions \in Seq(Region) /\ Len(regions) \in Nat
           /\ Passed = 1 .. index
           /\ \A k \in 1 .. Len(regions) : /\ regions[k].phdrIndex \in Nat
                                           /\ regions[k].phdrIndex < index
  <1>1. RegionsSoFar /\ regions \in Seq(Region) /\ Len(regions) \in Nat
    BY AnalyzedHeaderFits DEF AInv, AnalysisSoFar, AnalysisTyped, AtHeader
  <1>2. Passed = 1 .. index /\ index \in Nat
    BY AnalyzedHeaderFits DEF Passed
  <1>3. \A k \in 1 .. Len(regions) : regions[k] \in Region
    BY <1>1
  <1>4. \A k \in 1 .. Len(regions) : regions[k].phdrIndex \in Nat
    BY <1>3 DEF Region
  <1>5. \A k \in 1 .. Len(regions) : regions[k].phdrIndex + 1 \in 1 .. index
    BY <1>1, <1>2 DEF RegionsSoFar
  <1>6. \A k \in 1 .. Len(regions) : regions[k].phdrIndex < index
    BY <1>2, <1>4, <1>5
  <1> QED BY <1>1, <1>2, <1>4, <1>6

LEMMA RegionsKept ==
    ASSUME IInv, AInv, AtHeader, object' = object, index' = index + 1, regions' = regions,
           ~(Header.type = "LOAD" /\ "X" \in Header.flags)
    PROVE  RegionsSoFar'
  <1>1. FileTyped /\ index \in Nat /\ index < PhdrCount
    BY AnalyzedHeaderFits
  <1>2. Passed = 1 .. index /\ Passed' = 1 .. index + 1
    BY <1>1 DEF Passed
  <1>3. /\ ExecutableLoads \cap Passed' = ExecutableLoads \cap Passed
        /\ Cardinality(ExecutableLoads \cap Passed') = Cardinality(ExecutableLoads \cap Passed)
    BY <1>1, <1>2, AtWhichHeader, CountNext
  <1>4. (ExecutableLoads \cap Passed)' = ExecutableLoads \cap Passed'
    BY SameTable
  <1>5. /\ (ExecutableLoads \cap Passed)' = ExecutableLoads \cap Passed
        /\ Cardinality(ExecutableLoads \cap Passed)' = Cardinality(ExecutableLoads \cap Passed)
    BY <1>3, <1>4
  <1>6. RegionsSoFar
    BY RegionsAtHeader
  <1> QED BY <1>5, <1>6 DEF RegionsSoFar, RegionFrom

LEMMA RegionAppended ==
    ASSUME IInv, AInv, AtHeader, object' = object, index' = index + 1,
           Header.type = "LOAD", "X" \in Header.flags, Len(regions) < RegionMax,
           regions' = Append(regions, RegionFrom(Header, index))
    PROVE  RegionsSoFar' /\ regions' \in Seq(Region)
  <1>1. FileTyped /\ index \in Nat /\ index < PhdrCount
    BY AnalyzedHeaderFits
  <1> DEFINE n == Len(regions)
             r == RegionFrom(Header, index)
  <1>2. /\ RegionsSoFar /\ regions \in Seq(Region) /\ n \in Nat
        /\ \A k \in 1 .. n : regions[k].phdrIndex \in Nat /\ regions[k].phdrIndex < index
    BY RegionsAtHeader
  <1>3. Header = object.phdrs[index + 1] /\ Header \in Phdr /\ index + 1 \in ExecutableLoads
    BY <1>1, AtWhichHeader
  <1>4. r \in Region /\ r.phdrIndex = index /\ r = RegionFrom(object.phdrs[r.phdrIndex + 1], r.phdrIndex)
    BY <1>1, <1>3 DEF Region, RegionFrom, Phdr
  <1>5. /\ regions' \in Seq(Region) /\ Len(regions') = n + 1
        /\ \A k \in 1 .. n : regions'[k] = regions[k]
        /\ regions'[n + 1] = r
    BY <1>2, <1>4
  <1>6. Passed = 1 .. index /\ Passed' = 1 .. index + 1
    BY <1>1 DEF Passed
  <1> DEFINE before == ExecutableLoads \cap Passed
             after  == ExecutableLoads \cap Passed'
  <1>7. after = before \cup {index + 1} /\ Cardinality(after) = Cardinality(before) + 1
    BY <1>1, <1>3, <1>6, CountNext
  <1>8. /\ n = Cardinality(before)
        /\ \A k \in 1 .. n : /\ regions[k].phdrIndex + 1 \in before
                             /\ regions[k] = RegionFrom(object.phdrs[regions[k].phdrIndex + 1],
                                                        regions[k].phdrIndex)
        /\ \A j, k \in 1 .. n : j < k => regions[j].phdrIndex < regions[k].phdrIndex
        /\ \A i \in before : \E k \in 1 .. n : regions[k].phdrIndex + 1 = i
    BY <1>2 DEF RegionsSoFar
  <1> HIDE DEF n, r, before, after
  <1>9. Len(regions') = Cardinality(after) /\ Len(regions') <= RegionMax
    <2>1. n < RegionMax /\ RegionMax \in Nat
      BY LoaderAssumption DEF n
    <2> QED BY <1>2, <1>5, <1>7, <1>8, <2>1
  <1>10. \A k \in 1 .. n + 1 : k \in 1 .. n \/ k = n + 1
    BY <1>2
  <1>11. \A k \in 1 .. n + 1 :
            /\ regions'[k].phdrIndex + 1 \in after
            /\ regions'[k] = RegionFrom(object.phdrs[regions'[k].phdrIndex + 1], regions'[k].phdrIndex)
    BY <1>4, <1>5, <1>7, <1>8, <1>10
  <1>12. \A j, k \in 1 .. n + 1 : j < k => regions'[j].phdrIndex < regions'[k].phdrIndex
    <2> SUFFICES ASSUME NEW j \in 1 .. n + 1, NEW k \in 1 .. n + 1, j < k
                 PROVE  regions'[j].phdrIndex < regions'[k].phdrIndex
      OBVIOUS
    <2>1. j \in 1 .. n
      BY <1>2
    <2>2. CASE k \in 1 .. n
      BY <1>5, <1>8, <2>1, <2>2
    <2>3. CASE k = n + 1
      BY <1>2, <1>4, <1>5, <2>1, <2>3
    <2> QED BY <1>10, <2>2, <2>3
  <1>13. \A i \in after : \E k \in 1 .. n + 1 : regions'[k].phdrIndex + 1 = i
    <2> SUFFICES ASSUME NEW i \in after PROVE \E k \in 1 .. n + 1 : regions'[k].phdrIndex + 1 = i
      OBVIOUS
    <2>1. CASE i \in before
      <3>1. PICK k \in 1 .. n : regions[k].phdrIndex + 1 = i
        BY <1>8, <2>1
      <3> QED BY <1>2, <1>5, <3>1
    <2>2. CASE i = index + 1
      <3>1. n + 1 \in 1 .. n + 1
        BY <1>2
      <3> QED BY <1>4, <1>5, <2>2, <3>1
    <2> QED BY <1>7, <2>1, <2>2
  <1>14. (ExecutableLoads \cap Passed)' = after
    BY SameTable DEF after
  <1> QED BY <1>5, <1>9, <1>11, <1>12, <1>13, <1>14 DEF RegionsSoFar, RegionFrom

-----------------------------------------------------------------------------
(* The invariant of the analysis is inductive.                             *)

\* A step to the next header, whatever its kind.
LEMMA NextHeaderKeepsAnalysis ==
    ASSUME IInv, AInv, AtHeader, NEW facts, NextHeader(facts), facts \in Summary,
           FactsSoFar', RegionsSoFar', regions' \in Seq(Region)
    PROVE  AInv'
  <1>1. pc' = "header" /\ summary' = facts
    BY DEF NextHeader, AtHeader
  <1>2. AnalysisTyped' /\ AnalysisNotBegun' /\ AnalysisSoFar'
    BY <1>1 DEF AnalysisTyped, AnalysisNotBegun, AnalysisSoFar
  <1>3. AnalysisOutcome'
    BY <1>1 DEF AnalysisOutcome
  <1> QED BY <1>2, <1>3 DEF AInv

\* The end of the loop: nothing but the status and the place changes.
LEMMA EndKeepsAnalysis ==
    ASSUME IInv, AInv, pc = "header", pc' = "done", UNCHANGED <<object, caller, index, summary, regions>>,
           status' = EXIT_OK => index = PhdrCount,
           (\A h \in Headers : h.type \notin Metadata) =>
              status' = IF Cardinality(ExecutableLoads) > RegionMax THEN EXIT_UNSUPPORTED ELSE EXIT_OK
    PROVE  AInv'
  <1>1. caller = "phdr_analyze" /\ FactsSoFar /\ RegionsSoFar
    BY DEF IInv, Position, AInv, AnalysisSoFar
  <1>2. Passed' = Passed /\ PhdrCount' = PhdrCount /\ Headers' = Headers
    BY DEF Passed, PhdrCount, Headers
  <1>3. FactsSoFar' /\ RegionsSoFar'
    BY <1>1, <1>2, SameTable DEF FactsSoFar, RegionsSoFar, RegionFrom
  <1>4. AnalysisTyped' /\ AnalysisNotBegun' /\ AnalysisSoFar'
    BY <1>3 DEF AInv, AnalysisTyped, AnalysisNotBegun, AnalysisSoFar
  <1>5. AnalysisOutcome'
    BY <1>2, SameTable DEF AnalysisOutcome, AcceptedOnceAcceptedTwice, Headers
  <1> QED BY <1>4, <1>5 DEF AInv

\* Before the loop there is nothing to keep.
LEMMA ElsewhereKeepsAnalysis ==
    ASSUME AInv, AnalysisTyped', AnalysisNotBegun',
           pc' \notin {"header", "done"} \/ caller' # "phdr_analyze"
    PROVE  AInv'
  BY DEF AInv, AnalysisSoFar, AnalysisOutcome, AcceptedOnceAcceptedTwice

LEMMA EmptyAnalysis ==
    /\ EmptySummary \in Summary /\ <<>> \in Seq(Region)
    /\ index = 0 /\ summary = EmptySummary /\ regions = <<>> => FactsSoFar /\ RegionsSoFar
  <1>1. EmptySummary \in Summary
    BY DEF EmptySummary, Summary
  <1>2. <<>> \in Seq(Region) /\ Len(<<>>) = 0
    OBVIOUS
  <1>3. ASSUME index = 0, summary = EmptySummary, regions = <<>> PROVE FactsSoFar /\ RegionsSoFar
    <2>1. \A S : S \cap Passed = {} /\ Cardinality(S \cap Passed) = 0
      BY <1>3, NonePassed
    <2>2. FactsSoFar
      BY <1>3, <2>1 DEF FactsSoFar, EmptySummary
    <2>3. RegionsSoFar
      <3>1. Len(regions) = 0 /\ 1 .. Len(regions) = {} /\ 0 <= RegionMax
        BY <1>2, <1>3, LoaderAssumption
      <3> QED BY <2>1, <3>1 DEF RegionsSoFar
    <2> QED BY <2>2, <2>3
  <1> QED BY <1>1, <1>2, <1>3

LEMMA ContractStepKeepsAnalysis == IInv /\ AInv /\ ContractStep => AInv'
  <1> SUFFICES ASSUME IInv, AInv, ContractStep PROVE AInv'
    OBVIOUS
  <1>1. FileTyped /\ index \in Nat /\ index <= PhdrCount /\ (caller = "phdr_analyze" => Loadable)
    BY DEF IInv, Position, ContractExact
  <1>2. CASE TableRefused \/ HeaderRefused \/ EntryRefused
    <2>1. ~Loadable
      <3>1. CASE TableRefused
        BY <1>1, <3>1, TableNotLoadable DEF TableRefused
      <3>2. CASE HeaderRefused
        BY <1>1, <3>2, HeaderNotLoadable DEF HeaderRefused, IInv, ContractLoop
      <3>3. CASE EntryRefused
        BY <1>1, <3>3, WholeTableVerdict DEF EntryRefused, IInv, ContractLoop
      <3> QED BY <1>2, <3>1, <3>2, <3>3
    <2>2. caller' # "phdr_analyze" /\ summary' = summary /\ regions' = regions /\ pc' = "done"
      BY <1>1, <1>2, <2>1 DEF TableRefused, HeaderRefused, EntryRefused, Refuse
    <2> QED BY <2>2, ElsewhereKeepsAnalysis DEF AInv, AnalysisTyped, AnalysisNotBegun
  <1>3. CASE BeginContract \/ ContractHeader \/ EntryAccepted
    <2>1. /\ pc \notin {"header", "done"} /\ pc' \notin {"header", "done"}
          /\ summary' = summary /\ regions' = regions
      BY <1>3 DEF BeginContract, ContractHeader, EntryAccepted
    <2> QED BY <2>1, ElsewhereKeepsAnalysis DEF AInv, AnalysisTyped, AnalysisNotBegun
  <1>4. CASE BeginAnalysis
    <2>1. pc' = "contract" /\ summary' = EmptySummary /\ regions' = <<>>
      BY <1>4 DEF BeginAnalysis
    <2> QED BY <2>1, EmptyAnalysis, ElsewhereKeepsAnalysis DEF AnalysisTyped, AnalysisNotBegun
  <1>5. CASE BeginHeaders
    <2>1. /\ index' = 0 /\ pc' = "header" /\ summary' = EmptySummary /\ regions' = <<>>
          /\ object' = object
      BY <1>5 DEF BeginHeaders, AInv, AnalysisNotBegun
    <2>2. FactsSoFar' /\ RegionsSoFar'
      <3>1. \A S : S \cap Passed' = {} /\ Cardinality(S \cap Passed') = 0
        BY <2>1, FS_EmptySet DEF Passed
      <3>2. FactsSoFar'
        BY <2>1, <3>1 DEF FactsSoFar, EmptySummary
      <3>3. Len(regions') = 0 /\ 1 .. Len(regions') = {} /\ 0 <= RegionMax
        BY <2>1, LoaderAssumption
      <3>4. RegionsSoFar'
        BY <3>1, <3>3 DEF RegionsSoFar
      <3> QED BY <3>2, <3>4
    <2> QED BY <2>1, <2>2, EmptyAnalysis
            DEF AInv, AnalysisTyped, AnalysisNotBegun, AnalysisSoFar, AnalysisOutcome
  <1> QED BY <1>2, <1>3, <1>4, <1>5 DEF ContractStep

LEMMA RefusedHeaderKeepsAnalysis ==
    IInv /\ AInv /\ (HeaderMalformed \/ HeaderUnsupported \/ ContentRefused \/ MetadataRefused) => AInv'
  <1> SUFFICES ASSUME IInv, AInv, HeaderMalformed \/ HeaderUnsupported \/ ContentRefused \/ MetadataRefused
               PROVE  AInv'
    OBVIOUS
  <1> DEFINE plain == \A h \in Headers : h.type \notin Metadata
  <1>1. /\ pc = "header" /\ pc' = "done" /\ UNCHANGED <<object, caller, index, summary, regions>>
        /\ status' # EXIT_OK
        /\ HeaderUnsupported => status' = EXIT_UNSUPPORTED
    BY DEF HeaderMalformed, HeaderUnsupported, ContentRefused, MetadataRefused, TakesHeader, AtHeader,
           Refuse, ParserRefusals, EXIT_OK, EXIT_MALFORMED_ELF, EXIT_UNSUPPORTED, EXIT_BOUNDS
  <1>2. AtHeader => Header \in Headers
    BY AnalyzedHeaderFits, AtWhichHeader DEF Headers
  <1>3. plain /\ AtHeader => ~MalformedHeader
    BY <1>2, AnalyzedHeaderFits DEF MalformedHeader, Metadata
  <1>4. plain => ~HeaderMalformed /\ ~ContentRefused /\ ~MetadataRefused
    BY <1>2, <1>3 DEF HeaderMalformed, ContentRefused, MetadataRefused, TakesHeader, Metadata
  <1>5. ASSUME plain PROVE Cardinality(ExecutableLoads) > RegionMax
    <2>1. AtHeader /\ UnsupportedHeader
      BY <1>4, <1>5 DEF HeaderUnsupported
    <2>2. Header.type = "LOAD" /\ "X" \in Header.flags /\ Len(regions) >= RegionMax
      BY <1>2, <1>5, <2>1 DEF UnsupportedHeader, Metadata
    <2>3. FileTyped /\ index \in Nat /\ index < PhdrCount /\ PhdrCount \in Nat
      BY <2>1, AnalyzedHeaderFits
    <2>4. Len(regions) = Cardinality(ExecutableLoads \cap (1 .. index)) /\ Len(regions) \in Nat
      BY <2>1, RegionsAtHeader DEF RegionsSoFar
    <2>5. Cardinality(ExecutableLoads \cap (1 .. index + 1)) = Len(regions) + 1
      <3>1. index + 1 \in ExecutableLoads
        BY <2>2, <2>3, AtWhichHeader
      <3> QED BY <2>3, <2>4, <3>1, CountNext
    <2>6. /\ ExecutableLoads \cap (1 .. index + 1) \in SUBSET ExecutableLoads
          /\ ExecutableLoads \in SUBSET (1 .. PhdrCount)
      BY DEF ExecutableLoads
    <2>7. IsFiniteSet(ExecutableLoads) /\ Cardinality(ExecutableLoads) \in Nat
      <3>1. IsFiniteSet(1 .. PhdrCount)
        BY <2>3, FS_Interval
      <3> QED BY <2>6, <3>1, FS_Subset, FS_CardinalityType
    <2>8. Cardinality(ExecutableLoads \cap (1 .. index + 1)) <= Cardinality(ExecutableLoads)
      BY <2>6, <2>7, FS_Subset
    <2> QED BY <2>2, <2>4, <2>5, <2>7, <2>8, LoaderAssumption
  <1>6. plain => status' = IF Cardinality(ExecutableLoads) > RegionMax THEN EXIT_UNSUPPORTED ELSE EXIT_OK
    BY <1>1, <1>4, <1>5
  <1> QED BY <1>1, <1>6, EndKeepsAnalysis

LEMMA HeaderStepKeepsAnalysis == IInv /\ AInv /\ HeaderStep => AInv'
  <1> SUFFICES ASSUME IInv, AInv, HeaderStep PROVE AInv'
    OBVIOUS
  <1>1. summary \in Summary /\ regions \in Seq(Region)
    BY DEF AInv, AnalysisTyped
  <1>2. CASE HeaderMalformed \/ HeaderUnsupported \/ ContentRefused \/ MetadataRefused
    BY <1>2, RefusedHeaderKeepsAnalysis
  <1>3. CASE HeadersDone
    <2>1. /\ pc = "header" /\ pc' = "done" /\ status' = EXIT_OK
          /\ UNCHANGED <<object, caller, index, summary, regions>>
      BY <1>3 DEF HeadersDone
    <2>2. caller = "phdr_analyze" /\ index = PhdrCount
      BY <1>3, WordMaxAssumption DEF HeadersDone, IInv, Position, FileTyped, Word
    <2>3. RegionsSoFar
      BY <2>1, <2>2 DEF AInv, AnalysisSoFar
    <2>4. ExecutableLoads \cap Passed = ExecutableLoads
      BY <2>2, AllPassed DEF ExecutableLoads
    <2>5. ~(Cardinality(ExecutableLoads) > RegionMax)
      <3>1. Len(regions) = Cardinality(ExecutableLoads) /\ Len(regions) <= RegionMax
        BY <2>3, <2>4 DEF RegionsSoFar
      <3> QED BY <1>1, <3>1, LoaderAssumption
    <2> QED BY <2>1, <2>2, <2>5, EndKeepsAnalysis
  <1>4. CASE DataLoad \/ ExecutableLoad
    <2>1. AtHeader /\ NextHeader(LoadCounted) /\ Header.type = "LOAD"
      BY <1>4 DEF DataLoad, ExecutableLoad, TakesHeader
    <2>2. LoadCounted \in Summary /\ FactsSoFar'
      <3>1. LoadCounted \in Summary
        <4>1. summary.loads + 1 \in Nat
              /\ (IF {"W", "X"} \subseteq Header.flags THEN summary.rwx + 1 ELSE summary.rwx) \in Nat
          BY <1>1 DEF Summary
        <4>2. \A m, n \in Nat : [summary EXCEPT !.loads = m, !.rwx = n] \in Summary
          BY <1>1 DEF Summary
        <4> QED BY <4>1, <4>2 DEF LoadCounted
      <3>2. /\ LoadCounted.loads = summary.loads + 1
            /\ LoadCounted.rwx = summary.rwx + (IF {"W", "X"} \subseteq Header.flags THEN 1 ELSE 0)
            /\ LoadCounted.interps = summary.interps + 0
            /\ LoadCounted.dynamicSeen = summary.dynamicSeen /\ LoadCounted.relro = summary.relro
            /\ LoadCounted.stackSeen = summary.stackSeen /\ LoadCounted.stackExec = summary.stackExec
        <4>1. LoadCounted.loads = summary.loads + 1 /\ LoadCounted.interps = summary.interps + 0
          BY <1>1 DEF LoadCounted, Summary
        <4>2. LoadCounted.rwx = summary.rwx + (IF {"W", "X"} \subseteq Header.flags THEN 1 ELSE 0)
          BY <1>1 DEF LoadCounted, Summary
        <4>3. /\ LoadCounted.dynamicSeen = summary.dynamicSeen /\ LoadCounted.relro = summary.relro
              /\ LoadCounted.stackSeen = summary.stackSeen /\ LoadCounted.stackExec = summary.stackExec
          BY <1>1 DEF LoadCounted, Summary
        <4> QED BY <4>1, <4>2, <4>3
      <3> HIDE DEF LoadCounted
      <3>3. FactsSoFar'
        BY <2>1, <3>2, FactsNext
      <3> QED BY <3>1, <3>3
    <2>3. RegionsSoFar' /\ regions' \in Seq(Region)
      <3>1. object' = object /\ index' = index + 1
        BY <2>1 DEF NextHeader
      <3>2. CASE DataLoad
        <4>1. regions' = regions /\ "X" \notin Header.flags
          BY <3>2 DEF DataLoad
        <4> QED BY <1>1, <2>1, <3>1, <4>1, RegionsKept
      <3>3. CASE ExecutableLoad
        <4>1. "X" \in Header.flags /\ regions' = Append(regions, RegionFrom(Header, index))
          BY <3>3 DEF ExecutableLoad
        <4>2. Len(regions) < RegionMax
          BY <1>1, <2>1, <3>3, <4>1, LoaderAssumption DEF ExecutableLoad, TakesHeader, UnsupportedHeader
        <4> QED BY <2>1, <3>1, <4>1, <4>2, RegionAppended
      <3> QED BY <1>4, <3>2, <3>3
    <2> QED BY <2>1, <2>2, <2>3, NextHeaderKeepsAnalysis
  <1>5. ASSUME NEW facts, AtHeader, NextHeader(facts), UNCHANGED regions, facts \in Summary, FactsSoFar',
               Header.type # "LOAD"
        PROVE  AInv'
    <2>1. object' = object /\ index' = index + 1
      BY <1>5 DEF NextHeader
    <2>2. RegionsSoFar'
      BY <1>5, <2>1, RegionsKept
    <2> QED BY <1>1, <1>5, <2>2, NextHeaderKeepsAnalysis
  <1>6. CASE StackHeader
    <2> DEFINE facts == [summary EXCEPT !.stackSeen = TRUE, !.stackExec = @ \/ "X" \in Header.flags]
    <2>1. AtHeader /\ NextHeader(facts) /\ UNCHANGED regions /\ Header.type = "GNU_STACK"
      BY <1>6 DEF StackHeader, TakesHeader
    <2>2. /\ facts \in Summary /\ facts.stackSeen
          /\ facts.stackExec <=> summary.stackExec \/ "X" \in Header.flags
          /\ facts.loads = summary.loads + 0 /\ facts.rwx = summary.rwx + 0
          /\ facts.interps = summary.interps + 0
          /\ facts.dynamicSeen = summary.dynamicSeen /\ facts.relro = summary.relro
      <3>1. facts \in Summary
        BY <1>1 DEF Summary
      <3>2. facts.loads = summary.loads + 0 /\ facts.rwx = summary.rwx + 0 /\ facts.interps = summary.interps + 0
        BY <1>1 DEF Summary
      <3>3. /\ facts.stackSeen
            /\ facts.stackExec <=> summary.stackExec \/ "X" \in Header.flags
            /\ facts.dynamicSeen = summary.dynamicSeen
            /\ facts.relro = summary.relro
        BY <1>1 DEF Summary
      <3> QED BY <3>1, <3>2, <3>3
    <2> HIDE DEF facts
    <2>3. FactsSoFar'
      BY <2>1, <2>2, FactsNext
    <2> QED BY <1>5, <2>1, <2>2, <2>3
  <1>7. CASE RelroHeader
    <2> DEFINE facts == [summary EXCEPT !.relro = TRUE]
    <2>1. AtHeader /\ NextHeader(facts) /\ UNCHANGED regions /\ Header.type = "GNU_RELRO"
      BY <1>7 DEF RelroHeader, TakesHeader
    <2>2. /\ facts \in Summary /\ facts.relro
          /\ facts.loads = summary.loads + 0 /\ facts.rwx = summary.rwx + 0
          /\ facts.interps = summary.interps + 0 /\ facts.dynamicSeen = summary.dynamicSeen
          /\ facts.stackSeen = summary.stackSeen /\ facts.stackExec = summary.stackExec
      <3>1. facts \in Summary
        BY <1>1 DEF Summary
      <3>2. facts.loads = summary.loads + 0 /\ facts.rwx = summary.rwx + 0 /\ facts.interps = summary.interps + 0
        BY <1>1 DEF Summary
      <3>3. /\ facts.relro
            /\ facts.dynamicSeen = summary.dynamicSeen
            /\ facts.stackSeen = summary.stackSeen
            /\ facts.stackExec = summary.stackExec
        BY <1>1 DEF Summary
      <3> QED BY <3>1, <3>2, <3>3
    <2> HIDE DEF facts
    <2>3. FactsSoFar'
      BY <2>1, <2>2, FactsNext
    <2> QED BY <1>5, <2>1, <2>2, <2>3
  <1>8. CASE InterpHeader
    <2> DEFINE facts == [summary EXCEPT !.interps = @ + 1]
    <2>1. AtHeader /\ NextHeader(facts) /\ UNCHANGED regions /\ Header.type = "INTERP"
      BY <1>8 DEF InterpHeader, TakesHeader
    <2>2. /\ facts \in Summary /\ facts.interps = summary.interps + 1
          /\ facts.loads = summary.loads + 0 /\ facts.rwx = summary.rwx + 0
          /\ facts.dynamicSeen = summary.dynamicSeen /\ facts.relro = summary.relro
          /\ facts.stackSeen = summary.stackSeen /\ facts.stackExec = summary.stackExec
      BY <1>1 DEF Summary
    <2> HIDE DEF facts
    <2>3. FactsSoFar'
      BY <2>1, <2>2, FactsNext
    <2> QED BY <1>5, <2>1, <2>2, <2>3
  <1>9. CASE DynamicHeader
    <2> DEFINE facts == [summary EXCEPT !.dynamicSeen = TRUE]
    <2>1. AtHeader /\ NextHeader(facts) /\ UNCHANGED regions /\ Header.type = "DYNAMIC"
      BY <1>9 DEF DynamicHeader, TakesHeader
    <2>2. /\ facts \in Summary /\ facts.dynamicSeen
          /\ facts.loads = summary.loads + 0 /\ facts.rwx = summary.rwx + 0
          /\ facts.interps = summary.interps + 0 /\ facts.relro = summary.relro
          /\ facts.stackSeen = summary.stackSeen /\ facts.stackExec = summary.stackExec
      <3>1. facts \in Summary
        BY <1>1 DEF Summary
      <3>2. facts.loads = summary.loads + 0 /\ facts.rwx = summary.rwx + 0 /\ facts.interps = summary.interps + 0
        BY <1>1 DEF Summary
      <3>3. /\ facts.dynamicSeen
            /\ facts.relro = summary.relro
            /\ facts.stackSeen = summary.stackSeen
            /\ facts.stackExec = summary.stackExec
        BY <1>1 DEF Summary
      <3> QED BY <3>1, <3>2, <3>3
    <2> HIDE DEF facts
    <2>3. FactsSoFar'
      BY <2>1, <2>2, FactsNext
    <2> QED BY <1>5, <2>1, <2>2, <2>3
  <1>10. CASE OtherHeader
    <2>1. /\ AtHeader /\ NextHeader(summary) /\ UNCHANGED regions
          /\ Header.type \in {"NOTE", "GNU_PROPERTY", "NULL"}
      BY <1>10 DEF OtherHeader, TakesHeader
    <2>2. summary.loads + 0 = summary.loads /\ summary.rwx + 0 = summary.rwx
          /\ summary.interps + 0 = summary.interps
      BY <1>1 DEF Summary
    <2>3. FactsSoFar'
      BY <2>1, <2>2, FactsNext
    <2> QED BY <1>1, <1>5, <2>1, <2>3
  <1> QED BY <1>2, <1>3, <1>4, <1>6, <1>7, <1>8, <1>9, <1>10 DEF HeaderStep

LEMMA RegionFields ==
    ASSUME NEW h, NEW i
    PROVE  /\ RegionFrom(h, i).fileOffset = h.offset /\ RegionFrom(h, i).filesz = h.filesz
           /\ RegionFrom(h, i).vaddr = h.vaddr /\ RegionFrom(h, i).memsz = h.memsz
  BY DEF RegionFrom

\* What the invariant says of the whole table, once the loop has passed it.
LEMMA AnalysisIsExact == IInv /\ AInv => AnalysisOfTheHeaders
  <1> SUFFICES ASSUME IInv, AInv PROVE AnalysisOfTheHeaders
    OBVIOUS
  <1>1. FileTyped
    BY DEF IInv, Position
  <1>2. AcceptedOnceAcceptedTwice
    BY DEF AInv, AnalysisOutcome, AcceptedOnceAcceptedTwice
  <1>3. /\ Loads \in SUBSET (1 .. PhdrCount) /\ RwxLoads \in SUBSET (1 .. PhdrCount)
        /\ Interps \in SUBSET (1 .. PhdrCount) /\ Dynamics \in SUBSET (1 .. PhdrCount)
        /\ Relros \in SUBSET (1 .. PhdrCount) /\ Stacks \in SUBSET (1 .. PhdrCount)
        /\ ExecStacks \in SUBSET (1 .. PhdrCount) /\ ExecutableLoads \in SUBSET (1 .. PhdrCount)
    BY DEF Loads, RwxLoads, Interps, Dynamics, Relros, Stacks, ExecStacks, ExecutableLoads
  <1>4. FactsOfTheHeaders
    <2> SUFFICES ASSUME caller = "phdr_analyze", pc = "done", status = EXIT_OK
                 PROVE  FactsOfTheHeaders
      BY DEF FactsOfTheHeaders
    <2>1. FactsSoFar /\ index = PhdrCount
      BY DEF AInv, AnalysisSoFar, AnalysisOutcome
    <2>2. /\ Loads \cap Passed = Loads /\ RwxLoads \cap Passed = RwxLoads
          /\ Interps \cap Passed = Interps /\ Dynamics \cap Passed = Dynamics
          /\ Relros \cap Passed = Relros /\ Stacks \cap Passed = Stacks
          /\ ExecStacks \cap Passed = ExecStacks
      BY <1>3, <2>1, AllPassed
    <2>3. /\ Indices(LAMBDA h : h.type = "LOAD") = Loads
          /\ Indices(LAMBDA h : h.type = "LOAD" /\ h.flags = {"W", "X"}) = RwxLoads
          /\ Indices(LAMBDA h : h.type = "INTERP") = Interps
          /\ Indices(LAMBDA h : h.type = "DYNAMIC") = Dynamics
          /\ Indices(LAMBDA h : h.type = "GNU_RELRO") = Relros
          /\ Indices(LAMBDA h : h.type = "GNU_STACK") = Stacks
          /\ Indices(LAMBDA h : h.type = "GNU_STACK" /\ "X" \in h.flags) = ExecStacks
      BY DEF Indices, Loads, RwxLoads, Interps, Dynamics, Relros, Stacks, ExecStacks
    <2>4. /\ summary.loads = Cardinality(Loads) /\ summary.rwx = Cardinality(RwxLoads)
          /\ summary.interps = Cardinality(Interps)
          /\ summary.dynamicSeen <=> Dynamics # {}
          /\ summary.relro <=> Relros # {}
          /\ summary.stackSeen <=> Stacks # {}
          /\ summary.stackExec <=> ExecStacks # {}
      BY <2>1, <2>2, Zenon DEF FactsSoFar
    <2> HIDE DEF Indices
    <2> QED BY <2>3, <2>4, Zenon DEF FactsOfTheHeaders
  <1>5. RegionsAreExecutableLoads
    <2> SUFFICES ASSUME caller = "phdr_analyze", pc \in {"header", "done"}
                 PROVE  RegionsAreExecutableLoads
      BY DEF RegionsAreExecutableLoads
    <2> DEFINE n == Len(regions)
    <2>1. RegionsSoFar /\ regions \in Seq(Region) /\ Loadable
      BY DEF AInv, AnalysisTyped, AnalysisSoFar, IInv, ContractExact
    <2>2. \A k \in 1 .. n :
             /\ regions[k].phdrIndex + 1 \in ExecutableLoads
             /\ regions[k] = RegionFrom(object.phdrs[regions[k].phdrIndex + 1], regions[k].phdrIndex)
      BY <2>1 DEF RegionsSoFar
    <2>3. \A i \in ExecutableLoads : object.phdrs[i].offset + object.phdrs[i].filesz <= object.fileSize
      BY <1>1, <2>1, LoadableParts DEF ExecutableLoads, HeaderLoadable, LoadFits
    <2>4. \A k \in 1 .. n : regions[k].fileOffset + regions[k].filesz <= object.fileSize
      <3> SUFFICES ASSUME NEW k \in 1 .. n
                   PROVE  regions[k].fileOffset + regions[k].filesz <= object.fileSize
        OBVIOUS
      <3>1. PICK i \in ExecutableLoads : /\ regions[k].fileOffset = object.phdrs[i].offset
                                         /\ regions[k].filesz = object.phdrs[i].filesz
        BY <2>2, RegionFields
      <3> QED BY <2>3, <3>1
    <2>5. \A j, k \in 1 .. n : j < k => regions[j].phdrIndex < regions[k].phdrIndex
      BY <2>1 DEF RegionsSoFar
    <2>6. ASSUME pc = "done", status = EXIT_OK
          PROVE  /\ n = Cardinality(ExecutableLoads)
                 /\ object.entry # 0 =>
                       \E k \in 1 .. n :
                          object.entry \in regions[k].vaddr .. regions[k].vaddr + regions[k].memsz - 1
      <3>1. ExecutableLoads \cap Passed = ExecutableLoads
        BY <1>3, <2>6, AllPassed DEF AInv, AnalysisOutcome
      <3>2. n = Cardinality(ExecutableLoads)
        BY <2>1, <3>1 DEF RegionsSoFar
      <3>3. ASSUME object.entry # 0
            PROVE  \E k \in 1 .. n :
                      object.entry \in regions[k].vaddr .. regions[k].vaddr + regions[k].memsz - 1
        <4>1. PICK i \in 1 .. PhdrCount : EntryIn(object.phdrs[i])
          BY <1>1, <2>1, <3>3, LoadableParts
        <4>2. i \in ExecutableLoads \cap Passed
          BY <3>1, <4>1 DEF EntryIn, ExecutableLoads
        <4>3. PICK k \in 1 .. n : regions[k].phdrIndex + 1 = i
          BY <2>1, <4>2 DEF RegionsSoFar
        <4>4. /\ regions[k].vaddr = object.phdrs[i].vaddr /\ regions[k].memsz = object.phdrs[i].memsz
          BY <2>2, <4>3, RegionFields
        <4>5. object.phdrs[i].vaddr <= object.entry
              /\ object.entry < object.phdrs[i].vaddr + object.phdrs[i].memsz
          BY <4>1 DEF EntryIn
        <4>6. object.phdrs[i].vaddr \in Int /\ object.phdrs[i].memsz \in Int /\ object.entry \in Int
          <5>1. object.phdrs[i] \in Phdr
            BY <1>1, PhdrTyped
          <5>2. object.phdrs[i].vaddr \in Word /\ object.phdrs[i].memsz \in Word
            BY <5>1 DEF Phdr
          <5>3. object.entry \in Word
            BY <1>1 DEF FileTyped, ElfFile
          <5> QED BY <5>2, <5>3, WordMaxAssumption DEF Word
        <4>7. object.entry \in regions[k].vaddr .. regions[k].vaddr + regions[k].memsz - 1
          BY <4>4, <4>5, <4>6
        <4> QED BY <4>7
      <3> QED BY <3>2, <3>3
    <2> HIDE DEF n
    <2> QED BY <2>2, <2>4, <2>5, <2>6 DEF RegionsAreExecutableLoads, n
  <1> QED BY <1>2, <1>4, <1>5 DEF AnalysisOfTheHeaders

(***************************************************************************)
(* After every header the summary and the stored regions of                *)
(* x64lens_phdr_analyze are those of the headers seen so far.              *)
(***************************************************************************)
THEOREM AnalysisInvariant == Spec => []AInv
  <1>1. Init => AInv
    <2> SUFFICES ASSUME Init PROVE AInv
      OBVIOUS
    <2> QED BY EmptyAnalysis
            DEF Init, AInv, AnalysisTyped, AnalysisNotBegun, AnalysisSoFar, AnalysisOutcome,
                AcceptedOnceAcceptedTwice
  <1>2. IInv /\ AInv /\ UNCHANGED vars => AInv'
    <2> SUFFICES ASSUME AInv, UNCHANGED vars PROVE AInv'
      OBVIOUS
    <2>1. UNCHANGED <<object, caller, pc, index, summary, regions, status>>
      BY DEF vars
    <2>2. Passed' = Passed /\ PhdrCount' = PhdrCount /\ Headers' = Headers
      BY <2>1 DEF Passed, PhdrCount, Headers
    <2> QED BY <2>1, <2>2, SameTable
            DEF AInv, AnalysisTyped, AnalysisNotBegun, AnalysisSoFar, AnalysisOutcome, FactsSoFar,
                RegionsSoFar, RegionFrom, AcceptedOnceAcceptedTwice
  <1>3. IInv /\ AInv /\ [Next]_vars => AInv'
    BY <1>2, ContractStepKeepsAnalysis, HeaderStepKeepsAnalysis DEF Next, Done
  <1> QED BY <1>1, <1>3, LoaderInvariant, PTL DEF Spec

(***************************************************************************)
(* phdr_analyze refuses no file that elf64_validate let through for what   *)
(* the contract had looked at, and hands on the regions and the facts of   *)
(* the table: all of the executable loads in header order, inside the      *)
(* file, one of them around the entrypoint, and counts and flags that no   *)
(* order of the headers changes.                                           *)
(***************************************************************************)
THEOREM AnalysisTheorem == Spec => []AnalysisOfTheHeaders
  BY AnalysisInvariant, LoaderInvariant, AnalysisIsExact, PTL

-----------------------------------------------------------------------------
(* The gate.  Behind it the contract runs as it does alone.                *)

Typed == FileTyped /\ ehdr \in Ehdr

LEMMA GateStepIsStep == GateNext => [Next]_vars
  <1> SUFFICES ASSUME GateNext PROVE [Next]_vars
    OBVIOUS
  <1>1. CASE CallContract
    BY <1>1 DEF CallContract, Next
  <1>2. CASE Analyze
    BY <1>2 DEF Analyze, Next
  <1>3. CASE IdentityRefused \/ ExtendedNumbering \/ ReservedRefused \/ ContractFailed \/ SectionsRefused
    BY <1>3 DEF IdentityRefused, ExtendedNumbering, ReservedRefused, ContractFailed, SectionsRefused,
                GateRefuses
  <1>4. CASE IdentityAccepted \/ OrdinaryNumbering \/ SectionsChecked
    BY <1>4 DEF IdentityAccepted, OrdinaryNumbering, SectionsChecked, GateGoesOn
  <1>5. CASE Returned
    BY <1>5 DEF Returned, gateVars
  <1> QED BY <1>1, <1>2, <1>3, <1>4, <1>5 DEF GateNext

(***************************************************************************)
(* elf64_validate and the command call the loader contract as the module   *)
(* of the contract says: what the gate adds never changes its state.       *)
(***************************************************************************)
THEOREM GateImplementsContract == GateSpec => Spec
  <1>1. GateInit => Init
    BY DEF GateInit
  <1>2. [GateNext]_gateVars => [Next]_vars
    <2>1. UNCHANGED gateVars => UNCHANGED vars
      BY DEF gateVars
    <2> QED BY <2>1, GateStepIsStep
  <1> QED BY <1>1, <1>2, PTL DEF GateSpec, Spec

-----------------------------------------------------------------------------
(* The identity, and the numbers, in numbers.                              *)

LEMMA GateTyped ==
    ASSUME Typed
    PROVE  /\ object.fileSize \in Word /\ object.phoff \in Word
           /\ ehdr.phnum \in 0 .. HalfMax /\ ehdr.shnum \in 0 .. HalfMax
           /\ ehdr.shstrndx \in 0 .. HalfMax /\ ehdr.shoff \in Word
           /\ Zero.null \in BOOLEAN /\ Zero.size \in Word /\ Zero.link \in Word /\ Zero.info \in Word
           /\ Zero = [null |-> Zero.null, size |-> Zero.size, link |-> Zero.link, info |-> Zero.info]
           /\ HalfMax \in Word /\ SHN_LORESERVE \in 1 .. HalfMax
           /\ ShdrSize \in Word \ {0} /\ PhdrSize \in Word \ {0}
           /\ Word = 0 .. WordMax /\ WordMax \in Nat
  BY GateAssumption, LoaderAssumption, WordMaxAssumption
     DEF Typed, FileTyped, ElfFile, Ehdr, Half, Zero, NullSection, Word

LEMMA IdentityExact ==
    ASSUME Typed
    PROVE  /\ HeaderRight <=> Identified
           /\ OtherKind => ehdr.wrong \cap {"magic", "class", "data", "machine"} # {}
  <1>1. object.fileSize \in Nat /\ MagicSize \in Nat /\ EhdrSize \in Nat /\ MagicSize <= EhdrSize
    BY GateTyped, GateAssumption, WordMaxAssumption DEF Word
  <1> QED BY <1>1 DEF HeaderRight, Identified, OtherKind

\* A table of "count" section headers, and of program headers.
LEMMA SectionTableExact ==
    ASSUME Typed, NEW count \in Word
    PROVE  SectionsInFile(count) <=>
              /\ ehdr.shentsize = ShdrSize /\ ehdr.shoff # 0
              /\ ehdr.shoff + ShdrSize * count <= object.fileSize
  <1>1. TableExtentValid(object.fileSize, ehdr.shoff, ShdrSize, count) <=>
           ehdr.shoff + ShdrSize * count <= object.fileSize
    BY GateTyped, ExtentExact
  <1> QED BY <1>1 DEF SectionsInFile

\* The entry read before the table is checked is inside any table of the file.
LEMMA FirstEntryInFile ==
    ASSUME Typed, NEW count \in Word, count # 0, SectionsInFile(count)
    PROVE  RangeEndValid(object.fileSize, ehdr.shoff, ShdrSize)
  <1>1. ehdr.shoff + ShdrSize * count <= object.fileSize
    BY SectionTableExact
  <1>2. ShdrSize <= ShdrSize * count
    <2>1. ShdrSize \in Nat /\ count \in Nat /\ 0 < count
      BY GateTyped
    <2>2. ShdrSize * 0 + ShdrSize <= ShdrSize * count
      BY <2>1, ProductStep
    <2> QED BY <2>1, <2>2
  <1>3. ehdr.shoff + ShdrSize <= object.fileSize
    <2>1. ShdrSize * count \in Nat
      BY GateTyped, ProductNat
    <2>2. ASSUME NEW extent \in Nat, ShdrSize <= extent, ehdr.shoff + extent <= object.fileSize
          PROVE  ehdr.shoff + ShdrSize <= object.fileSize
      <3>1. ehdr.shoff \in Nat /\ object.fileSize \in Nat /\ ShdrSize \in Nat
        BY GateTyped
      <3> QED BY <2>2, <3>1
    <2> QED BY <1>1, <1>2, <2>1, <2>2
  <1> QED BY <1>3, RangeExact, GateTyped

LEMMA OrdinaryExact ==
    ASSUME Typed
    PROVE  Sentinels = {} /\ ~ReservedAsOrdinary /\ SectionsAccepted <=> Numbered /\ ~Extended
  <1>1. Sentinels = {} <=> /\ ehdr.phnum # PN_XNUM
                           /\ ehdr.shnum # 0 \/ ehdr.shoff = 0
                           /\ ehdr.shstrndx # SHN_XINDEX
    BY DEF Sentinels
  <1>2. CASE Sentinels = {}
    <2>1. /\ SectionNumber = ehdr.shnum /\ ProgramNumber = ehdr.phnum
          /\ StringNumber = ehdr.shstrndx
      BY <1>1, <1>2 DEF SectionNumber, ProgramNumber, StringNumber, Kept
    <2>2. Extended <=> ReservedAsOrdinary
      BY <1>1, <1>2, <2>1, GateTyped DEF Extended, ReservedAsOrdinary, PN_XNUM
    <2>3. CASE ReservedAsOrdinary
      BY <2>2, <2>3
    <2>4. CASE ~ReservedAsOrdinary /\ ehdr.shnum = 0
      BY <1>1, <1>2, <2>1, <2>2, <2>4, GateTyped
         DEF ReservedAsOrdinary, SectionsAccepted, NoSections, Numbered, InHeader, PN_XNUM, SHN_XINDEX
    <2>5. CASE ~ReservedAsOrdinary /\ ehdr.shnum # 0
      <3>1. /\ InHeader(SectionNumber, SHN_LORESERVE, 0) = ehdr.shnum
            /\ InHeader(ProgramNumber, PN_XNUM, PN_XNUM) = ehdr.phnum
            /\ InHeader(StringNumber, SHN_LORESERVE, SHN_XINDEX) = ehdr.shstrndx
            /\ InCarrier(SectionNumber, SHN_LORESERVE) = 0 /\ InCarrier(StringNumber, SHN_LORESERVE) = 0
            /\ InCarrier(ProgramNumber, PN_XNUM) = 0
        BY <1>1, <1>2, <2>1, <2>5, GateTyped DEF ReservedAsOrdinary, InHeader, InCarrier, PN_XNUM
      <3>2. SectionsAccepted <=>
               /\ ehdr.shentsize = ShdrSize /\ ehdr.shoff # 0
               /\ ehdr.shoff + ShdrSize * SectionNumber <= object.fileSize
               /\ Zero = [null |-> TRUE, size |-> 0, link |-> 0, info |-> 0]
               /\ StringNumber < SectionNumber
        <4>1. SectionsAccepted <=> OrdinarySections
          BY <2>5 DEF SectionsAccepted
        <4>2. ehdr.shstrndx = 0 \/ ehdr.shstrndx < ehdr.shnum <=> StringNumber < SectionNumber
          BY <2>1, <2>5, GateTyped
        <4>3. ehdr.shnum \in Word
          BY GateTyped
        <4> QED BY <2>1, <4>1, <4>2, <4>3, SectionTableExact DEF OrdinarySections
      <3> QED BY <1>2, <2>1, <2>2, <2>5, <3>1, <3>2 DEF Numbered
    <2> QED BY <2>3, <2>4, <2>5
  <1>3. CASE Sentinels # {}
    <2> SUFFICES ASSUME Numbered, ~Extended PROVE FALSE
      BY <1>3
    <2>1. /\ SectionNumber < SHN_LORESERVE /\ ProgramNumber < PN_XNUM /\ StringNumber < SHN_LORESERVE
      BY GateTyped DEF Extended, SectionNumber, ProgramNumber, StringNumber, Kept, PN_XNUM
    <2>2. ehdr.shnum = SectionNumber /\ ehdr.phnum = ProgramNumber /\ ehdr.shstrndx = StringNumber
      BY <2>1, GateTyped DEF Numbered, InHeader, PN_XNUM, SectionNumber, ProgramNumber, StringNumber, Kept
    <2> QED BY <1>1, <1>3, <2>1, <2>2, GateTyped DEF Numbered, PN_XNUM, SHN_XINDEX
  <1> QED BY <1>2, <1>3

LEMMA SentinelParts ==
    /\ "phnum" \in Sentinels <=> ehdr.phnum = PN_XNUM
    /\ "shnum" \in Sentinels <=> ehdr.shnum = 0 /\ ehdr.shoff # 0
    /\ "shstrndx" \in Sentinels <=> ehdr.shstrndx = SHN_XINDEX
    /\ Sentinels = {} <=> "phnum" \notin Sentinels /\ "shnum" \notin Sentinels /\ "shstrndx" \notin Sentinels
  BY DEF Sentinels

\* Without a sentinel no number is out of the header.
LEMMA NoSentinelNotExtended ==
    ASSUME Typed, Sentinels = {}, Numbered
    PROVE  ~Extended
  <1>1. /\ SectionNumber = ehdr.shnum /\ ProgramNumber = ehdr.phnum /\ StringNumber = ehdr.shstrndx
        /\ ehdr.phnum # PN_XNUM /\ ehdr.shstrndx # SHN_XINDEX /\ (ehdr.shnum # 0 \/ ehdr.shoff = 0)
    BY SentinelParts DEF SectionNumber, ProgramNumber, StringNumber, Kept
  <1> QED BY <1>1, GateTyped DEF Numbered, Extended, InHeader, PN_XNUM, SHN_XINDEX

\* Each of the three numbers is in the one place where it belongs.
LEMMA SectionNumberPlace ==
    ASSUME Typed, ehdr.shoff # 0
    PROVE  /\ SectionCount = SectionNumber /\ SectionNumber \in Word
           /\ CountInItsPlace /\ ("shnum" \notin Sentinels => Zero.size = 0) <=>
                 /\ SectionNumber # 0 /\ ehdr.shnum = InHeader(SectionNumber, SHN_LORESERVE, 0)
                 /\ Zero.size = InCarrier(SectionNumber, SHN_LORESERVE)
  <1>1. CASE ehdr.shnum = 0
    BY <1>1, SentinelParts, GateTyped
       DEF SectionCount, SectionNumber, Kept, CountInItsPlace, InHeader, InCarrier
  <1>2. CASE ehdr.shnum # 0
    BY <1>2, SentinelParts, GateTyped
       DEF SectionCount, SectionNumber, Kept, CountInItsPlace, InHeader, InCarrier
  <1> QED BY <1>1, <1>2

LEMMA ProgramNumberPlace ==
    ASSUME Typed, ehdr.shoff # 0
    PROVE  /\ ProgramNumber \in Word
           /\ "phnum" \in Sentinels => ProgramNumber = Zero.info
           /\ "phnum" \notin Sentinels => ProgramNumber < PN_XNUM
           /\ /\ "phnum" \in Sentinels => Zero.info >= PN_XNUM
              /\ "phnum" \notin Sentinels => Zero.info = 0
              <=> /\ ehdr.phnum = InHeader(ProgramNumber, PN_XNUM, PN_XNUM)
                  /\ Zero.info = InCarrier(ProgramNumber, PN_XNUM)
  BY SentinelParts, GateTyped DEF ProgramNumber, Kept, InHeader, InCarrier, PN_XNUM

LEMMA StringNumberPlace ==
    ASSUME Typed, ehdr.shoff # 0, SectionNumber # 0
    PROVE  StringIndexInTable /\ ("shstrndx" \notin Sentinels => Zero.link = 0) <=>
              /\ ehdr.shstrndx = InHeader(StringNumber, SHN_LORESERVE, SHN_XINDEX)
              /\ Zero.link = InCarrier(StringNumber, SHN_LORESERVE)
              /\ StringNumber < SectionNumber
  <1>1. SectionCount = SectionNumber /\ SectionNumber \in Word
    BY SectionNumberPlace
  <1>2. CASE ehdr.shstrndx = SHN_XINDEX
    BY <1>1, <1>2, SentinelParts, GateTyped
       DEF StringIndexInTable, StringNumber, Kept, InHeader, InCarrier, SHN_XINDEX
  <1>3. CASE ehdr.shstrndx # SHN_XINDEX
    BY <1>1, <1>3, SentinelParts, GateTyped
       DEF StringIndexInTable, StringNumber, Kept, InHeader, InCarrier, SHN_XINDEX
  <1> QED BY <1>2, <1>3

ProgramTableInFile ==
    ProgramNumber >= PN_XNUM =>
       /\ object.phentsize = PhdrSize /\ object.phoff # 0
       /\ object.phoff + PhdrSize * ProgramNumber <= object.fileSize

LEMMA ProgramTableExact ==
    ASSUME Typed, ehdr.shoff # 0
    PROVE  ProgramHeadersInFile <=> ProgramTableInFile /\ ("phnum" \in Sentinels => Zero.info >= PN_XNUM)
  <1>1. TableExtentValid(object.fileSize, object.phoff, PhdrSize, Zero.info) <=>
           object.phoff + PhdrSize * Zero.info <= object.fileSize
    BY GateTyped, ExtentExact
  <1>2. CASE "phnum" \in Sentinels
    BY <1>1, <1>2, ProgramNumberPlace DEF ProgramHeadersInFile, ProgramTableInFile
  <1>3. CASE "phnum" \notin Sentinels
    <2>1. ~(ProgramNumber >= PN_XNUM)
      BY <1>3, ProgramNumberPlace, GateTyped DEF PN_XNUM
    <2> QED BY <1>3, <2>1 DEF ProgramHeadersInFile, ProgramTableInFile
  <1> QED BY <1>2, <1>3

LEMMA ReservedNotNumbered ==
    ASSUME Typed, Sentinels = {}, ReservedAsOrdinary
    PROVE  ~Numbered
  <1>1. /\ SectionNumber = ehdr.shnum /\ StringNumber = ehdr.shstrndx
        /\ ehdr.shstrndx # SHN_XINDEX /\ (ehdr.shnum # 0 \/ ehdr.shoff = 0)
    BY SentinelParts DEF SectionNumber, StringNumber, Kept
  <1> QED BY <1>1, GateTyped DEF Numbered, ReservedAsOrdinary, InHeader, SHN_XINDEX

LEMMA ExtendedExact ==
    ASSUME Typed
    PROVE  Sentinels # {} /\ ExtendedAccepted <=> Numbered /\ Extended /\ ProgramTableInFile
  <1>1. CASE ehdr.shoff = 0
    <2>1. ~ExtendedAccepted
      BY <1>1 DEF ExtendedAccepted
    <2> SUFFICES ASSUME Numbered, Extended PROVE FALSE
      BY <2>1
    <2>2. SectionNumber = ehdr.shnum /\ ProgramNumber = ehdr.phnum /\ StringNumber = ehdr.shstrndx
      BY <1>1 DEF SectionNumber, ProgramNumber, StringNumber, Kept
    <2>3. SectionNumber = 0 /\ StringNumber = 0 /\ ProgramNumber < PN_XNUM
      BY <1>1 DEF Numbered
    <2> QED BY <2>2, <2>3, GateTyped DEF Extended, PN_XNUM
  <1>2. CASE ehdr.shoff # 0
    <2> DEFINE placed ==
          /\ SectionNumber # 0
          /\ ehdr.shnum    = InHeader(SectionNumber, SHN_LORESERVE, 0)
          /\ ehdr.phnum    = InHeader(ProgramNumber, PN_XNUM, PN_XNUM)
          /\ ehdr.shstrndx = InHeader(StringNumber, SHN_LORESERVE, SHN_XINDEX)
          /\ Zero.null
          /\ Zero.size = InCarrier(SectionNumber, SHN_LORESERVE)
          /\ Zero.link = InCarrier(StringNumber, SHN_LORESERVE)
          /\ Zero.info = InCarrier(ProgramNumber, PN_XNUM)
          /\ StringNumber < SectionNumber
          /\ SectionsInFile(SectionNumber)
    <2>1. Numbered <=> placed
      <3>1. SectionsInFile(SectionNumber) <=>
               /\ ehdr.shentsize = ShdrSize
               /\ ehdr.shoff + ShdrSize * SectionNumber <= object.fileSize
        BY <1>2, SectionTableExact, SectionNumberPlace
      <3>2. \A x, y, z : Zero = [null |-> TRUE, size |-> x, link |-> y, info |-> z] <=>
               Zero.null /\ Zero.size = x /\ Zero.link = y /\ Zero.info = z
        BY GateTyped
      <3> QED BY <1>2, <3>1, <3>2 DEF Numbered
    <2>2. ExtendedAccepted <=> placed /\ ProgramTableInFile
      <3>1. CASE SectionNumber = 0
        <4>1. ~(CountInItsPlace /\ ("shnum" \notin Sentinels => Zero.size = 0))
          BY <1>2, <3>1, SectionNumberPlace
        <4> QED BY <3>1, <4>1 DEF ExtendedAccepted, CarriersAgree
      <3>2. CASE SectionNumber # 0
        <4>1. SectionCount = SectionNumber /\ SectionNumber \in Word
          BY <1>2, SectionNumberPlace
        <4>2. SectionsInFile(SectionNumber) => RangeEndValid(object.fileSize, ehdr.shoff, ShdrSize)
          BY <3>2, <4>1, FirstEntryInFile
        <4>3. SectionsInFile(SectionNumber) => ehdr.shentsize = ShdrSize
          BY DEF SectionsInFile
        <4>4. ExtendedAccepted <=>
                 /\ SectionsInFile(SectionNumber) /\ Zero.null
                 /\ CountInItsPlace /\ ("shnum" \notin Sentinels => Zero.size = 0)
                 /\ StringIndexInTable /\ ("shstrndx" \notin Sentinels => Zero.link = 0)
                 /\ ProgramHeadersInFile /\ ("phnum" \notin Sentinels => Zero.info = 0)
          BY <1>2, <4>1, <4>2, <4>3 DEF ExtendedAccepted, CarriersAgree
        <4> QED BY <1>2, <3>2, <4>4, SectionNumberPlace, StringNumberPlace, ProgramNumberPlace,
                   ProgramTableExact
      <3> QED BY <3>1, <3>2
    <2>3. ASSUME placed PROVE Sentinels # {} <=> Extended
      <3>1. CASE Sentinels = {}
        BY <2>1, <2>3, <3>1, NoSentinelNotExtended
      <3>2. CASE Sentinels # {}
        BY <1>2, <2>3, <3>2, SentinelParts, GateTyped
           DEF Extended, SectionNumber, ProgramNumber, StringNumber, Kept, InHeader, PN_XNUM, SHN_XINDEX
      <3> QED BY <3>1, <3>2
    <2> HIDE DEF placed
    <2> QED BY <2>1, <2>2, <2>3
  <1> QED BY <1>1, <1>2

-----------------------------------------------------------------------------
(* The invariant of the gate: what elf64_validate has found out so far.    *)

GatePosition ==
    /\ Typed
    /\ gate \in {"identity", "numbering", "contract", "passed", "refused"}
    /\ gate # "passed" => caller = "elf64_validate"

GateFound ==
    /\ gate \in {"numbering", "contract", "passed"} => Identified
    /\ gate \in {"contract", "passed"} => Sentinels = {} /\ ~ReservedAsOrdinary

GInv == GatePosition /\ GateFound /\ GateExact

\* Everything but the gate and the verdict stays as it is.
LEMMA SameEhdr ==
    ASSUME object' = object, ehdr' = ehdr
    PROVE  /\ Typed' <=> Typed
           /\ Identified' <=> Identified
           /\ Sentinels' = Sentinels
           /\ ReservedAsOrdinary' <=> ReservedAsOrdinary
           /\ Numbered' <=> Numbered
           /\ Extended' <=> Extended
           /\ ProgramNumber' = ProgramNumber
           /\ Loadable' <=> Loadable
  <1>1. (FileTyped' <=> FileTyped) /\ (Loadable' <=> Loadable)
    BY SameFile
  <1>2. Zero' = Zero
    BY DEF Zero
  <1>3. /\ SectionNumber' = SectionNumber /\ ProgramNumber' = ProgramNumber
        /\ StringNumber' = StringNumber
    BY <1>2 DEF SectionNumber, ProgramNumber, StringNumber, Kept
  <1> QED BY <1>1, <1>2, <1>3
          DEF Typed, Identified, Sentinels, ReservedAsOrdinary, Numbered, Extended, InHeader, InCarrier

\* A refusal for what has been found out about the file.
LEMMA RefusalIsExact ==
    ASSUME GInv, NEW rax, GateRefuses(rax), caller = "elf64_validate",
           rax = EXIT_UNSUPPORTED <=> Identified /\ Numbered /\ Extended /\ ProgramTableInFile,
           rax = EXIT_NOT_ELF64_X64 => ehdr.wrong \cap {"magic", "class", "data", "machine"} # {},
           rax = EXIT_MALFORMED_ELF => ~(Identified /\ Numbered /\ ~Extended /\ Loadable),
           rax \in {EXIT_NOT_ELF64_X64, EXIT_MALFORMED_ELF, EXIT_UNSUPPORTED}
    PROVE  GInv'
  <1>1. /\ object' = object /\ ehdr' = ehdr /\ gate' = "refused" /\ verdict' = rax /\ caller' = caller
        /\ UNCHANGED vars
    BY DEF GateRefuses, vars
  <1>2. GatePosition' /\ GateFound'
    BY <1>1, SameEhdr DEF GInv, GatePosition, GateFound
  <1>3. GateExact'
    BY <1>1, SameEhdr DEF GateExact, ProgramTableInFile
  <1> QED BY <1>2, <1>3 DEF GInv

LEMMA GoingOnIsExact ==
    ASSUME GInv, NEW to, GateGoesOn(to), caller = "elf64_validate",
           to \in {"numbering", "contract", "passed"}, Identified,
           to # "numbering" => Sentinels = {} /\ ~ReservedAsOrdinary,
           to = "passed" => Numbered /\ ~Extended /\ Loadable
    PROVE  GInv'
  <1>1. object' = object /\ ehdr' = ehdr /\ gate' = to /\ caller' = caller
    BY DEF GateGoesOn, vars
  <1>2. GatePosition' /\ GateFound'
    BY <1>1, SameEhdr DEF GInv, GatePosition, GateFound
  <1>3. GateExact'
    BY <1>1, SameEhdr DEF GateExact
  <1> QED BY <1>2, <1>3 DEF GInv

LEMMA ObjectKept == Next => object' = object
  BY DEF Next, ContractStep, HeaderStep, TableRefused, BeginContract, ContractHeader, HeaderRefused,
         EntryAccepted, EntryRefused, BeginAnalysis, BeginHeaders, HeaderMalformed, HeaderUnsupported,
         DataLoad, ExecutableLoad, StackHeader, RelroHeader, InterpHeader, DynamicHeader, OtherHeader,
         ContentRefused, HeadersDone, MetadataRefused, NextHeader, Refuse, Done, vars

\* The contract's steps, and those of the analysis, leave the gate alone.
LEMMA ElsewhereKeepsGate ==
    ASSUME GInv, Next, UNCHANGED <<ehdr, gate, verdict>>,
           gate = "passed" \/ caller' = "elf64_validate"
    PROVE  GInv'
  <1>1. object' = object
    BY ObjectKept
  <1> QED BY <1>1, SameEhdr DEF GInv, GatePosition, GateFound, GateExact

LEMMA GateCodes ==
    /\ EXIT_OK = 0 /\ EXIT_NOT_ELF64_X64 = 4 /\ EXIT_MALFORMED_ELF = 5 /\ EXIT_UNSUPPORTED = 6
  BY DEF EXIT_OK, EXIT_NOT_ELF64_X64, EXIT_MALFORMED_ELF, EXIT_UNSUPPORTED

LEMMA GateStepKeepsInvariant == IInv /\ GInv /\ GateNext => GInv'
  <1> SUFFICES ASSUME IInv, GInv, GateNext PROVE GInv'
    OBVIOUS
  <1>1. Typed
    BY DEF GInv, GatePosition
  <1>2. CASE IdentityRefused
    <2>1. ~Identified /\ caller = "elf64_validate"
      BY <1>1, <1>2, IdentityExact DEF IdentityRefused, GInv, GatePosition
    <2>2. CASE OtherKind
      <3>1. GateRefuses(EXIT_NOT_ELF64_X64)
        BY <1>2, <2>2 DEF IdentityRefused
      <3> QED BY <1>1, <2>1, <2>2, <3>1, IdentityExact, GateCodes, RefusalIsExact
    <2>3. CASE ~OtherKind
      <3>1. GateRefuses(EXIT_MALFORMED_ELF)
        BY <1>2, <2>3 DEF IdentityRefused
      <3> QED BY <2>1, <3>1, GateCodes, RefusalIsExact
    <2> QED BY <2>2, <2>3
  <1>3. CASE IdentityAccepted
    <2>1. GateGoesOn("numbering") /\ Identified /\ caller = "elf64_validate"
      BY <1>1, <1>3, IdentityExact DEF IdentityAccepted, GInv, GatePosition
    <2> QED BY <2>1, GoingOnIsExact
  <1>4. CASE ExtendedNumbering
    <2>1. Sentinels # {} /\ Identified /\ caller = "elf64_validate"
      BY <1>4 DEF ExtendedNumbering, GInv, GatePosition, GateFound
    <2>2. ~(Numbered /\ ~Extended)
      BY <1>1, <2>1, OrdinaryExact
    <2>3. CASE ExtendedAccepted
      <3>1. GateRefuses(EXIT_UNSUPPORTED)
        BY <1>4, <2>3 DEF ExtendedNumbering
      <3>2. Numbered /\ Extended /\ ProgramTableInFile
        BY <1>1, <2>1, <2>3, ExtendedExact
      <3> QED BY <2>1, <3>1, <3>2, GateCodes, RefusalIsExact
    <2>4. CASE ~ExtendedAccepted
      <3>1. GateRefuses(EXIT_MALFORMED_ELF)
        BY <1>4, <2>4 DEF ExtendedNumbering
      <3>2. ~(Numbered /\ Extended /\ ProgramTableInFile)
        BY <1>1, <2>1, <2>4, ExtendedExact
      <3> QED BY <2>1, <2>2, <3>1, <3>2, GateCodes, RefusalIsExact
    <2> QED BY <2>3, <2>4
  <1>5. CASE ReservedRefused
    <2>1. Sentinels = {} /\ ReservedAsOrdinary /\ GateRefuses(EXIT_MALFORMED_ELF) /\ caller = "elf64_validate"
      BY <1>5 DEF ReservedRefused, GInv, GatePosition
    <2>2. ~Numbered
      BY <1>1, <2>1, ReservedNotNumbered
    <2> QED BY <2>1, <2>2, GateCodes, RefusalIsExact
  <1>6. CASE OrdinaryNumbering
    <2>1. /\ GateGoesOn("contract") /\ Identified /\ caller = "elf64_validate"
          /\ Sentinels = {} /\ ~ReservedAsOrdinary
      BY <1>6 DEF OrdinaryNumbering, GInv, GatePosition, GateFound
    <2> QED BY <2>1, GoingOnIsExact
  <1>7. CASE CallContract
    BY <1>7, ElsewhereKeepsGate DEF CallContract, Next
  <1>8. CASE ContractFailed
    <2>1. caller = "elf64_validate" /\ Sentinels = {}
      BY <1>8 DEF ContractFailed, GInv, GatePosition, GateFound
    <2>2. ~Loadable /\ status = EXIT_MALFORMED_ELF
      BY <1>8, <2>1 DEF ContractFailed, IInv, ContractExact
    <2>3. ~(Numbered /\ Extended)
      BY <1>1, <2>1, NoSentinelNotExtended
    <2> QED BY <1>8, <2>1, <2>2, <2>3, GateCodes, RefusalIsExact DEF ContractFailed
  <1>9. CASE SectionsRefused
    <2>1. caller = "elf64_validate" /\ Sentinels = {} /\ ~ReservedAsOrdinary /\ ~SectionsAccepted
      BY <1>9 DEF SectionsRefused, GInv, GatePosition, GateFound
    <2>2. ~Numbered
      BY <1>1, <2>1, OrdinaryExact, NoSentinelNotExtended
    <2> QED BY <1>9, <2>1, <2>2, GateCodes, RefusalIsExact DEF SectionsRefused
  <1>10. CASE SectionsChecked
    <2>1. /\ GateGoesOn("passed") /\ Identified /\ caller = "elf64_validate"
          /\ Sentinels = {} /\ ~ReservedAsOrdinary /\ SectionsAccepted /\ pc = "accepted"
      BY <1>10 DEF SectionsChecked, GInv, GatePosition, GateFound
    <2>2. Numbered /\ ~Extended
      BY <1>1, <2>1, OrdinaryExact
    <2>3. Loadable
      BY <2>1 DEF IInv, AcceptedIsLoadable
    <2> QED BY <2>1, <2>2, <2>3, GoingOnIsExact
  <1>11. CASE Analyze
    BY <1>11, ElsewhereKeepsGate DEF Analyze, Next
  <1>12. CASE Returned
    <2>1. object' = object /\ UNCHANGED <<ehdr, gate, verdict, caller>>
      BY <1>12 DEF Returned, gateVars, vars
    <2> QED BY <2>1, SameEhdr DEF GInv, GatePosition, GateFound, GateExact
  <1> QED BY <1>2, <1>3, <1>4, <1>5, <1>6, <1>7, <1>8, <1>9, <1>10, <1>11, <1>12 DEF GateNext

(***************************************************************************)
(* For every file, word size, header size and reserved domain,             *)
(* elf64_validate lets through exactly the ordinary loadable files and     *)
(* calls unsupported exactly the well-numbered files that need section     *)
(* header zero.                                                            *)
(***************************************************************************)
THEOREM GateExactTheorem == GateSpec => []GateExact
  <1>1. GateInit => GInv
    <2> SUFFICES ASSUME GateInit PROVE GInv
      OBVIOUS
    <2>1. FileTyped /\ object \in Objects /\ caller = "elf64_validate"
      BY InitInvariant DEF GateInit, Init, IInv, Position
    <2>2. ehdr \in Ehdr
      BY <2>1, GateAssumption DEF GateInit
    <2>3. gate = "identity"
      BY DEF GateInit
    <2> QED BY <2>1, <2>2, <2>3 DEF GInv, GatePosition, GateFound, GateExact, Typed
  <1>2. IInv /\ GInv /\ [GateNext]_gateVars => GInv'
    <2>1. IInv /\ GInv /\ UNCHANGED gateVars => GInv'
      <3> SUFFICES ASSUME GInv, UNCHANGED gateVars PROVE GInv'
        OBVIOUS
      <3>1. object' = object /\ UNCHANGED <<ehdr, gate, verdict, caller>>
        BY DEF gateVars, vars
      <3> QED BY <3>1, SameEhdr DEF GInv, GatePosition, GateFound, GateExact
    <2> QED BY <2>1, GateStepKeepsInvariant
  <1>3. GInv => GateExact
    BY DEF GInv
  <1> QED BY <1>1, <1>2, <1>3, GateImplementsContract, LoaderInvariant, PTL DEF GateSpec

(***************************************************************************)
(* Behind the gate too, the contract accepts exactly the loadable files.   *)
(***************************************************************************)
THEOREM ContractExactBehindGate == GateSpec => []ContractExact
  BY GateImplementsContract, ContractExactTheorem, PTL

(***************************************************************************)
(* Behind the gate too.                                                    *)
(***************************************************************************)
THEOREM AnalysisBehindGate == GateSpec => []AnalysisOfTheHeaders
  BY GateImplementsContract, AnalysisTheorem, PTL
=============================================================================
