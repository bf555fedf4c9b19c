-------------------------- MODULE PrimitivesProofs --------------------------
(***************************************************************************)
(* Proofs about the checked arithmetic and the arena: for every word size, *)
(* every page size and every sequence of calls, the helpers are exact, the *)
(* slices never overlap, an allocation is refused only when it does not    *)
(* fit, and the record and the kernel agree about the mapping.             *)
(***************************************************************************)
EXTENDS Primitives, TLAPS

-----------------------------------------------------------------------------
(* The words.                                                              *)

\* A product of words is a natural number (stated once: the provers are slow
\* to see it inside a larger goal).
LEMMA ProductNat ==
    ASSUME NEW a \in Nat, NEW b \in Nat
    PROVE  a * b \in Nat
  OBVIOUS

\* ADD keeps the number itself exactly when it does not carry.
LEMMA SumExact ==
    ASSUME NEW a \in Nat, NEW b \in Nat, a + b <= WordMax
    PROVE  WordSum(a, b) = a + b /\ ~Carries(a, b)
  BY WordMaxAssumption DEF WordSum, Carries

\* The product is monotonic in its second factor, one step at a time.
LEMMA ProductStep ==
    ASSUME NEW a \in Nat, NEW i \in Nat, NEW n \in Nat, i < n
    PROVE  a * i + a <= a * n
  <1>1. PICK k \in Nat : n = i + 1 + k
    <2>1. n - (i + 1) \in Nat /\ n = i + 1 + (n - (i + 1))
      OBVIOUS
    <2> QED BY <2>1
  <1>2. a * n = a * i + a + a * k
    BY <1>1
  <1>3. a * k \in Nat /\ a * i \in Nat
    BY ProductNat
  <1> QED BY <1>2, <1>3

-----------------------------------------------------------------------------
(* The helpers.                                                            *)

LEMMA RangeExact ==
    ASSUME NEW fileSize \in Word, NEW offset \in Word, NEW length \in Word
    PROVE  /\ RangeEndValid(fileSize, offset, length) <=> (offset + length <= fileSize)
           /\ RangeValid(fileSize, offset, length) <=> RangeEndValid(fileSize, offset, length)
           /\ RangeEndValid(fileSize, offset, length) =>
                 RangeEnd(offset, length) = offset + length
  BY WordMaxAssumption
     DEF RangeEndValid, RangeValid, RangeEnd, Word, Carries, WordSum, WordDifference

LEMMA ExtentExact ==
    ASSUME NEW fileSize \in Word, NEW offset \in Word, NEW stride \in Word, NEW count \in Word
    PROVE  /\ TableExtentValid(fileSize, offset, stride, count) <=>
                 /\ offset + stride * count <= fileSize
                 /\ count # 0 => stride # 0
           /\ TableExtentValid(fileSize, offset, stride, count) =>
                 TableEnd(offset, stride, count) = offset + stride * count
  <1> DEFINE bytes == stride * count
  <1>1. bytes \in Nat /\ fileSize \in Nat /\ offset \in Nat
    BY ProductNat, WordMaxAssumption DEF Word
  <1>2. CASE count = 0
    <2>1. bytes = 0
      BY <1>2, WordMaxAssumption DEF Word
    <2>2. TableExtentValid(fileSize, offset, stride, count) <=> offset <= fileSize
      BY <1>1, <1>2 DEF TableExtentValid
    <2>3. TableEnd(offset, stride, count) = offset
      BY <1>2 DEF TableEnd
    <2> HIDE DEF bytes
    <2>4. offset + bytes = offset
      BY <1>1, <2>1
    <2> QED BY <1>2, <2>2, <2>3, <2>4 DEF bytes
  <1>3. CASE count # 0
    <2>1. HighWordNonzero(stride, count) <=> bytes > WordMax
      BY DEF HighWordNonzero
    <2>2. ~HighWordNonzero(stride, count) => WordProduct(stride, count) = bytes
      BY DEF WordProduct
    <2>3. TableExtentValid(fileSize, offset, stride, count) <=>
             /\ stride # 0
             /\ ~HighWordNonzero(stride, count)
             /\ ~Carries(bytes, offset)
             /\ ~(WordSum(bytes, offset) > fileSize)
      BY <1>3, <2>2 DEF TableExtentValid, TableEnd
    <2>4. ~HighWordNonzero(stride, count) =>
             TableEnd(offset, stride, count) = WordSum(bytes, offset)
      BY <1>3, <2>2 DEF TableEnd
    <2> HIDE DEF bytes
    <2>5. TableExtentValid(fileSize, offset, stride, count) <=>
             (stride # 0 /\ offset + bytes <= fileSize)
      BY <1>1, <2>1, <2>3, WordMaxAssumption DEF Carries, WordSum, Word
    <2>6. TableExtentValid(fileSize, offset, stride, count) =>
             TableEnd(offset, stride, count) = offset + bytes
      BY <1>1, <2>3, <2>4, WordMaxAssumption DEF Carries, WordSum, Word
    <2> QED BY <1>3, <2>5, <2>6 DEF bytes
  <1> QED BY <1>2, <1>3

LEMMA EntryExact ==
    ASSUME NEW fileSize \in Word, NEW offset \in Word, NEW stride \in Word,
           NEW count \in Word, NEW index \in Word
    PROVE  /\ EntryOffsetValid(fileSize, offset, stride, count, index) <=>
                 /\ index < count
                 /\ stride # 0
                 /\ offset + stride * index + stride <= fileSize
           /\ EntryOffsetValid(fileSize, offset, stride, count, index) =>
                 EntryOffset(offset, stride, index) = offset + stride * index
  <1> DEFINE delta == stride * index
  <1>1. delta \in Nat /\ fileSize \in Nat /\ offset \in Nat /\ stride \in Nat
        /\ index \in Nat /\ count \in Nat /\ fileSize <= WordMax
    BY ProductNat, WordMaxAssumption DEF Word
  <1>2. HighWordNonzero(stride, index) <=> delta > WordMax
    BY DEF HighWordNonzero
  <1>3. ~HighWordNonzero(stride, index) => WordProduct(stride, index) = delta
    BY DEF WordProduct
  <1>4. ~HighWordNonzero(stride, index) =>
           EntryOffset(offset, stride, index) = WordSum(delta, offset)
    BY <1>3 DEF EntryOffset
  <1>5. EntryOffsetValid(fileSize, offset, stride, count, index) <=>
           /\ index < count
           /\ stride # 0
           /\ ~HighWordNonzero(stride, index)
           /\ ~Carries(delta, offset)
           /\ ~Carries(WordSum(delta, offset), stride)
           /\ ~(WordSum(WordSum(delta, offset), stride) > fileSize)
    BY <1>1, <1>3, <1>4 DEF EntryOffsetValid
  <1> HIDE DEF delta
  <1>6. EntryOffsetValid(fileSize, offset, stride, count, index) <=>
           index < count /\ stride # 0 /\ offset + delta + stride <= fileSize
    BY <1>1, <1>2, <1>5, WordMaxAssumption DEF Carries, WordSum
  <1>7. EntryOffsetValid(fileSize, offset, stride, count, index) =>
           EntryOffset(offset, stride, index) = offset + delta
    BY <1>1, <1>4, <1>5, WordMaxAssumption DEF Carries, WordSum
  <1> QED BY <1>6, <1>7 DEF delta

LEMMA EntriesCovered ==
    ASSUME NEW fileSize \in Word, NEW offset \in Word, NEW stride \in Word,
           NEW count \in Word, NEW index \in Word, index < count,
           TableExtentValid(fileSize, offset, stride, count)
    PROVE  /\ EntryOffsetValid(fileSize, offset, stride, count, index)
           /\ EntryOffset(offset, stride, index) >= offset
           /\ EntryOffset(offset, stride, index) + stride <= TableEnd(offset, stride, count)
  <1>1. stride \in Nat /\ index \in Nat /\ count \in Nat /\ offset \in Nat /\ fileSize \in Nat
    BY WordMaxAssumption DEF Word
  <1>2. /\ offset + stride * count <= fileSize
        /\ count # 0 => stride # 0
        /\ TableEnd(offset, stride, count) = offset + stride * count
    BY ExtentExact
  <1>3. stride * index + stride <= stride * count
    BY <1>1, ProductStep
  <1>4. stride * index \in Nat /\ stride * count \in Nat
    BY <1>1, ProductNat
  <1>5. stride # 0
    BY <1>1, <1>2
  <1>6. offset + stride * index + stride <= fileSize
    BY <1>1, <1>2, <1>3, <1>4
  <1>7. /\ EntryOffsetValid(fileSize, offset, stride, count, index)
        /\ EntryOffset(offset, stride, index) = offset + stride * index
    BY <1>5, <1>6, EntryExact
  <1> QED BY <1>1, <1>2, <1>3, <1>4, <1>7

-----------------------------------------------------------------------------
(* The checked arithmetic.  Each call is built from its arguments alone, so every  *)
(* invariant is inductive by itself and an action either is about another  *)
(* helper or follows from the lemma on its own.                            *)

Exact == RangesExact /\ TablesExact /\ AcceptedTableCoversEntries

LEMMA RangeCallExact == RangeCall => Exact'
  <1> SUFFICES ASSUME NEW fileSize \in Word, NEW offset \in Word, NEW length \in Word,
                      call' = [helper |-> "range", fileSize |-> fileSize, offset |-> offset,
                               length |-> length,
                               fits |-> RangeValid(fileSize, offset, length),
                               ok |-> RangeEndValid(fileSize, offset, length),
                               end |-> RangeEnd(offset, length)]
               PROVE  Exact'
    BY DEF RangeCall
  <1>1. RangesExact'
    BY RangeExact DEF RangesExact
  <1>2. call'.helper # "table" /\ call'.helper # "entry"
    OBVIOUS
  <1> QED BY <1>1, <1>2 DEF Exact, TablesExact, AcceptedTableCoversEntries

LEMMA TableCallExact == TableCall => Exact'
  <1> SUFFICES ASSUME NEW fileSize \in Word, NEW offset \in Word, NEW stride \in Word,
                      NEW count \in Word,
                      call' = [helper |-> "table", fileSize |-> fileSize, offset |-> offset,
                               stride |-> stride, count |-> count,
                               ok |-> TableExtentValid(fileSize, offset, stride, count),
                               end |-> TableEnd(offset, stride, count)]
               PROVE  Exact'
    BY DEF TableCall
  <1>1. call'.helper # "range" /\ call'.helper # "entry"
    OBVIOUS
  <1>2. TablesExact'
    BY <1>1, ExtentExact DEF TablesExact
  <1>3. AcceptedTableCoversEntries'
    BY EntriesCovered DEF AcceptedTableCoversEntries
  <1> QED BY <1>1, <1>2, <1>3 DEF Exact, RangesExact

LEMMA EntryCallExact == EntryCall => Exact'
  <1> SUFFICES ASSUME NEW fileSize \in Word, NEW offset \in Word, NEW stride \in Word,
                      NEW count \in Word, NEW index \in Word,
                      call' = [helper |-> "entry", fileSize |-> fileSize, offset |-> offset,
                               stride |-> stride, count |-> count, index |-> index,
                               ok |-> EntryOffsetValid(fileSize, offset, stride, count, index),
                               start |-> EntryOffset(offset, stride, index)]
               PROVE  Exact'
    BY DEF EntryCall
  <1>1. call'.helper # "range" /\ call'.helper # "table"
    OBVIOUS
  <1>2. TablesExact'
    BY <1>1, EntryExact DEF TablesExact
  <1> QED BY <1>1, <1>2 DEF Exact, RangesExact, AcceptedTableCoversEntries

LEMMA NoCallExact == call = NoCall => Exact
  BY DEF NoCall, Exact, RangesExact, TablesExact, AcceptedTableCoversEntries

LEMMA NoCallExactNext == call' = NoCall => Exact'
  BY DEF NoCall, Exact, RangesExact, TablesExact, AcceptedTableCoversEntries

LEMMA AlwaysExact == CallSpec => []Exact
  <1>1. CallInit => Exact
    BY NoCallExact DEF CallInit, Idle
  <1>2. Exact /\ [CallNext]_call => Exact'
    <2> SUFFICES ASSUME Exact, [CallNext]_call PROVE Exact'
      OBVIOUS
    <2>1. CASE RangeCall  BY <2>1, RangeCallExact
    <2>2. CASE TableCall  BY <2>2, TableCallExact
    <2>3. CASE EntryCall  BY <2>3, EntryCallExact
    <2>4. CASE Return     BY <2>4, NoCallExactNext DEF Return
    <2>5. CASE UNCHANGED call
      BY <2>5 DEF Exact, RangesExact, TablesExact, AcceptedTableCoversEntries
    <2> QED BY <2>1, <2>2, <2>3, <2>4, <2>5 DEF CallNext
  <1> QED BY <1>1, <1>2, PTL DEF CallSpec

(***************************************************************************)
(* The range helpers of bounds.asm accept exactly the ranges that end in   *)
(* the file, for every word size.                                          *)
(***************************************************************************)
THEOREM RangesExactTheorem == CallSpec => []RangesExact
  <1>1. Exact => RangesExact
    BY DEF Exact
  <1> QED BY <1>1, AlwaysExact, PTL

(***************************************************************************)
(* The table helpers accept exactly the tables and entries that end in the *)
(* file, for every word size.                                              *)
(***************************************************************************)
THEOREM TablesExactTheorem == CallSpec => []TablesExact
  <1>1. Exact => TablesExact
    BY DEF Exact
  <1> QED BY <1>1, AlwaysExact, PTL

(***************************************************************************)
(* A table whose extent x64lens_bounds_table_extent_valid accepts never    *)
(* makes x64lens_bounds_table_entry_offset refuse one of its entries.      *)
(***************************************************************************)
THEOREM AcceptedTableTheorem == CallSpec => []AcceptedTableCoversEntries
  <1>1. Exact => AcceptedTableCoversEntries
    BY DEF Exact
  <1> QED BY <1>1, AlwaysExact, PTL

-----------------------------------------------------------------------------
(* Remainders and multiples.                                               *)

LEMMA Remainder ==
    ASSUME NEW x \in Nat, NEW a \in Nat \ {0}
    PROVE  x % a \in 0 .. a - 1
  OBVIOUS

LEMMA Quotient ==
    ASSUME NEW x \in Nat, NEW a \in Nat \ {0}
    PROVE  x \div a \in Nat /\ x = a * (x \div a) + (x % a)
  OBVIOUS

LEMMA MultipleOf ==
    ASSUME NEW q \in Nat, NEW a \in Nat \ {0}
    PROVE  (a * q) % a = 0
  OBVIOUS

LEMMA MonotoneProduct ==
    ASSUME NEW a \in Nat, NEW p \in Nat, NEW q \in Nat, p <= q
    PROVE  a * p <= a * q
  OBVIOUS

LEMMA MultiplesApart ==
    ASSUME NEW a \in Nat \ {0}, NEW x \in Nat, NEW y \in Nat, x % a = 0, y % a = 0, x < y
    PROVE  x + a <= y
  <1> DEFINE p == x \div a
             q == y \div a
  <1>1. p \in Nat /\ q \in Nat /\ x = a * p /\ y = a * q
    BY Quotient
  <1> HIDE DEF p, q
  <1>2. p + 1 <= q
    <2>1. q <= p => a * q <= a * p
      BY <1>1, MonotoneProduct
    <2> QED BY <1>1, <2>1
  <1>3. a * (p + 1) <= a * q
    BY <1>1, <1>2, MonotoneProduct
  <1>4. a * (p + 1) = a * p + a
    BY <1>1
  <1> QED BY <1>1, <1>3, <1>4

LEMMA RoundedIsMultiple ==
    ASSUME NEW x \in Nat, NEW a \in Nat \ {0}
    PROVE  (x - (x % a)) % a = 0
  <1>1. x \div a \in Nat /\ x - (x % a) = a * (x \div a)
    BY Quotient
  <1> QED BY <1>1, MultipleOf

-----------------------------------------------------------------------------
(* The inductive invariant of the arena: everything already handed out lies below       *)
(* ARENA_USED, and the mapping itself is a range of words.                 *)

MappingInWords == base + size <= WordMax

ZeroedTogether == /\ base = 0 => size = 0 /\ used = 0 /\ slices = {}
                  /\ base # 0 => size # 0

UsedFits == used <= size

SlicesBelowUsed == \A s \in slices : base <= s.start /\ s.start + s.size <= base + used

SlicesDisjoint == \A s, t \in slices : s # t => Disjoint(s, t)

IInv == /\ TypeOK
        /\ MappingInWords
        /\ ZeroedTogether
        /\ UsedFits
        /\ SlicesBelowUsed
        /\ SlicesDisjoint
        /\ MappingMatchesRecord

-----------------------------------------------------------------------------
(***************************************************************************)
(* What (used + mask) & ~mask yields once the carry was checked: a word at *)
(* or above ARENA_USED.                                                    *)
(***************************************************************************)
LEMMA AlignedUp ==
    ASSUME used \in Word, NEW align \in Word, ~Carries(used, Alignment(align) - 1)
    PROVE  AlignedOffset(align) \in Word /\ AlignedOffset(align) >= used
  <1> DEFINE a == Alignment(align)
             sum == WordSum(used, a - 1)
  <1>1. a \in Nat \ {0} /\ used \in Nat /\ WordMax \in Nat
    BY WordMaxAssumption DEF Alignment, Word
  <1>2. sum = used + (a - 1) /\ sum <= WordMax
    BY <1>1 DEF WordSum, Carries
  <1>3. AlignedOffset(align) = sum - (sum % a)
    BY DEF AlignedOffset
  <1> HIDE DEF a, sum
  <1>4. sum % a \in 0 .. a - 1
    BY <1>1, <1>2, Remainder
  <1> QED BY <1>1, <1>2, <1>3, <1>4 DEF Word

(***************************************************************************)
(* An allocation that passes every check of x64lens_arena_alloc takes the  *)
(* bytes between the old ARENA_USED and the new one, inside the mapping.   *)
(***************************************************************************)
LEMMA AllocatedSlice ==
    ASSUME IInv, NEW n \in Word, NEW align \in Word, Allocates(n, align)
    PROVE  LET start == WordSum(base, AlignedOffset(align))
               end == WordSum(AlignedOffset(align), n)
           IN  /\ start \in Word /\ end \in Word
               /\ base # 0
               /\ base + used <= start
               /\ start + n = base + end
               /\ used <= end /\ end <= size
  <1> DEFINE offset == AlignedOffset(align)
  <1>1. offset \in Word /\ offset >= used
    BY AlignedUp DEF IInv, TypeOK, Allocates
  <1>2. /\ ~Carries(offset, n)
        /\ ~(WordSum(offset, n) > size)
        /\ ~Carries(base, offset)
        /\ base # 0
    BY DEF Allocates
  <1>3. base \in Word /\ size \in Word /\ used \in Word
    BY DEF IInv, TypeOK
  <1> HIDE DEF offset
  <1>4. /\ WordSum(offset, n) = offset + n
        /\ WordSum(base, offset) = base + offset
        /\ offset + n <= size
        /\ base + offset <= WordMax
    BY <1>1, <1>2, <1>3, WordMaxAssumption DEF WordSum, Carries, Word
  <1>5. /\ WordSum(base, offset) \in Word /\ WordSum(offset, n) \in Word
        /\ base + used <= WordSum(base, offset)
        /\ WordSum(base, offset) + n = base + WordSum(offset, n)
        /\ used <= WordSum(offset, n) /\ WordSum(offset, n) <= size
    BY <1>1, <1>3, <1>4, WordMaxAssumption DEF Word
  <1> QED BY <1>2, <1>5 DEF offset

-----------------------------------------------------------------------------
LEMMA InitIInv == Init => IInv
  BY WordMaxAssumption
     DEF Init, IInv, TypeOK, MappingInWords, ZeroedTogether, UsedFits, SlicesBelowUsed,
         SlicesDisjoint, MappingMatchesRecord, Word

LEMMA InitFailsIInv ==
    ASSUME IInv, NEW n \in Sizes, ArenaInitFails(n) PROVE IInv'
  <1>1. mappings = {}
    BY DEF IInv, MappingMatchesRecord, ArenaInitFails
  <1> QED BY <1>1, WordMaxAssumption
          DEF ArenaInitFails, IInv, TypeOK, MappingInWords, ZeroedTogether, UsedFits,
              SlicesBelowUsed, SlicesDisjoint, MappingMatchesRecord, Word, EXIT_GENERAL

LEMMA InitMapsIInv ==
    ASSUME IInv, NEW n \in Sizes, ArenaInitMaps(n) PROVE IInv'
  <1>1. n \in Word /\ n # 0
    BY ArenaAssumption DEF ArenaInitMaps
  <1>2. PICK b \in MmapAnswers(n) : base' = b /\ mappings' = mappings \cup {[base |-> b, size |-> n]}
    BY DEF ArenaInitMaps
  <1>3. b \in Word /\ b # 0 /\ b + n <= WordMax
    BY ArenaAssumption DEF MmapAnswers
  <1>4. mappings = {} /\ size' = n /\ used' = 0 /\ slices' = {} /\ answer'.rax = EXIT_OK
    BY DEF ArenaInitMaps, IInv, MappingMatchesRecord
  <1>5. mappings' = {[base |-> b, size |-> n]}
    BY <1>2, <1>4
  <1>6. TypeOK'
    BY <1>1, <1>2, <1>3, <1>4, <1>5, WordMaxAssumption DEF TypeOK, Word, EXIT_OK
  <1>7. MappingMatchesRecord'
    BY <1>2, <1>3, <1>4, <1>5 DEF MappingMatchesRecord
  <1> QED BY <1>1, <1>2, <1>3, <1>4, <1>6, <1>7
          DEF IInv, MappingInWords, ZeroedTogether, UsedFits, SlicesBelowUsed,
              SlicesDisjoint, Word

LEMMA AllocIInv ==
    ASSUME IInv, NEW n \in Sizes, NEW align \in Aligns, ArenaAlloc(n, align) PROVE IInv'
  <1> DEFINE start == WordSum(base, AlignedOffset(align))
             end == WordSum(AlignedOffset(align), n)
             new == [start |-> start, size |-> n, align |-> align]
  <1>1. n \in Word /\ align \in Word
    BY ArenaAssumption
  <1>2. /\ start \in Word /\ end \in Word
        /\ base # 0
        /\ base + used <= start
        /\ start + n = base + end
        /\ used <= end /\ end <= size
    BY <1>1, AllocatedSlice DEF ArenaAlloc
  <1>3. /\ used' = end /\ base' = base /\ size' = size /\ mappings' = mappings
        /\ slices' = slices \cup {new}
        /\ answer'.rax = start
    BY DEF ArenaAlloc
  <1>4. /\ base \in Nat /\ size \in Nat /\ used \in Nat /\ n \in Nat
        /\ start \in Nat /\ end \in Nat
    BY <1>1, <1>2, WordMaxAssumption DEF IInv, TypeOK, Word
  <1>5. new \in Slice /\ new.start = start /\ new.size = n
    BY <1>1, <1>2 DEF Slice
  <1> HIDE DEF start, end, new
  <1>6. TypeOK'
    BY <1>2, <1>3, <1>5 DEF IInv, TypeOK
  <1>7. MappingInWords' /\ ZeroedTogether' /\ UsedFits' /\ MappingMatchesRecord'
    BY <1>2, <1>3 DEF IInv, MappingInWords, ZeroedTogether, UsedFits, MappingMatchesRecord
  <1>8. \A s \in slices : /\ s.start \in Nat /\ s.size \in Nat
                          /\ base <= s.start /\ s.start + s.size <= base + used
    BY WordMaxAssumption DEF IInv, TypeOK, SlicesBelowUsed, Slice, Word
  <1>9. SlicesBelowUsed'
    BY <1>2, <1>3, <1>4, <1>5, <1>8 DEF SlicesBelowUsed
  <1>10. \A s \in slices : Disjoint(s, new) /\ Disjoint(new, s)
    BY <1>2, <1>4, <1>5, <1>8 DEF Disjoint
  <1>11. SlicesDisjoint'
    BY <1>3, <1>10 DEF IInv, SlicesDisjoint
  <1> QED BY <1>6, <1>7, <1>9, <1>11 DEF IInv

LEMMA AllocFailsIInv ==
    ASSUME IInv, NEW n \in Sizes, NEW align \in Aligns, ArenaAllocFails(n, align) PROVE IInv'
  BY WordMaxAssumption
     DEF ArenaAllocFails, record, IInv, TypeOK, MappingInWords, ZeroedTogether, UsedFits,
         SlicesBelowUsed, SlicesDisjoint, MappingMatchesRecord, Word

LEMMA DestroyIInv ==
    ASSUME IInv, ArenaDestroy PROVE IInv'
  <1>1. base = 0 => mappings' = {}
    BY DEF IInv, MappingMatchesRecord, ArenaDestroy
  <1>2. CASE base # 0 /\ size # 0
    <2>1. mappings' = {}
      BY <1>2 DEF IInv, MappingMatchesRecord, ArenaDestroy
    <2> QED BY <2>1, WordMaxAssumption
            DEF ArenaDestroy, IInv, TypeOK, MappingInWords, ZeroedTogether, UsedFits,
                SlicesBelowUsed, SlicesDisjoint, MappingMatchesRecord, Word
  <1>3. CASE base = 0
    BY <1>1, <1>3, WordMaxAssumption
       DEF ArenaDestroy, IInv, TypeOK, MappingInWords, ZeroedTogether, UsedFits,
           SlicesBelowUsed, SlicesDisjoint, MappingMatchesRecord, Word
  <1>4. base # 0 => size # 0
    BY DEF IInv, ZeroedTogether
  <1> QED BY <1>2, <1>3, <1>4

-----------------------------------------------------------------------------
LEMMA StutterIInv == IInv /\ UNCHANGED vars => IInv'
  BY DEF vars, IInv, TypeOK, MappingInWords, ZeroedTogether, UsedFits, SlicesBelowUsed,
         SlicesDisjoint, MappingMatchesRecord

(***************************************************************************)
(* The inductive invariant holds for every word size and every client.     *)
(***************************************************************************)
THEOREM ArenaInvariant == Spec => []IInv
  <1>1. Init => IInv
    BY InitIInv
  <1>2. IInv /\ [Next]_vars => IInv'
    <2> SUFFICES ASSUME IInv, [Next]_vars PROVE IInv'
      OBVIOUS
    <2>1. CASE \E n \in Sizes : ArenaInitFails(n)
      BY <2>1, InitFailsIInv
    <2>2. CASE \E n \in Sizes : ArenaInitMaps(n)
      BY <2>2, InitMapsIInv
    <2>3. CASE \E n \in Sizes, align \in Aligns : ArenaAlloc(n, align)
      BY <2>3, AllocIInv
    <2>4. CASE \E n \in Sizes, align \in Aligns : ArenaAllocFails(n, align)
      BY <2>4, AllocFailsIInv
    <2>5. CASE ArenaDestroy
      BY <2>5, DestroyIInv
    <2>6. CASE UNCHANGED vars
      BY <2>6, StutterIInv
    <2> QED BY <2>1, <2>2, <2>3, <2>4, <2>5, <2>6 DEF Next
  <1> QED BY <1>1, <1>2, PTL DEF Spec

(***************************************************************************)
(* Type correctness of the record, the kernel's mappings and the slices.   *)
(***************************************************************************)
THEOREM ArenaTypes == Spec => []TypeOK
  <1>1. IInv => TypeOK
    BY DEF IInv
  <1> QED BY <1>1, ArenaInvariant, PTL

(***************************************************************************)
(* No byte of the arena belongs to two slices and no slice leaves the      *)
(* mapping: the five tables of a command cannot corrupt one another.       *)
(***************************************************************************)
THEOREM SlicesAreSeparate == Spec => []SlicesSeparate
  <1>1. IInv => SlicesSeparate
    <2> SUFFICES ASSUME IInv PROVE SlicesSeparate
      OBVIOUS
    <2>1. \A s \in slices : base <= s.start /\ s.start + s.size <= base + size
      <3> SUFFICES ASSUME NEW s \in slices
                   PROVE  base <= s.start /\ s.start + s.size <= base + size
        OBVIOUS
      <3>1. base <= s.start /\ s.start + s.size <= base + used
        BY DEF IInv, SlicesBelowUsed
      <3>2. /\ s.start \in Nat /\ s.size \in Nat
            /\ base \in Nat /\ used \in Nat /\ size \in Nat /\ used <= size
        BY WordMaxAssumption DEF IInv, TypeOK, UsedFits, Slice, Word
      <3> QED BY <3>1, <3>2
    <2> QED BY <2>1 DEF IInv, SlicesDisjoint, SlicesSeparate
  <1> QED BY <1>1, ArenaInvariant, PTL

(***************************************************************************)
(* The arena neither leaks its mapping nor unmaps it twice.                *)
(***************************************************************************)
THEOREM MappingAgrees == Spec => []MappingMatchesRecord
  <1>1. IInv => MappingMatchesRecord
    BY DEF IInv
  <1> QED BY <1>1, ArenaInvariant, PTL

-----------------------------------------------------------------------------
(* What the carry checks of ARENA_ALLOC refuse.                            *)

\* The aligned offset is the least multiple of the alignment at or above used.
LEMMA LeastMultiple ==
    ASSUME used \in Word, NEW align \in Word, ~Carries(used, Alignment(align) - 1)
    PROVE  /\ AlignedOffset(align) \in Nat /\ AlignedOffset(align) >= used
           /\ AlignedOffset(align) % Alignment(align) = 0
           /\ \A start \in Nat : start >= used /\ start % Alignment(align) = 0
                                    => AlignedOffset(align) <= start
  <1> DEFINE a == Alignment(align)
             sum == WordSum(used, a - 1)
             offset == AlignedOffset(align)
  <1>1. a \in Nat \ {0} /\ used \in Nat /\ WordMax \in Nat
    BY WordMaxAssumption DEF Alignment, Word
  <1>2. sum = used + (a - 1) /\ sum \in Nat
    BY <1>1 DEF WordSum, Carries
  <1>3. offset = sum - (sum % a)
    BY DEF AlignedOffset
  <1>4. offset \in Nat /\ offset >= used
    BY AlignedUp, WordMaxAssumption DEF Word
  <1> HIDE DEF a, sum, offset
  <1>5. offset % a = 0
    BY <1>1, <1>2, <1>3, RoundedIsMultiple
  <1>6. ASSUME NEW start \in Nat, start >= used, start % a = 0 PROVE offset <= start
    <2>1. offset <= sum
      BY <1>1, <1>2, <1>3, Remainder
    <2>2. start < offset => start + a <= offset
      BY <1>1, <1>4, <1>5, <1>6, MultiplesApart
    <2> QED BY <1>1, <1>2, <1>4, <1>6, <2>1, <2>2
  <1> QED BY <1>4, <1>5, <1>6 DEF a, offset

\* A multiple at or above used that is a word leaves no room for a carry.
LEMMA NoCarryBelow ==
    ASSUME used \in Word, NEW align \in Aligns, align > 1 => PowerOfTwo(align),
           NEW start \in Word, start >= used, start % Alignment(align) = 0
    PROVE  ~Carries(used, Alignment(align) - 1)
  <1> DEFINE a == Alignment(align)
  <1>1. a \in Nat \ {0} /\ used \in Nat /\ start \in Nat /\ WordMax \in Nat /\ start <= WordMax
    BY ArenaAssumption, WordMaxAssumption DEF Alignment, Word
  <1>2. CASE a = 1
    BY <1>1, <1>2 DEF Carries, Word
  <1>3. CASE a # 1
    <2>1. (WordMax + 1) % a = 0
      BY <1>3, WordAssumption DEF Alignment
    <2>2. start + a <= WordMax + 1
      BY <1>1, <2>1, MultiplesApart
    <2> QED BY <1>1, <2>2 DEF Carries
  <1> QED BY <1>2, <1>3

LEMMA RefusedOnlyWithoutRoom ==
    ASSUME IInv, NEW n \in Word, NEW align \in Aligns,
           base # 0, n # 0, align > 1 => PowerOfTwo(align), FitsInNumbers(n, align)
    PROVE  Allocates(n, align)
  <1> DEFINE offset == AlignedOffset(align)
  <1>1. PICK start \in used .. size : start % Alignment(align) = 0 /\ start + n <= size
    BY DEF FitsInNumbers
  <1>2. /\ used \in Nat /\ size \in Nat /\ base \in Nat /\ n \in Nat /\ used \in Word /\ align \in Word
        /\ WordMax \in Nat /\ base + size <= WordMax
    BY ArenaAssumption, WordMaxAssumption DEF IInv, TypeOK, MappingInWords, Word
  <1>3. start \in Nat /\ start \in Word /\ start >= used
    BY <1>1, <1>2 DEF Word
  <1>4. ~Carries(used, Alignment(align) - 1)
    BY <1>1, <1>2, <1>3, NoCarryBelow
  <1>5. offset \in Nat /\ offset <= start
    BY <1>1, <1>2, <1>3, <1>4, LeastMultiple
  <1> HIDE DEF offset
  <1>6. offset + n <= WordMax /\ offset + n <= size /\ base + offset <= WordMax
    BY <1>1, <1>2, <1>3, <1>5
  <1>7. ~Carries(offset, n) /\ WordSum(offset, n) = offset + n /\ ~Carries(base, offset)
    BY <1>2, <1>5, <1>6, SumExact
  <1>8. ~(WordSum(offset, n) > size)
    BY <1>2, <1>5, <1>6, <1>7
  <1> QED BY <1>4, <1>7, <1>8 DEF Allocates, offset

LEMMA AllocatedWithRoom ==
    ASSUME IInv, NEW n \in Word, NEW align \in Word, Allocates(n, align)
    PROVE  /\ base # 0 /\ n # 0
           /\ align > 1 => PowerOfTwo(align)
           /\ FitsInNumbers(n, align)
           /\ WordSum(base, AlignedOffset(align)) # 0
           /\ WordSum(AlignedOffset(align), n) >= used + n
  <1> DEFINE offset == AlignedOffset(align)
  <1>1. /\ base # 0 /\ n # 0
        /\ align > 1 => PowerOfTwo(align)
        /\ ~Carries(used, Alignment(align) - 1) /\ ~Carries(offset, n)
        /\ ~(WordSum(offset, n) > size) /\ ~Carries(base, offset)
    BY DEF Allocates
  <1>2. /\ used \in Nat /\ size \in Nat /\ base \in Nat /\ n \in Nat /\ used \in Word
    BY WordMaxAssumption DEF IInv, TypeOK, Word
  <1>3. offset \in Nat /\ offset >= used /\ offset % Alignment(align) = 0
    BY <1>1, <1>2, LeastMultiple
  <1> HIDE DEF offset
  <1>4. WordSum(offset, n) = offset + n /\ WordSum(base, offset) = base + offset
    BY <1>1, <1>2, <1>3, WordMaxAssumption DEF WordSum, Carries
  <1>5. offset \in used .. size /\ offset + n <= size
    BY <1>1, <1>2, <1>3, <1>4
  <1>6. FitsInNumbers(n, align)
    BY <1>3, <1>5 DEF FitsInNumbers
  <1>7. base + offset # 0 /\ offset + n >= used + n
    BY <1>1, <1>2, <1>3
  <1> QED BY <1>1, <1>4, <1>6, <1>7 DEF offset

(***************************************************************************)
(* ARENA_ALLOC refuses exactly what does not fit, for every word size:     *)
(* none of its three carry checks turns away a slice there is room for,    *)
(* and a refusal leaves the record alone.                                  *)
(***************************************************************************)
THEOREM AllocationsAreExact == Spec => AllocationsExact
  <1> DEFINE Room(n, align) ==
               base # 0 /\ n # 0 /\ (align > 1 => PowerOfTwo(align)) /\ FitsInNumbers(n, align)
             Exactly ==
               answer'.call = "alloc" =>
                  IF Room(answer'.size, answer'.align)
                  THEN answer'.rax # 0 /\ used' >= used + answer'.size
                  ELSE answer'.rax = 0 /\ UNCHANGED record
  <1>1. IInv /\ [Next]_vars => [Exactly]_vars
    <2> SUFFICES ASSUME IInv, Next, answer'.call = "alloc" PROVE Exactly
      OBVIOUS
    <2>1. CASE \E n \in Sizes, align \in Aligns : ArenaAlloc(n, align)
      <3>1. PICK n \in Sizes, align \in Aligns : ArenaAlloc(n, align)
        BY <2>1
      <3>2. /\ Allocates(n, align) /\ used' = WordSum(AlignedOffset(align), n)
            /\ answer'.size = n /\ answer'.align = align
            /\ answer'.rax = WordSum(base, AlignedOffset(align))
        BY <3>1 DEF ArenaAlloc
      <3>3. n \in Word /\ align \in Word
        BY ArenaAssumption
      <3>4. Room(n, align) /\ answer'.rax # 0 /\ used' >= used + n
        BY <3>2, <3>3, AllocatedWithRoom
      <3> QED BY <3>2, <3>4
    <2>2. CASE \E n \in Sizes, align \in Aligns : ArenaAllocFails(n, align)
      <3>1. PICK n \in Sizes, align \in Aligns : ArenaAllocFails(n, align)
        BY <2>2
      <3>2. /\ ~Allocates(n, align) /\ UNCHANGED record
            /\ answer'.size = n /\ answer'.align = align /\ answer'.rax = 0
        BY <3>1 DEF ArenaAllocFails
      <3>3. n \in Word
        BY ArenaAssumption
      <3>4. ~Room(n, align)
        BY <3>2, <3>3, RefusedOnlyWithoutRoom
      <3> QED BY <3>2, <3>4
    <2>3. ~(\E n \in Sizes : ArenaInitFails(n) \/ ArenaInitMaps(n)) /\ ~ArenaDestroy
      BY DEF ArenaInitFails, ArenaInitMaps, ArenaDestroy
    <2> QED BY <2>1, <2>2, <2>3 DEF Next
  <1>2. [Exactly]_vars => [answer'.call = "alloc" =>
         LET n == answer'.size
             align == answer'.align
         IN  IF base # 0 /\ n # 0 /\ (align > 1 => PowerOfTwo(align)) /\ FitsInNumbers(n, align)
             THEN answer'.rax # 0 /\ used' >= used + n
             ELSE answer'.rax = 0 /\ UNCHANGED record]_vars
    OBVIOUS
  <1> QED BY <1>1, <1>2, ArenaInvariant, PTL DEF Spec, AllocationsExact

-----------------------------------------------------------------------------
(* The commands, which check first and allocate after.                     *)

(***************************************************************************)
(* Whoever calls both services keeps what each of them promises alone: no  *)
(* step of the parsers touches the arena, and none of the arena's touches  *)
(* a call in progress.                                                     *)
(***************************************************************************)
THEOREM PrimitivesImplement == PrimitivesSpec => Spec /\ CallSpec
  <1>1. PrimitivesInit => Init /\ CallInit
    BY DEF PrimitivesInit
  <1>2. [ParsersCheck \/ CommandAllocates]_<<vars, call>> => [Next]_vars /\ [CallNext]_call
    BY DEF ParsersCheck, CommandAllocates, CallNext
  <1> QED BY <1>1, <1>2, PTL DEF PrimitivesSpec, Spec, CallSpec

(***************************************************************************)
(* So in a command's run every helper answer is exact, the slices are      *)
(* separate, and no allocation is refused that has room.                   *)
(***************************************************************************)
THEOREM PrimitivesAreExact ==
    PrimitivesSpec => [](RangesExact /\ TablesExact /\ SlicesSeparate) /\ AllocationsExact
  BY PrimitivesImplement, RangesExactTheorem, TablesExactTheorem, SlicesAreSeparate,
     AllocationsAreExact, PTL
=============================================================================
