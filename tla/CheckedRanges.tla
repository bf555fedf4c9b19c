---------------------------- MODULE CheckedRanges ----------------------------
(***************************************************************************)
(* src/src/bounds.asm: the checked-arithmetic helpers every parser calls   *)
(* before it forms a pointer into the mapped file.                         *)
(*                                                                         *)
(* A word is a number below a modulus (2^64 in the program, WordMax + 1    *)
(* here), ADD and MUL keep the low word, and the carry or the high word    *)
(* that "jc" and "test rdx, rdx" look at says whether anything was lost.   *)
(***************************************************************************)
EXTENDS Integers

CONSTANT WordMax          \* the largest word: 2^64 - 1 in the program

ASSUME WordMaxAssumption == WordMax \in Nat \ {0}

Word == 0 .. WordMax

\* The carry flag after "add a, b", and the word the ADD leaves.
Carries(a, b) == a + b > WordMax
WordSum(a, b) == IF Carries(a, b) THEN a + b - (WordMax + 1) ELSE a + b

\* RDX # 0 after "mul", and the low word MUL leaves in RAX.
HighWordNonzero(a, b) == a * b > WordMax
WordProduct(a, b) == IF HighWordNonzero(a, b) THEN (a * b) % (WordMax + 1) ELSE a * b

\* "sub a, b" where the borrow is not looked at.
WordDifference(a, b) == IF a < b THEN a - b + (WordMax + 1) ELSE a - b

-----------------------------------------------------------------------------
(* The helpers, in the order and with the comparisons of the source.       *)

HasSize(fileSize, needed) == ~(fileSize < needed)

RangeValid(fileSize, offset, length) ==
    /\ ~(offset > fileSize)
    /\ ~(length > WordDifference(fileSize, offset))

RangeEnd(offset, length) == WordSum(offset, length)

\* Defect: the carry of the addition is not looked at.
RangeEndValidUncarried(fileSize, offset, length) == ~(RangeEnd(offset, length) > fileSize)

RangeEndValid(fileSize, offset, length) ==
    /\ ~Carries(offset, length)
    /\ ~(RangeEnd(offset, length) > fileSize)

\* A table of "count" entries of "stride" bytes: its exclusive end, and the
\* checks made before the end is trusted.  An empty table ends where it starts.
TableEnd(offset, stride, count) ==
    IF count = 0 THEN offset ELSE WordSum(WordProduct(stride, count), offset)

\* Defect: the high word of the product is not looked at.
TableExtentValidLowWord(fileSize, offset, stride, count) ==
    \/ count = 0 /\ offset <= fileSize
    \/ /\ count # 0 /\ stride # 0
       /\ ~Carries(WordProduct(stride, count), offset)
       /\ TableEnd(offset, stride, count) <= fileSize

TableExtentValid(fileSize, offset, stride, count) ==
    IF count = 0
    THEN ~(offset > fileSize)
    ELSE /\ stride # 0
         /\ ~HighWordNonzero(stride, count)
         /\ ~Carries(WordProduct(stride, count), offset)
         /\ ~(TableEnd(offset, stride, count) > fileSize)

EntryOffset(offset, stride, index) == WordSum(WordProduct(stride, index), offset)

\* Defect: the last entry is taken for the first one past the table.
EntryOffsetValidShort(fileSize, offset, stride, count, index) ==
    /\ index + 1 < count
    /\ stride # 0
    /\ offset + stride * index + stride <= fileSize

EntryOffsetValid(fileSize, offset, stride, count, index) ==
    /\ count # 0
    /\ index < count
    /\ stride # 0
    /\ ~HighWordNonzero(stride, index)
    /\ ~Carries(WordProduct(stride, index), offset)
    /\ ~Carries(EntryOffset(offset, stride, index), stride)
    /\ ~(WordSum(EntryOffset(offset, stride, index), stride) > fileSize)
=============================================================================
