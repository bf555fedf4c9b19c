------------------------------- MODULE Arena -------------------------------
(***************************************************************************)
(* src/src/arena.asm: the bump allocator over one anonymous mapping that   *)
(* holds the candidate table and its four side tables.  The record is the  *)
(* three words ARENA_BASE, ARENA_SIZE and ARENA_USED; it starts zeroed in  *)
(* .bss.  The commands of analyze.asm and gadgets.asm initialise it once,  *)
(* allocate from it, and destroy it on every path out.                     *)
(***************************************************************************)
EXTENDS CheckedRanges

CONSTANTS PageSize,   \* granularity of the addresses the kernel returns
          Bases,      \* addresses an anonymous mmap may return
          Sizes,      \* sizes the callers ask for
          Aligns      \* alignments the callers ask for

ASSUME ArenaAssumption ==
    /\ PageSize \in Nat \ {0}
    /\ Bases \subseteq {b \in Word \ {0} : b % PageSize = 0}
    /\ Sizes \subseteq Word
    /\ Aligns \subseteq Word

VARIABLES base, size, used,   \* ARENA_BASE, ARENA_SIZE, ARENA_USED
          mappings,           \* the anonymous mappings the kernel holds (external)
          slices,             \* the allocations made since the last init
          answer              \* the last call and the word it returned in RAX

record == <<base, size, used>>
vars == <<base, size, used, mappings, slices, answer>>

EXIT_OK == 0
EXIT_GENERAL == 1

-----------------------------------------------------------------------------
(* "test (a - 1), a" is zero for a > 1 exactly when a has no odd divisor.  *)
PowerOfTwo(a) == \A d \in 2 .. a : a % d = 0 => d % 2 = 0

\* A word has a number of bits, so a power of two that is a word divides 2^w.
ASSUME WordAssumption ==
    \A a \in Aligns : a > 1 /\ PowerOfTwo(a) => (WordMax + 1) % a = 0

\* ARENA_ALLOC's alignment word: 0 and 1 both mean no adjustment.
Alignment(align) == IF align > 1 THEN align ELSE 1

\* (used + mask) & ~mask, on the word the ADD left.
AlignedOffset(align) ==
    LET sum == WordSum(used, Alignment(align) - 1) IN sum - (sum % Alignment(align))

\* Defects: the first carry is not looked at; a slice may not end where the arena does.
AllocatesAfterWrap(n, align) ==
    /\ n # 0 /\ base # 0
    /\ align > 1 => PowerOfTwo(align)
    /\ ~Carries(AlignedOffset(align), n)
    /\ WordSum(AlignedOffset(align), n) <= size
    /\ ~Carries(base, AlignedOffset(align))

AllocatesShort(n, align) ==
    /\ n # 0 /\ base # 0
    /\ align > 1 => PowerOfTwo(align)
    /\ ~Carries(used, Alignment(align) - 1)
    /\ AlignedOffset(align) + n < size

\* The conditions of ARENA_ALLOC, in order.
Allocates(n, align) ==
    /\ n # 0
    /\ align > 1 => PowerOfTwo(align)
    /\ ~Carries(used, Alignment(align) - 1)
    /\ ~Carries(AlignedOffset(align), n)
    /\ ~(WordSum(AlignedOffset(align), n) > size)
    /\ base # 0
    /\ ~Carries(base, AlignedOffset(align))

\* A private anonymous mmap of n bytes: it fails, or maps bytes that exist.
MmapAnswers(n) == {b \in Bases : b + n <= WordMax}

-----------------------------------------------------------------------------
ArenaInitFails(n) ==
    /\ base = 0
    /\ base' = 0 /\ size' = 0 /\ used' = 0
    /\ slices' = {}
    /\ answer' = [call |-> "init", size |-> n, rax |-> EXIT_GENERAL]
    /\ UNCHANGED mappings

ArenaInitMaps(n) ==
    /\ base = 0
    /\ n # 0
    /\ \E b \in MmapAnswers(n) :
          /\ base' = b
          /\ mappings' = mappings \cup {[base |-> b, size |-> n]}
    /\ size' = n
    /\ used' = 0
    /\ slices' = {}
    /\ answer' = [call |-> "init", size |-> n, rax |-> EXIT_OK]

ArenaAlloc(n, align) ==
    /\ Allocates(n, align)
    /\ used' = WordSum(AlignedOffset(align), n)
    /\ slices' = slices \cup {[start |-> WordSum(base, AlignedOffset(align)),
                               size |-> n, align |-> align]}
    /\ answer' = [call |-> "alloc", size |-> n, align |-> align,
                  rax |-> WordSum(base, AlignedOffset(align))]
    /\ UNCHANGED <<base, size, mappings>>

ArenaAllocFails(n, align) ==
    /\ ~Allocates(n, align)
    /\ answer' = [call |-> "alloc", size |-> n, align |-> align, rax |-> 0]
    /\ UNCHANGED <<record, mappings, slices>>

\* Defect: the record is zeroed before the unmap that needs it.
ArenaForgets ==
    /\ base' = 0 /\ size' = 0 /\ used' = 0
    /\ slices' = {}
    /\ answer' = [call |-> "destroy", rax |-> 0]
    /\ UNCHANGED mappings

\* destroy unmaps only a mapped record, and leaves a record it may be called on again.
ArenaDestroy ==
    /\ mappings' = IF base # 0 /\ size # 0
                   THEN mappings \ {[base |-> base, size |-> size]}
                   ELSE mappings
    /\ base' = 0 /\ size' = 0 /\ used' = 0
    /\ slices' = {}
    /\ answer' = [call |-> "destroy", rax |-> 0]

Init ==
    /\ base = 0 /\ size = 0 /\ used = 0
    /\ mappings = {}
    /\ slices = {}
    /\ answer = [call |-> "none", rax |-> 0]

Next ==
    \/ \E n \in Sizes : ArenaInitFails(n)
    \/ \E n \in Sizes : ArenaInitMaps(n)
    \/ \E n \in Sizes, align \in Aligns : ArenaAlloc(n, align)
    \/ \E n \in Sizes, align \in Aligns : ArenaAllocFails(n, align)
    \/ ArenaDestroy

Spec == Init /\ [][Next]_vars

-----------------------------------------------------------------------------
Slice == [start : Word, size : Word, align : Word]

TypeOK ==
    /\ base \in Word /\ size \in Word /\ used \in Word
    /\ mappings \subseteq [base : Word, size : Word]
    /\ slices \subseteq Slice
    /\ answer.rax \in Word

(***************************************************************************)
(* The five tables a command carves out of the arena never overlap and     *)
(* never leave the mapping: a byte of the arena belongs to one slice.      *)
(***************************************************************************)
Disjoint(s, t) == s.start + s.size <= t.start \/ t.start + t.size <= s.start

SlicesSeparate ==
    /\ \A s \in slices : base <= s.start /\ s.start + s.size <= base + size
    /\ \A s, t \in slices : s # t => Disjoint(s, t)

(***************************************************************************)
(* The record and the kernel agree: the arena holds one mapping while its  *)
(* base is nonzero and none after it is destroyed.                         *)
(***************************************************************************)
MappingMatchesRecord ==
    mappings = IF base = 0 THEN {} ELSE {[base |-> base, size |-> size]}

(***************************************************************************)
(* An allocation is refused exactly when the aligned slice does not fit in *)
(* what is left, as numbers: no carry check refuses a slice that fits, and *)
(* a refusal leaves the record as it was.                                  *)
(***************************************************************************)
FitsInNumbers(n, align) ==
    \E start \in used .. size :
       /\ start % Alignment(align) = 0
       /\ start + n <= size

AllocationsExact ==
    [][answer'.call = "alloc" =>
         LET n == answer'.size
             align == answer'.align
         IN  IF base # 0 /\ n # 0 /\ (align > 1 => PowerOfTwo(align)) /\ FitsInNumbers(n, align)
             THEN answer'.rax # 0 /\ used' >= used + n
             ELSE answer'.rax = 0 /\ UNCHANGED record]_vars
=============================================================================
