------------------------------- MODULE Scanner -------------------------------
(***************************************************************************)
(* src/src/scanner.asm: the byte scan of the executable regions for return *)
(* terminators, one loop iteration at a time.  Its inputs are the mapped   *)
(* file, the executable_region[] array that phdr.asm and regions.asm fill, *)
(* and MAX_DEPTH and CAPACITY preset in the gadget summary.                *)
(*                                                                         *)
(* A record keeps the fields the scanner computes; the fields it clears    *)
(* for the stages after it are left out.  "region" is not stored by the    *)
(* code: it remembers, for the properties, which region the byte was found *)
(* in.                                                                     *)
(***************************************************************************)
EXTENDS CheckedRanges, Sequences, FiniteSets

CONSTANTS Objects,            \* the inputs: what phdr.asm and the CLI hand over
          RET,                \* the byte 0xc3
          RET_IMM16,          \* the byte 0xc2
          DepthLimit,         \* GADGET_MAX_DEPTH_LIMIT
          DefaultCapacity     \* GADGET_RECORD_MAX

\* The fields of an executable_region record the scanner reads.
Region == [fileOffset : Word, filesz : Word, vaddr : Word]

ASSUME ScannerAssumption ==
    /\ WordMax >= 3
    /\ RET # RET_IMM16
    /\ DepthLimit \in Word
    /\ DefaultCapacity \in Nat
    /\ \A o \in Objects : /\ o.fileSize \in Word
                         /\ o.regions \in Seq(Region)
                         /\ o.depth \in Word
                         /\ o.capacity \in Nat

VARIABLES object,             \* mapped bytes, regions, MAX_DEPTH; never written
          capacity,           \* GADGET_SUMMARY_CAPACITY
          records,            \* gadget_record[0 .. COUNT-1]
          retCount,           \* GADGET_SUMMARY_RET_COUNT
          retImmCount,        \* GADGET_SUMMARY_RET_IMM_COUNT
          region,             \* R11, counted from one
          cursor,             \* RDI, the file offset under the scan
          pc,                 \* where the routine is: entry, region, byte or done
          status              \* RAX on return

summary == <<capacity, records, retCount, retImmCount>>
vars == <<object, summary, region, cursor, pc, status>>

EXIT_OK == "ok"
EXIT_MALFORMED_ELF == "malformed"
EXIT_UNSUPPORTED == "unsupported"

-----------------------------------------------------------------------------
Current == object.regions[region]
RegionStart == Current.fileOffset
RegionEnd == WordSum(Current.fileOffset, Current.filesz)

RegionInFile ==
    /\ ~(Current.fileOffset > object.fileSize)
    /\ ~(Current.filesz > WordDifference(object.fileSize, Current.fileOffset))

Byte == object.image[cursor]

\* Defect: a ret imm16 may not end where the region does.
ImmediateFitsShort == ~Carries(cursor, 3) /\ WordSum(cursor, 3) < RegionEnd

\* A complete ret imm16 lies in the region; otherwise its opcode byte is data.
ImmediateFits == ~Carries(cursor, 3) /\ ~(WordSum(cursor, 3) > RegionEnd)

AtTerminator == Byte = RET \/ (Byte = RET_IMM16 /\ ImmediateFits)

TerminatorLength == IF Byte = RET THEN 1 ELSE 3

\* Defect: the window is not cut at the start of the region.
WindowStartUncut == WordDifference(cursor, object.depth)

WindowStart ==
    IF WordDifference(cursor, RegionStart) > object.depth
    THEN WordDifference(cursor, object.depth)
    ELSE RegionStart

FoundRecord ==
    [region |-> region,
     fileOffset |-> cursor,
     virtualAddress |-> WordSum(WordDifference(cursor, Current.fileOffset), Current.vaddr),
     byteStart |-> WindowStart,
     byteLen |-> WordSum(WordDifference(cursor, WindowStart), TerminatorLength),
     terminator |-> Byte]

Return(rax) == pc' = "done" /\ status' = rax

-----------------------------------------------------------------------------
\* MAX_DEPTH zero or above the limit: refused before any summary field is cleared.
RejectDepth ==
    /\ pc = "entry"
    /\ object.depth = 0 \/ object.depth > DepthLimit
    /\ Return(EXIT_UNSUPPORTED)
    /\ UNCHANGED <<object, summary, region, cursor>>

BeginScan ==
    /\ pc = "entry"
    /\ ~(object.depth = 0 \/ object.depth > DepthLimit)
    /\ capacity' = IF capacity = 0 THEN DefaultCapacity ELSE capacity
    /\ records' = <<>> /\ retCount' = 0 /\ retImmCount' = 0
    /\ region' = 1
    /\ pc' = "region"
    /\ UNCHANGED <<object, cursor, status>>

RegionsDone ==
    /\ pc = "region"
    /\ region > Len(object.regions)
    /\ Return(EXIT_OK)
    /\ UNCHANGED <<object, summary, region, cursor>>

RejectRegion ==
    /\ pc = "region"
    /\ region <= Len(object.regions)
    /\ ~RegionInFile
    /\ Return(EXIT_MALFORMED_ELF)
    /\ UNCHANGED <<object, summary, region, cursor>>

SkipEmptyRegion ==
    /\ pc = "region"
    /\ region <= Len(object.regions)
    /\ RegionInFile
    /\ Current.filesz = 0
    /\ region' = region + 1
    /\ UNCHANGED <<object, summary, cursor, pc, status>>

EnterRegion ==
    /\ pc = "region"
    /\ region <= Len(object.regions)
    /\ RegionInFile
    /\ Current.filesz # 0
    /\ cursor' = RegionStart
    /\ pc' = "byte"
    /\ UNCHANGED <<object, summary, region, status>>

\* Defect: the region index is not moved.
LeaveRegionNot ==
    /\ pc = "byte" /\ cursor >= RegionEnd
    /\ pc' = "region"
    /\ UNCHANGED <<object, summary, region, cursor, status>>

LeaveRegion ==
    /\ pc = "byte"
    /\ cursor >= RegionEnd
    /\ region' = region + 1
    /\ pc' = "region"
    /\ UNCHANGED <<object, summary, cursor, status>>

AdvanceByte ==
    /\ pc = "byte"
    /\ cursor < RegionEnd
    /\ ~AtTerminator
    /\ cursor' = cursor + 1
    /\ UNCHANGED <<object, summary, region, pc, status>>

StoreCandidate ==
    /\ pc = "byte"
    /\ cursor < RegionEnd
    /\ AtTerminator
    /\ Len(records) < capacity
    /\ records' = Append(records, FoundRecord)
    /\ retCount' = IF Byte = RET THEN retCount + 1 ELSE retCount
    /\ retImmCount' = IF Byte = RET THEN retImmCount ELSE retImmCount + 1
    /\ cursor' = cursor + 1
    /\ UNCHANGED <<object, capacity, region, pc, status>>

\* The table is full and there is one more: no silent truncation.
CapacityExceeded ==
    /\ pc = "byte"
    /\ cursor < RegionEnd
    /\ AtTerminator
    /\ ~(Len(records) < capacity)
    /\ Return(EXIT_UNSUPPORTED)
    /\ UNCHANGED <<object, summary, region, cursor>>

Done == pc = "done" /\ UNCHANGED vars

Init ==
    /\ object \in Objects
    /\ capacity = object.capacity
    /\ records = <<>> /\ retCount = 0 /\ retImmCount = 0
    /\ region = 1 /\ cursor = 0
    /\ pc = "entry" /\ status = "none"

Step == \/ RejectDepth \/ BeginScan
        \/ RegionsDone \/ RejectRegion \/ SkipEmptyRegion \/ EnterRegion
        \/ LeaveRegion \/ AdvanceByte \/ StoreCandidate \/ CapacityExceeded

Next == Step \/ Done

SafeSpec == Init /\ [][Next]_vars

\* One sequential routine: while it can step, it does.
Spec == SafeSpec /\ WF_vars(Step)

-----------------------------------------------------------------------------
Record == [region : Nat \ {0}, fileOffset : Word, virtualAddress : Word,
           byteStart : Word, byteLen : Word, terminator : {RET, RET_IMM16}]

TypeOK ==
    /\ object \in Objects
    /\ capacity \in Nat
    /\ records \in Seq(Record)
    /\ retCount \in Nat /\ retImmCount \in Nat
    /\ region \in 1 .. Len(object.regions) + 1
    /\ cursor \in Word
    /\ pc \in {"entry", "region", "byte", "done"}
    /\ status \in {"none", EXIT_OK, EXIT_MALFORMED_ELF, EXIT_UNSUPPORTED}

(***************************************************************************)
(* A retained window never leaves the executable region it was found in:   *)
(* it ends with the whole terminator, starts at most MAX_DEPTH bytes       *)
(* before it and not before the region, so the stages after the scanner    *)
(* can read every byte of it from the mapping.                             *)
(***************************************************************************)
WindowsInsideRegion ==
    \A k \in 1 .. Len(records) :
       LET c == records[k]
           r == object.regions[c.region]
       IN  /\ r.fileOffset <= c.byteStart
           /\ c.byteStart <= c.fileOffset
           /\ c.fileOffset <= c.byteStart + object.depth
           /\ c.fileOffset < c.byteStart + c.byteLen
           /\ c.byteStart + c.byteLen <= r.fileOffset + r.filesz
           /\ r.fileOffset + r.filesz <= object.fileSize

(***************************************************************************)
(* Candidates are stored once each, by region and then by rising offset:   *)
(* the report order is a function of the object.                           *)
(***************************************************************************)
Precedes(c, d) == c.region < d.region \/ (c.region = d.region /\ c.fileOffset < d.fileOffset)

StoredInOrder == \A j, k \in 1 .. Len(records) : j < k => Precedes(records[j], records[k])
=============================================================================
