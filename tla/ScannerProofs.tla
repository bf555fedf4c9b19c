---------------------------- MODULE ScannerProofs ----------------------------
(***************************************************************************)
(* Proofs about the scanner and the commands around it, for every word     *)
(* size, every file, every list of executable regions, every section       *)
(* table, every depth and every capacity: the scan keeps its windows and   *)
(* its order, the commands implement the abstract enumeration, and the     *)
(* passes say of every candidate what its last instructions do and the     *)
(* name of the section that holds it.                                      *)
(***************************************************************************)
EXTENDS Reports, FiniteSetTheorems, SequenceTheorems, WellFoundedInduction, TLAPS

-----------------------------------------------------------------------------
(* The inductive invariant.                                                *)

\* What RejectRegion has checked once the byte loop runs, and where the cursor is.
ScanPosition ==
    pc = "byte" => /\ region <= Len(object.regions)
                   /\ RegionInFile
                   /\ RegionStart <= cursor
                   /\ cursor <= RegionEnd

\* Every record is of a region already reached and, in this one, below the cursor.
Behind(c) ==
    \/ c.region < region
    \/ c.region = region /\ pc = "byte" /\ c.fileOffset < cursor
    \/ c.region = region /\ pc = "done" /\ status = EXIT_UNSUPPORTED

RecordsBehind ==
    \A k \in 1 .. Len(records) :
       records[k].region <= Len(object.regions) /\ Behind(records[k])

TableBounded == pc # "entry" => Len(records) <= capacity

NothingBeforeEntry == pc = "entry" => records = <<>>

IInv == /\ TypeOK
        /\ ScanPosition
        /\ RecordsBehind
        /\ WindowsInsideRegion
        /\ StoredInOrder
        /\ TableBounded
        /\ NothingBeforeEntry

-----------------------------------------------------------------------------
(* The arithmetic of one region and one record.                            *)

LEMMA CurrentTyped ==
    ASSUME TypeOK, region <= Len(object.regions)
    PROVE  /\ Current \in Region
           /\ object.fileSize \in Word /\ object.depth \in Word
  <1>1. object.regions \in Seq(Region) /\ object.fileSize \in Word /\ object.depth \in Word
    BY ScannerAssumption DEF TypeOK
  <1>2. region \in 1 .. Len(object.regions)
    BY <1>1 DEF TypeOK
  <1> QED BY <1>1, <1>2 DEF Current

(***************************************************************************)
(* The overflow-free check of the scanner does bound the region's end, so  *)
(* the LEA that computes it cannot wrap.                                   *)
(***************************************************************************)
LEMMA RegionBounds ==
    ASSUME TypeOK, region <= Len(object.regions), RegionInFile
    PROVE  /\ RegionEnd = Current.fileOffset + Current.filesz
           /\ RegionEnd <= object.fileSize
           /\ RegionEnd \in Word
  <1> DEFINE start == Current.fileOffset
             size == Current.filesz
             file == object.fileSize
  <1>1. start \in Word /\ size \in Word /\ file \in Word
    BY CurrentTyped DEF Region
  <1>2. ~(start > file) /\ ~(size > WordDifference(file, start))
    BY DEF RegionInFile
  <1>3. RegionEnd = WordSum(start, size)
    BY DEF RegionEnd
  <1> HIDE DEF start, size, file
  <1>4. RegionEnd = start + size /\ RegionEnd <= file /\ RegionEnd \in Word
    BY <1>1, <1>2, <1>3, WordMaxAssumption DEF WordDifference, WordSum, Carries, Word
  <1> QED BY <1>4 DEF start, size, file

(***************************************************************************)
(* The record the scanner builds at a terminator keeps a window inside the *)
(* region: the fields are exact, none of the differences borrows.          *)
(***************************************************************************)
LEMMA FoundRecordFits ==
    ASSUME IInv, pc = "byte", cursor < RegionEnd, AtTerminator
    PROVE  /\ FoundRecord \in Record
           /\ FoundRecord.region = region /\ FoundRecord.fileOffset = cursor
           /\ Current.fileOffset <= FoundRecord.byteStart
           /\ FoundRecord.byteStart <= cursor
           /\ cursor <= FoundRecord.byteStart + object.depth
           /\ cursor < FoundRecord.byteStart + FoundRecord.byteLen
           /\ FoundRecord.byteStart + FoundRecord.byteLen <= RegionEnd
  <1> DEFINE start == Current.fileOffset
             depth == object.depth
             window == WindowStart
             length == TerminatorLength
  <1>1. /\ region <= Len(object.regions) /\ RegionInFile
        /\ start <= cursor /\ region \in Nat \ {0}
    BY DEF IInv, TypeOK, ScanPosition, RegionStart
  <1>2. /\ start \in Word /\ depth \in Word /\ cursor \in Word
        /\ Current.vaddr \in Word
    BY <1>1, CurrentTyped DEF IInv, TypeOK, Region
  <1>3. /\ RegionEnd \in Word /\ cursor < RegionEnd
    BY <1>1, RegionBounds DEF IInv
  <1>4. window = IF WordDifference(cursor, start) > depth
                 THEN WordDifference(cursor, depth) ELSE start
    BY DEF WindowStart, RegionStart
  <1>5. length \in {1, 3} /\ cursor + length <= RegionEnd
    <2>1. CASE Byte = RET
      BY <2>1, <1>2, <1>3, WordMaxAssumption DEF TerminatorLength, Word
    <2>2. CASE Byte # RET
      <3>1. ImmediateFits /\ length = 3
        BY <2>2 DEF AtTerminator, TerminatorLength
      <3> QED BY <3>1, <1>2, <1>3, WordMaxAssumption DEF ImmediateFits, Carries, WordSum, Word
    <2> QED BY <2>1, <2>2
  <1>6. Byte \in {RET, RET_IMM16}
    BY DEF AtTerminator
  <1> HIDE DEF start, depth, window, length
  <1>7. /\ window \in Word /\ start <= window /\ window <= cursor
        /\ cursor <= window + depth
    BY <1>1, <1>2, <1>4, WordMaxAssumption DEF WordDifference, Word
  <1>8. /\ WordSum(WordDifference(cursor, window), length) \in Word
        /\ WordSum(WordDifference(cursor, window), length) = (cursor - window) + length
    BY <1>2, <1>3, <1>5, <1>7, WordMaxAssumption DEF WordDifference, WordSum, Carries, Word
  <1>9. WordSum(WordDifference(cursor, Current.fileOffset), Current.vaddr) \in Word
    BY <1>1, <1>2, WordMaxAssumption DEF WordDifference, WordSum, Carries, Word, start
  <1>10. FoundRecord =
           [region |-> region, fileOffset |-> cursor,
            virtualAddress |-> WordSum(WordDifference(cursor, Current.fileOffset), Current.vaddr),
            byteStart |-> window,
            byteLen |-> WordSum(WordDifference(cursor, window), length),
            terminator |-> Byte]
    BY DEF FoundRecord, window, length
  <1>11. FoundRecord \in Record
    BY <1>1, <1>2, <1>6, <1>7, <1>8, <1>9, <1>10 DEF Record
  <1>12. /\ FoundRecord.byteStart = window
         /\ FoundRecord.byteLen = (cursor - window) + length
         /\ FoundRecord.region = region /\ FoundRecord.fileOffset = cursor
    BY <1>8, <1>10
  <1>13. /\ cursor < window + ((cursor - window) + length)
         /\ window + ((cursor - window) + length) <= RegionEnd
    BY <1>2, <1>3, <1>5, <1>7, WordMaxAssumption DEF Word
  <1> QED BY <1>7, <1>11, <1>12, <1>13 DEF start, depth

-----------------------------------------------------------------------------
(* Init, and the steps that do not touch the candidate table.              *)

LEMMA InitIInv == Init => IInv
  <1> SUFFICES ASSUME Init PROVE IInv
    OBVIOUS
  <1>1. object.regions \in Seq(Region) /\ object.capacity \in Nat
    BY ScannerAssumption DEF Init
  <1>2. TypeOK
    BY <1>1, WordMaxAssumption DEF Init, TypeOK, Word
  <1> QED BY <1>2 DEF Init, IInv, ScanPosition, RecordsBehind, WindowsInsideRegion,
             StoredInOrder, TableBounded, NothingBeforeEntry

LEMMA ReturnsIInv ==
    ASSUME IInv, RejectDepth \/ RegionsDone \/ RejectRegion \/ CapacityExceeded
    PROVE  IInv'
  <1>1. /\ UNCHANGED <<object, capacity, records, retCount, retImmCount, region, cursor>>
        /\ pc' = "done"
        /\ status' \in {EXIT_OK, EXIT_MALFORMED_ELF, EXIT_UNSUPPORTED}
        /\ pc \in {"entry", "region", "byte"}
        /\ pc = "byte" => status' = EXIT_UNSUPPORTED
    BY DEF RejectDepth, RegionsDone, RejectRegion, CapacityExceeded, Return, summary
  <1>2. TypeOK'
    BY <1>1 DEF IInv, TypeOK
  <1>3. RecordsBehind'
    <2> SUFFICES ASSUME NEW k \in 1 .. Len(records)
                 PROVE  records[k].region <= Len(object.regions) /\ Behind(records[k])'
      BY <1>1 DEF RecordsBehind
    <2>1. records[k].region <= Len(object.regions) /\ Behind(records[k])
      BY DEF IInv, RecordsBehind
    <2>2. records[k].region < region \/ (records[k].region = region /\ pc = "byte")
      BY <1>1, <2>1 DEF Behind
    <2> QED BY <1>1, <2>1, <2>2 DEF Behind
  <1>4. ScanPosition' /\ WindowsInsideRegion' /\ StoredInOrder' /\ NothingBeforeEntry'
    BY <1>1 DEF IInv, ScanPosition, WindowsInsideRegion, StoredInOrder, NothingBeforeEntry
  <1>5. pc = "entry" => Len(records) = 0
    BY DEF IInv, NothingBeforeEntry
  <1>6. TableBounded'
    BY <1>1, <1>5 DEF IInv, TypeOK, TableBounded
  <1> QED BY <1>2, <1>3, <1>4, <1>6 DEF IInv

LEMMA BeginIInv == ASSUME IInv, BeginScan PROVE IInv'
  <1>1. /\ records' = <<>> /\ object' = object /\ region' = 1 /\ pc' = "region"
        /\ cursor' = cursor /\ status' = status /\ retCount' = 0 /\ retImmCount' = 0
        /\ capacity' \in Nat
    BY ScannerAssumption DEF IInv, TypeOK, BeginScan
  <1>2. object.regions \in Seq(Region)
    BY ScannerAssumption DEF IInv, TypeOK
  <1>3. TypeOK'
    BY <1>1, <1>2 DEF IInv, TypeOK
  <1> QED BY <1>1, <1>3 DEF IInv, ScanPosition, RecordsBehind, WindowsInsideRegion,
             StoredInOrder, TableBounded, NothingBeforeEntry

LEMMA NextRegionIInv ==
    ASSUME IInv, SkipEmptyRegion \/ LeaveRegion PROVE IInv'
  <1>1. /\ UNCHANGED <<object, capacity, records, retCount, retImmCount, cursor, status>>
        /\ region' = region + 1 /\ pc' = "region"
        /\ region <= Len(object.regions)
        /\ pc \in {"region", "byte"}
    BY DEF SkipEmptyRegion, LeaveRegion, summary, IInv, ScanPosition
  <1>2. object.regions \in Seq(Region)
    BY ScannerAssumption DEF IInv, TypeOK
  <1>3. TypeOK'
    BY <1>1, <1>2 DEF IInv, TypeOK
  <1>4. RecordsBehind'
    <2> SUFFICES ASSUME NEW k \in 1 .. Len(records)
                 PROVE  records[k].region <= Len(object.regions) /\ Behind(records[k])'
      BY <1>1 DEF RecordsBehind
    <2>1. records[k] \in Record
      BY ElementOfSeq DEF IInv, TypeOK
    <2>2. records[k].region <= Len(object.regions) /\ Behind(records[k])
      BY DEF IInv, RecordsBehind
    <2>3. records[k].region <= region /\ records[k].region \in Nat /\ region \in Nat
      BY <1>1, <2>1, <2>2 DEF Behind, Record, IInv, TypeOK
    <2>4. records[k].region < region + 1
      BY <2>3
    <2> QED BY <1>1, <2>2, <2>4 DEF Behind
  <1>5. ScanPosition' /\ WindowsInsideRegion' /\ StoredInOrder' /\ TableBounded' /\ NothingBeforeEntry'
    BY <1>1 DEF IInv, ScanPosition, WindowsInsideRegion, StoredInOrder, TableBounded,
                NothingBeforeEntry
  <1> QED BY <1>3, <1>4, <1>5 DEF IInv

LEMMA EnterIInv == ASSUME IInv, EnterRegion PROVE IInv'
  <1>1. /\ UNCHANGED <<object, capacity, records, retCount, retImmCount, region, status>>
        /\ cursor' = RegionStart /\ pc' = "byte" /\ pc = "region"
        /\ region <= Len(object.regions) /\ RegionInFile
    BY DEF EnterRegion, summary
  <1>2. /\ RegionStart \in Word
        /\ RegionStart <= RegionEnd
    <2>1. Current \in Region /\ RegionEnd = Current.fileOffset + Current.filesz
      BY <1>1, CurrentTyped, RegionBounds DEF IInv
    <2> QED BY <2>1, WordMaxAssumption DEF Region, RegionStart, Word
  <1>3. UNCHANGED <<RegionStart, RegionEnd, RegionInFile>>
    BY <1>1 DEF RegionStart, RegionEnd, RegionInFile, Current
  <1>4. TypeOK'
    BY <1>1, <1>2 DEF IInv, TypeOK
  <1>5. ScanPosition'
    BY <1>1, <1>2, <1>3, WordMaxAssumption DEF ScanPosition, Word
  <1>6. RecordsBehind'
    <2> SUFFICES ASSUME NEW k \in 1 .. Len(records)
                 PROVE  records[k].region <= Len(object.regions) /\ Behind(records[k])'
      BY <1>1 DEF RecordsBehind
    <2>1. records[k].region <= Len(object.regions) /\ Behind(records[k])
      BY DEF IInv, RecordsBehind
    <2> QED BY <1>1, <2>1 DEF Behind
  <1>7. WindowsInsideRegion' /\ StoredInOrder' /\ TableBounded' /\ NothingBeforeEntry'
    BY <1>1 DEF IInv, WindowsInsideRegion, StoredInOrder, TableBounded, NothingBeforeEntry
  <1> QED BY <1>4, <1>5, <1>6, <1>7 DEF IInv

-----------------------------------------------------------------------------
(* The cursor moves past a byte: with a record, or without one.            *)

LEMMA CursorMoves ==
    ASSUME IInv, pc = "byte", cursor < RegionEnd, cursor' = cursor + 1,
           UNCHANGED <<object, region, pc, status>>
    PROVE  ScanPosition' /\ cursor' \in Word
  <1>1. /\ region <= Len(object.regions) /\ RegionInFile
        /\ RegionStart <= cursor /\ cursor \in Word
    BY DEF IInv, TypeOK, ScanPosition
  <1>2. RegionEnd \in Word
    BY <1>1, RegionBounds DEF IInv
  <1>3. RegionStart \in Word
    BY <1>1, CurrentTyped DEF IInv, Region, RegionStart
  <1>4. UNCHANGED <<RegionStart, RegionEnd, RegionInFile>>
    BY DEF RegionStart, RegionEnd, RegionInFile, Current
  <1>5. cursor' \in Word /\ RegionStart <= cursor' /\ cursor' <= RegionEnd
    BY <1>1, <1>2, <1>3, WordMaxAssumption DEF Word
  <1> QED BY <1>1, <1>4, <1>5 DEF ScanPosition

LEMMA AdvanceIInv == ASSUME IInv, AdvanceByte PROVE IInv'
  <1>1. /\ UNCHANGED <<object, capacity, records, retCount, retImmCount, region, pc, status>>
        /\ cursor' = cursor + 1 /\ pc = "byte" /\ cursor < RegionEnd
    BY DEF AdvanceByte, summary
  <1>2. ScanPosition' /\ cursor' \in Word
    BY <1>1, CursorMoves
  <1>3. TypeOK'
    BY <1>1, <1>2 DEF IInv, TypeOK
  <1>4. RecordsBehind'
    <2> SUFFICES ASSUME NEW k \in 1 .. Len(records)
                 PROVE  records[k].region <= Len(object.regions) /\ Behind(records[k])'
      BY <1>1 DEF RecordsBehind
    <2>1. records[k] \in Record /\ cursor \in Word
      BY ElementOfSeq DEF IInv, TypeOK
    <2>2. records[k].region <= Len(object.regions) /\ Behind(records[k])
      BY DEF IInv, RecordsBehind
    <2>3. records[k].fileOffset < cursor => records[k].fileOffset < cursor + 1
      BY <2>1, WordMaxAssumption DEF Record, Word
    <2> QED BY <1>1, <2>2, <2>3 DEF Behind
  <1>5. WindowsInsideRegion' /\ StoredInOrder' /\ TableBounded' /\ NothingBeforeEntry'
    BY <1>1 DEF IInv, WindowsInsideRegion, StoredInOrder, TableBounded, NothingBeforeEntry
  <1> QED BY <1>2, <1>3, <1>4, <1>5 DEF IInv

LEMMA StoreIInv == ASSUME IInv, StoreCandidate PROVE IInv'
  <1> DEFINE new == FoundRecord
             n == Len(records)
  <1>1. /\ UNCHANGED <<object, capacity, region, pc, status>>
        /\ records' = Append(records, new)
        /\ cursor' = cursor + 1 /\ pc = "byte" /\ cursor < RegionEnd /\ AtTerminator
        /\ n < capacity
        /\ retCount' \in {retCount, retCount + 1}
        /\ retImmCount' \in {retImmCount, retImmCount + 1}
    BY DEF StoreCandidate
  <1>2. ScanPosition' /\ cursor' \in Word
    BY <1>1, CursorMoves
  <1>3. /\ new \in Record
        /\ new.region = region /\ new.fileOffset = cursor
        /\ Current.fileOffset <= new.byteStart
        /\ new.byteStart <= cursor
        /\ cursor <= new.byteStart + object.depth
        /\ cursor < new.byteStart + new.byteLen
        /\ new.byteStart + new.byteLen <= RegionEnd
    BY <1>1, FoundRecordFits
  <1>4. /\ region <= Len(object.regions)
        /\ RegionEnd = Current.fileOffset + Current.filesz
        /\ RegionEnd <= object.fileSize
    BY <1>1, RegionBounds DEF IInv, ScanPosition
  <1> HIDE DEF new
  <1>5. /\ records \in Seq(Record) /\ n \in Nat /\ Len(records') = n + 1
        /\ \A k \in 1 .. n : records'[k] = records[k]
        /\ records'[n + 1] = new
        /\ records' \in Seq(Record)
    BY <1>1, <1>3 DEF IInv, TypeOK
  <1>6. \A k \in 1 .. n : records[k] \in Record
    BY ElementOfSeq DEF IInv, TypeOK
  <1>7. 1 .. Len(records') = (1 .. n) \cup {n + 1}
    BY <1>5
  <1>8. TypeOK'
    BY <1>1, <1>2, <1>5 DEF IInv, TypeOK
  <1>9. RecordsBehind'
    <2> SUFFICES ASSUME NEW k \in 1 .. Len(records')
                 PROVE  records'[k].region <= Len(object.regions) /\ Behind(records[k])'
      BY <1>1 DEF RecordsBehind
    <2>1. CASE k = n + 1
      <3>1. cursor < cursor + 1
        BY WordMaxAssumption DEF IInv, TypeOK, Word
      <3> QED BY <1>1, <1>3, <1>4, <1>5, <2>1, <3>1 DEF Behind
    <2>2. CASE k \in 1 .. n
      <3>1. records[k].region <= Len(object.regions) /\ Behind(records[k])
        BY <2>2 DEF IInv, RecordsBehind
      <3>2. records[k].fileOffset < cursor => records[k].fileOffset < cursor + 1
        <4>1. records[k].fileOffset \in Word
          BY <1>6, <2>2 DEF Record
        <4>2. cursor \in Word
          BY DEF IInv, TypeOK
        <4> QED BY <4>1, <4>2, WordMaxAssumption DEF Word
      <3> QED BY <1>1, <1>5, <2>2, <3>1, <3>2 DEF Behind
    <2> QED BY <1>7, <2>1, <2>2
  <1>10. WindowsInsideRegion'
    <2> SUFFICES ASSUME NEW k \in 1 .. Len(records')
                 PROVE  LET c == records'[k]
                            r == object.regions[c.region]
                        IN  /\ r.fileOffset <= c.byteStart
                            /\ c.byteStart <= c.fileOffset
                            /\ c.fileOffset <= c.byteStart + object.depth
                            /\ c.fileOffset < c.byteStart + c.byteLen
                            /\ c.byteStart + c.byteLen <= r.fileOffset + r.filesz
                            /\ r.fileOffset + r.filesz <= object.fileSize
      BY <1>1 DEF WindowsInsideRegion
    <2>1. CASE k = n + 1
      BY <1>3, <1>4, <1>5, <2>1 DEF Current
    <2>2. CASE k \in 1 .. n
      BY <1>5, <2>2 DEF IInv, WindowsInsideRegion
    <2> QED BY <1>7, <2>1, <2>2
  <1>11. StoredInOrder'
    <2> SUFFICES ASSUME NEW j \in 1 .. Len(records'), NEW k \in 1 .. Len(records'), j < k
                 PROVE  Precedes(records'[j], records'[k])
      BY DEF StoredInOrder, Precedes
    <2>1. CASE k = n + 1
      <3>1. j \in 1 .. n
        BY <1>5, <2>1
      <3>2. Behind(records[j])
        BY <3>1 DEF IInv, RecordsBehind
      <3> QED BY <1>1, <1>3, <1>5, <2>1, <3>1, <3>2 DEF Behind, Precedes
    <2>2. CASE k \in 1 .. n
      <3>1. j \in 1 .. n
        BY <1>5, <2>2
      <3> QED BY <1>5, <2>2, <3>1 DEF IInv, StoredInOrder
    <2> QED BY <1>7, <2>1, <2>2
  <1>12. TableBounded' /\ NothingBeforeEntry'
    BY <1>1, <1>5 DEF IInv, TypeOK, TableBounded, NothingBeforeEntry
  <1> QED BY <1>2, <1>8, <1>9, <1>10, <1>11, <1>12 DEF IInv

LEMMA NextIInv == IInv /\ [Next]_vars => IInv'
  <1> SUFFICES ASSUME IInv, [Next]_vars PROVE IInv'
    OBVIOUS
  <1>1. CASE RejectDepth \/ RegionsDone \/ RejectRegion \/ CapacityExceeded
    BY <1>1, ReturnsIInv
  <1>2. CASE BeginScan        BY <1>2, BeginIInv
  <1>3. CASE SkipEmptyRegion \/ LeaveRegion
    BY <1>3, NextRegionIInv
  <1>4. CASE EnterRegion      BY <1>4, EnterIInv
  <1>5. CASE AdvanceByte      BY <1>5, AdvanceIInv
  <1>6. CASE StoreCandidate   BY <1>6, StoreIInv
  <1>7. CASE UNCHANGED vars
    <2>1. /\ UNCHANGED <<object, capacity, records, retCount, retImmCount>>
          /\ UNCHANGED <<region, cursor, pc, status>>
      BY <1>7 DEF vars, summary
    <2>2. TypeOK' /\ WindowsInsideRegion' /\ StoredInOrder' /\ TableBounded' /\ NothingBeforeEntry'
      BY <2>1 DEF IInv, TypeOK, WindowsInsideRegion, StoredInOrder, TableBounded,
                  NothingBeforeEntry
    <2>3. ScanPosition'
      BY <2>1 DEF IInv, ScanPosition, RegionStart, RegionEnd, RegionInFile, Current
    <2>4. RecordsBehind'
      BY <2>1 DEF IInv, RecordsBehind, Behind
    <2> QED BY <2>2, <2>3, <2>4 DEF IInv
  <1> QED BY <1>1, <1>2, <1>3, <1>4, <1>5, <1>6, <1>7 DEF Next, Step, Done

(***************************************************************************)
(* The inductive invariant of the scan.                                    *)
(***************************************************************************)
THEOREM ScannerInvariant == SafeSpec => []IInv
  BY InitIInv, NextIInv, PTL DEF SafeSpec

(***************************************************************************)
(* Every register and record of the scanner keeps the type its field has:  *)
(* no difference borrows and no sum carries, for any file.                 *)
(***************************************************************************)
THEOREM ScannerTypes == SafeSpec => []TypeOK
  <1>1. IInv => TypeOK
    BY DEF IInv
  <1> QED BY <1>1, ScannerInvariant, PTL

(***************************************************************************)
(* The window of every candidate stays inside its executable region and    *)
(* the file, so the stages after the scanner read only mapped bytes.       *)
(***************************************************************************)
THEOREM WindowsStayInside == SafeSpec => []WindowsInsideRegion
  <1>1. IInv => WindowsInsideRegion
    BY DEF IInv
  <1> QED BY <1>1, ScannerInvariant, PTL

(***************************************************************************)
(* Candidates are stored once each, in the order of the object.            *)
(***************************************************************************)
THEOREM RecordsInOrder == SafeSpec => []StoredInOrder
  <1>1. IInv => StoredInOrder
    BY DEF IInv
  <1> QED BY <1>1, ScannerInvariant, PTL
-----------------------------------------------------------------------------
(* What the caller asked for.                                              *)

LEMMA ObjectTyped ==
    ASSUME object \in Objects
    PROVE  /\ object.regions \in Seq(Region) /\ object.fileSize \in Word
           /\ object.depth \in Word /\ object.capacity \in Nat
           /\ Table.count \in Word /\ Table.offset \in Word
           /\ \A i \in DOMAIN object.regions :
                 object.regions[i].vaddr + object.regions[i].filesz <= WordMax + 1
  BY ScannerAssumption, ReportAssumption DEF Table

LEMMA AskedFields ==
    ASSUME object \in Objects
    PROVE  /\ Asked.image = object.image /\ Asked.fileSize = object.fileSize
           /\ Asked.regions = object.regions /\ Asked.depth = object.depth
           /\ Asked.sections = object.sections
           /\ Asked.capacity = IF object.capacity = 0 THEN DefaultCapacity ELSE object.capacity
           /\ Asked.capacity \in Nat
  <1>1. {"image", "fileSize", "regions", "depth", "capacity", "sections"} \subseteq DOMAIN object
    BY ReportAssumption
  <1>2. /\ Asked.image = object.image /\ Asked.fileSize = object.fileSize
        /\ Asked.regions = object.regions /\ Asked.depth = object.depth
        /\ Asked.sections = object.sections
    BY <1>1 DEF Asked
  <1>3. Asked.capacity = IF object.capacity = 0 THEN DefaultCapacity ELSE object.capacity
    BY <1>1 DEF Asked
  <1> QED BY <1>2, <1>3, ObjectTyped, ScannerAssumption

LEMMA SameCardinality ==
    ASSUME NEW S
    PROVE  Enumeration!Cardinality(S) = Cardinality(S)
  BY DEF Cardinality, Enumeration!Cardinality

\* The checks of the scanner, without the words.
LEMMA RegionInFileExact ==
    ASSUME object \in Objects, region \in 1 .. Len(object.regions)
    PROVE  RegionInFile <=> Enumeration!InFile(Asked, object.regions[region])
  <1> DEFINE start == Current.fileOffset
             size == Current.filesz
             file == object.fileSize
  <1>1. start \in Word /\ size \in Word /\ file \in Word
    <2>1. Current \in Region
      BY ObjectTyped, ElementOfSeq DEF Current
    <2> QED BY <2>1, ObjectTyped DEF Region
  <1>2. RegionInFile <=> (~(start > file) /\ ~(size > WordDifference(file, start)))
    BY DEF RegionInFile
  <1>3. Enumeration!InFile(Asked, object.regions[region]) <=> start + size <= file
    BY AskedFields DEF Enumeration!InFile, Enumeration!End, Current
  <1> HIDE DEF start, size, file
  <1> QED BY <1>1, <1>2, <1>3, WordMaxAssumption DEF WordDifference, Word

LEMMA DepthExact ==
    ASSUME object \in Objects
    PROVE  ~(object.depth = 0 \/ object.depth > DepthLimit) <=> Enumeration!DepthAccepted(Asked)
  BY ObjectTyped, AskedFields, ScannerAssumption, WordMaxAssumption
     DEF Enumeration!DepthAccepted, Word

\* The section table is accepted exactly when it is in the file, and then every entry is.
LEMMA ProductInNat ==
    ASSUME NEW a \in Nat, NEW b \in Nat
    PROVE  a * b \in Nat
  OBVIOUS

LEMMA ProductGrows ==
    ASSUME NEW a \in Nat, NEW i \in Nat, NEW n \in Nat, i < n
    PROVE  a * i + a <= a * n
  <1>1. n - (i + 1) \in Nat /\ n = i + 1 + (n - (i + 1))
    OBVIOUS
  <1>2. PICK k \in Nat : n = i + 1 + k
    BY <1>1
  <1>3. a * n = a * i + a + a * k
    BY <1>2
  <1>4. a * k \in Nat /\ a * i \in Nat
    BY ProductInNat
  <1> QED BY <1>3, <1>4

LEMMA TableExact ==
    ASSUME object \in Objects, Table.count # 0
    PROVE  /\ TableReadable <=> Enumeration!SectionsInFile(Asked)
           /\ TableReadable => \A i \in Entries : HeaderAt(i)
  <1> DEFINE file == object.fileSize
             offset == Table.offset
             count == Table.count
             bytes == HeaderSize * count
  <1>1. /\ file \in Word /\ offset \in Word /\ count \in Word /\ HeaderSize \in Word \ {0}
        /\ count # 0
    BY ObjectTyped, ReportAssumption
  <1>2. /\ file \in Nat /\ offset \in Nat /\ count \in Nat /\ HeaderSize \in Nat
        /\ file <= WordMax /\ WordMax \in Nat
    BY <1>1, WordMaxAssumption DEF Word
  <1>3. Enumeration!SectionsInFile(Asked) <=>
           Table.entsize = HeaderSize /\ offset # 0 /\ offset + bytes <= file
    BY AskedFields, <1>1 DEF Enumeration!SectionsInFile, Table
  <1>4. TableReadable <=>
           Table.entsize = HeaderSize /\ offset # 0 /\ TableExtentValid(file, offset, HeaderSize, count)
    BY DEF TableReadable
  <1> HIDE DEF file, offset, count
  <1>5. bytes \in Nat
    BY <1>2, ProductInNat
  <1>6. HighWordNonzero(HeaderSize, count) <=> bytes > WordMax
    BY DEF HighWordNonzero
  <1>7. ~HighWordNonzero(HeaderSize, count) =>
           WordProduct(HeaderSize, count) = bytes /\ TableEnd(offset, HeaderSize, count) = WordSum(bytes, offset)
    BY <1>1 DEF WordProduct, TableEnd
  <1>8. TableExtentValid(file, offset, HeaderSize, count) <=>
           /\ HeaderSize # 0
           /\ ~HighWordNonzero(HeaderSize, count)
           /\ ~Carries(bytes, offset)
           /\ ~(WordSum(bytes, offset) > file)
    BY <1>1, <1>7 DEF TableExtentValid
  <1>9. TableExtentValid(file, offset, HeaderSize, count) <=> HeaderSize # 0 /\ offset + bytes <= file
    <2> HIDE DEF bytes
    <2> QED BY <1>2, <1>5, <1>6, <1>8 DEF Carries, WordSum
  <1>10. ASSUME TableReadable, NEW i \in Entries
         PROVE  HeaderAt(i)
    <2> DEFINE delta == HeaderSize * i
    <2>1. i \in Nat /\ i < count
      BY <1>2 DEF Entries, count
    <2>2. delta + HeaderSize <= bytes /\ delta \in Nat
      BY <1>2, <2>1, ProductGrows, ProductInNat
    <2>3. offset + bytes <= file /\ HeaderSize # 0
      BY <1>4, <1>9, <1>10
    <2>4. HeaderAt(i) <=> EntryOffsetValid(file, offset, HeaderSize, count, i)
      BY DEF HeaderAt, file, offset, count
    <2>5. HighWordNonzero(HeaderSize, i) <=> delta > WordMax
      BY DEF HighWordNonzero
    <2>6. ~HighWordNonzero(HeaderSize, i) => WordProduct(HeaderSize, i) = delta
      BY DEF WordProduct
    <2> HIDE DEF delta, bytes
    <2>7. ~HighWordNonzero(HeaderSize, i) /\ WordProduct(HeaderSize, i) = delta
      BY <1>2, <1>5, <2>2, <2>3, <2>5, <2>6
    <2>8. ~Carries(delta, offset) /\ WordSum(delta, offset) = offset + delta
      BY <1>2, <1>5, <2>2, <2>3 DEF Carries, WordSum
    <2>9. EntryOffset(offset, HeaderSize, i) = offset + delta
      BY <2>7, <2>8 DEF EntryOffset
    <2>10. /\ ~Carries(offset + delta, HeaderSize)
           /\ ~(WordSum(offset + delta, HeaderSize) > file)
      BY <1>2, <1>5, <2>2, <2>3 DEF Carries, WordSum
    <2>11. EntryOffsetValid(file, offset, HeaderSize, count, i)
      BY <1>1, <2>1, <2>3, <2>7, <2>8, <2>9, <2>10 DEF EntryOffsetValid
    <2> QED BY <2>4, <2>11
  <1> QED BY <1>1, <1>3, <1>4, <1>9, <1>10
-----------------------------------------------------------------------------
(* The candidates of a region, and how many there are.                     *)

\* What the scanner has stored of region i when it comes to the offset n.
Before(i, n) ==
    {Enumeration!Candidate(Asked, i, at) :
        at \in {b \in object.regions[i].fileOffset .. n - 1 :
                  Enumeration!IsTerminator(Asked, object.regions[i], b)}}

LEMMA RegionCandidates ==
    ASSUME object \in Objects, NEW i \in 1 .. Len(object.regions)
    PROVE  Enumeration!CandidatesOf(Asked, i)
             = Before(i, object.regions[i].fileOffset + object.regions[i].filesz)
  <1> DEFINE all == Asked.regions
             q == all[i]
  <1>1. Enumeration!CandidatesOf(Asked, i) =
          {Enumeration!Candidate(Asked, i, at) :
             at \in {b \in q.fileOffset .. Enumeration!End(q) - 1 : Enumeration!IsTerminator(Asked, q, b)}}
    BY DEF Enumeration!CandidatesOf
  <1>2. Enumeration!End(q) = q.fileOffset + q.filesz
    BY DEF Enumeration!End
  <1>3. all = object.regions
    BY AskedFields
  <1> HIDE DEF all
  <1> QED BY <1>1, <1>2, <1>3 DEF Before

LEMMA CandidatesFinite ==
    ASSUME object \in Objects, NEW n \in 0 .. Len(object.regions)
    PROVE  IsFiniteSet(Enumeration!CandidatesUpTo(Asked, n))
  <1> DEFINE Of(i) == Enumeration!CandidatesOf(Asked, i)
             All == {Of(i) : i \in 1 .. n}
  <1>1. ASSUME NEW i \in 1 .. n PROVE IsFiniteSet(Of(i))
    <2> DEFINE start == object.regions[i].fileOffset
               end == object.regions[i].fileOffset + object.regions[i].filesz
               offsets == {b \in start .. end - 1 :
                             Enumeration!IsTerminator(Asked, object.regions[i], b)}
               f == [at \in offsets |-> Enumeration!Candidate(Asked, i, at)]
    <2>1. i \in 1 .. Len(object.regions)
      BY ObjectTyped
    <2>2. object.regions[i] \in Region
      BY <2>1, ObjectTyped, ElementOfSeq
    <2>3. start \in Int /\ end - 1 \in Int
      BY <2>2, WordMaxAssumption DEF Region, Word
    <2>4. Of(i) = Before(i, end)
      BY <2>1, RegionCandidates
    <2>5. Before(i, end) = {Enumeration!Candidate(Asked, i, at) : at \in offsets}
      BY DEF Before
    <2> HIDE DEF start, end, Of
    <2>6. IsFiniteSet(start .. end - 1)
      BY <2>3, FS_Interval
    <2>7. offsets \in SUBSET (start .. end - 1)
      OBVIOUS
    <2> HIDE DEF offsets
    <2>8. IsFiniteSet(offsets)
      BY <2>6, <2>7, FS_Subset
    <2>9. f \in Surjection(offsets, Before(i, end))
      BY <2>5 DEF Surjection
    <2> QED BY <2>4, <2>8, <2>9, FS_Surjection
  <1>2. IsFiniteSet(1 .. n)
    BY FS_Interval
  <1> HIDE DEF Of
  <1>3. [i \in 1 .. n |-> Of(i)] \in Surjection(1 .. n, All)
    BY DEF Surjection
  <1>4. IsFiniteSet(All)
    BY <1>2, <1>3, FS_Surjection
  <1>5. \A T \in All : IsFiniteSet(T)
    BY <1>1
  <1>6. IsFiniteSet(UNION All)
    BY <1>4, <1>5, FS_UNION
  <1>7. Enumeration!CandidatesUpTo(Asked, n) = UNION All
    BY DEF Of, Enumeration!CandidatesUpTo
  <1> QED BY <1>6, <1>7

\* Stored in order, the records are as many as they are different.
LEMMA FoundCounted ==
    ASSUME IInv
    PROVE  IsFiniteSet(Found) /\ Cardinality(Found) = Len(records)
  <1> DEFINE f == [k \in 1 .. Len(records) |-> records[k]]
  <1>1. Len(records) \in Nat /\ \A k \in 1 .. Len(records) : records[k] \in Record
    BY ElementOfSeq DEF IInv, TypeOK
  <1>2. ASSUME NEW j \in 1 .. Len(records), NEW k \in 1 .. Len(records), j < k
        PROVE  records[j] # records[k]
    <2>1. Precedes(records[j], records[k])
      BY <1>2 DEF IInv, StoredInOrder
    <2>2. records[j] \in Record
      BY <1>1
    <2>3. records[j].region \in Nat /\ records[j].fileOffset \in Int
      BY <2>2, WordMaxAssumption DEF Record, Word
    <2> QED BY <2>1, <2>3 DEF Precedes
  <1>3. f \in Injection(1 .. Len(records), Found)
    <2>1. f \in [1 .. Len(records) -> Found]
      BY DEF Found
    <2>2. ASSUME NEW a \in 1 .. Len(records), NEW b \in 1 .. Len(records), f[a] = f[b]
          PROVE  a = b
      BY <1>1, <1>2, <2>2
    <2> QED BY <2>1, <2>2 DEF Injection, IsInjective
  <1>4. f \in Surjection(1 .. Len(records), Found)
    BY DEF Found, Surjection
  <1>5. IsFiniteSet(1 .. Len(records)) /\ Cardinality(1 .. Len(records)) = Len(records)
    BY <1>1, FS_Interval
  <1>6. ExistsBijection(1 .. Len(records), Found)
    BY <1>3, <1>4 DEF ExistsBijection, Bijection
  <1> QED BY <1>5, <1>6, FS_Bijection

\* The well-foundedness of the naturals, in the form the next lemma needs.
LEMMA LeastElement ==
    ASSUME NEW T \in SUBSET Nat, T # {}
    PROVE  \E y \in T : \A z \in T : ~(z < y)
  <1> DEFINE R == OpToRel(<, Nat)
  <1>1. IsWellFoundedOn(R, Nat)
    BY NatLessThanWellFounded
  <1>2. \A a, b \in Nat : <<a, b>> \in R <=> a < b
    BY DEF OpToRel
  <1> HIDE DEF R
  <1>3. PICK y \in T : \A z \in T : ~(<<z, y>> \in R)
    BY <1>1, WFMin
  <1> QED BY <1>2, <1>3

\* The regions before the first one outside the file.
LEMMA TrustedBounds ==
    ASSUME object \in Objects, NEW n \in 0 .. Len(object.regions),
           \A i \in 1 .. n : Enumeration!InFile(Asked, object.regions[i])
    PROVE  /\ Enumeration!TrustedRegions(Asked) \in n .. Len(object.regions)
           /\ (n < Len(object.regions) /\ ~Enumeration!InFile(Asked, object.regions[n + 1])) =>
                 Enumeration!TrustedRegions(Asked) = n
  <1> DEFINE outside == {i \in 1 .. Len(object.regions) : ~Enumeration!InFile(Asked, object.regions[i])}
             first == CHOOSE i \in outside : \A j \in outside : i <= j
  <1>1. Len(object.regions) \in Nat /\ DOMAIN object.regions = 1 .. Len(object.regions)
    BY ObjectTyped
  <1>2. Enumeration!TrustedRegions(Asked) = IF outside = {} THEN Len(object.regions) ELSE first - 1
    <2> DEFINE regions == Asked.regions
    <2>1. Enumeration!TrustedRegions(Asked) =
            LET out == {i \in DOMAIN regions : ~Enumeration!InFile(Asked, regions[i])}
            IN  IF out = {} THEN Len(regions)
                ELSE (CHOOSE i \in out : \A j \in out : i <= j) - 1
      BY DEF Enumeration!TrustedRegions
    <2>2. regions = object.regions
      BY AskedFields
    <2> HIDE DEF regions
    <2> QED BY <1>1, <2>1, <2>2
  <1>3. \A i \in outside : i \in 1 .. Len(object.regions) /\ i > n
    BY <1>1
  <1>4. outside \in SUBSET Nat
    BY <1>1
  <1>5. n < Len(object.regions) /\ ~Enumeration!InFile(Asked, object.regions[n + 1]) => n + 1 \in outside
    BY <1>1
  <1> HIDE DEF outside
  <1>6. CASE outside = {}
    BY <1>1, <1>2, <1>5, <1>6
  <1>7. CASE outside # {}
    <2>1. PICK y \in outside : \A z \in outside : ~(z < y)
      BY <1>4, <1>7, LeastElement
    <2>2. \A z \in outside : y <= z
      BY <1>4, <2>1
    <2>3. first \in outside /\ \A j \in outside : first <= j
      BY <2>2
    <2> HIDE DEF first
    <2>4. first \in 1 .. Len(object.regions) /\ first > n
      BY <1>3, <2>3
    <2>5. n + 1 \in outside => first <= n + 1
      BY <2>3
    <2> QED BY <1>1, <1>2, <1>5, <1>7, <2>4, <2>5
  <1> QED BY <1>6, <1>7

\* What the scanner looks at and what it stores, in numbers.
LEMMA ByteExact ==
    ASSUME IInv, pc = "byte", cursor < RegionEnd
    PROVE  /\ AtTerminator <=> Enumeration!IsTerminator(Asked, Current, cursor)
           /\ AtTerminator => FoundRecord = Enumeration!Candidate(Asked, region, cursor)
  <1> DEFINE start == Current.fileOffset
             size == Current.filesz
             address == Current.vaddr
             depth == object.depth
             end == RegionEnd
  <1>1. object \in Objects /\ region \in 1 .. Len(object.regions) /\ RegionInFile /\ start <= cursor
    BY ObjectTyped DEF IInv, TypeOK, ScanPosition, RegionStart
  <1>2. /\ start \in Word /\ size \in Word /\ address \in Word /\ depth \in Word /\ cursor \in Word
    BY <1>1, CurrentTyped, ObjectTyped DEF IInv, TypeOK, Region
  <1>3. end = start + size /\ end \in Word /\ cursor < end
    BY <1>1, RegionBounds DEF IInv
  <1>4. address + size <= WordMax + 1
    BY <1>1, ObjectTyped DEF Current
  <1>5. Asked.image[cursor] = Byte /\ Enumeration!End(Current) = start + size /\ Asked.depth = depth
        /\ Asked.regions[region] = Current
    BY <1>1, AskedFields DEF Byte, Enumeration!End, Current
  <1>6. AtTerminator <=> Byte = RET \/ (Byte = RET_IMM16 /\ ~Carries(cursor, 3) /\ ~(WordSum(cursor, 3) > end))
    BY DEF AtTerminator, ImmediateFits
  <1>7. Enumeration!IsTerminator(Asked, Current, cursor) <=>
           Byte = RET \/ (Byte = RET_IMM16 /\ cursor + 3 <= start + size)
    BY <1>5 DEF Enumeration!IsTerminator
  <1>8. FoundRecord =
          [region |-> region, fileOffset |-> cursor,
           virtualAddress |-> WordSum(WordDifference(cursor, start), address),
           byteStart |-> WindowStart,
           byteLen |-> WordSum(WordDifference(cursor, WindowStart), TerminatorLength),
           terminator |-> Byte]
    BY DEF FoundRecord
  <1>9. WindowStart = IF WordDifference(cursor, start) > depth THEN WordDifference(cursor, depth) ELSE start
    BY DEF WindowStart, RegionStart
  <1> DEFINE window == IF cursor - depth > start THEN cursor - depth ELSE start
             length == TerminatorLength
  <1>10. Enumeration!Candidate(Asked, region, cursor) =
          [region |-> region, fileOffset |-> cursor,
           virtualAddress |-> address + (cursor - start),
           byteStart |-> window,
           byteLen |-> (cursor - window) + length,
           terminator |-> Byte]
    BY <1>5 DEF Enumeration!Candidate, Enumeration!TerminatorLength, TerminatorLength
  <1>11. length = IF Byte = RET THEN 1 ELSE 3
    BY DEF TerminatorLength
  <1> HIDE DEF start, size, address, depth, end, length
  <1>12. (~Carries(cursor, 3) /\ ~(WordSum(cursor, 3) > end)) <=> cursor + 3 <= start + size
    BY <1>2, <1>3, WordMaxAssumption, ScannerAssumption DEF Carries, WordSum, Word
  <1>13. WindowStart = window /\ window \in Nat /\ window <= cursor /\ cursor \in Nat /\ cursor < end
    BY <1>1, <1>2, <1>3, <1>9, WordMaxAssumption DEF WordDifference, Word
  <1>14. WordSum(WordDifference(cursor, start), address) = address + (cursor - start)
    BY <1>1, <1>2, <1>3, <1>4, WordMaxAssumption DEF WordDifference, WordSum, Carries, Word
  <1> HIDE DEF window
  <1>15. AtTerminator => cursor + length <= end /\ length \in {1, 3}
    BY <1>2, <1>3, <1>6, <1>11, <1>12, <1>13
  <1>16. AtTerminator => WordSum(WordDifference(cursor, window), length) = (cursor - window) + length
    BY <1>3, <1>13, <1>15, WordMaxAssumption DEF WordDifference, WordSum, Carries, Word
  <1>17. WordSum(WordDifference(cursor, WindowStart), TerminatorLength)
           = WordSum(WordDifference(cursor, window), length)
    BY <1>13 DEF length
  <1> QED BY <1>6, <1>7, <1>8, <1>10, <1>12, <1>13, <1>14, <1>16, <1>17
-----------------------------------------------------------------------------
(* What the scan has collected at every point, and what the caller knows   *)
(* when the section table lets the commands go on.                         *)

Collected ==
    /\ Enumeration!SectionsInFile(Asked) /\ Enumeration!DepthAccepted(Asked)
    /\ capacity = Asked.capacity
    /\ \A i \in 1 .. region - 1 : Enumeration!InFile(Asked, object.regions[i])
    /\ Found = Enumeration!CandidatesUpTo(Asked, region - 1)
                  \cup (IF pc = "byte" THEN Before(region, cursor) ELSE {})

EInv ==
    /\ pc = "entry" => capacity = object.capacity
    /\ pc \in {"region", "byte"} => Collected
    /\ stage \notin {"stripped", EXIT_MALFORMED_ELF} => Enumeration!SectionsInFile(Asked)
    /\ stage \in {"stripped", "regions"} => pc = "entry"

RInv == IInv /\ EInv

\* Nothing the caller asked for changes, and what is collected is a function of it.
LEMMA AskedKept ==
    ASSUME object' = object
    PROVE  /\ Asked' = Asked
           /\ \A i, n : Enumeration!InFile(Asked, object.regions[i])'
                          = Enumeration!InFile(Asked, object.regions[i])
           /\ \A n : Enumeration!CandidatesUpTo(Asked', n) = Enumeration!CandidatesUpTo(Asked, n)
           /\ Enumeration!SectionsInFile(Asked)' = Enumeration!SectionsInFile(Asked)
           /\ Enumeration!DepthAccepted(Asked)' = Enumeration!DepthAccepted(Asked)
  <1>1. Asked' = Asked
    BY DEF Asked
  <1> QED BY <1>1 DEF Enumeration!InFile, Enumeration!End

LEMMA CandidatesNext ==
    ASSUME object \in Objects, NEW i \in 1 .. Len(object.regions)
    PROVE  Enumeration!CandidatesUpTo(Asked, i)
             = Enumeration!CandidatesUpTo(Asked, i - 1) \cup Enumeration!CandidatesOf(Asked, i)
  <1>1. 1 .. i = (1 .. i - 1) \cup {i}
    BY ObjectTyped
  <1>2. Enumeration!CandidatesUpTo(Asked, i)
          = UNION {Enumeration!CandidatesOf(Asked, j) : j \in 1 .. i}
    BY DEF Enumeration!CandidatesUpTo
  <1>3. Enumeration!CandidatesUpTo(Asked, i - 1)
          = UNION {Enumeration!CandidatesOf(Asked, j) : j \in 1 .. i - 1}
    BY DEF Enumeration!CandidatesUpTo
  <1> QED BY <1>1, <1>2, <1>3

LEMMA CandidatesNone == Enumeration!CandidatesUpTo(Asked, 0) = {}
  BY DEF Enumeration!CandidatesUpTo

\* One more offset: its candidate if it is a terminator, nothing otherwise.
LEMMA BeforeNext ==
    ASSUME object \in Objects, NEW i \in 1 .. Len(object.regions), NEW n \in Word,
           object.regions[i].fileOffset <= n
    PROVE  Before(i, n + 1) = Before(i, n) \cup
             (IF Enumeration!IsTerminator(Asked, object.regions[i], n)
              THEN {Enumeration!Candidate(Asked, i, n)} ELSE {})
  <1> DEFINE start == object.regions[i].fileOffset
  <1>1. object.regions[i] \in Region
    BY ObjectTyped, ElementOfSeq
  <1>2. start \in Int /\ n \in Int /\ start <= n
    BY <1>1, WordMaxAssumption DEF Region, Word
  <1> HIDE DEF start
  <1>3. start .. (n + 1) - 1 = (start .. n - 1) \cup {n}
    BY <1>2
  <1> QED BY <1>3 DEF Before, start

LEMMA BeforeNone ==
    ASSUME object \in Objects, NEW i \in 1 .. Len(object.regions), NEW n \in Int,
           n <= object.regions[i].fileOffset
    PROVE  Before(i, n) = {}
  <1>1. object.regions[i] \in Region
    BY ObjectTyped, ElementOfSeq
  <1>2. object.regions[i].fileOffset \in Int
    BY <1>1, WordMaxAssumption DEF Region, Word
  <1>3. object.regions[i].fileOffset .. n - 1 = {}
    BY <1>2
  <1> QED BY <1>3 DEF Before

-----------------------------------------------------------------------------
(* The steps of the scan keep what is collected.                           *)

LEMMA BeginCollects == ASSUME RInv, BeginScan, Enumeration!SectionsInFile(Asked) PROVE Collected'
  <1>1. /\ object' = object /\ region' = 1 /\ pc' = "region" /\ records' = <<>>
        /\ capacity' = (IF capacity = 0 THEN DefaultCapacity ELSE capacity)
        /\ capacity = object.capacity /\ object \in Objects
        /\ ~(object.depth = 0 \/ object.depth > DepthLimit)
    BY DEF BeginScan, RInv, EInv, IInv, TypeOK
  <1>2. Found' = {}
    BY <1>1 DEF Found
  <1>3. Enumeration!CandidatesUpTo(Asked, region - 1)' = {}
    <2>1. region' - 1 = 0
      BY <1>1
    <2> QED BY <1>1, <2>1, CandidatesNone, AskedKept
  <1>4. capacity' = Asked.capacity
    BY <1>1, AskedFields
  <1>5. Enumeration!DepthAccepted(Asked)
    BY <1>1, DepthExact
  <1>6. 1 .. region' - 1 = {}
    BY <1>1
  <1>7. capacity' = Asked'.capacity
    BY <1>1, <1>4, AskedKept
  <1> QED BY <1>1, <1>2, <1>3, <1>5, <1>6, <1>7, AskedKept DEF Collected

\* A region is left behind: empty, or at its end.
LEMMA RegionCollects ==
    ASSUME RInv, SkipEmptyRegion \/ LeaveRegion
    PROVE  Collected'
  <1>1. /\ object' = object /\ records' = records /\ capacity' = capacity
        /\ region' = region + 1 /\ pc' = "region" /\ pc \in {"region", "byte"}
        /\ Collected
        /\ object \in Objects
    BY DEF SkipEmptyRegion, LeaveRegion, summary, RInv, EInv, IInv, TypeOK
  <1>2. region \in 1 .. Len(object.regions) /\ RegionInFile
    BY ObjectTyped, <1>1 DEF SkipEmptyRegion, LeaveRegion, RInv, IInv, TypeOK, ScanPosition
  <1> DEFINE end == object.regions[region].fileOffset + object.regions[region].filesz
  <1>3. RegionEnd = end /\ end \in Word
    BY <1>1, <1>2, RegionBounds DEF RInv, IInv, Current
  <1>4. Current \in Region /\ Current = object.regions[region]
    BY <1>1, <1>2, CurrentTyped DEF RInv, IInv, Current
  <1>5. Enumeration!CandidatesOf(Asked, region) = Before(region, end)
    BY <1>1, <1>2, RegionCandidates
  <1>6. (IF pc = "byte" THEN Before(region, cursor) ELSE {}) = Before(region, end)
    <2>1. CASE SkipEmptyRegion
      <3>1. pc = "region" /\ end = object.regions[region].fileOffset
        BY <1>4, <2>1, WordMaxAssumption DEF SkipEmptyRegion, Region, Word
      <3>2. end \in Int
        BY <1>3, WordMaxAssumption DEF Word
      <3> HIDE DEF end
      <3>3. Before(region, end) = {}
        BY <1>1, <1>2, <3>1, <3>2, BeforeNone DEF end
      <3> QED BY <3>1, <3>3
    <2>2. CASE LeaveRegion
      <3>1. pc = "byte" /\ cursor >= RegionEnd /\ cursor <= RegionEnd
        BY <2>2 DEF LeaveRegion, RInv, IInv, ScanPosition
      <3>2. cursor \in Word
        BY DEF RInv, IInv, TypeOK
      <3> HIDE DEF end
      <3>3. cursor = end
        BY <1>3, <3>1, <3>2, WordMaxAssumption DEF Word
      <3> QED BY <3>1, <3>3
    <2> QED BY <2>1, <2>2
  <1> HIDE DEF end
  <1>7. Enumeration!CandidatesUpTo(Asked, region)
          = Enumeration!CandidatesUpTo(Asked, region - 1) \cup Before(region, end)
    BY <1>1, <1>2, <1>5, CandidatesNext
  <1>8. Found' = Enumeration!CandidatesUpTo(Asked, region - 1)'
    <2>1. Found' = Found
      BY <1>1 DEF Found
    <2>2. region' - 1 = region
      BY <1>1, <1>2, ObjectTyped
    <2>3. Found = Enumeration!CandidatesUpTo(Asked, region)
      BY <1>1, <1>6, <1>7 DEF Collected
    <2> QED BY <1>1, <2>1, <2>2, <2>3, AskedKept
  <1>9. \A i \in 1 .. region' - 1 : Enumeration!InFile(Asked, object.regions[i])
    <2> SUFFICES ASSUME NEW i \in 1 .. region' - 1
                 PROVE  Enumeration!InFile(Asked, object.regions[i])
      OBVIOUS
    <2>1. i \in 1 .. region - 1 \/ i = region
      BY <1>1, <1>2, ObjectTyped
    <2>2. Enumeration!InFile(Asked, object.regions[region])
      BY <1>1, <1>2, RegionInFileExact
    <2> QED BY <1>1, <2>1, <2>2 DEF Collected
  <1>10. capacity' = Asked'.capacity
    BY <1>1, AskedKept DEF Collected
  <1>11. Enumeration!SectionsInFile(Asked)' /\ Enumeration!DepthAccepted(Asked)'
    BY <1>1, AskedKept DEF Collected
  <1>12. \A i \in 1 .. region' - 1 : Enumeration!InFile(Asked, object.regions[i])'
    BY <1>1, <1>9, AskedKept
  <1> QED BY <1>1, <1>8, <1>10, <1>11, <1>12 DEF Collected

LEMMA EnterCollects == ASSUME RInv, EnterRegion PROVE Collected'
  <1>1. /\ object' = object /\ records' = records /\ capacity' = capacity
        /\ region' = region /\ pc' = "byte" /\ pc = "region"
        /\ cursor' = object.regions[region].fileOffset
        /\ Collected
        /\ object \in Objects /\ region \in 1 .. Len(object.regions)
    BY ObjectTyped DEF EnterRegion, summary, RInv, EInv, IInv, TypeOK, RegionStart, Current
  <1>2. object.regions[region] \in Region
    BY <1>1, ObjectTyped, ElementOfSeq
  <1>3. Before(region, object.regions[region].fileOffset) = {}
    <2>1. object.regions[region].fileOffset \in Int
      BY <1>2, WordMaxAssumption DEF Region, Word
    <2> QED BY <1>1, <2>1, BeforeNone
  <1>4. Before(region, cursor)' = {}
    <2>1. Before(region, cursor)' = Before(region, object.regions[region].fileOffset)
      BY <1>1, AskedKept DEF Before
    <2> QED BY <1>3, <2>1
  <1>5. Found' = Found /\ capacity' = Asked'.capacity
    BY <1>1, AskedKept DEF Found, Collected
  <1>6. Found' = Enumeration!CandidatesUpTo(Asked, region - 1)'
    BY <1>1, <1>5, AskedKept DEF Collected
  <1>7. \A i \in 1 .. region' - 1 : Enumeration!InFile(Asked, object.regions[i])'
    BY <1>1, AskedKept DEF Collected
  <1>8. Enumeration!SectionsInFile(Asked)' /\ Enumeration!DepthAccepted(Asked)'
    BY <1>1, AskedKept DEF Collected
  <1> QED BY <1>1, <1>4, <1>5, <1>6, <1>7, <1>8 DEF Collected

LEMMA ByteCollects == ASSUME RInv, AdvanceByte \/ StoreCandidate PROVE Collected'
  <1>1. /\ object' = object /\ capacity' = capacity /\ region' = region
        /\ pc' = "byte" /\ pc = "byte" /\ cursor' = cursor + 1 /\ cursor < RegionEnd
        /\ Collected
    BY DEF AdvanceByte, StoreCandidate, summary, RInv, EInv
  <1>2. /\ object \in Objects /\ region \in 1 .. Len(object.regions) /\ cursor \in Word
        /\ Current = object.regions[region] /\ Current.fileOffset <= cursor
        /\ records \in Seq(Record)
    BY <1>1, ObjectTyped DEF RInv, IInv, TypeOK, ScanPosition, Current, RegionStart
  <1> DEFINE more == IF Enumeration!IsTerminator(Asked, object.regions[region], cursor)
                     THEN {Enumeration!Candidate(Asked, region, cursor)} ELSE {}
  <1>3. Before(region, cursor + 1) = Before(region, cursor) \cup more
    BY <1>2, BeforeNext
  <1>4. Found' = Found \cup more
    <2>1. CASE AdvanceByte
      <3>1. records' = records /\ ~AtTerminator
        BY <2>1 DEF AdvanceByte, summary
      <3>2. more = {}
        BY <1>1, <1>2, <3>1, ByteExact DEF RInv
      <3> QED BY <3>1, <3>2 DEF Found
    <2>2. CASE StoreCandidate
      <3>1. records' = Append(records, FoundRecord) /\ AtTerminator
        BY <2>2 DEF StoreCandidate
      <3>2. more = {FoundRecord}
        BY <1>1, <1>2, <3>1, ByteExact DEF RInv
      <3> HIDE DEF more
      <3> DEFINE new == FoundRecord
      <3>3. new \in Record
        BY <1>1, <3>1, FoundRecordFits DEF RInv
      <3>4. records' = Append(records, new) /\ more = {new}
        BY <3>1, <3>2
      <3> HIDE DEF new
      <3>5. /\ Len(records') = Len(records) + 1 /\ Len(records) \in Nat
            /\ \A k \in 1 .. Len(records) : records'[k] = records[k]
            /\ records'[Len(records) + 1] = new
        BY <1>2, <3>3, <3>4
      <3>6. 1 .. Len(records') = (1 .. Len(records)) \cup {Len(records) + 1}
        BY <3>5
      <3> QED BY <3>4, <3>5, <3>6 DEF Found
    <2> QED BY <2>1, <2>2
  <1> HIDE DEF more
  <1>5. Before(region, cursor)' = Before(region, cursor + 1)
    BY <1>1, AskedKept DEF Before
  <1>6. Found' = Enumeration!CandidatesUpTo(Asked, region - 1)' \cup Before(region, cursor)'
    <2>1. Enumeration!CandidatesUpTo(Asked, region - 1)' = Enumeration!CandidatesUpTo(Asked, region - 1)
      BY <1>1, AskedKept
    <2>2. Found = Enumeration!CandidatesUpTo(Asked, region - 1) \cup Before(region, cursor)
      BY <1>1 DEF Collected
    <2> QED BY <1>3, <1>4, <1>5, <2>1, <2>2
  <1>7. \A i \in 1 .. region' - 1 : Enumeration!InFile(Asked, object.regions[i])'
    BY <1>1, AskedKept DEF Collected
  <1>8. Enumeration!SectionsInFile(Asked)' /\ Enumeration!DepthAccepted(Asked)' /\ capacity' = Asked'.capacity
    BY <1>1, AskedKept DEF Collected
  <1> QED BY <1>1, <1>6, <1>7, <1>8 DEF Collected

-----------------------------------------------------------------------------
(* The section table refuses an object before the scan or not at all.      *)

LEMMA StrippedExact ==
    ASSUME object \in Objects, NEW symbols
    PROVE  (Table.count = 0 \/
              /\ TableReadable
              /\ \A i \in Entries : (\A j \in symbols : i <= j) => HeaderAt(i))
             <=> Enumeration!SectionsInFile(Asked)
  <1>1. CASE Table.count = 0
    BY <1>1, AskedFields DEF Enumeration!SectionsInFile, Table
  <1>2. CASE Table.count # 0
    BY <1>2, TableExact
  <1> QED BY <1>1, <1>2

LEMMA SetupSucceeds ==
    ASSUME object \in Objects, Enumeration!SectionsInFile(Asked)
    PROVE  SetupAccepts
  BY TableExact DEF SetupAccepts

\* What a step of the commands does to the scanner and to the stage.
Scans == stage = "scan" /\ stage' = stage /\ Step

Refuses ==
    /\ stage \in {"stripped", "regions"} /\ pc = "entry"
    /\ ~Enumeration!SectionsInFile(Asked)
    /\ Return(EXIT_MALFORMED_ELF) /\ stage' = EXIT_MALFORMED_ELF
    /\ UNCHANGED <<object, summary, region, cursor>>

Stays == UNCHANGED <<vars, stage>>

HandsOver ==
    /\ Enumeration!SectionsInFile(Asked)
    /\ stage' \notin {"stripped", EXIT_MALFORMED_ELF}
    /\ stage' = "regions" => pc = "entry"
    /\ UNCHANGED vars

LEMMA SectionStep ==
    ASSUME RInv, ClassifyStripped \/ AnnotateRegions \/ AnnotateGadgets
    PROVE  Refuses \/ HandsOver
  <1>1. object \in Objects
    BY DEF RInv, IInv, TypeOK
  <1>2. CASE ClassifyStripped
    <2> DEFINE symbols == {i \in Entries : Table.table[i].type = "symtab"}
               readable == Table.count = 0 \/
                             /\ TableReadable
                             /\ \A i \in Entries : (\A j \in symbols : i <= j) => HeaderAt(i)
               next == IF object.command = "analyze" THEN "regions" ELSE "scan"
    <2>1. PassSections("stripped", next, readable)
      BY <1>2 DEF ClassifyStripped
    <2>2. readable <=> Enumeration!SectionsInFile(Asked)
      BY <1>1, StrippedExact
    <2>3. next \in {"regions", "scan"}
      OBVIOUS
    <2> HIDE DEF readable, next
    <2>4. stage = "stripped" /\ pc = "entry"
      BY <2>1 DEF PassSections, RInv, EInv
    <2> QED BY <2>1, <2>2, <2>3, <2>4
            DEF PassSections, Refuses, HandsOver, vars, EXIT_MALFORMED_ELF
  <1>3. CASE AnnotateRegions \/ AnnotateGadgets
    <2>1. PICK now \in {"regions", "labels"}, next \in {"scan", "summary"} :
             PassSections(now, next, SetupAccepts)
      BY <1>3 DEF AnnotateRegions, AnnotateGadgets
    <2>2. Enumeration!SectionsInFile(Asked)
      BY <2>1 DEF PassSections, RInv, EInv, EXIT_MALFORMED_ELF
    <2>3. SetupAccepts
      BY <1>1, <2>2, SetupSucceeds
    <2> QED BY <2>1, <2>2, <2>3 DEF PassSections, HandsOver, vars, EXIT_MALFORMED_ELF
  <1> QED BY <1>2, <1>3

LEMMA StepShape ==
    ASSUME RInv, [ReportStep \/ Ended]_reportVars
    PROVE  Scans \/ Refuses \/ Stays \/ HandsOver
  <1>1. CASE UNCHANGED reportVars
    BY <1>1 DEF reportVars, allVars, Stays
  <1>2. CASE Ended
    BY <1>2 DEF Ended, reportVars, allVars, Stays
  <1>3. CASE PrintJson \/ PrintText
    <2>1. /\ stage = "complete" /\ stage' = "printed" /\ UNCHANGED vars
      BY <1>3 DEF PrintJson, PrintText, Emit
    <2> QED BY <2>1 DEF RInv, EInv, HandsOver, EXIT_MALFORMED_ELF
  <1>4. CASE ClassifyStripped \/ AnnotateRegions \/ AnnotateGadgets
    BY <1>4, SectionStep
  <1>5. CASE ScanStep
    BY <1>5 DEF ScanStep, Scans
  <1>6. CASE MatchPatterns \/ Classify \/ GatherEvidence \/ MapToRegions
             \/ RecordMemory \/ RecordEffects \/ AssignRoles \/ ApplyScores \/ MarkComplete
    <2>1. /\ stage \in {"scan", "classify", "evidence", "mapping", "memory", "effect", "role", "scoring", "summary"}
          /\ stage' \in {"classify", "evidence", "mapping", "memory", "effect", "role", "scoring", "labels",
                         "complete", EXIT_BOUNDS}
          /\ UNCHANGED vars
      BY <1>6 DEF MatchPatterns, Classify, GatherEvidence, MapToRegions, RecordMemory, RecordEffects,
                  AssignRoles, ApplyScores, MarkComplete, Pass
    <2> QED BY <2>1 DEF RInv, EInv, HandsOver, EXIT_MALFORMED_ELF, EXIT_BOUNDS
  <1> QED BY <1>1, <1>2, <1>3, <1>4, <1>5, <1>6 DEF ReportStep, LabelStep, AnalysisStep

-----------------------------------------------------------------------------
(* The invariant of the commands.                                          *)

LEMMA RefusesIInv == ASSUME RInv, Refuses PROVE IInv'
  <1>1. /\ UNCHANGED <<object, capacity, records, retCount, retImmCount, region, cursor>>
        /\ pc' = "done" /\ status' = EXIT_MALFORMED_ELF /\ pc = "entry"
    BY DEF Refuses, Return, summary
  <1>2. records = <<>> /\ Len(records) = 0
    BY <1>1 DEF RInv, IInv, NothingBeforeEntry
  <1>3. TypeOK'
    BY <1>1 DEF RInv, IInv, TypeOK
  <1>4. ScanPosition' /\ WindowsInsideRegion' /\ StoredInOrder' /\ NothingBeforeEntry'
    BY <1>1 DEF RInv, IInv, ScanPosition, WindowsInsideRegion, StoredInOrder, NothingBeforeEntry
  <1>5. RecordsBehind'
    BY <1>1, <1>2 DEF RecordsBehind
  <1>6. TableBounded'
    BY <1>1, <1>2 DEF RInv, IInv, TypeOK, TableBounded
  <1> QED BY <1>3, <1>4, <1>5, <1>6 DEF IInv

LEMMA ReportKeeps == RInv /\ [ReportStep \/ Ended]_reportVars => RInv'
  <1> SUFFICES ASSUME RInv, [ReportStep \/ Ended]_reportVars PROVE RInv'
    OBVIOUS
  <1>1. CASE Scans
    <2>1. IInv'
      BY <1>1, NextIInv DEF Scans, RInv, Next
    <2>2. object' = object /\ Enumeration!SectionsInFile(Asked)
      BY <1>1 DEF Scans, Step, RejectDepth, BeginScan, RegionsDone, RejectRegion, SkipEmptyRegion,
                  EnterRegion, LeaveRegion, AdvanceByte, StoreCandidate, CapacityExceeded,
                  RInv, EInv, EXIT_MALFORMED_ELF
    <2>3. Enumeration!SectionsInFile(Asked)'
      BY <2>2, AskedKept
    <2>4. pc' # "entry" /\ (pc' \in {"region", "byte"} => Collected')
      <3>1. CASE RejectDepth \/ RegionsDone \/ RejectRegion \/ CapacityExceeded
        BY <3>1 DEF RejectDepth, RegionsDone, RejectRegion, CapacityExceeded, Return
      <3>2. CASE BeginScan
        BY <2>2, <3>2, BeginCollects DEF BeginScan
      <3>3. CASE SkipEmptyRegion \/ LeaveRegion
        <4>1. pc' = "region"
          BY <3>3 DEF SkipEmptyRegion, LeaveRegion
        <4> QED BY <3>3, <4>1, RegionCollects
      <3>4. CASE EnterRegion
        BY <3>4, EnterCollects DEF EnterRegion
      <3>5. CASE AdvanceByte \/ StoreCandidate
        <4>1. pc' = "byte"
          BY <3>5 DEF AdvanceByte, StoreCandidate
        <4> QED BY <3>5, <4>1, ByteCollects
      <3> QED BY <1>1, <3>1, <3>2, <3>3, <3>4, <3>5 DEF Scans, Step
    <2>5. stage' = "scan"
      BY <1>1 DEF Scans
    <2> QED BY <2>1, <2>3, <2>4, <2>5 DEF RInv, EInv
  <1>2. CASE Refuses
    <2>1. pc' = "done" /\ stage' = EXIT_MALFORMED_ELF
      BY <1>2 DEF Refuses, Return
    <2> QED BY <1>2, <2>1, RefusesIInv DEF RInv, EInv, EXIT_MALFORMED_ELF
  <1>3. ASSUME UNCHANGED vars PROVE /\ IInv'
                                    /\ pc' = "entry" => capacity' = object'.capacity
                                    /\ pc' \in {"region", "byte"} => Collected'
                                    /\ Enumeration!SectionsInFile(Asked)' = Enumeration!SectionsInFile(Asked)
                                    /\ pc' = pc
    <2>1. IInv'
      BY <1>3, NextIInv DEF RInv
    <2>2. /\ object' = object /\ capacity' = capacity /\ records' = records
          /\ region' = region /\ cursor' = cursor /\ pc' = pc
      BY <1>3 DEF vars, summary
    <2>3. Found' = Found /\ Before(region, cursor)' = Before(region, cursor)
      BY <2>2, AskedKept DEF Found, Before
    <2>4. ASSUME Collected PROVE Collected'
      <3>1. Enumeration!CandidatesUpTo(Asked, region - 1)' = Enumeration!CandidatesUpTo(Asked, region - 1)
        BY <2>2, AskedKept
      <3>2. Enumeration!SectionsInFile(Asked)' /\ Enumeration!DepthAccepted(Asked)' /\ capacity' = Asked'.capacity
        BY <2>2, <2>4, AskedKept DEF Collected
      <3>3. \A i \in 1 .. region' - 1 : Enumeration!InFile(Asked, object.regions[i])'
        BY <2>2, <2>4, AskedKept DEF Collected
      <3>4. Found' = Enumeration!CandidatesUpTo(Asked, region - 1)'
                       \cup (IF pc' = "byte" THEN Before(region, cursor)' ELSE {})
        BY <2>2, <2>3, <2>4, <3>1 DEF Collected
      <3> QED BY <3>2, <3>3, <3>4 DEF Collected
    <2> QED BY <2>1, <2>2, <2>4, AskedKept DEF RInv, EInv
  <1>4. CASE Stays
    BY <1>3, <1>4 DEF Stays, RInv, EInv
  <1>5. CASE HandsOver
    BY <1>3, <1>5 DEF HandsOver, RInv, EInv
  <1> QED BY <1>1, <1>2, <1>4, <1>5, StepShape

LEMMA ReportStarts == ReportInit => RInv
  <1> SUFFICES ASSUME ReportInit PROVE RInv
    OBVIOUS
  <1>1. Init /\ stage = "stripped"
    BY DEF ReportInit, FactsInit
  <1> QED BY <1>1, InitIInv DEF RInv, EInv, Init, EXIT_MALFORMED_ELF

(***************************************************************************)
(* The inductive invariant of the commands: that of the scan, and that the *)
(* table holds, at every point of it, the candidates of the regions        *)
(* already left and of the bytes already passed.                           *)
(***************************************************************************)
THEOREM CommandsInvariant == ReportSpec => []RInv
  BY ReportStarts, ReportKeeps, PTL DEF ReportSpec

(***************************************************************************)
(* Under both commands, whatever the section table and the later passes    *)
(* do, the window of every candidate stays inside its region and the file. *)
(***************************************************************************)
THEOREM CommandsKeepWindows == ReportSpec => []WindowsInsideRegion
  <1>1. RInv => WindowsInsideRegion
    BY DEF RInv, IInv
  <1> QED BY <1>1, CommandsInvariant, PTL

(***************************************************************************)
(* Under both commands the candidates are stored once each, in the order   *)
(* of the object.                                                          *)
(***************************************************************************)
THEOREM CommandsKeepOrder == ReportSpec => []StoredInOrder
  <1>1. RInv => StoredInOrder
    BY DEF RInv, IInv
  <1> QED BY <1>1, CommandsInvariant, PTL
-----------------------------------------------------------------------------
(* The commands implement the enumeration.                                 *)

Refused(why) == [status |-> why, found |-> {}, count |-> 0]

\* The answer, one case at a time.
LEMMA AnswerSections ==
    ASSUME ~Enumeration!SectionsInFile(Asked)
    PROVE  Enumeration!Answer(Asked) = Refused(EXIT_MALFORMED_ELF)
  BY DEF Enumeration!Answer, Refused, EXIT_MALFORMED_ELF

LEMMA AnswerDepth ==
    ASSUME Enumeration!SectionsInFile(Asked), ~Enumeration!DepthAccepted(Asked)
    PROVE  Enumeration!Answer(Asked) = Refused(EXIT_UNSUPPORTED)
  BY DEF Enumeration!Answer, Refused, EXIT_UNSUPPORTED

LEMMA AnswerScan ==
    ASSUME Enumeration!SectionsInFile(Asked), Enumeration!DepthAccepted(Asked), NEW trusted, NEW found,
           trusted = Enumeration!TrustedRegions(Asked),
           found = Enumeration!CandidatesUpTo(Asked, trusted)
    PROVE  /\ Cardinality(found) > Asked.capacity =>
                 Enumeration!Answer(Asked) = Refused(EXIT_UNSUPPORTED)
           /\ ~(Cardinality(found) > Asked.capacity) =>
                 Enumeration!Answer(Asked) =
                    IF trusted < Len(Asked.regions) THEN Refused(EXIT_MALFORMED_ELF)
                    ELSE [status |-> EXIT_OK, found |-> found, count |-> Cardinality(found)]
  <1>1. Enumeration!Cardinality(found) = Cardinality(found)
    BY SameCardinality
  <1>2. Enumeration!Answer(Asked) =
          IF Enumeration!Cardinality(found) > Asked.capacity THEN Refused(EXIT_UNSUPPORTED)
          ELSE IF trusted < Len(Asked.regions) THEN Refused(EXIT_MALFORMED_ELF)
          ELSE [status |-> EXIT_OK, found |-> found, count |-> Enumeration!Cardinality(found)]
    BY DEF Enumeration!Answer, Refused, EXIT_UNSUPPORTED, EXIT_MALFORMED_ELF, EXIT_OK
  <1> QED BY <1>1, <1>2

\* What a caller waiting for the answer sees of a return.
LEMMA ReturnAnswers ==
    ASSUME object' = object, pc # "done", pc' = "done", Outcome' = Enumeration!Answer(Asked)
    PROVE  Enumeration!Next
  <1>1. Outcome = Enumeration!Pending
    BY DEF Outcome, Enumeration!Pending
  <1>2. Asked' = Asked
    BY AskedKept
  <1> QED BY <1>1, <1>2 DEF Enumeration!Next, Enumeration!Enumerate

LEMMA RefusedOutcome ==
    ASSUME pc' = "done", status' \in {EXIT_MALFORMED_ELF, EXIT_UNSUPPORTED}
    PROVE  Outcome' = Refused(status')
  BY DEF Outcome, Refused, EXIT_MALFORMED_ELF, EXIT_UNSUPPORTED, EXIT_OK

LEMMA DepthAnswers ==
    ASSUME RInv, Enumeration!SectionsInFile(Asked), RejectDepth PROVE Enumeration!Next
  <1>1. /\ object' = object /\ pc = "entry" /\ pc' = "done" /\ status' = EXIT_UNSUPPORTED
        /\ object.depth = 0 \/ object.depth > DepthLimit
        /\ object \in Objects
    BY DEF RejectDepth, Return, RInv, IInv, TypeOK
  <1>2. Enumeration!Answer(Asked) = Refused(EXIT_UNSUPPORTED)
    BY <1>1, DepthExact, AnswerDepth
  <1> QED BY <1>1, <1>2, RefusedOutcome, ReturnAnswers

LEMMA RegionsAnswer ==
    ASSUME RInv, RegionsDone \/ RejectRegion PROVE Enumeration!Next
  <1> DEFINE trusted == Enumeration!TrustedRegions(Asked)
             found == Enumeration!CandidatesUpTo(Asked, trusted)
  <1>1. /\ object' = object /\ records' = records /\ pc = "region" /\ pc' = "done"
        /\ Collected /\ object \in Objects /\ region \in 1 .. Len(object.regions) + 1
    BY DEF RegionsDone, RejectRegion, Return, summary, RInv, EInv, IInv, TypeOK
  <1>2. /\ region - 1 \in 0 .. Len(object.regions)
        /\ \A i \in 1 .. region - 1 : Enumeration!InFile(Asked, object.regions[i])
        /\ Found = Enumeration!CandidatesUpTo(Asked, region - 1)
    BY <1>1, ObjectTyped DEF Collected
  <1>3. trusted = region - 1
    <2> DEFINE n == region - 1
    <2>1. trusted \in n .. Len(object.regions) /\ Len(object.regions) \in Nat /\ n + 1 = region /\ n \in Nat
      BY <1>1, <1>2, ObjectTyped, TrustedBounds
    <2>2. CASE RegionsDone
      BY <2>1, <2>2, <1>1 DEF RegionsDone
    <2>3. CASE RejectRegion
      <3>1. region <= Len(object.regions) /\ ~RegionInFile /\ region \in 1 .. Len(object.regions)
        BY <2>3, <1>1, <2>1 DEF RejectRegion
      <3>2. ~Enumeration!InFile(Asked, object.regions[n + 1])
        BY <1>1, <2>1, <3>1, RegionInFileExact
      <3>3. n < Len(object.regions)
        BY <2>1, <3>1
      <3> QED BY <1>1, <1>2, <3>2, <3>3, TrustedBounds
    <2> QED BY <2>2, <2>3
  <1>4. found = Found /\ Cardinality(found) = Len(records) /\ Len(records) <= capacity
        /\ capacity = Asked.capacity
    BY <1>1, <1>2, <1>3, FoundCounted DEF Collected, RInv, IInv, TableBounded
  <1>5. ~(Cardinality(found) > Asked.capacity)
    <2>1. Len(records) \in Nat /\ capacity \in Nat
      BY DEF RInv, IInv, TypeOK
    <2> QED BY <1>4, <2>1
  <1> HIDE DEF trusted, found
  <1>6. Enumeration!Answer(Asked) =
          IF trusted < Len(Asked.regions) THEN Refused(EXIT_MALFORMED_ELF)
          ELSE [status |-> EXIT_OK, found |-> found, count |-> Cardinality(found)]
    BY <1>1, <1>5, AnswerScan DEF Collected, trusted, found
  <1>7. Asked.regions = object.regions /\ Len(object.regions) \in Nat
    BY <1>1, AskedFields, ObjectTyped
  <1>8. CASE RegionsDone
    <2>1. status' = EXIT_OK /\ region > Len(object.regions)
      BY <1>8 DEF RegionsDone, Return
    <2>2. ~(trusted < Len(Asked.regions))
      BY <1>1, <1>3, <1>7, <2>1
    <2>3. Outcome' = [status |-> EXIT_OK, found |-> Found, count |-> Len(records)]
      BY <1>1, <2>1 DEF Outcome, Found
    <2> QED BY <1>1, <1>4, <1>6, <2>2, <2>3, ReturnAnswers
  <1>9. CASE RejectRegion
    <2>1. status' = EXIT_MALFORMED_ELF /\ region <= Len(object.regions)
      BY <1>9 DEF RejectRegion, Return
    <2>2. trusted < Len(Asked.regions)
      BY <1>1, <1>3, <1>7, <2>1
    <2> QED BY <1>1, <1>6, <2>1, <2>2, RefusedOutcome, ReturnAnswers
  <1> QED BY <1>8, <1>9

\* The table is full and there is one more: there are more candidates than places.
LEMMA CapacityAnswers ==
    ASSUME RInv, CapacityExceeded PROVE Enumeration!Next
  <1> DEFINE trusted == Enumeration!TrustedRegions(Asked)
             found == Enumeration!CandidatesUpTo(Asked, trusted)
             more == Enumeration!Candidate(Asked, region, cursor)
  <1>1. /\ object' = object /\ pc = "byte" /\ pc' = "done" /\ status' = EXIT_UNSUPPORTED
        /\ cursor < RegionEnd /\ AtTerminator /\ ~(Len(records) < capacity)
        /\ Collected /\ object \in Objects /\ cursor \in Word /\ records \in Seq(Record)
        /\ capacity \in Nat /\ Len(records) <= capacity
    BY DEF CapacityExceeded, Return, summary, RInv, EInv, IInv, TypeOK, TableBounded
  <1>2. /\ region \in 1 .. Len(object.regions) /\ RegionInFile
        /\ Current.fileOffset <= cursor /\ Current = object.regions[region]
    BY <1>1, ObjectTyped DEF RInv, IInv, TypeOK, ScanPosition, RegionStart, Current
  <1>3. RegionEnd = object.regions[region].fileOffset + object.regions[region].filesz
    BY <1>1, <1>2, RegionBounds DEF RInv, IInv
  <1>4. object.regions[region] \in Region
    BY <1>2, CurrentTyped DEF RInv, IInv
  <1>5. \A i \in 1 .. region : Enumeration!InFile(Asked, object.regions[i])
    <2>1. Enumeration!InFile(Asked, object.regions[region])
      BY <1>1, <1>2, RegionInFileExact
    <2> SUFFICES ASSUME NEW i \in 1 .. region PROVE Enumeration!InFile(Asked, object.regions[i])
      OBVIOUS
    <2>2. i \in 1 .. region - 1 \/ i = region
      BY <1>1, <1>2, ObjectTyped
    <2> QED BY <1>1, <2>1, <2>2 DEF Collected
  <1>6. trusted \in region .. Len(object.regions)
    <2>1. region \in 0 .. Len(object.regions)
      BY <1>2
    <2> QED BY <1>1, <1>5, <2>1, TrustedBounds
  <1>7. Enumeration!IsTerminator(Asked, object.regions[region], cursor) /\ more = FoundRecord
    BY <1>1, <1>2, ByteExact DEF RInv
  <1>8. more \notin Found
    <2> SUFFICES ASSUME NEW k \in 1 .. Len(records), records[k] = FoundRecord PROVE FALSE
      BY <1>7 DEF Found
    <2>1. FoundRecord.region = region /\ FoundRecord.fileOffset = cursor
      BY DEF FoundRecord
    <2>2. Behind(records[k])
      BY DEF RInv, IInv, RecordsBehind
    <2>3. cursor \in Int /\ region \in Int
      BY <1>1, <1>2, WordMaxAssumption DEF Word
    <2> QED BY <1>1, <2>1, <2>2, <2>3 DEF Behind
  <1>9. Found \cup {more} \subseteq Enumeration!CandidatesUpTo(Asked, region)
    <2> DEFINE end == object.regions[region].fileOffset + object.regions[region].filesz
    <2>1. Enumeration!CandidatesUpTo(Asked, region)
            = Enumeration!CandidatesUpTo(Asked, region - 1) \cup Before(region, end)
      BY <1>1, <1>2, CandidatesNext, RegionCandidates
    <2>2. Found = Enumeration!CandidatesUpTo(Asked, region - 1) \cup Before(region, cursor)
      BY <1>1 DEF Collected
    <2>3. Before(region, cursor) \cup {more} \subseteq Before(region, end)
      <3> DEFINE start == object.regions[region].fileOffset
      <3>1. start \in Int /\ end \in Int /\ cursor \in Int /\ start <= cursor /\ cursor < end
        BY <1>1, <1>2, <1>3, <1>4, WordMaxAssumption DEF Region, Word
      <3> HIDE DEF start, end, more
      <3>2. (start .. cursor - 1) \cup {cursor} \subseteq start .. end - 1
        BY <3>1
      <3> QED BY <1>7, <3>2 DEF Before, start, more
    <2> HIDE DEF more, end
    <2> QED BY <2>1, <2>2, <2>3
  <1>10. Enumeration!CandidatesUpTo(Asked, region) \subseteq found
    <2>1. 1 .. region \subseteq 1 .. trusted
      BY <1>2, <1>6
    <2> HIDE DEF trusted
    <2> QED BY <2>1 DEF Enumeration!CandidatesUpTo
  <1>11. IsFiniteSet(found)
    <2>1. trusted \in 0 .. Len(object.regions)
      BY <1>2, <1>6
    <2> QED BY <1>1, <2>1, CandidatesFinite
  <1> HIDE DEF found, more, trusted
  <1>12. Cardinality(found) > Asked.capacity
    <2>1. IsFiniteSet(Found) /\ Cardinality(Found) = Len(records) /\ Len(records) \in Nat
      BY <1>1, FoundCounted DEF RInv
    <2>2. Cardinality(Found \cup {more}) = Len(records) + 1
      BY <1>8, <2>1, FS_AddElement
    <2>3. Found \cup {more} \in SUBSET found
      BY <1>9, <1>10
    <2>4. Cardinality(Found \cup {more}) <= Cardinality(found) /\ Cardinality(found) \in Nat
      BY <1>11, <2>3, FS_Subset, FS_CardinalityType
    <2>5. capacity = Asked.capacity
      BY <1>1 DEF Collected
    <2> QED BY <1>1, <2>1, <2>2, <2>4, <2>5
  <1>13. Enumeration!Answer(Asked) = Refused(EXIT_UNSUPPORTED)
    BY <1>1, <1>12, AnswerScan DEF Collected, trusted, found
  <1> QED BY <1>1, <1>13, RefusedOutcome, ReturnAnswers

LEMMA CommandsStep ==
    RInv /\ [ReportStep \/ Ended]_reportVars => [Enumeration!Next]_Enumeration!vars
  <1> SUFFICES ASSUME RInv, [ReportStep \/ Ended]_reportVars
               PROVE  Enumeration!Next \/ (Asked' = Asked /\ Outcome' = Outcome)
    BY DEF Enumeration!vars
  <1>1. CASE Scans
    <2>1. Enumeration!SectionsInFile(Asked)
      BY <1>1 DEF Scans, RInv, EInv, EXIT_MALFORMED_ELF
    <2>2. CASE RejectDepth
      BY <2>1, <2>2, DepthAnswers
    <2>3. CASE RegionsDone \/ RejectRegion
      BY <2>3, RegionsAnswer
    <2>4. CASE CapacityExceeded
      BY <2>4, CapacityAnswers
    <2>5. CASE BeginScan \/ SkipEmptyRegion \/ EnterRegion \/ LeaveRegion \/ AdvanceByte \/ StoreCandidate
      <3>1. object' = object /\ pc # "done" /\ pc' # "done"
        BY <2>5 DEF BeginScan, SkipEmptyRegion, EnterRegion, LeaveRegion, AdvanceByte, StoreCandidate
      <3> QED BY <3>1, AskedKept DEF Outcome
    <2> QED BY <1>1, <2>2, <2>3, <2>4, <2>5 DEF Scans, Step
  <1>2. CASE Refuses
    <2>1. /\ object' = object /\ pc = "entry" /\ pc' = "done" /\ status' = EXIT_MALFORMED_ELF
      BY <1>2 DEF Refuses, Return
    <2>2. Enumeration!Answer(Asked) = Refused(EXIT_MALFORMED_ELF)
      BY <1>2, AnswerSections DEF Refuses
    <2> QED BY <2>1, <2>2, RefusedOutcome, ReturnAnswers
  <1>3. CASE UNCHANGED vars
    <2>1. object' = object /\ pc' = pc /\ status' = status /\ records' = records
      BY <1>3 DEF vars, summary
    <2> QED BY <2>1, AskedKept DEF Outcome, Found
  <1> QED BY <1>1, <1>2, <1>3, StepShape DEF Stays, HandsOver

LEMMA CommandsStart == ReportInit => Enumeration!Init
  BY DEF ReportInit, FactsInit, Init, Enumeration!Init, Enumeration!Pending, Outcome

(***************************************************************************)
(* The commands implement the enumeration: whoever waits for the answer    *)
(* sees, in one step, either every candidate of every region, each counted *)
(* once, or nothing and the reason the enumeration gives.  That the answer *)
(* comes is for the model checker.                                         *)
(***************************************************************************)
THEOREM CommandsEnumerate == ReportSpec => Enumeration!SafeSpec
  BY CommandsStart, CommandsStep, CommandsInvariant, PTL DEF ReportSpec, Enumeration!SafeSpec

-----------------------------------------------------------------------------
(* The meaning of up to three instructions, one after the other.           *)

\* The function FoldLeft chooses, which has its values because there is one.
Folded(s) ==
    CHOOSE f : f = [T \in SUBSET DOMAIN s |->
                      IF T = {} THEN Machine ELSE Executes(f[T \ {Max(T)}], s[Max(T)])]

LEMMA FoldIs == ASSUME NEW s PROVE FoldLeft(Executes, Machine, s) = Folded(s)[DOMAIN s]
  BY DEF FoldLeft, MapThenFoldSet, Folded

LEMMA LargestOf ==
    ASSUME NEW T \in SUBSET (1 .. 3), T # {}
    PROVE  Max(T) = IF 3 \in T THEN 3 ELSE IF 2 \in T THEN 2 ELSE 1
  <1>1. PICK x \in T : \A y \in T : x >= y
    <2>1. PICK y \in T : y \in 1 .. 3
      OBVIOUS
    <2>2. CASE 3 \in T
      BY <2>2
    <2>3. CASE 3 \notin T /\ 2 \in T
      BY <2>3
    <2>4. CASE 3 \notin T /\ 2 \notin T
      BY <2>1, <2>4
    <2> QED BY <2>2, <2>3, <2>4
  <1>2. Max(T) \in T /\ \A y \in T : Max(T) >= y
    BY <1>1 DEF Max
  <1> DEFINE m == Max(T)
  <1>3. m \in T /\ m \in 1 .. 3 /\ \A y \in T : m >= y
    BY <1>2
  <1> HIDE DEF m
  <1>4. m = 1 \/ m = 2 \/ m = 3
    BY <1>3
  <1>5. m = IF 3 \in T THEN 3 ELSE IF 2 \in T THEN 2 ELSE 1
    BY <1>3, <1>4
  <1> QED BY <1>5 DEF m

\* The fold takes its last element last.
LEMMA FoldSteps ==
    ASSUME NEW s, DOMAIN s \subseteq 1 .. 3
    PROVE  Folded(s) = [T \in SUBSET DOMAIN s |->
                          IF T = {} THEN Machine ELSE Executes(Folded(s)[T \ {Max(T)}], s[Max(T)])]
  <1> DEFINE D == DOMAIN s
             F1(T) == IF 1 \in T THEN Executes(Machine, s[1]) ELSE Machine
             F2(T) == IF 2 \in T THEN Executes(F1(T), s[2]) ELSE F1(T)
             F3(T) == IF 3 \in T THEN Executes(F2(T), s[3]) ELSE F2(T)
             f == [T \in SUBSET D |-> F3(T)]
             At(T) == IF T = {} THEN Machine ELSE Executes(f[T \ {Max(T)}], s[Max(T)])
  <1>1. ASSUME NEW T \in SUBSET D PROVE F3(T) = At(T)
    <2>1. CASE T = {}
      BY <2>1
    <2>2. CASE T # {}
      <3>1. Max(T) = IF 3 \in T THEN 3 ELSE IF 2 \in T THEN 2 ELSE 1
        BY <2>2, LargestOf
      <3>2. T \ {Max(T)} \in SUBSET D
        OBVIOUS
      <3>3. f[T \ {Max(T)}] = F3(T \ {Max(T)})
        BY <3>2
      <3>4. CASE 3 \in T
        <4>1. F2(T \ {3}) = F2(T) /\ F3(T \ {3}) = F2(T \ {3})
          OBVIOUS
        <4>2. Max(T) = 3
          BY <3>1, <3>4
        <4> QED BY <2>2, <3>3, <3>4, <4>1, <4>2
      <3>5. CASE 3 \notin T /\ 2 \in T
        <4>1. F1(T \ {2}) = F1(T) /\ F3(T \ {2}) = F1(T \ {2})
          BY <3>5
        <4>2. Max(T) = 2
          BY <3>1, <3>5
        <4>3. F3(T) = Executes(F1(T), s[2])
          BY <3>5
        <4> QED BY <2>2, <3>3, <3>5, <4>1, <4>2, <4>3
      <3>6. CASE 3 \notin T /\ 2 \notin T
        <4>1. 1 \in T
          BY <2>2, <3>6
        <4>2. F3(T \ {1}) = Machine /\ F3(T) = Executes(Machine, s[1])
          BY <3>6, <4>1
        <4>3. Max(T) = 1
          BY <3>1, <3>6
        <4> QED BY <2>2, <3>3, <4>2, <4>3
      <3> QED BY <3>4, <3>5, <3>6
    <2> QED BY <2>1, <2>2
  <1> HIDE DEF F3
  <1>2. f = [T \in SUBSET D |-> At(T)]
    BY <1>1, Zenon
  <1> HIDE DEF f
  <1>3. \E g : g = [T \in SUBSET D |-> IF T = {} THEN Machine ELSE Executes(g[T \ {Max(T)}], s[Max(T)])]
    BY <1>2, Zenon
  <1> QED BY <1>3, Zenon DEF Folded

LEMMA FoldOne == ASSUME NEW a PROVE FoldLeft(Executes, Machine, <<a>>) = Executes(Machine, a)
  <1> DEFINE s == <<a>>
  <1>1. DOMAIN s = {1} /\ s[1] = a
    OBVIOUS
  <1> HIDE DEF s
  <1>2. DOMAIN s \subseteq 1 .. 3 /\ {} \in SUBSET DOMAIN s /\ {1} \in SUBSET DOMAIN s
    BY <1>1
  <1>3. Folded(s)[{}] = Machine
    BY <1>2, FoldSteps, Zenon
  <1>4. Max({1}) = 1
    BY LargestOf
  <1>5. {1} \ {1} = {} /\ {1} # {}
    OBVIOUS
  <1>6. Folded(s)[{1}] = Executes(Folded(s)[{1} \ {Max({1})}], s[Max({1})])
    BY <1>2, <1>5, FoldSteps, Zenon
  <1>7. Folded(s)[{1}] = Executes(Machine, a)
    BY <1>1, <1>3, <1>4, <1>5, <1>6, Zenon
  <1>8. FoldLeft(Executes, Machine, s) = Executes(Machine, a)
    BY <1>1, <1>7, FoldIs, Zenon
  <1> QED BY <1>8 DEF s

LEMMA FoldTwo ==
    ASSUME NEW a, NEW b
    PROVE  FoldLeft(Executes, Machine, <<a, b>>) = Executes(Executes(Machine, a), b)
  <1> DEFINE s == <<a, b>>
  <1>1. DOMAIN s = {1, 2} /\ s[1] = a /\ s[2] = b
    OBVIOUS
  <1> HIDE DEF s
  <1>2. /\ DOMAIN s \subseteq 1 .. 3 /\ {} \in SUBSET DOMAIN s /\ {1} \in SUBSET DOMAIN s
        /\ {1, 2} \in SUBSET DOMAIN s
    BY <1>1
  <1>3. Folded(s)[{}] = Machine
    BY <1>2, FoldSteps, Zenon
  <1>4. Max({1}) = 1 /\ Max({1, 2}) = 2
    BY LargestOf
  <1>5. {1} \ {1} = {} /\ {1} # {} /\ {1, 2} \ {2} = {1} /\ {1, 2} # {}
    OBVIOUS
  <1>6. \A T \in SUBSET DOMAIN s :
           T # {} => Folded(s)[T] = Executes(Folded(s)[T \ {Max(T)}], s[Max(T)])
    BY <1>2, FoldSteps, Zenon
  <1>7. /\ Folded(s)[{1}] = Executes(Folded(s)[{1} \ {Max({1})}], s[Max({1})])
        /\ Folded(s)[{1, 2}] = Executes(Folded(s)[{1, 2} \ {Max({1, 2})}], s[Max({1, 2})])
    BY <1>2, <1>5, <1>6, Zenon
  <1>8. Folded(s)[{1, 2}] = Executes(Executes(Machine, a), b)
    BY <1>1, <1>3, <1>4, <1>5, <1>7, Zenon
  <1>9. FoldLeft(Executes, Machine, s) = Executes(Executes(Machine, a), b)
    BY <1>1, <1>8, FoldIs, Zenon
  <1> QED BY <1>9 DEF s

LEMMA FoldThree ==
    ASSUME NEW s
    PROVE  DOMAIN s = {1, 2, 3} =>
             FoldLeft(Executes, Machine, s) = Executes(Executes(Executes(Machine, s[1]), s[2]), s[3])
  <1>1. SUFFICES ASSUME DOMAIN s = {1, 2, 3}
                 PROVE  FoldLeft(Executes, Machine, s) = Executes(Executes(Executes(Machine, s[1]), s[2]), s[3])
    OBVIOUS
  <1>2. /\ DOMAIN s \subseteq 1 .. 3 /\ {} \in SUBSET DOMAIN s /\ {1} \in SUBSET DOMAIN s
        /\ {1, 2} \in SUBSET DOMAIN s /\ {1, 2, 3} \in SUBSET DOMAIN s
    BY <1>1
  <1>3. Folded(s)[{}] = Machine
    BY <1>2, FoldSteps, Zenon
  <1>4. Max({1}) = 1 /\ Max({1, 2}) = 2 /\ Max({1, 2, 3}) = 3
    BY LargestOf
  <1>5. /\ {1} \ {1} = {} /\ {1} # {} /\ {1, 2} \ {2} = {1} /\ {1, 2} # {}
        /\ {1, 2, 3} \ {3} = {1, 2} /\ {1, 2, 3} # {}
    OBVIOUS
  <1>6. \A T \in SUBSET DOMAIN s :
           T # {} => Folded(s)[T] = Executes(Folded(s)[T \ {Max(T)}], s[Max(T)])
    BY <1>2, FoldSteps, Zenon
  <1>7. /\ Folded(s)[{1}] = Executes(Folded(s)[{1} \ {Max({1})}], s[Max({1})])
        /\ Folded(s)[{1, 2}] = Executes(Folded(s)[{1, 2} \ {Max({1, 2})}], s[Max({1, 2})])
        /\ Folded(s)[{1, 2, 3}] = Executes(Folded(s)[{1, 2, 3} \ {Max({1, 2, 3})}], s[Max({1, 2, 3})])
    BY <1>2, <1>5, <1>6, Zenon
  <1>8. Folded(s)[{1, 2, 3}] = Executes(Executes(Executes(Machine, s[1]), s[2]), s[3])
    BY <1>1, <1>3, <1>4, <1>5, <1>7, Zenon
  <1> QED BY <1>1, <1>8, FoldIs, Zenon

-----------------------------------------------------------------------------
(* Registers and encodings by number.                                      *)

\* The register with number i.
Reg(i) == Registers[i + 1]

LEMMA RegisterNames ==
    /\ Reg(0) = "rax" /\ Reg(1) = "rcx" /\ Reg(2) = "rdx" /\ Reg(3) = "rbx"
    /\ Reg(4) = "rsp" /\ Reg(5) = "rbp" /\ Reg(6) = "rsi" /\ Reg(7) = "rdi"
    /\ Reg(8) = "r8" /\ Reg(9) = "r9" /\ Reg(10) = "r10" /\ Reg(11) = "r11"
    /\ Reg(12) = "r12" /\ Reg(13) = "r13" /\ Reg(14) = "r14" /\ Reg(15) = "r15"
  BY DEF Reg, Registers

LEMMA RegistersDiffer == \A i, j \in 0 .. 15 : Reg(i) = Reg(j) => i = j
  <1> SUFFICES ASSUME NEW i \in 0 .. 15, NEW j \in 0 .. 15, Reg(i) = Reg(j) PROVE i = j
    OBVIOUS
  <1>1. \/ i = 0 \/ i = 1 \/ i = 2 \/ i = 3 \/ i = 4 \/ i = 5 \/ i = 6 \/ i = 7
        \/ i = 8 \/ i = 9 \/ i = 10 \/ i = 11 \/ i = 12 \/ i = 13 \/ i = 14 \/ i = 15
    OBVIOUS
  <1>2. \/ j = 0 \/ j = 1 \/ j = 2 \/ j = 3 \/ j = 4 \/ j = 5 \/ j = 6 \/ j = 7
        \/ j = 8 \/ j = 9 \/ j = 10 \/ j = 11 \/ j = 12 \/ j = 13 \/ j = 14 \/ j = 15
    OBVIOUS
  <1> HIDE DEF Reg
  <1> QED BY <1>1, <1>2, RegisterNames

LEMMA RegisterNumber ==
    ASSUME NEW i \in 0 .. 15
    PROVE  /\ Reg(i) \in General /\ Index(Reg(i)) = i
           /\ Reg(i) = "rsp" <=> i = 4
           /\ Reg(i) = "rax" <=> i = 0
           /\ Reg(i) \in ArgumentRegisters <=> i \in {1, 2, 6, 7, 8, 9}
           /\ Reg(i) \in Movable <=> i # 4
           /\ Reg(i) \in Plain <=> i \notin {4, 5, 12, 13}
           /\ Extended(Reg(i)) <=> i >= 8
           /\ Reg(i) \notin {"none", "memory", "dynamic"}
  <1>1. Reg(i) \in General /\ i + 1 \in 1 .. 16 /\ Registers[i + 1] = Reg(i)
    BY DEF General, Reg
  <1>2. Index(Reg(i)) = i
    <2>1. i \in 0 .. 15 /\ Registers[i + 1] = Reg(i)
      BY <1>1
    <2>2. Index(Reg(i)) \in 0 .. 15 /\ Reg(Index(Reg(i))) = Reg(i)
      BY <2>1 DEF Index, Reg
    <2> QED BY <2>2, RegistersDiffer
  <1>3. \A j \in 0 .. 15 : Reg(i) = Reg(j) <=> i = j
    BY RegistersDiffer
  <1>4. /\ Reg(i) = "rsp" <=> i = 4
        /\ Reg(i) = "rax" <=> i = 0
        /\ Reg(i) = "rbp" <=> i = 5
        /\ Reg(i) = "r12" <=> i = 12
        /\ Reg(i) = "r13" <=> i = 13
    BY <1>3, RegisterNames
  <1>5. Reg(i) \in ArgumentRegisters <=> i \in {1, 2, 6, 7, 8, 9}
    <2>1. ArgumentRegisters = {Reg(1), Reg(2), Reg(6), Reg(7), Reg(8), Reg(9)}
      BY RegisterNames DEF ArgumentRegisters
    <2> QED BY <1>3, <2>1
  <1>6. Extended(Reg(i)) <=> i >= 8
    <2>1. Extended(Reg(i)) <=> \A j \in 1 .. 8 : Reg(i) # Registers[j]
      BY DEF Extended
    <2>2. (\A j \in 1 .. 8 : Reg(i) # Registers[j]) <=> (\A j \in 0 .. 7 : Reg(i) # Reg(j))
      <3>1. ASSUME \A j \in 1 .. 8 : Reg(i) # Registers[j], NEW j \in 0 .. 7 PROVE Reg(i) # Reg(j)
        BY <3>1, j + 1 \in 1 .. 8 DEF Reg
      <3>2. ASSUME \A j \in 0 .. 7 : Reg(i) # Reg(j), NEW j \in 1 .. 8 PROVE Reg(i) # Registers[j]
        <4>1. j - 1 \in 0 .. 7 /\ (j - 1) + 1 = j
          OBVIOUS
        <4> QED BY <3>2, <4>1 DEF Reg
      <3> QED BY <3>1, <3>2
    <2>3. (\A j \in 0 .. 7 : Reg(i) # Reg(j)) <=> i \notin 0 .. 7
      <3>1. \A j \in 0 .. 7 : j \in 0 .. 15
        OBVIOUS
      <3> QED BY <3>1, <1>3
    <2> QED BY <2>1, <2>2, <2>3
  <1>7. Reg(i) \notin {"none", "memory", "dynamic"}
    <2>1. \/ i = 0 \/ i = 1 \/ i = 2 \/ i = 3 \/ i = 4 \/ i = 5 \/ i = 6 \/ i = 7
          \/ i = 8 \/ i = 9 \/ i = 10 \/ i = 11 \/ i = 12 \/ i = 13 \/ i = 14 \/ i = 15
      OBVIOUS
    <2> QED BY <2>1, RegisterNames
  <1> HIDE DEF Reg
  <1> QED BY <1>1, <1>2, <1>4, <1>5, <1>6, <1>7 DEF Movable, Plain

LEMMA GeneralNumber == ASSUME NEW r \in General PROVE \E i \in 0 .. 15 : r = Reg(i)
  <1>1. PICK j \in 1 .. 16 : r = Registers[j]
    BY DEF General
  <1>2. j - 1 \in 0 .. 15 /\ (j - 1) + 1 = j
    OBVIOUS
  <1> QED BY <1>1, <1>2 DEF Reg

LEMMA RegisterIs ==
    ASSUME NEW code \in 0 .. 7, NEW extended \in BOOLEAN
    PROVE  /\ Register(code, extended) = Reg(IF extended THEN code + 8 ELSE code)
           /\ (IF extended THEN code + 8 ELSE code) \in 0 .. 15
  <1>1. CASE extended
    BY <1>1 DEF Register, Reg
  <1>2. CASE ~extended
    BY <1>2 DEF Register, Reg
  <1> QED BY <1>1, <1>2

\* The codes of CandidateFacts, with registers by number.
PopBytes(i) == IF i < 8 THEN <<88 + i>> ELSE <<65, 80 + i>>

MoveBytes(opcode, unused, mode, i, j) ==
    <<72 + 4 * (i \div 8) + 2 * unused + (j \div 8), opcode, 64 * mode + 8 * (i % 8) + (j % 8)>>

LEMMA CodesInBytes ==
    ASSUME NEW i \in 0 .. 15, NEW j \in 0 .. 15
    PROVE  /\ PopCode(Reg(i)) = PopBytes(i)
           /\ \A opcode, unused, mode :
                 MoveCode(opcode, unused, mode, Reg(i), Reg(j)) = MoveBytes(opcode, unused, mode, i, j)
  <1>1. Index(Reg(i)) = i /\ Index(Reg(j)) = j
    BY RegisterNumber
  <1>2. PopCode(Reg(i)) = PopBytes(i)
    BY <1>1 DEF PopCode, PopBytes
  <1>3. ASSUME NEW opcode, NEW unused, NEW mode
        PROVE MoveCode(opcode, unused, mode, Reg(i), Reg(j)) = MoveBytes(opcode, unused, mode, i, j)
    BY <1>1, Zenon DEF MoveCode, MoveBytes
  <1> QED BY <1>2, <1>3

\* The forms, family by family.
FixedForm(f) ==
    \/ f = Form(<<>>, <<>>)
    \/ f = Form(<<201>>, <<Instruction("leave", <<>>, 0)>>)
    \/ f = Form(<<15, 5>>, <<Instruction("syscall", <<>>, 0)>>)

PopForm(f, i) == f = Form(PopBytes(i), <<Instruction("pop", <<Reg(i)>>, 0)>>)

TwoPopForm(f, i, j) ==
    f = Form(PopBytes(i) \o PopBytes(j),
             <<Instruction("pop", <<Reg(i)>>, 0), Instruction("pop", <<Reg(j)>>, 0)>>)

AdjustForm(f, n) == f = Form(<<72, 131, 196, 8 * n>>, <<Instruction("add", <<>>, 8 * n)>>)

\* mov of j to i, in both directions and with both values of the bit that is not used.
MoveForm(f, x, i, j) ==
    \/ f = Form(MoveBytes(137, x, 3, j, i), <<Instruction("move", <<Reg(i), Reg(j)>>, 0)>>)
    \/ f = Form(MoveBytes(139, x, 3, i, j), <<Instruction("move", <<Reg(i), Reg(j)>>, 0)>>)

AccessForm(f, i, j) ==
    \/ f = Form(MoveBytes(137, 0, 0, j, i), <<Instruction("write", <<Reg(i), Reg(j)>>, 0)>>)
    \/ f = Form(MoveBytes(139, 0, 0, j, i), <<Instruction("read", <<Reg(i), Reg(j)>>, 0)>>)

\* The registers of the arguments; those a move may name; those that address memory plainly.
ArgumentNumbers == {1, 2, 6, 7, 8, 9}
MovableNumbers  == (0 .. 15) \ {4}
PlainNumbers    == (0 .. 15) \ {4, 5, 12, 13}

NumberedForm(f) ==
    \/ FixedForm(f)
    \/ \E i \in 0 .. 15 : PopForm(f, i)
    \/ \E i, j \in ArgumentNumbers : i # j /\ TwoPopForm(f, i, j)
    \/ \E n \in 1 .. 15 : AdjustForm(f, n)
    \/ \E i, j \in MovableNumbers, x \in {0, 1} : i # j /\ MoveForm(f, x, i, j)
    \/ \E i \in PlainNumbers, j \in MovableNumbers : AccessForm(f, i, j)

\* The sets of registers by number.
LEMMA NumbersOf ==
    ASSUME NEW r
    PROVE  /\ r \in ArgumentRegisters <=> \E i \in ArgumentNumbers : r = Reg(i)
           /\ r \in Movable <=> \E i \in MovableNumbers : r = Reg(i)
           /\ r \in Plain <=> \E i \in PlainNumbers : r = Reg(i)
           /\ r \in General <=> \E i \in 0 .. 15 : r = Reg(i)
  <1>1. /\ ArgumentNumbers \subseteq 0 .. 15 /\ MovableNumbers \subseteq 0 .. 15
        /\ PlainNumbers \subseteq 0 .. 15
    BY DEF ArgumentNumbers, MovableNumbers, PlainNumbers
  <1>2. r \in General <=> \E i \in 0 .. 15 : r = Reg(i)
    BY GeneralNumber, RegisterNumber
  <1>3. r \in ArgumentRegisters => r \in General
    <2>1. ArgumentRegisters = {Reg(1), Reg(2), Reg(6), Reg(7), Reg(8), Reg(9)}
      BY RegisterNames DEF ArgumentRegisters
    <2> QED BY <2>1, RegisterNumber
  <1>4. r \in Movable => r \in General
    BY DEF Movable
  <1>5. r \in Plain => r \in General
    BY DEF Plain
  <1>6. r \in ArgumentRegisters <=> \E i \in ArgumentNumbers : r = Reg(i)
    <2>1. ASSUME r \in ArgumentRegisters PROVE \E i \in ArgumentNumbers : r = Reg(i)
      <3>1. PICK i \in 0 .. 15 : r = Reg(i)
        BY <2>1, <1>2, <1>3
      <3>2. i \in ArgumentNumbers
        BY <2>1, <3>1, RegisterNumber DEF ArgumentNumbers
      <3> QED BY <3>1, <3>2
    <2>2. ASSUME NEW i \in ArgumentNumbers PROVE Reg(i) \in ArgumentRegisters
      BY <1>1, RegisterNumber DEF ArgumentNumbers
    <2> QED BY <2>1, <2>2
  <1>7. r \in Movable <=> \E i \in MovableNumbers : r = Reg(i)
    <2>1. ASSUME r \in Movable PROVE \E i \in MovableNumbers : r = Reg(i)
      <3>1. PICK i \in 0 .. 15 : r = Reg(i)
        BY <2>1, <1>2, <1>4
      <3>2. i \in MovableNumbers
        BY <2>1, <3>1, RegisterNumber DEF MovableNumbers
      <3> QED BY <3>1, <3>2
    <2>2. ASSUME NEW i \in MovableNumbers PROVE Reg(i) \in Movable
      BY <1>1, RegisterNumber DEF MovableNumbers
    <2> QED BY <2>1, <2>2
  <1>8. r \in Plain <=> \E i \in PlainNumbers : r = Reg(i)
    <2>1. ASSUME r \in Plain PROVE \E i \in PlainNumbers : r = Reg(i)
      <3>1. PICK i \in 0 .. 15 : r = Reg(i)
        BY <2>1, <1>2, <1>5
      <3>2. i \in PlainNumbers
        BY <2>1, <3>1, RegisterNumber DEF PlainNumbers
      <3> QED BY <3>1, <3>2
    <2>2. ASSUME NEW i \in PlainNumbers PROVE Reg(i) \in Plain
      BY <1>1, RegisterNumber DEF PlainNumbers
    <2> QED BY <2>1, <2>2
  <1> QED BY <1>2, <1>6, <1>7, <1>8

\* The forms are exactly the numbered ones.
LEMMA FormsByNumber == ASSUME NEW f PROVE f \in Forms <=> NumberedForm(f)
  <1> DEFINE Fixed == { Form(<<>>, <<>>),
                        Form(<<\hC9>>, <<Instruction("leave", <<>>, 0)>>),
                        Form(<<\h0F, \h05>>, <<Instruction("syscall", <<>>, 0)>>) }
             OfPop(r) == Form(PopCode(r), <<Instruction("pop", <<r>>, 0)>>)
             OfTwo(r) == Form(PopCode(r[1]) \o PopCode(r[2]),
                              <<Instruction("pop", <<r[1]>>, 0), Instruction("pop", <<r[2]>>, 0)>>)
             OfAdjust(n) == Form(<<\h48, \h83, \hC4, 8 * n>>, <<Instruction("add", <<>>, 8 * n)>>)
             Store(x, r) == Form(MoveCode(\h89, x, 3, r[2], r[1]), <<Instruction("move", r, 0)>>)
             Load(x, r)  == Form(MoveCode(\h8B, x, 3, r[1], r[2]), <<Instruction("move", r, 0)>>)
             Write(r) == Form(MoveCode(\h89, 0, 0, r[2], r[1]), <<Instruction("write", r, 0)>>)
             Read(r)  == Form(MoveCode(\h8B, 0, 0, r[2], r[1]), <<Instruction("read", r, 0)>>)
             Pairs(S) == {s \in S \X S : s[1] # s[2]}
             Moves == UNION {{Store(x, r), Load(x, r)} : r \in Pairs(Movable), x \in {0, 1}}
  <1>1. Forms = Fixed \cup {OfPop(r) : r \in General} \cup {OfTwo(r) : r \in Pairs(ArgumentRegisters)}
                  \cup {OfAdjust(n) : n \in 1 .. 15}
                  \cup Moves \cup {Write(r) : r \in Plain \X Movable} \cup {Read(r) : r \in Plain \X Movable}
    BY DEF Forms
  <1>2. f \in Fixed <=> FixedForm(f)
    BY DEF FixedForm
  <1>3. (\E r \in General : f = OfPop(r)) <=> \E i \in 0 .. 15 : PopForm(f, i)
    <2>1. ASSUME NEW i \in 0 .. 15 PROVE OfPop(Reg(i)) = Form(PopBytes(i), <<Instruction("pop", <<Reg(i)>>, 0)>>)
      BY CodesInBytes, Zenon
    <2> HIDE DEF OfPop
    <2>2. ASSUME NEW r \in General, f = OfPop(r) PROVE \E i \in 0 .. 15 : PopForm(f, i)
      <3>1. PICK i \in 0 .. 15 : r = Reg(i)
        BY GeneralNumber
      <3> QED BY <2>1, <2>2, <3>1, Zenon DEF PopForm
    <2>3. ASSUME NEW i \in 0 .. 15, PopForm(f, i) PROVE Reg(i) \in General /\ f = OfPop(Reg(i))
      BY <2>1, <2>3, RegisterNumber DEF PopForm
    <2> QED BY <2>2, <2>3, Zenon
  <1>4. (\E r \in Pairs(ArgumentRegisters) : f = OfTwo(r))
          <=> \E i, j \in ArgumentNumbers : i # j /\ TwoPopForm(f, i, j)
    <2>1. ArgumentNumbers \subseteq 0 .. 15
      BY DEF ArgumentNumbers
    <2>2. ASSUME NEW i \in 0 .. 15, NEW j \in 0 .. 15
          PROVE  TwoPopForm(f, i, j) <=> f = OfTwo(<<Reg(i), Reg(j)>>)
      <3>1. <<Reg(i), Reg(j)>>[1] = Reg(i) /\ <<Reg(i), Reg(j)>>[2] = Reg(j)
        OBVIOUS
      <3> QED BY <3>1, CodesInBytes, Zenon DEF TwoPopForm
    <2>3. \A r : r \in Pairs(ArgumentRegisters)
                   <=> \E i, j \in ArgumentNumbers : i # j /\ r = <<Reg(i), Reg(j)>>
      <3>1. ASSUME NEW i \in ArgumentNumbers, NEW j \in ArgumentNumbers, i # j
            PROVE  <<Reg(i), Reg(j)>> \in Pairs(ArgumentRegisters)
        <4>1. Reg(i) \in ArgumentRegisters /\ Reg(j) \in ArgumentRegisters
          BY NumbersOf, Zenon
        <4>2. Reg(i) # Reg(j)
          BY <2>1, <3>1, RegistersDiffer, Zenon
        <4> QED BY <4>1, <4>2
      <3>2. ASSUME NEW r \in Pairs(ArgumentRegisters)
            PROVE  \E i, j \in ArgumentNumbers : i # j /\ r = <<Reg(i), Reg(j)>>
        <4>1. r[1] \in ArgumentRegisters /\ r[2] \in ArgumentRegisters /\ r[1] # r[2] /\ r = <<r[1], r[2]>>
          OBVIOUS
        <4>2. PICK i \in ArgumentNumbers : r[1] = Reg(i)
          BY <4>1, NumbersOf
        <4>3. PICK j \in ArgumentNumbers : r[2] = Reg(j)
          BY <4>1, NumbersOf
        <4>4. i # j /\ r = <<Reg(i), Reg(j)>>
          BY <4>1, <4>2, <4>3, Zenon
        <4> QED BY <4>4
      <3> QED BY <3>1, <3>2, Zenon
    <2> HIDE DEF OfTwo, Pairs
    <2>4. ASSUME NEW r \in Pairs(ArgumentRegisters), f = OfTwo(r)
          PROVE  \E i, j \in ArgumentNumbers : i # j /\ TwoPopForm(f, i, j)
      <3>1. PICK i \in ArgumentNumbers, j \in ArgumentNumbers : i # j /\ r = <<Reg(i), Reg(j)>>
        BY <2>3, Zenon
      <3>2. TwoPopForm(f, i, j)
        BY <2>1, <2>2, <2>4, <3>1
      <3> QED BY <3>1, <3>2
    <2>5. ASSUME NEW i \in ArgumentNumbers, NEW j \in ArgumentNumbers, i # j, TwoPopForm(f, i, j)
          PROVE  \E r \in Pairs(ArgumentRegisters) : f = OfTwo(r)
      <3>1. <<Reg(i), Reg(j)>> \in Pairs(ArgumentRegisters)
        BY <2>3, <2>5, Zenon
      <3>2. f = OfTwo(<<Reg(i), Reg(j)>>)
        BY <2>1, <2>2, <2>5
      <3> QED BY <3>1, <3>2, Zenon
    <2> QED BY <2>4, <2>5, Zenon
  <1>5. (\E n \in 1 .. 15 : f = OfAdjust(n)) <=> \E n \in 1 .. 15 : AdjustForm(f, n)
    BY DEF AdjustForm
  <1>6. (\E r \in Pairs(Movable), x \in {0, 1} : f = Store(x, r) \/ f = Load(x, r))
          <=> \E i, j \in MovableNumbers, x \in {0, 1} : i # j /\ MoveForm(f, x, i, j)
    <2>1. MovableNumbers \subseteq 0 .. 15
      BY DEF MovableNumbers
    <2>2. ASSUME NEW i \in 0 .. 15, NEW j \in 0 .. 15, NEW x
          PROVE  MoveForm(f, x, i, j) <=> f = Store(x, <<Reg(i), Reg(j)>>) \/ f = Load(x, <<Reg(i), Reg(j)>>)
      <3>1. <<Reg(i), Reg(j)>>[1] = Reg(i) /\ <<Reg(i), Reg(j)>>[2] = Reg(j)
        OBVIOUS
      <3>2. /\ MoveCode(\h89, x, 3, Reg(j), Reg(i)) = MoveBytes(137, x, 3, j, i)
            /\ MoveCode(\h8B, x, 3, Reg(i), Reg(j)) = MoveBytes(139, x, 3, i, j)
        <4>1. \h89 = 137 /\ \h8B = 139
          OBVIOUS
        <4> QED BY <4>1, CodesInBytes
      <3> QED BY <3>1, <3>2, Zenon DEF MoveForm
    <2>3. \A r : r \in Pairs(Movable)
                   <=> \E i, j \in MovableNumbers : i # j /\ r = <<Reg(i), Reg(j)>>
      <3>1. ASSUME NEW i \in MovableNumbers, NEW j \in MovableNumbers, i # j
            PROVE  <<Reg(i), Reg(j)>> \in Pairs(Movable)
        <4>1. Reg(i) \in Movable /\ Reg(j) \in Movable
          BY NumbersOf, Zenon
        <4>2. Reg(i) # Reg(j)
          BY <2>1, <3>1, RegistersDiffer, Zenon
        <4> QED BY <4>1, <4>2
      <3>2. ASSUME NEW r \in Pairs(Movable)
            PROVE  \E i, j \in MovableNumbers : i # j /\ r = <<Reg(i), Reg(j)>>
        <4>1. r[1] \in Movable /\ r[2] \in Movable /\ r[1] # r[2] /\ r = <<r[1], r[2]>>
          OBVIOUS
        <4>2. PICK i \in MovableNumbers : r[1] = Reg(i)
          BY <4>1, NumbersOf
        <4>3. PICK j \in MovableNumbers : r[2] = Reg(j)
          BY <4>1, NumbersOf
        <4>4. i # j /\ r = <<Reg(i), Reg(j)>>
          BY <4>1, <4>2, <4>3, Zenon
        <4> QED BY <4>4
      <3> QED BY <3>1, <3>2, Zenon
    <2> HIDE DEF Store, Load, Pairs
    <2>4. ASSUME NEW r \in Pairs(Movable), NEW x \in {0, 1}, f = Store(x, r) \/ f = Load(x, r)
          PROVE  \E i, j \in MovableNumbers, y \in {0, 1} : i # j /\ MoveForm(f, y, i, j)
      <3>1. PICK i \in MovableNumbers, j \in MovableNumbers : i # j /\ r = <<Reg(i), Reg(j)>>
        BY <2>3, Zenon
      <3>2. MoveForm(f, x, i, j)
        BY <2>1, <2>2, <2>4, <3>1
      <3> QED BY <3>1, <3>2
    <2>5. ASSUME NEW i \in MovableNumbers, NEW j \in MovableNumbers, NEW x \in {0, 1}, i # j, MoveForm(f, x, i, j)
          PROVE  \E r \in Pairs(Movable), y \in {0, 1} : f = Store(y, r) \/ f = Load(y, r)
      <3>1. <<Reg(i), Reg(j)>> \in Pairs(Movable)
        BY <2>3, <2>5, Zenon
      <3>2. f = Store(x, <<Reg(i), Reg(j)>>) \/ f = Load(x, <<Reg(i), Reg(j)>>)
        BY <2>1, <2>2, <2>5
      <3> QED BY <3>1, <3>2, Zenon
    <2> QED BY <2>4, <2>5, Zenon
  <1>7. (\E r \in Plain \X Movable : f = Write(r) \/ f = Read(r))
          <=> \E i \in PlainNumbers, j \in MovableNumbers : AccessForm(f, i, j)
    <2>1. MovableNumbers \subseteq 0 .. 15 /\ PlainNumbers \subseteq 0 .. 15
      BY DEF MovableNumbers, PlainNumbers
    <2>2. ASSUME NEW i \in 0 .. 15, NEW j \in 0 .. 15
          PROVE  AccessForm(f, i, j) <=> f = Write(<<Reg(i), Reg(j)>>) \/ f = Read(<<Reg(i), Reg(j)>>)
      <3>1. <<Reg(i), Reg(j)>>[1] = Reg(i) /\ <<Reg(i), Reg(j)>>[2] = Reg(j)
        OBVIOUS
      <3>2. /\ MoveCode(\h89, 0, 0, Reg(j), Reg(i)) = MoveBytes(137, 0, 0, j, i)
            /\ MoveCode(\h8B, 0, 0, Reg(j), Reg(i)) = MoveBytes(139, 0, 0, j, i)
        <4>1. \h89 = 137 /\ \h8B = 139
          OBVIOUS
        <4> QED BY <4>1, CodesInBytes
      <3> QED BY <3>1, <3>2, Zenon DEF AccessForm
    <2>3. ASSUME NEW r \in Plain \X Movable, f = Write(r) \/ f = Read(r)
          PROVE  \E i \in PlainNumbers, j \in MovableNumbers : AccessForm(f, i, j)
      <3>1. r[1] \in Plain /\ r[2] \in Movable /\ r = <<r[1], r[2]>>
        OBVIOUS
      <3>2. PICK i \in PlainNumbers : r[1] = Reg(i)
        BY <3>1, NumbersOf
      <3>3. PICK j \in MovableNumbers : r[2] = Reg(j)
        BY <3>1, NumbersOf
      <3>4. r = <<Reg(i), Reg(j)>>
        BY <3>1, <3>2, <3>3, Zenon
      <3> HIDE DEF Write, Read
      <3>5. AccessForm(f, i, j)
        BY <2>1, <2>2, <2>3, <3>4
      <3> QED BY <3>5
    <2>4. ASSUME NEW i \in PlainNumbers, NEW j \in MovableNumbers, AccessForm(f, i, j)
          PROVE  \E r \in Plain \X Movable : f = Write(r) \/ f = Read(r)
      <3>1. Reg(i) \in Plain /\ Reg(j) \in Movable
        BY NumbersOf, Zenon
      <3>2. <<Reg(i), Reg(j)>> \in Plain \X Movable
        BY <3>1
      <3> HIDE DEF Write, Read
      <3>3. f = Write(<<Reg(i), Reg(j)>>) \/ f = Read(<<Reg(i), Reg(j)>>)
        BY <2>1, <2>2, <2>4
      <3> QED BY <3>2, <3>3, Zenon
    <2> QED BY <2>3, <2>4, Zenon
  <1> HIDE DEF Fixed, OfPop, OfTwo, OfAdjust, Store, Load, Write, Read, Pairs, Moves
  <1>8. f \in Forms <=>
          \/ f \in Fixed
          \/ \E r \in General : f = OfPop(r)
          \/ \E r \in Pairs(ArgumentRegisters) : f = OfTwo(r)
          \/ \E n \in 1 .. 15 : f = OfAdjust(n)
          \/ \E r \in Pairs(Movable), x \in {0, 1} : f = Store(x, r) \/ f = Load(x, r)
          \/ \E r \in Plain \X Movable : f = Write(r) \/ f = Read(r)
    <2>1. f \in Moves <=> \E r \in Pairs(Movable), x \in {0, 1} : f \in {Store(x, r), Load(x, r)}
      <3> DEFINE Sets == {{Store(x, r), Load(x, r)} : r \in Pairs(Movable), x \in {0, 1}}
      <3>1. ASSUME NEW T
            PROVE  T \in Sets <=> \E r \in Pairs(Movable), x \in {0, 1} : T = {Store(x, r), Load(x, r)}
        OBVIOUS
      <3>2. Moves = UNION Sets
        BY DEF Moves
      <3> HIDE DEF Sets
      <3>3. f \in UNION Sets <=> \E T \in Sets : f \in T
        OBVIOUS
      <3>4. ASSUME NEW T \in Sets, f \in T
            PROVE  \E r \in Pairs(Movable), x \in {0, 1} : f \in {Store(x, r), Load(x, r)}
        <4>1. PICK r \in Pairs(Movable), x \in {0, 1} : T = {Store(x, r), Load(x, r)}
          BY <3>1
        <4> QED BY <3>4, <4>1
      <3>5. ASSUME NEW r \in Pairs(Movable), NEW x \in {0, 1}, f \in {Store(x, r), Load(x, r)}
            PROVE  \E T \in Sets : f \in T
        BY <3>1, <3>5, Zenon
      <3> QED BY <3>2, <3>3, <3>4, <3>5, Zenon
    <2>2. f \in {OfPop(r) : r \in General} <=> \E r \in General : f = OfPop(r)
      BY Zenon
    <2>3. f \in {OfTwo(r) : r \in Pairs(ArgumentRegisters)} <=> \E r \in Pairs(ArgumentRegisters) : f = OfTwo(r)
      BY Zenon
    <2>4. f \in {OfAdjust(n) : n \in 1 .. 15} <=> \E n \in 1 .. 15 : f = OfAdjust(n)
      BY Zenon
    <2>5. f \in {Write(r) : r \in Plain \X Movable} <=> \E r \in Plain \X Movable : f = Write(r)
      BY Zenon
    <2>6. f \in {Read(r) : r \in Plain \X Movable} <=> \E r \in Plain \X Movable : f = Read(r)
      BY Zenon
    <2>7. f \in Forms <=>
            \/ f \in Fixed \/ f \in {OfPop(r) : r \in General}
            \/ f \in {OfTwo(r) : r \in Pairs(ArgumentRegisters)} \/ f \in {OfAdjust(n) : n \in 1 .. 15}
            \/ f \in Moves
            \/ f \in {Write(r) : r \in Plain \X Movable} \/ f \in {Read(r) : r \in Plain \X Movable}
      BY <1>1, Zenon
    <2> QED BY <2>1, <2>2, <2>3, <2>4, <2>5, <2>6, <2>7, Zenon
  <1> QED BY <1>2, <1>3, <1>4, <1>5, <1>6, <1>7, <1>8, Zenon DEF NumberedForm

\* The fields of a move: REX, opcode and operands a, b and c.
RegField(a, c) == 8 * ((a \div 4) % 2) + ((c \div 8) % 8)
RmField(a, c)  == 8 * (a % 2) + (c % 8)
Unused(a)      == (a \div 2) % 2
ModeField(c)   == c \div 64

\* The first and last byte of the move whose fields are these.
RexByte(x, i, j)        == 72 + 4 * (i \div 8) + 2 * x + (j \div 8)
OperandByte(mode, i, j) == 64 * mode + 8 * (i % 8) + (j % 8)

LEMMA MoveRanges ==
    ASSUME NEW i \in 0 .. 15, NEW j \in 0 .. 15, NEW x \in {0, 1}, NEW mode \in 0 .. 3
    PROVE  /\ RexByte(x, i, j) \in 72 .. 79
           /\ OperandByte(mode, i, j) \in 0 .. 255
  <1>1. /\ i \div 8 \in {0, 1} /\ j \div 8 \in {0, 1} /\ i % 8 \in 0 .. 7 /\ j % 8 \in 0 .. 7
    OBVIOUS
  <1> QED BY <1>1 DEF RexByte, OperandByte

\* A move has the fields it was made of.
LEMMA MoveFields ==
    ASSUME NEW i \in 0 .. 15, NEW j \in 0 .. 15, NEW x \in {0, 1}, NEW mode \in 0 .. 3
    PROVE  /\ RegField(RexByte(x, i, j), OperandByte(mode, i, j)) = i
           /\ RmField(RexByte(x, i, j), OperandByte(mode, i, j)) = j
           /\ Unused(RexByte(x, i, j)) = x /\ ModeField(OperandByte(mode, i, j)) = mode
  <1> DEFINE p == i \div 8
             q == j \div 8
             m == i % 8
             n == j % 8
             a == 72 + 4 * p + 2 * x + q
             c == 64 * mode + 8 * m + n
  <1>1. a = RexByte(x, i, j) /\ c = OperandByte(mode, i, j)
    BY DEF RexByte, OperandByte
  <1>2. p \in {0, 1} /\ q \in {0, 1} /\ m \in 0 .. 7 /\ n \in 0 .. 7 /\ i = 8 * p + m /\ j = 8 * q + n
    OBVIOUS
  <1> HIDE DEF p, q, m, n
  <1>3. a \in 72 .. 79 /\ c \in 0 .. 255
    BY <1>2
  <1>4. a \div 4 = 18 + p /\ a \div 2 = 36 + 2 * p + x /\ a % 2 = q
    BY <1>2
  <1>5. (18 + p) % 2 = p /\ (36 + 2 * p + x) % 2 = x
    BY <1>2
  <1>6. c \div 64 = mode /\ c \div 8 = 8 * mode + m /\ c % 8 = n
    BY <1>2
  <1>7. (8 * mode + m) % 8 = m
    BY <1>2
  <1> HIDE DEF a, c
  <1>8. RegField(a, c) = i /\ RmField(a, c) = j /\ Unused(a) = x /\ ModeField(c) = mode
    BY <1>2, <1>4, <1>5, <1>6, <1>7 DEF RegField, RmField, Unused, ModeField
  <1> QED BY <1>1, <1>3, <1>8

\* And any three bytes that look like a move were made of their fields.
LEMMA FieldsMove ==
    ASSUME NEW a \in 72 .. 79, NEW c \in 0 .. 255, NEW opcode
    PROVE  /\ RegField(a, c) \in 0 .. 15 /\ RmField(a, c) \in 0 .. 15 /\ Unused(a) \in {0, 1}
           /\ ModeField(c) \in 0 .. 3
           /\ MoveBytes(opcode, Unused(a), ModeField(c), RegField(a, c), RmField(a, c)) = <<a, opcode, c>>
  <1> DEFINE p == (a \div 4) % 2
             q == a % 2
             m == (c \div 8) % 8
             n == c % 8
             x == Unused(a)
             mode == ModeField(c)
             i == RegField(a, c)
             j == RmField(a, c)
  <1>1. p \in {0, 1} /\ q \in {0, 1} /\ m \in 0 .. 7 /\ n \in 0 .. 7 /\ x \in {0, 1} /\ mode \in 0 .. 3
    BY DEF Unused, ModeField
  <1>2. a = 72 + 4 * p + 2 * x + q
    BY DEF Unused
  <1>3. c = 64 * mode + 8 * m + n
    BY DEF ModeField
  <1>4. i = 8 * p + m /\ j = 8 * q + n
    BY DEF RegField, RmField
  <1> HIDE DEF p, q, m, n, x, mode, i, j
  <1>5. i \div 8 = p /\ i % 8 = m /\ j \div 8 = q /\ j % 8 = n /\ i \in 0 .. 15 /\ j \in 0 .. 15
    BY <1>1, <1>4
  <1>6. MoveBytes(opcode, x, mode, i, j) = <<a, opcode, c>>
    BY <1>2, <1>3, <1>5 DEF MoveBytes
  <1> QED BY <1>1, <1>5, <1>6 DEF x, mode, i, j

\* What the codes of each length are, and the bodies they stand for.
LeaveBody       == <<Instruction("leave", <<>>, 0)>>
SyscallBody     == <<Instruction("syscall", <<>>, 0)>>
PopBody(i)      == <<Instruction("pop", <<Reg(i)>>, 0)>>
TwoPopBody(i, j) == <<Instruction("pop", <<Reg(i)>>, 0), Instruction("pop", <<Reg(j)>>, 0)>>
AdjustBody(n)   == <<Instruction("add", <<>>, n)>>
MoveBody(op, i, j) == <<Instruction(op, <<Reg(i), Reg(j)>>, 0)>>

\* The last byte of the pop of an argument register, without and with a prefix.
LowArgument(b)  == b \in {89, 90, 94, 95}
HighArgument(b) == b \in {88, 89}

\* The codes of one byte and of two.
One(a, body) ==
    \/ a = 201 /\ body = LeaveBody
    \/ a \in 88 .. 95 /\ body = PopBody(a - 88)

Two(a, b, body) ==
    \/ a = 15 /\ b = 5 /\ body = SyscallBody
    \/ a = 65 /\ b \in 88 .. 95 /\ body = PopBody(b - 80)
    \/ LowArgument(a) /\ LowArgument(b) /\ a # b /\ body = TwoPopBody(a - 88, b - 88)

\* A move between registers, and one to or from memory, by their fields.
RegisterMoveBytes(a, b, c) ==
    /\ a \in 72 .. 79 /\ c \in 0 .. 255 /\ b \in {137, 139}
    /\ ModeField(c) = 3 /\ RegField(a, c) # RmField(a, c) /\ RegField(a, c) # 4 /\ RmField(a, c) # 4

RegisterMove(a, b, c, body) ==
    /\ RegisterMoveBytes(a, b, c)
    /\ body = IF b = 137 THEN MoveBody("move", RmField(a, c), RegField(a, c))
                         ELSE MoveBody("move", RegField(a, c), RmField(a, c))

MemoryMoveBytes(a, b, c) ==
    /\ a \in 72 .. 79 /\ c \in 0 .. 255 /\ b \in {137, 139}
    /\ ModeField(c) = 0 /\ Unused(a) = 0 /\ RmField(a, c) \notin {4, 5, 12, 13} /\ RegField(a, c) # 4

MemoryMove(a, b, c, body) ==
    /\ MemoryMoveBytes(a, b, c)
    /\ body = IF b = 137 THEN MoveBody("write", RmField(a, c), RegField(a, c))
                         ELSE MoveBody("read", RmField(a, c), RegField(a, c))

\* The codes of three bytes and of four.
Three(a, b, c, body) ==
    \/ LowArgument(a) /\ b = 65 /\ HighArgument(c) /\ body = TwoPopBody(a - 88, c - 80)
    \/ a = 65 /\ HighArgument(b) /\ LowArgument(c) /\ body = TwoPopBody(b - 80, c - 88)
    \/ RegisterMove(a, b, c, body)
    \/ MemoryMove(a, b, c, body)

Four(a, b, c, d, body) ==
    \/ a = 72 /\ b = 131 /\ c = 196 /\ d \in 8 .. 120 /\ d % 8 = 0 /\ body = AdjustBody(d)
    \/ a = 65 /\ HighArgument(b) /\ c = 65 /\ HighArgument(d) /\ b # d /\ body = TwoPopBody(b - 80, d - 80)

\* A code and its body, at any length.
Coded(code, body) ==
    \/ code = <<>> /\ body = <<>>
    \/ \E a \in Int : code = <<a>> /\ One(a, body)
    \/ \E a, b \in Int : code = <<a, b>> /\ Two(a, b, body)
    \/ \E a, b, c \in Int : code = <<a, b, c>> /\ Three(a, b, c, body)
    \/ \E a, b, c, d \in Int : code = <<a, b, c, d>> /\ Four(a, b, c, d, body)

LEMMA OneAndOne == ASSUME NEW w \in Int, NEW x \in Int PROVE <<w>> \o <<x>> = <<w, x>>
  <1> DEFINE s == <<w>> \o <<x>>
  <1>1. s \in Seq(Int) /\ Len(s) = 2 /\ s[1] = w /\ s[2] = x
    BY <<w>> \in Seq(Int), <<x>> \in Seq(Int), ConcatProperties
  <1> HIDE DEF s
  <1>2. s = <<w, x>>
    BY <1>1
  <1> QED BY <1>2 DEF s

LEMMA OneAndTwo == ASSUME NEW w \in Int, NEW x \in Int, NEW y \in Int PROVE <<w>> \o <<x, y>> = <<w, x, y>>
  <1> DEFINE s == <<w>> \o <<x, y>>
  <1>1. s \in Seq(Int) /\ Len(s) = 3 /\ s[1] = w /\ s[2] = x /\ s[3] = y
    BY <<w>> \in Seq(Int), <<x, y>> \in Seq(Int), ConcatProperties
  <1> HIDE DEF s
  <1>2. s = <<w, x, y>>
    BY <1>1
  <1> QED BY <1>2 DEF s

LEMMA TwoAndOne == ASSUME NEW w \in Int, NEW x \in Int, NEW y \in Int PROVE <<w, x>> \o <<y>> = <<w, x, y>>
  <1> DEFINE s == <<w, x>> \o <<y>>
  <1>1. s \in Seq(Int) /\ Len(s) = 3 /\ s[1] = w /\ s[2] = x /\ s[3] = y
    BY <<w, x>> \in Seq(Int), <<y>> \in Seq(Int), ConcatProperties
  <1> HIDE DEF s
  <1>2. s = <<w, x, y>>
    BY <1>1
  <1> QED BY <1>2 DEF s

LEMMA TwoAndTwo == ASSUME NEW w \in Int, NEW x \in Int, NEW y \in Int, NEW z \in Int PROVE <<w, x>> \o <<y, z>> = <<w, x, y, z>>
  <1> DEFINE s == <<w, x>> \o <<y, z>>
  <1>1. s \in Seq(Int) /\ Len(s) = 4 /\ s[1] = w /\ s[2] = x /\ s[3] = y /\ s[4] = z
    BY <<w, x>> \in Seq(Int), <<y, z>> \in Seq(Int), ConcatProperties
  <1> HIDE DEF s
  <1>2. s = <<w, x, y, z>>
    BY <1>1
  <1> QED BY <1>2 DEF s

\* The code of two pops, by the widths of both.
LEMMA PairBytes ==
    ASSUME NEW i \in 0 .. 15, NEW j \in 0 .. 15
    PROVE  PopBytes(i) \o PopBytes(j)
             = IF i < 8
               THEN IF j < 8 THEN <<88 + i, 88 + j>> ELSE <<88 + i, 65, 80 + j>>
               ELSE IF j < 8 THEN <<65, 80 + i, 88 + j>> ELSE <<65, 80 + i, 65, 80 + j>>
  <1> DEFINE a == 88 + i
             b == 80 + i
             c == 88 + j
             d == 80 + j
  <1>1. a \in Int /\ b \in Int /\ c \in Int /\ d \in Int /\ 65 \in Int
    OBVIOUS
  <1>2. /\ PopBytes(i) = IF i < 8 THEN <<a>> ELSE <<65, b>>
        /\ PopBytes(j) = IF j < 8 THEN <<c>> ELSE <<65, d>>
    BY Zenon DEF PopBytes
  <1> HIDE DEF a, b, c, d
  <1>3. /\ <<a>> \o <<c>> = <<a, c>> /\ <<a>> \o <<65, d>> = <<a, 65, d>>
        /\ <<65, b>> \o <<c>> = <<65, b, c>> /\ <<65, b>> \o <<65, d>> = <<65, b, 65, d>>
    <2> DEFINE k == 65
    <2>1. k \in Int
      OBVIOUS
    <2> HIDE DEF k
    <2>2. <<a>> \o <<c>> = <<a, c>>
      BY <1>1, OneAndOne
    <2>3. <<a>> \o <<k, d>> = <<a, k, d>>
      BY <1>1, <2>1, OneAndTwo
    <2>4. <<k, b>> \o <<c>> = <<k, b, c>>
      BY <1>1, <2>1, TwoAndOne
    <2>5. <<k, b>> \o <<k, d>> = <<k, b, k, d>>
      BY <1>1, <2>1, TwoAndTwo
    <2> QED BY <2>2, <2>3, <2>4, <2>5, Zenon DEF k
  <1>4. PopBytes(i) \o PopBytes(j)
          = IF i < 8 THEN IF j < 8 THEN <<a, c>> ELSE <<a, 65, d>>
                     ELSE IF j < 8 THEN <<65, b, c>> ELSE <<65, b, 65, d>>
    BY <1>2, <1>3, Zenon
  <1> QED BY <1>4, Zenon DEF a, b, c, d

LEMMA SameForm ==
    ASSUME NEW c, NEW d, NEW b, NEW e
    PROVE  Form(c, b) = Form(d, e) <=> c = d /\ b = e
  BY DEF Form

\* Each form is one of the codes by length.
LEMMA FormIsCoded ==
    ASSUME NEW code, NEW body, Form(code, body) \in Forms
    PROVE  Coded(code, body)
  <1> DEFINE f == Form(code, body)
  <1>1. NumberedForm(f)
    BY FormsByNumber
  <1> HIDE DEF f
  <1>2. CASE FixedForm(f)
    <2>1. \/ code = <<>> /\ body = <<>>
          \/ code = <<201>> /\ body = LeaveBody
          \/ code = <<15, 5>> /\ body = SyscallBody
      <3>1. \/ Form(code, body) = Form(<<>>, <<>>)
            \/ Form(code, body) = Form(<<201>>, LeaveBody)
            \/ Form(code, body) = Form(<<15, 5>>, SyscallBody)
        BY <1>2, Zenon DEF f, FixedForm, LeaveBody, SyscallBody
      <3>2. /\ Form(code, body) = Form(<<>>, <<>>) => code = <<>> /\ body = <<>>
            /\ Form(code, body) = Form(<<201>>, LeaveBody) => code = <<201>> /\ body = LeaveBody
            /\ Form(code, body) = Form(<<15, 5>>, SyscallBody) => code = <<15, 5>> /\ body = SyscallBody
        <4> DEFINE b1 == LeaveBody
                   b2 == SyscallBody
                   c1 == <<201>>
                   c2 == <<15, 5>>
        <4> HIDE DEF b1, b2, c1, c2
        <4>1. /\ Form(code, body) = Form(<<>>, <<>>) => code = <<>> /\ body = <<>>
              /\ Form(code, body) = Form(c1, b1) => code = c1 /\ body = b1
              /\ Form(code, body) = Form(c2, b2) => code = c2 /\ body = b2
          BY SameForm
        <4> QED BY <4>1, Zenon DEF b1, b2, c1, c2
      <3> QED BY <3>1, <3>2, Zenon
    <2>2. CASE code = <<201>> /\ body = LeaveBody
      BY <2>2, 201 \in Int DEF Coded, One
    <2>3. CASE code = <<15, 5>> /\ body = SyscallBody
      BY <2>3, 15 \in Int, 5 \in Int DEF Coded, Two
    <2>4. CASE code = <<>> /\ body = <<>>
      BY <2>4 DEF Coded
    <2> QED BY <2>1, <2>2, <2>3, <2>4
  <1>3. ASSUME NEW i \in 0 .. 15, PopForm(f, i) PROVE Coded(code, body)
    <2>1. code = PopBytes(i) /\ body = PopBody(i)
      <3>1. Form(code, body) = Form(PopBytes(i), PopBody(i))
        BY <1>3, Zenon DEF f, PopForm, PopBody
      <3> QED BY <3>1, SameForm
    <2>2. CASE i < 8
      <3>1. 88 + i \in 88 .. 95 /\ 88 + i \in Int /\ (88 + i) - 88 = i
        BY <2>2
      <3>2. code = <<88 + i>>
        BY <2>1, <2>2 DEF PopBytes
      <3>3. One(88 + i, body)
        BY <2>1, <3>1 DEF One
      <3> QED BY <3>1, <3>2, <3>3 DEF Coded
    <2>3. CASE ~(i < 8)
      <3>1. 80 + i \in 88 .. 95 /\ 80 + i \in Int /\ (80 + i) - 80 = i /\ 65 \in Int
        BY <2>3
      <3>2. code = <<65, 80 + i>>
        BY <2>1, <2>3 DEF PopBytes
      <3>3. Two(65, 80 + i, body)
        BY <2>1, <3>1 DEF Two
      <3> QED BY <3>1, <3>2, <3>3 DEF Coded
    <2> QED BY <2>2, <2>3
  <1>4. ASSUME NEW i \in ArgumentNumbers, NEW j \in ArgumentNumbers, i # j, TwoPopForm(f, i, j)
        PROVE  Coded(code, body)
    <2>1. code = PopBytes(i) \o PopBytes(j) /\ body = TwoPopBody(i, j)
      <3>1. Form(code, body) = Form(PopBytes(i) \o PopBytes(j), TwoPopBody(i, j))
        BY <1>4, Zenon DEF f, TwoPopForm, TwoPopBody
      <3> DEFINE p == PopBytes(i) \o PopBytes(j)
                 q == TwoPopBody(i, j)
      <3> HIDE DEF p, q
      <3>2. Form(code, body) = Form(p, q)
        BY <3>1 DEF p, q
      <3>3. code = p /\ body = q
        BY <3>2, SameForm
      <3> QED BY <3>3 DEF p, q
    <2>2. i \in 0 .. 15 /\ j \in 0 .. 15
      BY DEF ArgumentNumbers
    <2>3. CASE i < 8 /\ j < 8
      <3>1. code = <<88 + i, 88 + j>>
        BY <2>1, <2>2, <2>3, PairBytes
      <3>2. LowArgument(88 + i) /\ LowArgument(88 + j) /\ 88 + i # 88 + j
        BY <1>4, <2>3 DEF ArgumentNumbers, LowArgument
      <3>3. (88 + i) - 88 = i /\ (88 + j) - 88 = j /\ 88 + i \in Int /\ 88 + j \in Int
        BY <2>2
      <3>4. Two(88 + i, 88 + j, body)
        BY <2>1, <3>2, <3>3 DEF Two
      <3> QED BY <3>1, <3>3, <3>4 DEF Coded
    <2>4. CASE i < 8 /\ ~(j < 8)
      <3>1. code = <<88 + i, 65, 80 + j>>
        BY <2>1, <2>2, <2>4, PairBytes
      <3>2. LowArgument(88 + i) /\ HighArgument(80 + j)
        BY <2>4 DEF ArgumentNumbers, LowArgument, HighArgument
      <3>3. (88 + i) - 88 = i /\ (80 + j) - 80 = j /\ 88 + i \in Int /\ 80 + j \in Int /\ 65 \in Int
        BY <2>2
      <3>4. Three(88 + i, 65, 80 + j, body)
        BY <2>1, <3>2, <3>3 DEF Three
      <3> QED BY <3>1, <3>3, <3>4 DEF Coded
    <2>5. CASE ~(i < 8) /\ j < 8
      <3>1. code = <<65, 80 + i, 88 + j>>
        BY <2>1, <2>2, <2>5, PairBytes
      <3>2. HighArgument(80 + i) /\ LowArgument(88 + j)
        BY <2>5 DEF ArgumentNumbers, LowArgument, HighArgument
      <3>3. (80 + i) - 80 = i /\ (88 + j) - 88 = j /\ 80 + i \in Int /\ 88 + j \in Int /\ 65 \in Int
        BY <2>2
      <3>4. Three(65, 80 + i, 88 + j, body)
        BY <2>1, <3>2, <3>3 DEF Three
      <3> QED BY <3>1, <3>3, <3>4 DEF Coded
    <2>6. CASE ~(i < 8) /\ ~(j < 8)
      <3>1. code = <<65, 80 + i, 65, 80 + j>>
        BY <2>1, <2>2, <2>6, PairBytes
      <3>2. HighArgument(80 + i) /\ HighArgument(80 + j) /\ 80 + i # 80 + j
        BY <1>4, <2>6 DEF ArgumentNumbers, HighArgument
      <3>3. (80 + i) - 80 = i /\ (80 + j) - 80 = j /\ 80 + i \in Int /\ 80 + j \in Int /\ 65 \in Int
        BY <2>2
      <3>4. Four(65, 80 + i, 65, 80 + j, body)
        BY <2>1, <3>2, <3>3 DEF Four
      <3> QED BY <3>1, <3>3, <3>4 DEF Coded
    <2> QED BY <2>3, <2>4, <2>5, <2>6
  <1>5. ASSUME NEW n \in 1 .. 15, AdjustForm(f, n) PROVE Coded(code, body)
    <2>1. code = <<72, 131, 196, 8 * n>> /\ body = AdjustBody(8 * n)
      <3>1. Form(code, body) = Form(<<72, 131, 196, 8 * n>>, AdjustBody(8 * n))
        BY <1>5, Zenon DEF f, AdjustForm, AdjustBody
      <3> QED BY <3>1, SameForm
    <2>2. 8 * n \in 8 .. 120 /\ (8 * n) % 8 = 0 /\ 8 * n \in Int /\ 72 \in Int /\ 131 \in Int /\ 196 \in Int
      OBVIOUS
    <2>3. Four(72, 131, 196, 8 * n, body)
      BY <2>1, <2>2 DEF Four
    <2> QED BY <2>1, <2>2, <2>3 DEF Coded
  <1>6. ASSUME NEW i \in MovableNumbers, NEW j \in MovableNumbers, NEW x \in {0, 1}, i # j, MoveForm(f, x, i, j)
        PROVE  Coded(code, body)
    <2>1. i \in 0 .. 15 /\ j \in 0 .. 15 /\ i # 4 /\ j # 4
      BY DEF MovableNumbers
    <2>2. \/ code = MoveBytes(137, x, 3, j, i) /\ body = MoveBody("move", i, j)
          \/ code = MoveBytes(139, x, 3, i, j) /\ body = MoveBody("move", i, j)
      <3>1. \/ Form(code, body) = Form(MoveBytes(137, x, 3, j, i), MoveBody("move", i, j))
            \/ Form(code, body) = Form(MoveBytes(139, x, 3, i, j), MoveBody("move", i, j))
        BY <1>6, Zenon DEF f, MoveForm, MoveBody
      <3> QED BY <3>1, SameForm
    <2>3. CASE code = MoveBytes(137, x, 3, j, i) /\ body = MoveBody("move", i, j)
      <3> DEFINE a == RexByte(x, j, i)
                 c == OperandByte(3, j, i)
      <3>1. code = <<a, 137, c>>
        BY <2>3, Zenon DEF MoveBytes, RexByte, OperandByte
      <3>2. 3 \in 0 .. 3
        OBVIOUS
      <3>3. a \in 72 .. 79 /\ c \in 0 .. 255
        BY <2>1, <3>2, MoveRanges
      <3>4. RegField(a, c) = j /\ RmField(a, c) = i /\ ModeField(c) = 3
        BY <2>1, <3>2, MoveFields
      <3> HIDE DEF a, c
      <3>5. RegisterMove(a, 137, c, body)
        BY <1>6, <2>1, <2>3, <3>3, <3>4 DEF RegisterMove, RegisterMoveBytes
      <3>6. a \in Int /\ c \in Int /\ 137 \in Int /\ Three(a, 137, c, body)
        BY <3>3, <3>5 DEF Three
      <3> QED BY <3>1, <3>6 DEF Coded
    <2>4. CASE code = MoveBytes(139, x, 3, i, j) /\ body = MoveBody("move", i, j)
      <3> DEFINE a == RexByte(x, i, j)
                 c == OperandByte(3, i, j)
      <3>1. code = <<a, 139, c>>
        BY <2>4, Zenon DEF MoveBytes, RexByte, OperandByte
      <3>2. 3 \in 0 .. 3
        OBVIOUS
      <3>3. a \in 72 .. 79 /\ c \in 0 .. 255
        BY <2>1, <3>2, MoveRanges
      <3>4. RegField(a, c) = i /\ RmField(a, c) = j /\ ModeField(c) = 3
        BY <2>1, <3>2, MoveFields
      <3> HIDE DEF a, c
      <3>5. RegisterMove(a, 139, c, body)
        BY <1>6, <2>1, <2>4, <3>3, <3>4 DEF RegisterMove, RegisterMoveBytes
      <3>6. a \in Int /\ c \in Int /\ 139 \in Int /\ Three(a, 139, c, body)
        BY <3>3, <3>5 DEF Three
      <3> QED BY <3>1, <3>6 DEF Coded
    <2> QED BY <2>2, <2>3, <2>4
  <1>7. ASSUME NEW i \in PlainNumbers, NEW j \in MovableNumbers, AccessForm(f, i, j) PROVE Coded(code, body)
    <2>1. i \in 0 .. 15 /\ j \in 0 .. 15 /\ i \notin {4, 5, 12, 13} /\ j # 4
      BY DEF MovableNumbers, PlainNumbers
    <2>2. PICK opcode \in {137, 139} :
             /\ code = MoveBytes(opcode, 0, 0, j, i)
             /\ body = IF opcode = 137 THEN MoveBody("write", i, j) ELSE MoveBody("read", i, j)
      <3>1. \/ code = MoveBytes(137, 0, 0, j, i) /\ body = MoveBody("write", i, j)
            \/ code = MoveBytes(139, 0, 0, j, i) /\ body = MoveBody("read", i, j)
        <4>1. \/ Form(code, body) = Form(MoveBytes(137, 0, 0, j, i), MoveBody("write", i, j))
              \/ Form(code, body) = Form(MoveBytes(139, 0, 0, j, i), MoveBody("read", i, j))
          BY <1>7, Zenon DEF f, AccessForm, MoveBody
        <4> QED BY <4>1, SameForm
      <3> QED BY <3>1
    <2> DEFINE a == RexByte(0, j, i)
               c == OperandByte(0, j, i)
    <2>3. code = <<a, opcode, c>>
      BY <2>2, Zenon DEF MoveBytes, RexByte, OperandByte
    <2>4. 0 \in 0 .. 3 /\ 0 \in {0, 1}
      OBVIOUS
    <2>5. a \in 72 .. 79 /\ c \in 0 .. 255
      <3>1. i \div 8 \in {0, 1} /\ j \div 8 \in {0, 1} /\ i % 8 \in 0 .. 7 /\ j % 8 \in 0 .. 7
        BY <2>1
      <3>2. RexByte(0, j, i) \in 72 .. 79 /\ OperandByte(0, j, i) \in 0 .. 255
        BY <3>1 DEF RexByte, OperandByte
      <3> QED BY <3>2, Zenon
    <2>6. RegField(a, c) = j /\ RmField(a, c) = i /\ ModeField(c) = 0 /\ Unused(a) = 0
      BY <2>1, <2>4, MoveFields
    <2> HIDE DEF a, c
    <2>7. MemoryMove(a, opcode, c, body)
      BY <2>1, <2>2, <2>5, <2>6 DEF MemoryMove, MemoryMoveBytes
    <2>8. a \in Int /\ c \in Int /\ opcode \in Int /\ Three(a, opcode, c, body)
      BY <2>5, <2>7 DEF Three
    <2> QED BY <2>3, <2>8 DEF Coded
  <1> QED BY <1>1, <1>2, <1>3, <1>4, <1>5, <1>6, <1>7, Zenon DEF NumberedForm

\* And each of the codes by length is a form.
LEMMA PopIsForm ==
    ASSUME NEW i \in 0 .. 15
    PROVE  Form(PopBytes(i), PopBody(i)) \in Forms
  <1> DEFINE f == Form(PopBytes(i), PopBody(i))
  <1>1. PopForm(f, i)
    BY Zenon DEF PopForm, PopBody
  <1> HIDE DEF f
  <1>2. NumberedForm(f)
    BY <1>1, Zenon DEF NumberedForm
  <1>3. f \in Forms
    BY <1>2, FormsByNumber, Zenon
  <1> QED BY <1>3 DEF f

LEMMA TwoPopsAreForm ==
    ASSUME NEW i \in ArgumentNumbers, NEW j \in ArgumentNumbers, i # j
    PROVE  Form(PopBytes(i) \o PopBytes(j), TwoPopBody(i, j)) \in Forms
  <1> DEFINE f == Form(PopBytes(i) \o PopBytes(j), TwoPopBody(i, j))
  <1>1. TwoPopForm(f, i, j)
    BY Zenon DEF TwoPopForm, TwoPopBody
  <1> HIDE DEF f
  <1>2. NumberedForm(f)
    BY <1>1, Zenon DEF NumberedForm
  <1>3. f \in Forms
    BY <1>2, FormsByNumber, Zenon
  <1> QED BY <1>3 DEF f

LEMMA FixedAreForms ==
    /\ Form(<<>>, <<>>) \in Forms
    /\ Form(<<201>>, LeaveBody) \in Forms
    /\ Form(<<15, 5>>, SyscallBody) \in Forms
  BY FormsByNumber, Zenon DEF NumberedForm, FixedForm, LeaveBody, SyscallBody

LEMMA AdjustIsForm ==
    ASSUME NEW d \in 8 .. 120, d % 8 = 0
    PROVE  Form(<<72, 131, 196, d>>, AdjustBody(d)) \in Forms
  <1> DEFINE n == d \div 8
             f == Form(<<72, 131, 196, 8 * n>>, AdjustBody(8 * n))
  <1>1. n \in 1 .. 15 /\ 8 * n = d
    OBVIOUS
  <1> HIDE DEF n
  <1>2. AdjustForm(f, n)
    BY Zenon DEF AdjustForm, AdjustBody
  <1> HIDE DEF f
  <1>3. NumberedForm(f)
    BY <1>1, <1>2, Zenon DEF NumberedForm
  <1>4. f \in Forms
    BY <1>3, FormsByNumber, Zenon
  <1> QED BY <1>1, <1>4, Zenon DEF f

LEMMA RegisterMoveIsForm ==
    ASSUME NEW a, NEW b, NEW c, NEW body, RegisterMove(a, b, c, body)
    PROVE  Form(<<a, b, c>>, body) \in Forms
  <1> DEFINE i == RegField(a, c)
             j == RmField(a, c)
             x == Unused(a)
             f == Form(<<a, b, c>>, body)
  <1>1. a \in 72 .. 79 /\ c \in 0 .. 255 /\ ModeField(c) = 3 /\ i # j /\ i # 4 /\ j # 4
    BY DEF RegisterMove, RegisterMoveBytes
  <1>2. i \in 0 .. 15 /\ j \in 0 .. 15 /\ x \in {0, 1}
    BY <1>1, FieldsMove
  <1>3. MoveBytes(b, x, 3, i, j) = <<a, b, c>>
    <2>1. MoveBytes(b, x, ModeField(c), i, j) = <<a, b, c>>
      BY <1>1, FieldsMove, Zenon
    <2> QED BY <1>1, <2>1, Zenon
  <1>4. \/ b = 137 /\ body = MoveBody("move", j, i)
        \/ b = 139 /\ body = MoveBody("move", i, j)
    BY DEF RegisterMove, RegisterMoveBytes
  <1>5. i \in MovableNumbers /\ j \in MovableNumbers
    BY <1>1, <1>2 DEF MovableNumbers
  <1> HIDE DEF i, j, x
  <1>6. CASE b = 137 /\ body = MoveBody("move", j, i)
    <2>1. f = Form(MoveBytes(137, x, 3, i, j), MoveBody("move", j, i))
      BY <1>3, <1>6, Zenon
    <2> HIDE DEF f
    <2>2. MoveForm(f, x, j, i)
      BY <2>1, Zenon DEF MoveForm, MoveBody
    <2> QED BY <1>1, <1>2, <1>5, <2>2, FormsByNumber, Zenon DEF NumberedForm, f
  <1>7. CASE b = 139 /\ body = MoveBody("move", i, j)
    <2>1. f = Form(MoveBytes(139, x, 3, i, j), MoveBody("move", i, j))
      BY <1>3, <1>7, Zenon
    <2> HIDE DEF f
    <2>2. MoveForm(f, x, i, j)
      BY <2>1, Zenon DEF MoveForm, MoveBody
    <2> QED BY <1>1, <1>2, <1>5, <2>2, FormsByNumber, Zenon DEF NumberedForm, f
  <1> QED BY <1>4, <1>6, <1>7

LEMMA MemoryMoveIsForm ==
    ASSUME NEW a, NEW b, NEW c, NEW body, MemoryMove(a, b, c, body)
    PROVE  Form(<<a, b, c>>, body) \in Forms
  <1> DEFINE i == RegField(a, c)
             j == RmField(a, c)
             f == Form(<<a, b, c>>, body)
  <1>1. /\ a \in 72 .. 79 /\ c \in 0 .. 255 /\ ModeField(c) = 0 /\ Unused(a) = 0
        /\ j \notin {4, 5, 12, 13} /\ i # 4
    BY DEF MemoryMove, MemoryMoveBytes
  <1>2. i \in 0 .. 15 /\ j \in 0 .. 15
    BY <1>1, FieldsMove
  <1>3. MoveBytes(b, 0, 0, i, j) = <<a, b, c>>
    <2>1. MoveBytes(b, Unused(a), ModeField(c), i, j) = <<a, b, c>>
      BY <1>1, FieldsMove, Zenon
    <2> QED BY <1>1, <2>1, Zenon
  <1>4. \/ b = 137 /\ body = MoveBody("write", j, i)
        \/ b = 139 /\ body = MoveBody("read", j, i)
    BY DEF MemoryMove, MemoryMoveBytes
  <1>5. i \in MovableNumbers /\ j \in PlainNumbers
    BY <1>1, <1>2 DEF MovableNumbers, PlainNumbers
  <1> HIDE DEF i, j
  <1>6. AccessForm(f, j, i)
    <2>1. \/ f = Form(MoveBytes(137, 0, 0, i, j), MoveBody("write", j, i))
          \/ f = Form(MoveBytes(139, 0, 0, i, j), MoveBody("read", j, i))
      BY <1>3, <1>4, Zenon
    <2> HIDE DEF f
    <2> QED BY <2>1, Zenon DEF AccessForm, MoveBody
  <1> QED BY <1>5, <1>6, FormsByNumber, Zenon DEF NumberedForm, f

LEMMA OneIsForm ==
    ASSUME NEW a, NEW body, One(a, body)
    PROVE  Form(<<a>>, body) \in Forms
  <1>1. CASE a = 201 /\ body = LeaveBody
    BY <1>1, FixedAreForms
  <1>2. CASE a \in 88 .. 95 /\ body = PopBody(a - 88)
    <2> DEFINE i == a - 88
    <2>1. i \in 0 .. 7 /\ 88 + i = a /\ i \in 0 .. 15
      BY <1>2
    <2> HIDE DEF i
    <2>2. PopBytes(i) = <<a>>
      BY <2>1 DEF PopBytes
    <2>3. body = PopBody(i)
      BY <1>2 DEF i
    <2> QED BY <2>1, <2>2, <2>3, PopIsForm, Zenon
  <1> QED BY <1>1, <1>2 DEF One

LEMMA TwoIsForm ==
    ASSUME NEW a, NEW b, NEW body, Two(a, b, body)
    PROVE  Form(<<a, b>>, body) \in Forms
  <1>1. CASE a = 15 /\ b = 5 /\ body = SyscallBody
    BY <1>1, FixedAreForms
  <1>2. CASE a = 65 /\ b \in 88 .. 95 /\ body = PopBody(b - 80)
    <2> DEFINE i == b - 80
    <2>1. i \in 8 .. 15 /\ 80 + i = b /\ i \in 0 .. 15
      BY <1>2
    <2> HIDE DEF i
    <2>2. PopBytes(i) = <<a, b>>
      BY <1>2, <2>1 DEF PopBytes
    <2>3. body = PopBody(i)
      BY <1>2 DEF i
    <2> QED BY <2>1, <2>2, <2>3, PopIsForm, Zenon
  <1>3. CASE LowArgument(a) /\ LowArgument(b) /\ a # b /\ body = TwoPopBody(a - 88, b - 88)
    <2> DEFINE i == a - 88
               j == b - 88
    <2>1. /\ i \in ArgumentNumbers /\ j \in ArgumentNumbers /\ i # j /\ i < 8 /\ j < 8
          /\ 88 + i = a /\ 88 + j = b /\ i \in 0 .. 15 /\ j \in 0 .. 15
      BY <1>3 DEF LowArgument, ArgumentNumbers
    <2>2. body = TwoPopBody(i, j)
      BY <1>3
    <2> HIDE DEF i, j
    <2>3. PopBytes(i) \o PopBytes(j) = <<a, b>>
      BY <2>1, PairBytes
    <2> QED BY <2>1, <2>2, <2>3, TwoPopsAreForm, Zenon
  <1> QED BY <1>1, <1>2, <1>3 DEF Two

LEMMA ThreeIsForm ==
    ASSUME NEW a, NEW b, NEW c, NEW body, Three(a, b, c, body)
    PROVE  Form(<<a, b, c>>, body) \in Forms
  <1>1. CASE LowArgument(a) /\ b = 65 /\ HighArgument(c) /\ body = TwoPopBody(a - 88, c - 80)
    <2> DEFINE i == a - 88
               j == c - 80
    <2>1. /\ i \in ArgumentNumbers /\ j \in ArgumentNumbers /\ i # j /\ i < 8 /\ ~(j < 8)
          /\ 88 + i = a /\ 80 + j = c /\ i \in 0 .. 15 /\ j \in 0 .. 15
      BY <1>1 DEF LowArgument, HighArgument, ArgumentNumbers
    <2>2. body = TwoPopBody(i, j)
      BY <1>1
    <2> HIDE DEF i, j
    <2>3. PopBytes(i) \o PopBytes(j) = <<a, b, c>>
      BY <1>1, <2>1, PairBytes
    <2> QED BY <2>1, <2>2, <2>3, TwoPopsAreForm, Zenon
  <1>2. CASE a = 65 /\ HighArgument(b) /\ LowArgument(c) /\ body = TwoPopBody(b - 80, c - 88)
    <2> DEFINE i == b - 80
               j == c - 88
    <2>1. /\ i \in ArgumentNumbers /\ j \in ArgumentNumbers /\ i # j /\ ~(i < 8) /\ j < 8
          /\ 80 + i = b /\ 88 + j = c /\ i \in 0 .. 15 /\ j \in 0 .. 15
      BY <1>2 DEF LowArgument, HighArgument, ArgumentNumbers
    <2>2. body = TwoPopBody(i, j)
      BY <1>2
    <2> HIDE DEF i, j
    <2>3. PopBytes(i) \o PopBytes(j) = <<a, b, c>>
      BY <1>2, <2>1, PairBytes
    <2> QED BY <2>1, <2>2, <2>3, TwoPopsAreForm, Zenon
  <1> QED BY <1>1, <1>2, RegisterMoveIsForm, MemoryMoveIsForm, Zenon DEF Three

LEMMA FourIsForm ==
    ASSUME NEW a, NEW b, NEW c, NEW d, NEW body, Four(a, b, c, d, body)
    PROVE  Form(<<a, b, c, d>>, body) \in Forms
  <1>1. CASE a = 72 /\ b = 131 /\ c = 196 /\ d \in 8 .. 120 /\ d % 8 = 0 /\ body = AdjustBody(d)
    BY <1>1, AdjustIsForm
  <1>2. CASE a = 65 /\ HighArgument(b) /\ c = 65 /\ HighArgument(d) /\ b # d /\ body = TwoPopBody(b - 80, d - 80)
    <2> DEFINE i == b - 80
               j == d - 80
    <2>1. /\ i \in ArgumentNumbers /\ j \in ArgumentNumbers /\ i # j /\ ~(i < 8) /\ ~(j < 8)
          /\ 80 + i = b /\ 80 + j = d /\ i \in 0 .. 15 /\ j \in 0 .. 15
      BY <1>2 DEF HighArgument, ArgumentNumbers
    <2>2. body = TwoPopBody(i, j)
      BY <1>2
    <2> HIDE DEF i, j
    <2>3. PopBytes(i) \o PopBytes(j) = <<a, b, c, d>>
      BY <1>2, <2>1, PairBytes
    <2> QED BY <2>1, <2>2, <2>3, TwoPopsAreForm, Zenon
  <1> QED BY <1>1, <1>2 DEF Four

-----------------------------------------------------------------------------
(* What a sequence of each length stands for.                              *)

LEMMA CodedOne ==
    ASSUME NEW a \in Int, NEW body, Coded(<<a>>, body)
    PROVE  One(a, body)
  <1>1. PICK x \in Int : <<a>> = <<x>> /\ One(x, body)
    BY DEF Coded
  <1> QED BY <1>1

LEMMA CodedTwo ==
    ASSUME NEW a \in Int, NEW b \in Int, NEW body, Coded(<<a, b>>, body)
    PROVE  Two(a, b, body)
  <1>1. PICK x \in Int, y \in Int : <<a, b>> = <<x, y>> /\ Two(x, y, body)
    BY DEF Coded
  <1> QED BY <1>1

LEMMA CodedThree ==
    ASSUME NEW a \in Int, NEW b \in Int, NEW c \in Int, NEW body, Coded(<<a, b, c>>, body)
    PROVE  Three(a, b, c, body)
  <1>1. PICK x \in Int, y \in Int, z \in Int : <<a, b, c>> = <<x, y, z>> /\ Three(x, y, z, body)
    BY DEF Coded
  <1> QED BY <1>1

LEMMA CodedFour ==
    ASSUME NEW a \in Int, NEW b \in Int, NEW c \in Int, NEW d \in Int, NEW body, Coded(<<a, b, c, d>>, body)
    PROVE  Four(a, b, c, d, body)
  <1>1. PICK x \in Int, y \in Int, z \in Int, t \in Int :
           <<a, b, c, d>> = <<x, y, z, t>> /\ Four(x, y, z, t, body)
    BY DEF Coded
  <1> QED BY <1>1

\* Each code stands for one body.
LEMMA OneBody ==
    ASSUME NEW a, NEW b, NEW d, One(a, b), One(a, d)
    PROVE  b = d
  BY DEF One

LEMMA TwoBody ==
    ASSUME NEW a, NEW c, NEW b, NEW d, Two(a, c, b), Two(a, c, d)
    PROVE  b = d
  BY DEF Two, LowArgument

LEMMA ThreeBody ==
    ASSUME NEW x, NEW y, NEW z, NEW b, NEW d, Three(x, y, z, b), Three(x, y, z, d)
    PROVE  b = d
  BY DEF Three, LowArgument, HighArgument, RegisterMove, MemoryMove, RegisterMoveBytes, MemoryMoveBytes

LEMMA FourBody ==
    ASSUME NEW x, NEW y, NEW z, NEW t, NEW b, NEW d, Four(x, y, z, t, b), Four(x, y, z, t, d)
    PROVE  b = d
  BY DEF Four, HighArgument

LEMMA FormParts == ASSUME NEW f \in Forms PROVE f = Form(f.code, f.body)
  <1>1. NumberedForm(f)
    BY FormsByNumber
  <1>2. \E c, b : f = Form(c, b)
    BY <1>1, Zenon DEF NumberedForm, FixedForm, PopForm, TwoPopForm, AdjustForm, MoveForm, AccessForm
  <1>3. PICK c : \E b : f = Form(c, b)
    BY <1>2
  <1>4. PICK b : f = Form(c, b)
    BY <1>3
  <1>5. f.code = c /\ f.body = b
    BY <1>4 DEF Form
  <1> QED BY <1>4, <1>5

LEMMA CodeIsCoded == ASSUME NEW code \in Codes PROVE \E body : Coded(code, body)
  <1>1. PICK f \in Forms : f.code = code
    BY DEF Codes
  <1>2. Form(code, f.body) \in Forms
    BY <1>1, FormParts, Zenon
  <1>3. Coded(code, f.body)
    BY <1>2, FormIsCoded, Zenon
  <1> QED BY <1>3

\* A code has one body: no two forms have the same bytes.
LEMMA BodyOf ==
    ASSUME NEW code, NEW body, Form(code, body) \in Forms,
           \A other : Coded(code, other) => other = body
    PROVE  code \in Codes /\ Body[code] = body
  <1>1. Form(code, body).code = code
    BY DEF Form
  <1>2. code \in Codes
    BY <1>1, Zenon DEF Codes
  <1> DEFINE f == CHOOSE f \in Forms : f.code = code
  <1>3. f \in Forms /\ f.code = code
    BY <1>1, Zenon
  <1>4. Body[code] = f.body
    BY <1>2 DEF Body
  <1> HIDE DEF f
  <1>5. Form(code, f.body) \in Forms
    BY <1>3, FormParts, Zenon
  <1>6. Coded(code, f.body)
    BY <1>5, FormIsCoded, Zenon
  <1> QED BY <1>2, <1>4, <1>6

LEMMA EmptyBody == <<>> \in Codes /\ Body[<<>>] = <<>>
  <1>1. \A other : Coded(<<>>, other) => other = <<>>
    BY DEF Coded
  <1> QED BY <1>1, FixedAreForms, BodyOf, Zenon

LEMMA BodyOne == ASSUME NEW a \in Int, NEW body, One(a, body) PROVE <<a>> \in Codes /\ Body[<<a>>] = body
  <1>1. \A other : Coded(<<a>>, other) => other = body
    BY CodedOne, OneBody, Zenon
  <1> QED BY <1>1, OneIsForm, BodyOf, Zenon

LEMMA BodyTwo ==
    ASSUME NEW a \in Int, NEW b \in Int, NEW body, Two(a, b, body)
    PROVE  <<a, b>> \in Codes /\ Body[<<a, b>>] = body
  <1>1. \A other : Coded(<<a, b>>, other) => other = body
    BY CodedTwo, TwoBody, Zenon
  <1> QED BY <1>1, TwoIsForm, BodyOf, Zenon

LEMMA BodyThree ==
    ASSUME NEW a \in Int, NEW b \in Int, NEW c \in Int, NEW body, Three(a, b, c, body)
    PROVE  <<a, b, c>> \in Codes /\ Body[<<a, b, c>>] = body
  <1>1. \A other : Coded(<<a, b, c>>, other) => other = body
    BY CodedThree, ThreeBody, Zenon
  <1> QED BY <1>1, ThreeIsForm, BodyOf, Zenon

LEMMA BodyFour ==
    ASSUME NEW a \in Int, NEW b \in Int, NEW c \in Int, NEW d \in Int, NEW body, Four(a, b, c, d, body)
    PROVE  <<a, b, c, d>> \in Codes /\ Body[<<a, b, c, d>>] = body
  <1>1. \A other : Coded(<<a, b, c, d>>, other) => other = body
    BY CodedFour, FourBody, Zenon
  <1> QED BY <1>1, FourIsForm, BodyOf, Zenon

\* The bytes that can be the last ones of a code of each length.
OneByte(a) == a = 201 \/ a \in 88 .. 95

TwoBytes(a, b) ==
    \/ a = 15 /\ b = 5
    \/ a = 65 /\ b \in 88 .. 95
    \/ LowArgument(a) /\ LowArgument(b) /\ a # b

ThreeBytes(a, b, c) ==
    \/ LowArgument(a) /\ b = 65 /\ HighArgument(c)
    \/ a = 65 /\ HighArgument(b) /\ LowArgument(c)
    \/ RegisterMoveBytes(a, b, c)
    \/ MemoryMoveBytes(a, b, c)

FourBytes(a, b, c, d) ==
    \/ a = 72 /\ b = 131 /\ c = 196 /\ d \in 8 .. 120 /\ d % 8 = 0
    \/ a = 65 /\ HighArgument(b) /\ c = 65 /\ HighArgument(d) /\ b # d

LEMMA BytesOfCodes ==
    ASSUME NEW a \in Int, NEW b \in Int, NEW c \in Int, NEW d \in Int
    PROVE  /\ <<a>> \in Codes => OneByte(a)
           /\ <<a, b>> \in Codes => TwoBytes(a, b)
           /\ <<a, b, c>> \in Codes => ThreeBytes(a, b, c)
           /\ <<a, b, c, d>> \in Codes => FourBytes(a, b, c, d)
  <1>1. ASSUME <<a>> \in Codes PROVE OneByte(a)
    BY <1>1, CodeIsCoded, CodedOne, Zenon DEF One, OneByte
  <1>2. ASSUME <<a, b>> \in Codes PROVE TwoBytes(a, b)
    <2>1. PICK body : Two(a, b, body)
      BY <1>2, CodeIsCoded, CodedTwo, Zenon
    <2> QED BY <2>1 DEF Two, TwoBytes
  <1>3. ASSUME <<a, b, c>> \in Codes PROVE ThreeBytes(a, b, c)
    BY <1>3, CodeIsCoded, CodedThree, Zenon DEF Three, ThreeBytes, RegisterMove, MemoryMove
  <1>4. ASSUME <<a, b, c, d>> \in Codes PROVE FourBytes(a, b, c, d)
    <2>1. PICK body : Four(a, b, c, d, body)
      BY <1>4, CodeIsCoded, CodedFour, Zenon
    <2> QED BY <2>1 DEF Four, FourBytes
  <1> QED BY <1>1, <1>2, <1>3, <1>4

LEMMA PrefixBits ==
    ASSUME NEW a \in 72 .. 79, NEW c \in 0 .. 255
    PROVE  /\ RmField(a, c) = IF (a \div 1) % 2 = 1 THEN (c % 8) + 8 ELSE c % 8
           /\ RegField(a, c) = IF (a \div 4) % 2 = 1 THEN ((c \div 8) % 8) + 8 ELSE (c \div 8) % 8
           /\ Unused(a) = 0 <=> ~((a \div 2) % 2 = 1)
           /\ (c % 8 \notin {4, 5}) <=> RmField(a, c) \notin {4, 5, 12, 13}
  <1>1. /\ a \div 1 = a /\ a % 2 \in {0, 1} /\ (a \div 4) % 2 \in {0, 1} /\ (a \div 2) % 2 \in {0, 1}
        /\ c % 8 \in 0 .. 7
    OBVIOUS
  <1>2. /\ RmField(a, c) = IF (a \div 1) % 2 = 1 THEN (c % 8) + 8 ELSE c % 8
        /\ RegField(a, c) = IF (a \div 4) % 2 = 1 THEN ((c \div 8) % 8) + 8 ELSE (c \div 8) % 8
    BY <1>1 DEF RmField, RegField
  <1> QED BY <1>1, <1>2 DEF Unused

-----------------------------------------------------------------------------
(* The bytes of a window before its return.                                *)

\* A window in the file, whose bytes are bytes.
Sound(c) ==
    /\ c.byteStart \in Nat /\ c.fileOffset \in Nat /\ c.byteStart <= c.fileOffset /\ c.fileOffset <= WordMax
    /\ \A i \in c.byteStart .. c.fileOffset - 1 : object.image[i] \in 0 .. 255
    /\ c.terminator \in {RET, RET_IMM16}

LEMMA BytesBefore ==
    ASSUME NEW c, Sound(c)
    PROVE  /\ Room(c) \in Nat /\ Room(c) = c.fileOffset - c.byteStart
           /\ \A n \in 1 .. Room(c) : Back(c, n) \in 0 .. 255 /\ Back(c, n) \in Int
  <1>1. Room(c) = c.fileOffset - c.byteStart
    BY WordMaxAssumption DEF Sound, Room, WordDifference
  <1>2. ASSUME NEW n \in 1 .. Room(c) PROVE Back(c, n) \in 0 .. 255 /\ Back(c, n) \in Int
    <2>1. c.fileOffset - n \in c.byteStart .. c.fileOffset - 1
      BY <1>1 DEF Sound
    <2>2. object.image[c.fileOffset - n] \in 0 .. 255
      BY <2>1 DEF Sound
    <2> QED BY <2>2 DEF Back
  <1> QED BY <1>1, <1>2 DEF Sound

LEMMA LastBytesAre ==
    ASSUME NEW c, Sound(c)
    PROVE  /\ LastBytes(c, 0) = <<>>
           /\ Room(c) >= 1 => LastBytes(c, 1) = <<Back(c, 1)>>
           /\ Room(c) >= 2 => LastBytes(c, 2) = <<Back(c, 2), Back(c, 1)>>
           /\ Room(c) >= 3 => LastBytes(c, 3) = <<Back(c, 3), Back(c, 2), Back(c, 1)>>
           /\ Room(c) >= 4 => LastBytes(c, 4) = <<Back(c, 4), Back(c, 3), Back(c, 2), Back(c, 1)>>
  <1>1. Room(c) \in Nat /\ \A n \in 1 .. Room(c) : Back(c, n) \in Int
    BY BytesBefore
  <1>2. c.fileOffset \in Int
    BY DEF Sound
  <1>3. ASSUME NEW n \in 0 .. 4, n <= Room(c)
        PROVE  /\ LastBytes(c, n) \in Seq(Int) /\ Len(LastBytes(c, n)) = n
               /\ \A i \in 1 .. n : LastBytes(c, n)[i] = Back(c, n + 1 - i)
    <2>1. ASSUME NEW i \in 1 .. n PROVE LastBytes(c, n)[i] = Back(c, n + 1 - i) /\ LastBytes(c, n)[i] \in Int
      <3>1. n + 1 - i \in 1 .. Room(c) /\ c.fileOffset - (n + 1 - i) = c.fileOffset - n + i - 1
        BY <1>1, <1>2, <1>3
      <3>2. LastBytes(c, n)[i] = object.image[c.fileOffset - n + i - 1]
        BY DEF LastBytes
      <3> QED BY <1>1, <3>1, <3>2 DEF Back
    <2>2. n \in Nat /\ LastBytes(c, n) = [i \in 1 .. n |-> LastBytes(c, n)[i]]
      BY DEF LastBytes
    <2>3. LastBytes(c, n) \in [1 .. n -> Int]
      BY <2>1, <2>2
    <2> QED BY <2>1, <2>2, <2>3
  <1> HIDE DEF LastBytes, Back
  <1>4. LastBytes(c, 0) = <<>>
    BY <1>1, <1>3
  <1>5. ASSUME Room(c) >= 1 PROVE LastBytes(c, 1) = <<Back(c, 1)>>
    <2> DEFINE s == LastBytes(c, 1)
    <2>1. s \in Seq(Int) /\ Len(s) = 1 /\ s[1] = Back(c, 1)
      BY <1>3, <1>5
    <2> HIDE DEF s
    <2>2. s = <<Back(c, 1)>>
      BY <2>1
    <2> QED BY <2>2 DEF s
  <1>6. ASSUME Room(c) >= 2 PROVE LastBytes(c, 2) = <<Back(c, 2), Back(c, 1)>>
    <2> DEFINE s == LastBytes(c, 2)
    <2>1. s \in Seq(Int) /\ Len(s) = 2 /\ s[1] = Back(c, 2) /\ s[2] = Back(c, 1)
      BY <1>3, <1>6
    <2> HIDE DEF s
    <2>2. s = <<Back(c, 2), Back(c, 1)>>
      BY <2>1
    <2> QED BY <2>2 DEF s
  <1>7. ASSUME Room(c) >= 3 PROVE LastBytes(c, 3) = <<Back(c, 3), Back(c, 2), Back(c, 1)>>
    <2> DEFINE s == LastBytes(c, 3)
    <2>1. s \in Seq(Int) /\ Len(s) = 3 /\ s[1] = Back(c, 3) /\ s[2] = Back(c, 2) /\ s[3] = Back(c, 1)
      BY <1>3, <1>7
    <2> HIDE DEF s
    <2>2. s = <<Back(c, 3), Back(c, 2), Back(c, 1)>>
      BY <2>1
    <2> QED BY <2>2 DEF s
  <1>8. ASSUME Room(c) >= 4 PROVE LastBytes(c, 4) = <<Back(c, 4), Back(c, 3), Back(c, 2), Back(c, 1)>>
    <2> DEFINE s == LastBytes(c, 4)
    <2>1. /\ s \in Seq(Int) /\ Len(s) = 4 /\ s[1] = Back(c, 4) /\ s[2] = Back(c, 3)
          /\ s[3] = Back(c, 2) /\ s[4] = Back(c, 1)
      BY <1>3, <1>8
    <2> HIDE DEF s
    <2>2. s = <<Back(c, 4), Back(c, 3), Back(c, 2), Back(c, 1)>>
      BY <2>1
    <2> QED BY <2>2 DEF s
  <1> QED BY <1>4, <1>5, <1>6, <1>7, <1>8

\* The last n bytes are a form that begins where an instruction does.
Valid(c, n) ==
    /\ LastBytes(c, n) \in Codes
    /\ ~ (n \in 1 .. Room(c) - 1 /\ Back(c, n) \in 88 .. 95 /\ Back(c, n + 1) = 65)

\* The reading is the longest valid code, if no longer one is valid.
LEMMA ReadingIs ==
    ASSUME NEW c, Sound(c), c.terminator # RET_IMM16, NEW n \in 0 .. 4, n <= Room(c), Valid(c, n),
           \A m \in 0 .. 4 : m > n /\ m <= Room(c) => ~ Valid(c, m)
    PROVE  Reading(c) = LastBytes(c, n) /\ Len(Reading(c)) = n
  <1>1. Room(c) \in Nat
    BY BytesBefore
  <1>2. Readings(c) = {LastBytes(c, m) : m \in {k \in 0 .. Room(c) : k <= 4 /\ Valid(c, k)}}
    BY DEF Readings, Valid
  <1>3. \A m \in 0 .. 4 : Len(LastBytes(c, m)) = m
    BY DEF LastBytes
  <1>4. LastBytes(c, n) \in Readings(c)
    BY <1>1, <1>2
  <1>5. ASSUME NEW t \in Readings(c)
        PROVE  Len(t) <= n /\ \E m \in 0 .. 4 : t = LastBytes(c, m)
    <2>1. PICK m \in 0 .. Room(c) : t = LastBytes(c, m) /\ m <= 4 /\ Valid(c, m)
      BY <1>2, <1>5
    <2>2. m \in 0 .. 4
      BY <1>1, <2>1
    <2> HIDE DEF LastBytes
    <2>3. Len(t) = m
      BY <1>3, <2>1, <2>2
    <2>4. m <= n
      BY <1>1, <2>1, <2>2
    <2> QED BY <2>1, <2>2, <2>4, <2>3
  <1> DEFINE t == CHOOSE t \in Readings(c) : \A u \in Readings(c) : Len(u) <= Len(t)
  <1>6. \E r \in Readings(c) : \A u \in Readings(c) : Len(u) <= Len(r)
    BY <1>3, <1>4, <1>5
  <1>7. t \in Readings(c) /\ \A u \in Readings(c) : Len(u) <= Len(t)
    BY <1>6, Zenon
  <1>8. Reading(c) = t
    BY DEF Reading
  <1> HIDE DEF t
  <1>9. PICK m \in 0 .. 4 : t = LastBytes(c, m)
    BY <1>5, <1>7
  <1>10. Len(t) = m /\ m <= n /\ n <= m
    BY <1>3, <1>4, <1>5, <1>7, <1>9
  <1> QED BY <1>3, <1>8, <1>9, <1>10

\* A code that ends before the return, by its last bytes.
LEMMA CodesBefore ==
    ASSUME NEW c, Sound(c)
    PROVE  /\ Room(c) >= 1 /\ Valid(c, 1) => OneByte(Back(c, 1))
           /\ Room(c) >= 2 /\ Valid(c, 2) => TwoBytes(Back(c, 2), Back(c, 1))
           /\ Room(c) >= 3 /\ Valid(c, 3) => ThreeBytes(Back(c, 3), Back(c, 2), Back(c, 1))
           /\ Room(c) >= 4 /\ Valid(c, 4) => FourBytes(Back(c, 4), Back(c, 3), Back(c, 2), Back(c, 1))
  <1>1. Room(c) \in Nat /\ \A n \in 1 .. Room(c) : Back(c, n) \in Int
    BY BytesBefore
  <1>2. ASSUME Room(c) >= 1, Valid(c, 1) PROVE OneByte(Back(c, 1))
    <2>1. Back(c, 1) \in Int
      BY <1>1, <1>2
    <2>2. <<Back(c, 1)>> \in Codes
      BY <1>2, LastBytesAre, Zenon DEF Valid
    <2> QED BY <2>1, <2>2, BytesOfCodes, Zenon
  <1>3. ASSUME Room(c) >= 2, Valid(c, 2) PROVE TwoBytes(Back(c, 2), Back(c, 1))
    <2>1. Back(c, 1) \in Int /\ Back(c, 2) \in Int
      BY <1>1, <1>3
    <2>2. <<Back(c, 2), Back(c, 1)>> \in Codes
      BY <1>3, LastBytesAre, Zenon DEF Valid
    <2> QED BY <2>1, <2>2, BytesOfCodes, Zenon
  <1>4. ASSUME Room(c) >= 3, Valid(c, 3) PROVE ThreeBytes(Back(c, 3), Back(c, 2), Back(c, 1))
    <2>1. Back(c, 1) \in Int /\ Back(c, 2) \in Int /\ Back(c, 3) \in Int
      BY <1>1, <1>4
    <2>2. <<Back(c, 3), Back(c, 2), Back(c, 1)>> \in Codes
      BY <1>4, LastBytesAre, Zenon DEF Valid
    <2> QED BY <2>1, <2>2, BytesOfCodes, Zenon
  <1>5. ASSUME Room(c) >= 4, Valid(c, 4) PROVE FourBytes(Back(c, 4), Back(c, 3), Back(c, 2), Back(c, 1))
    <2>1. Back(c, 1) \in Int /\ Back(c, 2) \in Int /\ Back(c, 3) \in Int /\ Back(c, 4) \in Int
      BY <1>1, <1>5
    <2>2. <<Back(c, 4), Back(c, 3), Back(c, 2), Back(c, 1)>> \in Codes
      BY <1>5, LastBytesAre, Zenon DEF Valid
    <2> QED BY <2>1, <2>2, BytesOfCodes, Zenon
  <1> QED BY <1>2, <1>3, <1>4, <1>5

\* The two tests of the matcher for a move, by fields.
LEMMA MovesBefore ==
    ASSUME NEW c, Sound(c), Room(c) >= 3
    PROVE  /\ RegisterMoveBefore(c) <=> RegisterMoveBytes(Back(c, 3), Back(c, 2), Back(c, 1))
           /\ MemoryMoveBefore(c) <=> MemoryMoveBytes(Back(c, 3), Back(c, 2), Back(c, 1))
           /\ MoveBefore(c) => /\ BaseOperand(c) = Reg(RmField(Back(c, 3), Back(c, 1)))
                               /\ ValueOperand(c) = Reg(RegField(Back(c, 3), Back(c, 1)))
  <1> DEFINE a == Back(c, 3)
             b == Back(c, 2)
             d == Back(c, 1)
  <1>1. a \in 0 .. 255 /\ b \in 0 .. 255 /\ d \in 0 .. 255
    BY BytesBefore
  <1>2. /\ MoveBefore(c) <=> a \in 72 .. 79 /\ b \in {137, 139}
        /\ Mode(c) = ModeField(d) /\ BaseField(c) = d % 8
        /\ \A bit : Prefix(c, bit) <=> (a \div bit) % 2 = 1
    BY DEF MoveBefore, Mode, BaseField, Prefix, ModeField
  <1>3. BaseOperand(c) = Register(d % 8, (a \div 1) % 2 = 1)
    BY Zenon DEF BaseOperand, BaseField, Prefix
  <1>4. ValueOperand(c) = Register((d \div 8) % 8, (a \div 4) % 2 = 1)
    BY Zenon DEF ValueOperand, Prefix
  <1> HIDE DEF a, b, d
  <1>5. CASE a \in 72 .. 79 /\ b \in {137, 139}
    <2> DEFINE i == RegField(a, d)
               j == RmField(a, d)
               low == d % 8
               mid == (d \div 8) % 8
    <2>1. i \in 0 .. 15 /\ j \in 0 .. 15
      BY <1>1, <1>5, FieldsMove
    <2>2. low \in 0 .. 7 /\ mid \in 0 .. 7
      BY <1>1
    <2>3. /\ j = IF (a \div 1) % 2 = 1 THEN low + 8 ELSE low
          /\ i = IF (a \div 4) % 2 = 1 THEN mid + 8 ELSE mid
          /\ Unused(a) = 0 <=> ~((a \div 2) % 2 = 1)
          /\ low \notin {4, 5} <=> j \notin {4, 5, 12, 13}
      BY <1>1, <1>5, PrefixBits
    <2> HIDE DEF low, mid, i, j
    <2>4. BaseOperand(c) = Reg(j)
      BY <1>3, <2>2, <2>3, RegisterIs, Zenon DEF low
    <2>5. ValueOperand(c) = Reg(i)
      BY <1>4, <2>2, <2>3, RegisterIs, Zenon DEF mid
    <2>6. /\ BaseOperand(c) = ValueOperand(c) <=> i = j
          /\ ValueOperand(c) # "rsp" <=> i # 4
          /\ BaseOperand(c) # "rsp" <=> j # 4
      BY <2>1, <2>4, <2>5, RegistersDiffer, RegisterNumber
    <2>7. RegisterMoveBefore(c) <=> RegisterMoveBytes(a, b, d)
      BY <1>1, <1>2, <1>5, <2>6 DEF RegisterMoveBefore, RegisterMoveBytes, i, j
    <2>8. MemoryMoveBefore(c) <=> MemoryMoveBytes(a, b, d)
      <3>1. Prefix(c, 2) <=> ~(Unused(a) = 0)
        BY <1>2, <2>3
      <3>2. BaseField(c) \notin {4, 5} <=> RmField(a, d) \notin {4, 5, 12, 13}
        BY <1>2, <2>3 DEF low, j
      <3> QED BY <1>1, <1>2, <1>5, <2>6, <3>1, <3>2 DEF MemoryMoveBefore, MemoryMoveBytes, i
    <2> QED BY <2>4, <2>5, <2>7, <2>8 DEF a, b, d, i, j
  <1>6. CASE ~(a \in 72 .. 79 /\ b \in {137, 139})
    <2>1. ~MoveBefore(c) /\ ~RegisterMoveBytes(a, b, d) /\ ~MemoryMoveBytes(a, b, d)
      BY <1>2, <1>6 DEF RegisterMoveBytes, MemoryMoveBytes
    <2> QED BY <2>1 DEF RegisterMoveBefore, MemoryMoveBefore, a, b, d
  <1> QED BY <1>5, <1>6

-----------------------------------------------------------------------------
(* The pop that ends k bytes before the return.                            *)

\* There is one; it has a prefix; how long it is; the number of its register.
PopBefore(c, k) == Room(c) > k /\ Back(c, k + 1) \in 88 .. 95
Prefixed(c, k)  == Room(c) > k + 1 /\ Back(c, k + 2) = 65
PopWidth(c, k)  == IF Prefixed(c, k) THEN 2 ELSE 1
PopNumber(c, k) == IF Prefixed(c, k) THEN Back(c, k + 1) - 80 ELSE Back(c, k + 1) - 88

\* Two of them, of different argument registers, end the window.
TwoPopsBefore(c) ==
    /\ PopBefore(c, 0) /\ PopBefore(c, PopWidth(c, 0))
    /\ PopNumber(c, 0) \in ArgumentNumbers /\ PopNumber(c, PopWidth(c, 0)) \in ArgumentNumbers
    /\ PopNumber(c, 0) # PopNumber(c, PopWidth(c, 0))

\* The pops the matcher finds, by its two sets.
LEMMA PopsAre ==
    ASSUME NEW c, Sound(c), NEW k \in 0 .. 2
    PROVE  PopsEndingAt(c, c.fileOffset - k)
             = IF PopBefore(c, k)
               THEN {[start |-> c.fileOffset - (k + PopWidth(c, k)), reg |-> Reg(PopNumber(c, k))]}
               ELSE {}
  <1> DEFINE end == c.fileOffset - k
             b == Back(c, k + 1)
  <1>1. /\ Room(c) \in Nat /\ Room(c) = c.fileOffset - c.byteStart
        /\ c.fileOffset \in Nat /\ c.byteStart \in Nat
    BY BytesBefore DEF Sound
  <1>2. end <= c.byteStart <=> ~(Room(c) > k)
    BY <1>1
  <1>3. /\ end - 1 = c.fileOffset - (k + 1) /\ end - 2 = c.fileOffset - (k + 2)
        /\ end - 1 > c.byteStart <=> Room(c) > k + 1
    BY <1>1
  <1>4. object.image[end - 1] = b /\ object.image[end - 2] = Back(c, k + 2)
    BY <1>3 DEF Back
  <1>5. PopBefore(c, k) <=> ~(end <= c.byteStart \/ object.image[end - 1] \notin 88 .. 95)
    BY <1>2, <1>4 DEF PopBefore
  <1>6. CASE PopBefore(c, k)
    <2> DEFINE e == end - 1 > c.byteStart /\ object.image[end - 2] = 65
    <2>1. e <=> Prefixed(c, k)
      BY <1>3, <1>4 DEF Prefixed
    <2>2. e \in BOOLEAN
      OBVIOUS
    <2>3. PopsEndingAt(c, end) = {[start |-> IF e THEN end - 2 ELSE end - 1, reg |-> Register(b - 88, e)]}
      BY <1>4, <1>5, <1>6 DEF PopsEndingAt
    <2> HIDE DEF e
    <2>4. b \in 88 .. 95 /\ b - 88 \in 0 .. 7 /\ (b - 88) + 8 = b - 80
      BY <1>6 DEF PopBefore
    <2>5. Register(b - 88, e) = Reg(IF e THEN (b - 88) + 8 ELSE b - 88)
      BY <2>2, <2>4, RegisterIs, Zenon
    <2>6. Register(b - 88, e) = Reg(PopNumber(c, k))
      BY <2>1, <2>4, <2>5, Zenon DEF PopNumber
    <2>7. (IF e THEN end - 2 ELSE end - 1) = c.fileOffset - (k + PopWidth(c, k))
      BY <1>3, <2>1 DEF PopWidth
    <2> QED BY <1>6, <2>3, <2>6, <2>7
  <1>7. CASE ~PopBefore(c, k)
    BY <1>5, <1>7 DEF PopsEndingAt
  <1> QED BY <1>6, <1>7

LEMMA PopNumbers ==
    ASSUME NEW c, Sound(c), NEW k \in 0 .. 2, PopBefore(c, k)
    PROVE  PopNumber(c, k) \in 0 .. 15 /\ PopWidth(c, k) \in {1, 2}
  BY DEF PopBefore, PopNumber, PopWidth

LEMMA LastPopIs ==
    ASSUME NEW c, Sound(c)
    PROVE  LastPop(c) = IF PopBefore(c, 0)
                        THEN {[start |-> c.fileOffset - PopWidth(c, 0), reg |-> Reg(PopNumber(c, 0))]}
                        ELSE {}
  <1>1. c.fileOffset - 0 = c.fileOffset /\ 0 + PopWidth(c, 0) = PopWidth(c, 0) /\ 0 \in 0 .. 2
    BY DEF Sound, PopWidth
  <1>2. PopsEndingAt(c, c.fileOffset - 0)
          = IF PopBefore(c, 0)
            THEN {[start |-> c.fileOffset - (0 + PopWidth(c, 0)), reg |-> Reg(PopNumber(c, 0))]}
            ELSE {}
    BY <1>1, PopsAre
  <1> QED BY <1>1, <1>2 DEF LastPop

LEMMA ArgumentPopsAre ==
    ASSUME NEW c, Sound(c)
    PROVE  ArgumentPops(c) = IF TwoPopsBefore(c)
                             THEN {<<Reg(PopNumber(c, PopWidth(c, 0))), Reg(PopNumber(c, 0))>>}
                             ELSE {}
  <1> DEFINE w == PopWidth(c, 0)
             i == PopNumber(c, w)
             j == PopNumber(c, 0)
             Pairs == UNION { { <<first.reg, second.reg>> : first \in PopsEndingAt(c, second.start) } :
                              second \in LastPop(c) }
             Allowed(regs) == /\ regs[1] \in ArgumentRegisters /\ regs[2] \in ArgumentRegisters
                              /\ regs[1] # regs[2]
  <1>1. ArgumentPops(c) = {regs \in Pairs : Allowed(regs)}
    BY DEF ArgumentPops
  <1>2. CASE ~PopBefore(c, 0)
    <2>1. LastPop(c) = {}
      BY <1>2, LastPopIs
    <2> QED BY <1>1, <1>2, <2>1 DEF TwoPopsBefore
  <1>3. CASE PopBefore(c, 0)
    <2>1. w \in 0 .. 2 /\ w \in {1, 2} /\ j \in 0 .. 15
      BY <1>3, PopNumbers
    <2>2. LastPop(c) = {[start |-> c.fileOffset - w, reg |-> Reg(j)]}
      BY <1>3, LastPopIs
    <2> HIDE DEF w, i, j
    <2>3. Pairs = { <<first.reg, Reg(j)>> : first \in PopsEndingAt(c, c.fileOffset - w) }
      BY <2>2
    <2>4. CASE ~PopBefore(c, w)
      <3>1. PopsEndingAt(c, c.fileOffset - w) = {}
        BY <2>1, <2>4, PopsAre
      <3> QED BY <1>1, <2>3, <2>4, <3>1 DEF TwoPopsBefore, w
    <2>5. CASE PopBefore(c, w)
      <3>1. PopsEndingAt(c, c.fileOffset - w) = {[start |-> c.fileOffset - (w + PopWidth(c, w)), reg |-> Reg(i)]}
        BY <2>1, <2>5, PopsAre DEF i
      <3>2. Pairs = {<<Reg(i), Reg(j)>>}
        <4> DEFINE pop == [start |-> c.fileOffset - (w + PopWidth(c, w)), reg |-> Reg(i)]
        <4>1. pop.reg = Reg(i)
          OBVIOUS
        <4> HIDE DEF pop
        <4>2. {<<first.reg, Reg(j)>> : first \in {pop}} = {<<pop.reg, Reg(j)>>}
          OBVIOUS
        <4>3. PopsEndingAt(c, c.fileOffset - w) = {pop}
          BY <3>1 DEF pop
        <4> HIDE DEF Pairs
        <4> QED BY <2>3, <4>1, <4>2, <4>3, Zenon
      <3>3. i \in 0 .. 15
        BY <2>1, <2>5, PopNumbers DEF i
      <3>4. Allowed(<<Reg(i), Reg(j)>>) <=> i \in ArgumentNumbers /\ j \in ArgumentNumbers /\ i # j
        BY <2>1, <3>3, RegisterNumber, RegistersDiffer DEF ArgumentNumbers
      <3>5. TwoPopsBefore(c) <=> i \in ArgumentNumbers /\ j \in ArgumentNumbers /\ i # j
        BY <1>3, <2>5 DEF TwoPopsBefore, i, j, w
      <3> HIDE DEF Pairs, Allowed
      <3>6. ArgumentPops(c) = IF TwoPopsBefore(c) THEN {<<Reg(i), Reg(j)>>} ELSE {}
        BY <1>1, <3>2, <3>4, <3>5
      <3> QED BY <3>6 DEF i, j, w
    <2> QED BY <2>4, <2>5
  <1> QED BY <1>2, <1>3

(* The families: the pattern that is found, the instructions of the        *)
(* reading, and how long it is.                                            *)

\* How long the pop of register i is.
PopLength(i) == IF i < 8 THEN 1 ELSE 2

\* Pattern, body and length of the reading, for each family.
ShapeRetImm(c, p, body, n) ==
    c.terminator = RET_IMM16 /\ p = Pattern("ret imm16", <<>>) /\ body = <<>> /\ n = 0
ShapeRet(p, body, n) == p = Pattern("ret", <<>>) /\ body = <<>> /\ n = 0
ShapeLeave(p, body, n) == p = Pattern("leave", <<>>) /\ body = LeaveBody /\ n = 1
ShapeSyscall(p, body, n) == p = Pattern("syscall", <<>>) /\ body = SyscallBody /\ n = 2
ShapeAdjust(c, p, body, n) ==
    /\ p = Pattern("adjust", <<>>) /\ body = AdjustBody(Back(c, 1)) /\ n = 4
    /\ Back(c, 1) \in 8 .. 120 /\ Back(c, 1) % 8 = 0 /\ AdjustBefore(c)
ShapePop(p, body, n, i) == p = Pattern("pop", <<Reg(i)>>) /\ body = PopBody(i) /\ n = PopLength(i)
ShapeTwo(p, body, n, i, j) ==
    /\ p = Pattern("two pops", <<Reg(i), Reg(j)>>) /\ body = TwoPopBody(i, j)
    /\ n = PopLength(i) + PopLength(j)
ShapeTransfer(p, body, n, i, j) ==
    p = Pattern("transfer", <<Reg(i), Reg(j)>>) /\ body = MoveBody("move", i, j) /\ n = 3
ShapeStore(p, body, n, i, j) ==
    p = Pattern("store", <<Reg(i), Reg(j)>>) /\ body = MoveBody("write", i, j) /\ n = 3
ShapeLoad(p, body, n, i, j) ==
    p = Pattern("load", <<Reg(i), Reg(j)>>) /\ body = MoveBody("read", i, j) /\ n = 3

\* Every window has one of the shapes.
Shape(c, p, body, n) ==
    \/ ShapeRetImm(c, p, body, n)
    \/ /\ c.terminator = RET
       /\ \/ ShapeRet(p, body, n) \/ ShapeLeave(p, body, n)
          \/ ShapeSyscall(p, body, n) \/ ShapeAdjust(c, p, body, n)
          \/ \E i \in 0 .. 15 : ShapePop(p, body, n, i)
          \/ \E i, j \in ArgumentNumbers : i # j /\ ShapeTwo(p, body, n, i, j)
          \/ \E i, j \in MovableNumbers : i # j /\ ShapeTransfer(p, body, n, i, j)
          \/ \E i \in PlainNumbers, j \in MovableNumbers :
                ShapeStore(p, body, n, i, j) \/ ShapeLoad(p, body, n, i, j)

\* What a code that ends before the return can be at each length.
LEMMA ValidLengths ==
    ASSUME NEW c, Sound(c)
    PROVE  /\ Room(c) \in Nat
           /\ \A n \in 1 .. 4 : n <= Room(c) => Back(c, n) \in 0 .. 255 /\ Back(c, n) \in Int
           /\ Valid(c, 0)
           /\ \A n \in 1 .. 4 : Room(c) > n /\ Back(c, n) \in 88 .. 95 /\ Back(c, n + 1) = 65 => ~Valid(c, n)
  <1>1. Valid(c, 0)
    BY LastBytesAre, EmptyBody DEF Valid
  <1>2. Room(c) \in Nat
    BY BytesBefore
  <1>3. ASSUME NEW n \in 1 .. 4, Room(c) > n, Back(c, n) \in 88 .. 95 /\ Back(c, n + 1) = 65 PROVE ~Valid(c, n)
    BY <1>2, <1>3 DEF Valid
  <1> QED BY <1>1, <1>2, <1>3, BytesBefore

LEMMA RetImmShape ==
    ASSUME NEW c, Sound(c), c.terminator = RET_IMM16
    PROVE  ShapeRetImm(c, PatternOf(c), Body[Reading(c)], Len(Reading(c)))
  <1>1. Reading(c) = <<>>
    BY DEF Reading
  <1>2. PatternOf(c) = Pattern("ret imm16", <<>>)
    BY DEF PatternOf
  <1> QED BY <1>1, <1>2, EmptyBody DEF ShapeRetImm

LEMMA SyscallShape ==
    ASSUME NEW c, Sound(c), c.terminator # RET_IMM16, SyscallBefore(c)
    PROVE  ShapeSyscall(PatternOf(c), Body[Reading(c)], Len(Reading(c)))
  <1>1. Room(c) >= 2 /\ Back(c, 2) = 15 /\ Back(c, 1) = 5
    BY DEF SyscallBefore
  <1>2. Room(c) \in Nat
    BY ValidLengths
  <1>3. LastBytes(c, 2) = <<15, 5>>
    BY <1>1, LastBytesAre
  <1>4. LastBytes(c, 2) \in Codes /\ Body[LastBytes(c, 2)] = SyscallBody
    BY <1>3, BodyTwo DEF Two
  <1>5. Valid(c, 2)
    BY <1>1, <1>4 DEF Valid
  <1>6. Room(c) >= 3 => ~Valid(c, 3)
    BY <1>1, CodesBefore DEF ThreeBytes, HighArgument, LowArgument, RegisterMoveBytes, MemoryMoveBytes
  <1>7. Room(c) >= 4 => ~Valid(c, 4)
    BY <1>1, CodesBefore DEF FourBytes, HighArgument
  <1>8. Reading(c) = LastBytes(c, 2) /\ Len(Reading(c)) = 2
    <2>1. \A m \in 0 .. 4 : m > 2 /\ m <= Room(c) => ~Valid(c, m)
      BY <1>2, <1>6, <1>7
    <2>2. 2 \in 0 .. 4 /\ 2 <= Room(c)
      BY <1>1, <1>2
    <2> QED BY <1>5, <2>1, <2>2, ReadingIs
  <1>9. PatternOf(c) = Pattern("syscall", <<>>)
    BY DEF PatternOf
  <1> QED BY <1>4, <1>8, <1>9 DEF ShapeSyscall

LEMMA AdjustShape ==
    ASSUME NEW c, Sound(c), c.terminator # RET_IMM16, ~SyscallBefore(c), AdjustBefore(c)
    PROVE  ShapeAdjust(c, PatternOf(c), Body[Reading(c)], Len(Reading(c)))
  <1> DEFINE d == Back(c, 1)
  <1>1. /\ Room(c) >= 4 /\ Back(c, 4) = 72 /\ Back(c, 3) = 131 /\ Back(c, 2) = 196
        /\ d # 0 /\ d < 128 /\ d % 8 = 0
    BY DEF AdjustBefore
  <1>2. Room(c) \in Nat /\ d \in 0 .. 255
    BY <1>1, ValidLengths
  <1>3. d \in 8 .. 120 /\ d \in Int
    <2> HIDE DEF d
    <2> QED BY <1>1, <1>2
  <1>4. LastBytes(c, 4) = <<72, 131, 196, d>>
    BY <1>1, LastBytesAre
  <1>5. Four(72, 131, 196, d, AdjustBody(d))
    BY <1>1, <1>3 DEF Four
  <1>6. LastBytes(c, 4) \in Codes /\ Body[LastBytes(c, 4)] = AdjustBody(d)
    BY <1>3, <1>4, <1>5, BodyFour
  <1>7. Valid(c, 4)
    BY <1>1, <1>6 DEF Valid
  <1>8. Reading(c) = LastBytes(c, 4) /\ Len(Reading(c)) = 4
    <2>1. \A m \in 0 .. 4 : m > 4 /\ m <= Room(c) => ~Valid(c, m)
      OBVIOUS
    <2>2. 4 \in 0 .. 4 /\ 4 <= Room(c)
      BY <1>1, <1>2
    <2> QED BY <1>7, <2>1, <2>2, ReadingIs
  <1>9. PatternOf(c) = Pattern("adjust", <<>>)
    BY DEF PatternOf
  <1> QED BY <1>1, <1>3, <1>6, <1>8, <1>9 DEF ShapeAdjust

\* A move is its three bytes, and no longer code ends there.
LEMMA MoveReading ==
    ASSUME NEW c, Sound(c), c.terminator # RET_IMM16, MoveBefore(c), NEW body,
           Three(Back(c, 3), Back(c, 2), Back(c, 1), body)
    PROVE  Body[Reading(c)] = body /\ Len(Reading(c)) = 3
  <1>1. Room(c) >= 3 /\ Back(c, 3) \in 72 .. 79 /\ Back(c, 2) \in {137, 139}
    BY DEF MoveBefore
  <1>2. Room(c) \in Nat /\ Back(c, 1) \in Int /\ Back(c, 2) \in Int /\ Back(c, 3) \in Int
    BY <1>1, ValidLengths
  <1>3. LastBytes(c, 3) = <<Back(c, 3), Back(c, 2), Back(c, 1)>>
    BY <1>1, LastBytesAre
  <1>4. LastBytes(c, 3) \in Codes /\ Body[LastBytes(c, 3)] = body
    BY <1>2, <1>3, BodyThree
  <1>5. Valid(c, 3)
    BY <1>1, <1>4 DEF Valid
  <1>6. Room(c) >= 4 => ~Valid(c, 4)
    BY <1>1, CodesBefore DEF FourBytes
  <1>7. \A m \in 0 .. 4 : m > 3 /\ m <= Room(c) => ~Valid(c, m)
    BY <1>2, <1>6
  <1>8. 3 \in 0 .. 4 /\ 3 <= Room(c)
    BY <1>1, <1>2
  <1> QED BY <1>4, <1>5, <1>7, <1>8, ReadingIs

LEMMA MemoryShape ==
    ASSUME NEW c, Sound(c), c.terminator # RET_IMM16, ~SyscallBefore(c), ~AdjustBefore(c), MemoryMoveBefore(c)
    PROVE  \E i \in PlainNumbers, j \in MovableNumbers :
              \/ ShapeStore(PatternOf(c), Body[Reading(c)], Len(Reading(c)), i, j)
              \/ ShapeLoad(PatternOf(c), Body[Reading(c)], Len(Reading(c)), i, j)
  <1> DEFINE x == Back(c, 3)
             y == Back(c, 2)
             z == Back(c, 1)
             i == RmField(x, z)
             j == RegField(x, z)
             body == IF y = 137 THEN MoveBody("write", i, j) ELSE MoveBody("read", i, j)
  <1>1. MoveBefore(c) /\ Room(c) >= 3
    BY DEF MemoryMoveBefore, MoveBefore
  <1>2. MemoryMoveBytes(x, y, z) /\ BaseOperand(c) = Reg(i) /\ ValueOperand(c) = Reg(j)
    BY <1>1, MovesBefore
  <1>3. MemoryMove(x, y, z, body)
    BY <1>2 DEF MemoryMove
  <1>4. Body[Reading(c)] = body /\ Len(Reading(c)) = 3
    BY <1>1, <1>3, MoveReading DEF Three
  <1>5. PatternOf(c) = Pattern(IF Stores(c) THEN "store" ELSE "load", <<BaseOperand(c), ValueOperand(c)>>)
    BY DEF PatternOf
  <1>6. Stores(c) <=> y = 137
    BY DEF Stores
  <1>7. i \in PlainNumbers /\ j \in MovableNumbers
    BY <1>2, FieldsMove DEF MemoryMoveBytes, PlainNumbers, MovableNumbers
  <1>8. y = 137 => ShapeStore(PatternOf(c), Body[Reading(c)], Len(Reading(c)), i, j)
    BY <1>2, <1>4, <1>5, <1>6 DEF ShapeStore
  <1>9. y # 137 => ShapeLoad(PatternOf(c), Body[Reading(c)], Len(Reading(c)), i, j)
    BY <1>2, <1>4, <1>5, <1>6 DEF ShapeLoad
  <1> HIDE DEF x, y, z, i, j
  <1> QED BY <1>7, <1>8, <1>9

LEMMA TransferShape ==
    ASSUME NEW c, Sound(c), c.terminator # RET_IMM16, ~SyscallBefore(c), ~AdjustBefore(c),
           ~MemoryMoveBefore(c), RegisterMoveBefore(c)
    PROVE  \E i, j \in MovableNumbers :
              i # j /\ ShapeTransfer(PatternOf(c), Body[Reading(c)], Len(Reading(c)), i, j)
  <1> DEFINE x == Back(c, 3)
             y == Back(c, 2)
             z == Back(c, 1)
             i == RmField(x, z)
             j == RegField(x, z)
             body == IF y = 137 THEN MoveBody("move", i, j) ELSE MoveBody("move", j, i)
  <1>1. MoveBefore(c) /\ Room(c) >= 3
    BY DEF RegisterMoveBefore, MoveBefore
  <1>2. RegisterMoveBytes(x, y, z) /\ BaseOperand(c) = Reg(i) /\ ValueOperand(c) = Reg(j)
    BY <1>1, MovesBefore
  <1>3. RegisterMove(x, y, z, body)
    BY <1>2 DEF RegisterMove
  <1>4. Body[Reading(c)] = body /\ Len(Reading(c)) = 3
    BY <1>1, <1>3, MoveReading DEF Three
  <1>5. PatternOf(c) = Pattern("transfer", IF Stores(c) THEN <<BaseOperand(c), ValueOperand(c)>>
                                                       ELSE <<ValueOperand(c), BaseOperand(c)>>)
    BY DEF PatternOf
  <1>6. Stores(c) <=> y = 137
    BY DEF Stores
  <1>7. i \in MovableNumbers /\ j \in MovableNumbers /\ i # j
    BY <1>2, FieldsMove DEF RegisterMoveBytes, MovableNumbers
  <1>8. y = 137 => ShapeTransfer(PatternOf(c), Body[Reading(c)], Len(Reading(c)), i, j)
    BY <1>2, <1>4, <1>5, <1>6 DEF ShapeTransfer
  <1>9. y # 137 => ShapeTransfer(PatternOf(c), Body[Reading(c)], Len(Reading(c)), j, i)
    BY <1>2, <1>4, <1>5, <1>6 DEF ShapeTransfer
  <1> HIDE DEF x, y, z, i, j
  <1> QED BY <1>7, <1>8, <1>9

\* The window ends with none of the families that are tried first.
NoMove(c) == ~SyscallBefore(c) /\ ~AdjustBefore(c) /\ ~MemoryMoveBefore(c) /\ ~RegisterMoveBefore(c)

LEMMA NoMoveBytes ==
    ASSUME NEW c, Sound(c), NoMove(c)
    PROVE  /\ Room(c) >= 2 => ~(Back(c, 2) = 15 /\ Back(c, 1) = 5)
           /\ Room(c) >= 3 => /\ ~RegisterMoveBytes(Back(c, 3), Back(c, 2), Back(c, 1))
                              /\ ~MemoryMoveBytes(Back(c, 3), Back(c, 2), Back(c, 1))
           /\ Room(c) >= 4 => ~(/\ Back(c, 4) = 72 /\ Back(c, 3) = 131 /\ Back(c, 2) = 196
                                /\ Back(c, 1) \in 8 .. 120 /\ Back(c, 1) % 8 = 0)
  <1>1. Room(c) >= 2 => ~(Back(c, 2) = 15 /\ Back(c, 1) = 5)
    BY DEF NoMove, SyscallBefore
  <1>2. Room(c) >= 3 => /\ ~RegisterMoveBytes(Back(c, 3), Back(c, 2), Back(c, 1))
                        /\ ~MemoryMoveBytes(Back(c, 3), Back(c, 2), Back(c, 1))
    BY MovesBefore DEF NoMove
  <1>3. Room(c) >= 4 => ~(/\ Back(c, 4) = 72 /\ Back(c, 3) = 131 /\ Back(c, 2) = 196
                          /\ Back(c, 1) \in 8 .. 120 /\ Back(c, 1) % 8 = 0)
    BY DEF NoMove, AdjustBefore
  <1> QED BY <1>1, <1>2, <1>3

LEMMA NotTwoPops ==
    ASSUME NEW c, Sound(c), c.terminator # RET_IMM16, NoMove(c), ~TwoPopsBefore(c)
    PROVE  /\ Room(c) >= 2 /\ Valid(c, 2) => Back(c, 2) = 65 /\ Back(c, 1) \in 88 .. 95
           /\ Room(c) >= 3 => ~Valid(c, 3)
           /\ Room(c) >= 4 => ~Valid(c, 4)
  <1> DEFINE b1 == Back(c, 1)
             b2 == Back(c, 2)
             b3 == Back(c, 3)
             b4 == Back(c, 4)
             R == Room(c)
  <1>1. R \in Nat /\ 0 + 1 = 1 /\ 0 + 2 = 2 /\ 1 + 1 = 2 /\ 1 + 2 = 3 /\ 2 + 1 = 3 /\ 2 + 2 = 4
    BY ValidLengths
  <1>2. /\ PopBefore(c, 0) <=> R > 0 /\ b1 \in 88 .. 95
        /\ PopBefore(c, 1) <=> R > 1 /\ b2 \in 88 .. 95
        /\ PopBefore(c, 2) <=> R > 2 /\ b3 \in 88 .. 95
        /\ PopWidth(c, 0) = IF R > 1 /\ b2 = 65 THEN 2 ELSE 1
        /\ PopNumber(c, 0) = IF R > 1 /\ b2 = 65 THEN b1 - 80 ELSE b1 - 88
        /\ PopNumber(c, 1) = IF R > 2 /\ b3 = 65 THEN b2 - 80 ELSE b2 - 88
        /\ PopNumber(c, 2) = IF R > 3 /\ b4 = 65 THEN b3 - 80 ELSE b3 - 88
    BY <1>1 DEF PopBefore, PopWidth, PopNumber, Prefixed
  <1>3. /\ R > 2 /\ b2 \in 88 .. 95 /\ b3 = 65 => ~Valid(c, 2)
        /\ R > 3 /\ b3 \in 88 .. 95 /\ b4 = 65 => ~Valid(c, 3)
    BY <1>1, ValidLengths
  <1>4. /\ R >= 1 => b1 \in 0 .. 255
        /\ R >= 2 => b2 \in 0 .. 255
        /\ R >= 3 => b3 \in 0 .. 255
        /\ R >= 4 => b4 \in 0 .. 255
    BY ValidLengths
  <1>5. /\ R >= 2 /\ Valid(c, 2) => TwoBytes(b2, b1)
        /\ R >= 3 /\ Valid(c, 3) => ThreeBytes(b3, b2, b1)
        /\ R >= 4 /\ Valid(c, 4) => FourBytes(b4, b3, b2, b1)
    BY CodesBefore
  <1>6. /\ R >= 2 => ~(b2 = 15 /\ b1 = 5)
        /\ R >= 3 => ~RegisterMoveBytes(b3, b2, b1) /\ ~MemoryMoveBytes(b3, b2, b1)
        /\ R >= 4 => ~(b4 = 72 /\ b3 = 131 /\ b2 = 196 /\ b1 \in 8 .. 120 /\ b1 % 8 = 0)
    BY NoMoveBytes
  <1>7. ~(/\ PopBefore(c, 0) /\ PopBefore(c, PopWidth(c, 0))
          /\ PopNumber(c, 0) \in ArgumentNumbers /\ PopNumber(c, PopWidth(c, 0)) \in ArgumentNumbers
          /\ PopNumber(c, 0) # PopNumber(c, PopWidth(c, 0)))
    BY DEF TwoPopsBefore
  <1> HIDE DEF b1, b2, b3, b4, R
  <1>8. ASSUME R >= 2, Valid(c, 2) PROVE b2 = 65 /\ b1 \in 88 .. 95
    <2>1. CASE LowArgument(b2) /\ LowArgument(b1) /\ b2 # b1
      <3>1. b2 \in 88 .. 95 /\ b1 \in 88 .. 95 /\ b2 # 65
        BY <2>1 DEF LowArgument
      <3>2. ~(R > 2 /\ b3 = 65)
        BY <1>3, <1>8, <3>1
      <3>3. /\ PopWidth(c, 0) = 1 /\ PopNumber(c, 0) = b1 - 88 /\ PopNumber(c, 1) = b2 - 88
            /\ PopBefore(c, 0) /\ PopBefore(c, 1)
        BY <1>1, <1>2, <1>8, <3>1, <3>2
      <3>4. b1 - 88 \in ArgumentNumbers /\ b2 - 88 \in ArgumentNumbers /\ b1 - 88 # b2 - 88
        BY <2>1 DEF LowArgument, ArgumentNumbers
      <3> QED BY <1>7, <3>3, <3>4, Zenon
    <2> QED BY <1>5, <1>6, <1>8, <2>1 DEF TwoBytes
  <1>9. ASSUME R >= 3, Valid(c, 3) PROVE FALSE
    <2>1. CASE LowArgument(b3) /\ b2 = 65 /\ HighArgument(b1)
      <3>1. b3 \in 88 .. 95 /\ b1 \in 88 .. 95
        BY <2>1 DEF LowArgument, HighArgument
      <3>2. ~(R > 3 /\ b4 = 65)
        BY <1>3, <1>9, <3>1
      <3>3. /\ PopWidth(c, 0) = 2 /\ PopNumber(c, 0) = b1 - 80 /\ PopNumber(c, 2) = b3 - 88
            /\ PopBefore(c, 0) /\ PopBefore(c, 2)
        BY <1>1, <1>2, <1>9, <2>1, <3>1, <3>2
      <3>4. b1 - 80 \in ArgumentNumbers /\ b3 - 88 \in ArgumentNumbers /\ b1 - 80 # b3 - 88
        BY <2>1 DEF LowArgument, HighArgument, ArgumentNumbers
      <3> QED BY <1>7, <3>3, <3>4, Zenon
    <2>2. CASE b3 = 65 /\ HighArgument(b2) /\ LowArgument(b1)
      <3>1. b2 \in 88 .. 95 /\ b1 \in 88 .. 95 /\ b2 # 65
        BY <2>2 DEF LowArgument, HighArgument
      <3>2. /\ PopWidth(c, 0) = 1 /\ PopNumber(c, 0) = b1 - 88 /\ PopNumber(c, 1) = b2 - 80
            /\ PopBefore(c, 0) /\ PopBefore(c, 1)
        BY <1>1, <1>2, <1>9, <2>2, <3>1
      <3>3. b1 - 88 \in ArgumentNumbers /\ b2 - 80 \in ArgumentNumbers /\ b1 - 88 # b2 - 80
        BY <2>2 DEF LowArgument, HighArgument, ArgumentNumbers
      <3> QED BY <1>7, <3>2, <3>3, Zenon
    <2> QED BY <1>5, <1>6, <1>9, <2>1, <2>2 DEF ThreeBytes
  <1>10. ASSUME R >= 4, Valid(c, 4) PROVE FALSE
    <2>1. CASE b4 = 65 /\ HighArgument(b3) /\ b2 = 65 /\ HighArgument(b1) /\ b3 # b1
      <3>1. b3 \in 88 .. 95 /\ b1 \in 88 .. 95
        BY <2>1 DEF HighArgument
      <3>2. /\ PopWidth(c, 0) = 2 /\ PopNumber(c, 0) = b1 - 80 /\ PopNumber(c, 2) = b3 - 80
            /\ PopBefore(c, 0) /\ PopBefore(c, 2)
        BY <1>1, <1>2, <1>10, <2>1, <3>1
      <3>3. b1 - 80 \in ArgumentNumbers /\ b3 - 80 \in ArgumentNumbers /\ b1 - 80 # b3 - 80
        BY <2>1 DEF HighArgument, ArgumentNumbers
      <3> QED BY <1>7, <3>2, <3>3, Zenon
    <2> QED BY <1>5, <1>6, <1>10, <2>1 DEF FourBytes
  <1> QED BY <1>8, <1>9, <1>10 DEF b1, b2, R

LEMMA RestOfPattern ==
    ASSUME NEW c, Sound(c), c.terminator # RET_IMM16, NoMove(c), ~TwoPopsBefore(c)
    PROVE  PatternOf(c) = IF PopBefore(c, 0) THEN Pattern("pop", <<Reg(PopNumber(c, 0))>>)
                          ELSE IF Room(c) > 0 /\ Back(c, 1) = 201 THEN Pattern("leave", <<>>)
                          ELSE Pattern("ret", <<>>)
  <1>1. ArgumentPops(c) = {}
    BY ArgumentPopsAre
  <1>2. PatternOf(c) = IF LastPop(c) # {} THEN Pattern("pop", <<(CHOOSE pop \in LastPop(c) : TRUE).reg>>)
                       ELSE IF Room(c) > 0 /\ Back(c, 1) = 201 THEN Pattern("leave", <<>>)
                       ELSE Pattern("ret", <<>>)
    BY <1>1 DEF PatternOf, NoMove
  <1>3. CASE PopBefore(c, 0)
    <2> DEFINE pop == [start |-> c.fileOffset - PopWidth(c, 0), reg |-> Reg(PopNumber(c, 0))]
    <2>1. pop.reg = Reg(PopNumber(c, 0)) /\ LastPop(c) = {pop}
      BY <1>3, LastPopIs
    <2> HIDE DEF pop
    <2>2. LastPop(c) # {} /\ (CHOOSE p \in LastPop(c) : TRUE) = pop
      BY <2>1
    <2> QED BY <1>2, <1>3, <2>1, <2>2
  <1>4. CASE ~PopBefore(c, 0)
    BY <1>2, <1>4, LastPopIs
  <1> QED BY <1>3, <1>4

LEMMA RetShape ==
    ASSUME NEW c, Sound(c), c.terminator # RET_IMM16, NoMove(c), ~TwoPopsBefore(c), ~PopBefore(c, 0),
           ~(Room(c) > 0 /\ Back(c, 1) = 201)
    PROVE  ShapeRet(PatternOf(c), Body[Reading(c)], Len(Reading(c)))
  <1>1. Room(c) \in Nat /\ Valid(c, 0)
    BY ValidLengths
  <1>2. Room(c) >= 1 => Back(c, 1) \notin 88 .. 95 /\ Back(c, 1) # 201
    BY <1>1 DEF PopBefore
  <1>3. Room(c) >= 1 => ~Valid(c, 1)
    BY <1>2, CodesBefore DEF OneByte
  <1>4. Room(c) >= 2 => ~Valid(c, 2)
    BY <1>1, <1>2, NotTwoPops
  <1>5. \A m \in 0 .. 4 : m > 0 /\ m <= Room(c) => ~Valid(c, m)
    BY <1>1, <1>3, <1>4, NotTwoPops
  <1>6. Reading(c) = LastBytes(c, 0) /\ Len(Reading(c)) = 0
    BY <1>1, <1>5, ReadingIs, 0 \in 0 .. 4, 0 <= Room(c)
  <1>7. PatternOf(c) = Pattern("ret", <<>>)
    BY RestOfPattern
  <1> QED BY <1>6, <1>7, LastBytesAre, EmptyBody DEF ShapeRet

LEMMA LeaveShape ==
    ASSUME NEW c, Sound(c), c.terminator # RET_IMM16, NoMove(c), ~TwoPopsBefore(c), ~PopBefore(c, 0),
           Room(c) > 0, Back(c, 1) = 201
    PROVE  ShapeLeave(PatternOf(c), Body[Reading(c)], Len(Reading(c)))
  <1>1. Room(c) \in Nat /\ 201 \in Int
    BY ValidLengths
  <1>2. LastBytes(c, 1) = <<201>>
    BY <1>1, LastBytesAre
  <1>3. LastBytes(c, 1) \in Codes /\ Body[LastBytes(c, 1)] = LeaveBody
    BY <1>1, <1>2, BodyOne DEF One
  <1>4. Valid(c, 1)
    BY <1>3 DEF Valid
  <1>5. Room(c) >= 2 => ~Valid(c, 2)
    BY NotTwoPops
  <1>6. \A m \in 0 .. 4 : m > 1 /\ m <= Room(c) => ~Valid(c, m)
    BY <1>1, <1>5, NotTwoPops
  <1>7. Reading(c) = LastBytes(c, 1) /\ Len(Reading(c)) = 1
    BY <1>1, <1>4, <1>6, ReadingIs, 1 \in 0 .. 4, 1 <= Room(c)
  <1>8. PatternOf(c) = Pattern("leave", <<>>)
    BY RestOfPattern
  <1> QED BY <1>3, <1>7, <1>8 DEF ShapeLeave

LEMMA PopShape ==
    ASSUME NEW c, Sound(c), c.terminator # RET_IMM16, NoMove(c), ~TwoPopsBefore(c), PopBefore(c, 0)
    PROVE  \E i \in 0 .. 15 : ShapePop(PatternOf(c), Body[Reading(c)], Len(Reading(c)), i)
  <1> DEFINE b1 == Back(c, 1)
             i == PopNumber(c, 0)
  <1>1. Room(c) \in Nat /\ Room(c) > 0 /\ b1 \in 88 .. 95 /\ b1 \in Int /\ 65 \in Int /\ 0 + 1 = 1 /\ 0 + 2 = 2
    BY ValidLengths DEF PopBefore
  <1>2. i \in 0 .. 15
    BY PopNumbers
  <1>3. i = IF Room(c) > 1 /\ Back(c, 2) = 65 THEN b1 - 80 ELSE b1 - 88
    BY <1>1 DEF PopNumber, Prefixed
  <1>4. PatternOf(c) = Pattern("pop", <<Reg(i)>>)
    BY RestOfPattern
  <1> HIDE DEF i, b1
  <1>5. Body[Reading(c)] = PopBody(i) /\ Len(Reading(c)) = PopLength(i)
    <2>1. CASE Room(c) > 1 /\ Back(c, 2) = 65
      <3>1. i = b1 - 80 /\ ~(i < 8)
        BY <1>1, <1>3, <2>1
      <3>2. LastBytes(c, 2) = <<65, b1>>
        BY <1>1, <2>1, LastBytesAre DEF b1
      <3>3. Two(65, b1, PopBody(i))
        BY <1>1, <3>1 DEF Two
      <3>4. LastBytes(c, 2) \in Codes /\ Body[LastBytes(c, 2)] = PopBody(i)
        BY <1>1, <3>2, <3>3, BodyTwo
      <3>5. Valid(c, 2)
        BY <2>1, <3>4 DEF Valid
      <3>6. \A m \in 0 .. 4 : m > 2 /\ m <= Room(c) => ~Valid(c, m)
        BY <1>1, NotTwoPops
      <3>7. Reading(c) = LastBytes(c, 2) /\ Len(Reading(c)) = 2
        BY <1>1, <2>1, <3>5, <3>6, ReadingIs, 2 \in 0 .. 4, 2 <= Room(c)
      <3> QED BY <3>1, <3>4, <3>7 DEF PopLength
    <2>2. CASE ~(Room(c) > 1 /\ Back(c, 2) = 65)
      <3>1. i = b1 - 88 /\ i < 8
        BY <1>1, <1>3, <2>2
      <3>2. LastBytes(c, 1) = <<b1>>
        BY <1>1, LastBytesAre DEF b1
      <3>3. One(b1, PopBody(i))
        BY <1>1, <3>1 DEF One
      <3>4. LastBytes(c, 1) \in Codes /\ Body[LastBytes(c, 1)] = PopBody(i)
        BY <1>1, <3>2, <3>3, BodyOne
      <3>5. Valid(c, 1)
        BY <1>1, <2>2, <3>4 DEF Valid
      <3>6. \A m \in 0 .. 4 : m > 1 /\ m <= Room(c) => ~Valid(c, m)
        BY <1>1, <2>2, NotTwoPops
      <3>7. Reading(c) = LastBytes(c, 1) /\ Len(Reading(c)) = 1
        BY <1>1, <3>5, <3>6, ReadingIs, 1 \in 0 .. 4, 1 <= Room(c)
      <3> QED BY <3>1, <3>4, <3>7 DEF PopLength
    <2> QED BY <2>1, <2>2
  <1>6. ShapePop(PatternOf(c), Body[Reading(c)], Len(Reading(c)), i)
    BY <1>4, <1>5 DEF ShapePop
  <1> QED BY <1>2, <1>6

LEMMA TwoShape ==
    ASSUME NEW c, Sound(c), c.terminator # RET_IMM16, NoMove(c), TwoPopsBefore(c)
    PROVE  \E i, j \in ArgumentNumbers :
              i # j /\ ShapeTwo(PatternOf(c), Body[Reading(c)], Len(Reading(c)), i, j)
  <1> DEFINE b1 == Back(c, 1)
             b2 == Back(c, 2)
             b3 == Back(c, 3)
             b4 == Back(c, 4)
             R == Room(c)
             w == PopWidth(c, 0)
             i == PopNumber(c, w)
             j == PopNumber(c, 0)
             body == TwoPopBody(i, j)
  <1>1. R \in Nat /\ 0 + 1 = 1 /\ 0 + 2 = 2 /\ 1 + 1 = 2 /\ 1 + 2 = 3 /\ 2 + 1 = 3 /\ 2 + 2 = 4 /\ 65 \in Int
    BY ValidLengths
  <1>2. i \in ArgumentNumbers /\ j \in ArgumentNumbers /\ i # j /\ PopBefore(c, 0) /\ PopBefore(c, w)
    BY DEF TwoPopsBefore
  <1>3. PatternOf(c) = Pattern("two pops", <<Reg(i), Reg(j)>>)
    <2>1. ArgumentPops(c) = {<<Reg(i), Reg(j)>>}
      BY ArgumentPopsAre
    <2> HIDE DEF i, j
    <2>2. (CHOOSE regs \in ArgumentPops(c) : TRUE) = <<Reg(i), Reg(j)>> /\ ArgumentPops(c) # {}
      BY <2>1
    <2> QED BY <2>2 DEF PatternOf, NoMove
  <1>4. /\ R >= 1 => b1 \in Int
        /\ R >= 2 => b2 \in Int
        /\ R >= 3 => b3 \in Int
        /\ R >= 4 => b4 \in Int
    BY ValidLengths
  <1>5. /\ R >= 3 /\ Valid(c, 3) => ThreeBytes(b3, b2, b1)
        /\ R >= 4 /\ Valid(c, 4) => FourBytes(b4, b3, b2, b1)
    BY CodesBefore
  <1>6. /\ PopBefore(c, 0) <=> R > 0 /\ b1 \in 88 .. 95
        /\ PopBefore(c, 1) <=> R > 1 /\ b2 \in 88 .. 95
        /\ PopBefore(c, 2) <=> R > 2 /\ b3 \in 88 .. 95
        /\ PopWidth(c, 0) = IF R > 1 /\ b2 = 65 THEN 2 ELSE 1
        /\ PopNumber(c, 0) = IF R > 1 /\ b2 = 65 THEN b1 - 80 ELSE b1 - 88
        /\ PopNumber(c, 1) = IF R > 2 /\ b3 = 65 THEN b2 - 80 ELSE b2 - 88
        /\ PopNumber(c, 2) = IF R > 3 /\ b4 = 65 THEN b3 - 80 ELSE b3 - 88
    BY <1>1 DEF PopBefore, PopWidth, PopNumber, Prefixed
  <1>7. /\ R >= 2 => LastBytes(c, 2) = <<b2, b1>>
        /\ R >= 3 => LastBytes(c, 3) = <<b3, b2, b1>>
        /\ R >= 4 => LastBytes(c, 4) = <<b4, b3, b2, b1>>
    BY LastBytesAre
  <1>8. /\ R >= 3 => ~RegisterMoveBytes(b3, b2, b1) /\ ~MemoryMoveBytes(b3, b2, b1)
        /\ R >= 4 => ~(b4 = 72 /\ b3 = 131 /\ b2 = 196 /\ b1 \in 8 .. 120 /\ b1 % 8 = 0)
    BY NoMoveBytes
  <1>9. ASSUME NEW n \in {2, 3, 4}, n <= R, LastBytes(c, n) \in Codes, Body[LastBytes(c, n)] = body,
               ~(n < R /\ Back(c, n) \in 88 .. 95 /\ Back(c, n + 1) = 65),
               \A m \in 0 .. 4 : m > n /\ m <= R => ~Valid(c, m), n = PopLength(i) + PopLength(j)
        PROVE  ShapeTwo(PatternOf(c), Body[Reading(c)], Len(Reading(c)), i, j)
    <2>1. Valid(c, n) /\ n \in 0 .. 4
      BY <1>1, <1>9 DEF Valid
    <2>2. Reading(c) = LastBytes(c, n) /\ Len(Reading(c)) = n
      BY <1>9, <2>1, ReadingIs
    <2> QED BY <1>3, <1>9, <2>2, Zenon DEF ShapeTwo
  <1>10. CASE R > 1 /\ b2 = 65
    <2>1. w = 2 /\ j = b1 - 80 /\ R > 2 /\ b3 \in 88 .. 95 /\ b1 \in 88 .. 95
      BY <1>2, <1>6, <1>10
    <2>2. i = IF R > 3 /\ b4 = 65 THEN b3 - 80 ELSE b3 - 88
      BY <1>6, <2>1
    <2>3. HighArgument(b1) /\ ~(j < 8) /\ j \in Int
      <3> HIDE DEF b1, j
      <3> QED BY <1>2, <2>1 DEF ArgumentNumbers, HighArgument
    <2>4. CASE R > 3 /\ b4 = 65
      <3> HIDE DEF b1, b2, b3, b4, R, i, j, w, body
      <3>1. i = b3 - 80 /\ HighArgument(b3) /\ ~(i < 8) /\ b3 # b1 /\ R >= 4 /\ b1 \in Int /\ b3 \in Int
        BY <1>1, <1>2, <1>4, <2>1, <2>2, <2>4 DEF ArgumentNumbers, HighArgument
      <3>2. Four(65, b3, 65, b1, body)
        BY <2>1, <2>3, <3>1 DEF Four, body
      <3>3. LastBytes(c, 4) = <<65, b3, 65, b1>>
        BY <1>7, <1>10, <2>4, <3>1
      <3>4. LastBytes(c, 4) \in Codes /\ Body[LastBytes(c, 4)] = body
        BY <1>1, <3>1, <3>2, <3>3, BodyFour
      <3>5. b4 \notin 88 .. 95
        BY <2>4
      <3>6. 4 = PopLength(i) + PopLength(j)
        BY <2>3, <3>1 DEF PopLength
      <3> QED BY <1>2, <1>9, <3>1, <3>4, <3>5, <3>6 DEF b4
    <2>5. CASE ~(R > 3 /\ b4 = 65)
      <3> HIDE DEF b1, b2, b3, b4, R, i, j, w, body
      <3>1. i = b3 - 88 /\ LowArgument(b3) /\ i < 8 /\ R >= 3 /\ b1 \in Int /\ b3 \in Int
        BY <1>1, <1>2, <1>4, <2>1, <2>2, <2>5 DEF ArgumentNumbers, LowArgument
      <3>2. Three(b3, 65, b1, body)
        BY <2>1, <2>3, <3>1 DEF Three, body
      <3>3. LastBytes(c, 3) = <<b3, 65, b1>>
        BY <1>7, <1>10, <3>1
      <3>4. LastBytes(c, 3) \in Codes /\ Body[LastBytes(c, 3)] = body
        BY <1>1, <3>1, <3>2, <3>3, BodyThree
      <3>5. R >= 4 => ~Valid(c, 4)
        BY <1>5, <1>10, <2>5, <1>1, <1>8 DEF FourBytes
      <3>6. \A m \in 0 .. 4 : m > 3 /\ m <= R => ~Valid(c, m)
        BY <1>1, <3>5
      <3>7. 3 = PopLength(i) + PopLength(j)
        BY <2>3, <3>1 DEF PopLength
      <3>8. ~(3 < R /\ Back(c, 3) \in 88 .. 95 /\ Back(c, 3 + 1) = 65)
        BY <2>5 DEF b4
      <3> QED BY <1>2, <1>9, <3>1, <3>4, <3>6, <3>7, <3>8
    <2> QED BY <2>4, <2>5
  <1>11. CASE ~(R > 1 /\ b2 = 65)
    <2>1. w = 1 /\ j = b1 - 88 /\ R > 1 /\ b2 \in 88 .. 95 /\ b1 \in 88 .. 95
      BY <1>2, <1>6, <1>11
    <2>2. i = IF R > 2 /\ b3 = 65 THEN b2 - 80 ELSE b2 - 88
      BY <1>6, <2>1
    <2>3. LowArgument(b1) /\ j < 8 /\ j \in Int
      <3> HIDE DEF b1, j
      <3> QED BY <1>2, <2>1 DEF ArgumentNumbers, LowArgument
    <2>4. R >= 4 => ~Valid(c, 4)
      <3> HIDE DEF b1, b2, b3, b4, R
      <3> QED BY <1>5, <2>1 DEF FourBytes
    <2>5. CASE R > 2 /\ b3 = 65
      <3> HIDE DEF b1, b2, b3, b4, R, i, j, w, body
      <3>1. i = b2 - 80 /\ HighArgument(b2) /\ ~(i < 8) /\ R >= 3 /\ b1 \in Int /\ b2 \in Int
        BY <1>1, <1>2, <1>4, <2>1, <2>2, <2>5 DEF ArgumentNumbers, HighArgument
      <3>2. Three(65, b2, b1, body)
        BY <2>1, <2>3, <3>1 DEF Three, body
      <3>3. LastBytes(c, 3) = <<65, b2, b1>>
        BY <1>7, <2>5, <3>1
      <3>4. LastBytes(c, 3) \in Codes /\ Body[LastBytes(c, 3)] = body
        BY <1>1, <3>1, <3>2, <3>3, BodyThree
      <3>5. \A m \in 0 .. 4 : m > 3 /\ m <= R => ~Valid(c, m)
        BY <1>1, <2>4
      <3>6. 3 = PopLength(i) + PopLength(j)
        BY <2>3, <3>1 DEF PopLength
      <3>7. ~(3 < R /\ Back(c, 3) \in 88 .. 95 /\ Back(c, 3 + 1) = 65)
        BY <2>5 DEF b3
      <3> QED BY <1>2, <1>9, <3>1, <3>4, <3>5, <3>6, <3>7
    <2>6. CASE ~(R > 2 /\ b3 = 65)
      <3> HIDE DEF b1, b2, b3, b4, R, i, j, w, body
      <3>1. i = b2 - 88 /\ LowArgument(b2) /\ i < 8 /\ b1 # b2 /\ R >= 2 /\ b1 \in Int /\ b2 \in Int
        BY <1>1, <1>2, <1>4, <2>1, <2>2, <2>6 DEF ArgumentNumbers, LowArgument
      <3>2. Two(b2, b1, body)
        BY <2>1, <2>3, <3>1 DEF Two, body
      <3>3. LastBytes(c, 2) = <<b2, b1>>
        BY <1>7, <3>1
      <3>4. LastBytes(c, 2) \in Codes /\ Body[LastBytes(c, 2)] = body
        BY <3>1, <3>2, <3>3, BodyTwo
      <3>5. R >= 3 => ~Valid(c, 3)
        BY <1>5, <1>8, <1>1, <2>1, <2>6 DEF ThreeBytes
      <3>6. \A m \in 0 .. 4 : m > 2 /\ m <= R => ~Valid(c, m)
        BY <1>1, <2>4, <3>5
      <3>7. 2 = PopLength(i) + PopLength(j)
        BY <2>3, <3>1 DEF PopLength
      <3>8. ~(2 < R /\ Back(c, 2) \in 88 .. 95 /\ Back(c, 2 + 1) = 65)
        BY <2>6 DEF b3
      <3> QED BY <1>2, <1>9, <3>1, <3>4, <3>6, <3>7, <3>8
    <2> QED BY <2>5, <2>6
  <1> HIDE DEF i, j
  <1> QED BY <1>2, <1>10, <1>11

\* Every window has one of the shapes.
LEMMA ShapeOf ==
    ASSUME NEW c, Sound(c)
    PROVE  Shape(c, PatternOf(c), Body[Reading(c)], Len(Reading(c)))
  <1> DEFINE p == PatternOf(c)
             body == Body[Reading(c)]
             n == Len(Reading(c))
  <1>1. CASE c.terminator = RET_IMM16
    BY <1>1, RetImmShape DEF Shape
  <1>2. CASE c.terminator # RET_IMM16
    <2>1. c.terminator = RET
      BY <1>2 DEF Sound
    <2>2. CASE SyscallBefore(c)
      BY <1>2, <2>1, <2>2, SyscallShape DEF Shape
    <2>3. CASE ~SyscallBefore(c) /\ AdjustBefore(c)
      BY <1>2, <2>1, <2>3, AdjustShape DEF Shape
    <2>4. CASE ~SyscallBefore(c) /\ ~AdjustBefore(c) /\ MemoryMoveBefore(c)
      <3>1. \E i \in PlainNumbers, j \in MovableNumbers : ShapeStore(p, body, n, i, j) \/ ShapeLoad(p, body, n, i, j)
        BY <1>2, <2>4, MemoryShape
      <3> QED BY <2>1, <3>1, Zenon DEF Shape
    <2>5. CASE ~SyscallBefore(c) /\ ~AdjustBefore(c) /\ ~MemoryMoveBefore(c) /\ RegisterMoveBefore(c)
      <3>1. \E i, j \in MovableNumbers : i # j /\ ShapeTransfer(p, body, n, i, j)
        BY <1>2, <2>5, TransferShape
      <3> QED BY <2>1, <3>1, Zenon DEF Shape
    <2>6. CASE NoMove(c) /\ TwoPopsBefore(c)
      <3>1. \E i, j \in ArgumentNumbers : i # j /\ ShapeTwo(p, body, n, i, j)
        BY <1>2, <2>6, TwoShape
      <3> QED BY <2>1, <3>1, Zenon DEF Shape
    <2>7. CASE NoMove(c) /\ ~TwoPopsBefore(c) /\ PopBefore(c, 0)
      <3>1. \E i \in 0 .. 15 : ShapePop(p, body, n, i)
        BY <1>2, <2>7, PopShape
      <3> QED BY <2>1, <3>1, Zenon DEF Shape
    <2>8. CASE NoMove(c) /\ ~TwoPopsBefore(c) /\ ~PopBefore(c, 0) /\ Room(c) > 0 /\ Back(c, 1) = 201
      BY <1>2, <2>1, <2>8, LeaveShape, Zenon DEF Shape
    <2>9. CASE NoMove(c) /\ ~TwoPopsBefore(c) /\ ~PopBefore(c, 0) /\ ~(Room(c) > 0 /\ Back(c, 1) = 201)
      BY <1>2, <2>1, <2>9, RetShape, Zenon DEF Shape
    <2> QED BY <2>2, <2>3, <2>4, <2>5, <2>6, <2>7, <2>8, <2>9 DEF NoMove
  <1> QED BY <1>1, <1>2

\* The reading lies in the window.
LEMMA ReadingFits ==
    ASSUME NEW c, Sound(c)
    PROVE  Len(Reading(c)) \in 0 .. 4 /\ Len(Reading(c)) <= Room(c)
  <1>1. Room(c) \in Nat
    BY ValidLengths
  <1>2. CASE c.terminator = RET_IMM16
    BY <1>1, <1>2 DEF Reading
  <1>3. CASE c.terminator # RET_IMM16
    <2> DEFINE Fits(m) == m <= Room(c) /\ Valid(c, m)
    <2>1. Fits(0)
      BY <1>1, ValidLengths
    <2>2. \E n \in 0 .. 4 : Fits(n) /\ \A m \in 0 .. 4 : m > n => ~Fits(m)
      <3> HIDE DEF Fits
      <3>1. CASE Fits(4)
        BY <3>1, 4 \in 0 .. 4
      <3>2. CASE ~Fits(4) /\ Fits(3)
        BY <3>2, 3 \in 0 .. 4
      <3>3. CASE ~Fits(4) /\ ~Fits(3) /\ Fits(2)
        BY <3>3, 2 \in 0 .. 4
      <3>4. CASE ~Fits(4) /\ ~Fits(3) /\ ~Fits(2) /\ Fits(1)
        BY <3>4, 1 \in 0 .. 4
      <3>5. CASE ~Fits(4) /\ ~Fits(3) /\ ~Fits(2) /\ ~Fits(1)
        BY <2>1, <3>5, 0 \in 0 .. 4
      <3> QED BY <3>1, <3>2, <3>3, <3>4, <3>5
    <2>3. PICK n \in 0 .. 4 : Fits(n) /\ \A m \in 0 .. 4 : m > n => ~Fits(m)
      BY <2>2
    <2>4. Len(Reading(c)) = n
      BY <1>3, <2>3, ReadingIs
    <2> QED BY <2>3, <2>4
  <1> QED BY <1>2, <1>3

-----------------------------------------------------------------------------
(* What executing a reading does.                                          *)

\* A state of the reference machine, by its parts.
Mach(b, o, s, r, w) == [base |-> b, offset |-> o, slots |-> s, read |-> r, written |-> w]

LEMMA MachineIs == Machine = Mach("rsp", 0, <<>>, {}, {})
  BY DEF Machine, Mach

WithOffset(m, y)   == [m EXCEPT !.offset = y]
WithSlots(m, x, y) == [m EXCEPT !.slots = x, !.offset = y]
WithBase(m, x, y)  == [m EXCEPT !.base = x, !.offset = y]

LEMMA WithOffsetIs ==
    ASSUME NEW b, NEW o, NEW s, NEW r, NEW w, NEW y
    PROVE  WithOffset(Mach(b, o, s, r, w), y) = Mach(b, y, s, r, w)
  BY DEF Mach, WithOffset

LEMMA WithSlotsIs ==
    ASSUME NEW b, NEW o, NEW s, NEW r, NEW w, NEW x, NEW y
    PROVE  WithSlots(Mach(b, o, s, r, w), x, y) = Mach(b, y, x, r, w)
  <1> DEFINE m == Mach(b, o, s, r, w)
  <1>1. WithSlots(m, x, y) = WithOffset([m EXCEPT !.slots = x], y)
    <2> HIDE DEF m
    <2> QED BY DEF WithSlots, WithOffset
  <1>2. [m EXCEPT !.slots = x] = Mach(b, o, x, r, w)
    BY DEF Mach
  <1>3. WithOffset(Mach(b, o, x, r, w), y) = Mach(b, y, x, r, w)
    BY WithOffsetIs
  <1> HIDE DEF m
  <1> QED BY <1>1, <1>2, <1>3, Zenon DEF m

LEMMA WithBaseIs ==
    ASSUME NEW b, NEW o, NEW s, NEW r, NEW w, NEW x, NEW y
    PROVE  WithBase(Mach(b, o, s, r, w), x, y) = Mach(x, y, s, r, w)
  <1> DEFINE m == Mach(b, o, s, r, w)
  <1>1. WithBase(m, x, y) = WithOffset([m EXCEPT !.base = x], y)
    <2> HIDE DEF m
    <2> QED BY DEF WithBase, WithOffset
  <1>2. [m EXCEPT !.base = x] = Mach(x, o, s, r, w)
    BY DEF Mach
  <1>3. WithOffset(Mach(x, o, s, r, w), y) = Mach(x, y, s, r, w)
    BY WithOffsetIs
  <1> HIDE DEF m
  <1> QED BY <1>1, <1>2, <1>3, Zenon DEF m

LEMMA ReadsIs ==
    ASSUME NEW b, NEW o, NEW s, NEW r, NEW w, NEW x
    PROVE  Reads(Mach(b, o, s, r, w), x) = Mach(b, o, s, r \cup (x \ w), w)
  BY DEF Mach, Reads

LEMMA WritesIs ==
    ASSUME NEW b, NEW o, NEW s, NEW r, NEW w, NEW x
    PROVE  Writes(Mach(b, o, s, r, w), x) = Mach(b, o, s, r, w \cup x)
  BY DEF Mach, Writes

LEMMA TakesSlotIs ==
    ASSUME NEW b, NEW o, NEW s, NEW r, NEW w
    PROVE  TakesSlot(Mach(b, o, s, r, w))
             = Mach(b, o + 8, Append(s, <<b, o>>), r \cup ({"rsp"} \ w), w \cup {"rsp"})
  <1> DEFINE m == Mach(b, o, s, r, w)
             n == [m EXCEPT !.slots = Append(@, <<m.base, m.offset>>), !.offset = @ + 8]
  <1>1. TakesSlot(m) = Writes(Reads(n, {"rsp"}), {"rsp"})
    BY DEF TakesSlot
  <1>2. m.base = b /\ m.offset = o /\ m.slots = s
    BY DEF Mach
  <1>3. n = [m EXCEPT !.slots = Append(s, <<b, o>>), !.offset = o + 8]
    <2> HIDE DEF m
    <2> QED BY <1>2
  <1> HIDE DEF n
  <1> HIDE DEF m
  <1>4. n = WithSlots(m, Append(s, <<b, o>>), o + 8)
    BY <1>3 DEF WithSlots
  <1>5. WithSlots(m, Append(s, <<b, o>>), o + 8) = Mach(b, o + 8, Append(s, <<b, o>>), r, w)
    BY WithSlotsIs DEF m
  <1> DEFINE t == Append(s, <<b, o>>)
             rsp == {"rsp"}
  <1> HIDE DEF t, rsp
  <1>6. Reads(Mach(b, o + 8, t, r, w), rsp) = Mach(b, o + 8, t, r \cup (rsp \ w), w)
    BY ReadsIs
  <1>7. Writes(Mach(b, o + 8, t, r \cup (rsp \ w), w), rsp) = Mach(b, o + 8, t, r \cup (rsp \ w), w \cup rsp)
    BY WritesIs
  <1> QED BY <1>1, <1>4, <1>5, <1>6, <1>7, Zenon DEF t, rsp, m

\* What each instruction does to the machine.
LEMMA Returning ==
    ASSUME NEW b, NEW o, NEW s, NEW r, NEW w, NEW n
    PROVE  Executes(Mach(b, o, s, r, w), Instruction("return", <<>>, n))
             = Mach(b, (o + 8) + n, Append(s, <<b, o>>), r \cup ({"rsp"} \ w), w \cup {"rsp"})
  <1> DEFINE i == Instruction("return", <<>>, n)
             t == TakesSlot(Mach(b, o, s, r, w))
  <1>1. i.op = "return" /\ i.n = n
    BY DEF Instruction
  <1> HIDE DEF i
  <1>2. Executes(Mach(b, o, s, r, w), i) = [t EXCEPT !.offset = @ + n]
    BY <1>1 DEF Executes
  <1>3. t = Mach(b, o + 8, Append(s, <<b, o>>), r \cup ({"rsp"} \ w), w \cup {"rsp"})
    BY TakesSlotIs
  <1> HIDE DEF t
  <1>4. [t EXCEPT !.offset = @ + n] = Mach(b, (o + 8) + n, Append(s, <<b, o>>), r \cup ({"rsp"} \ w), w \cup {"rsp"})
    <2>1. t.offset = o + 8
      BY <1>3 DEF Mach
    <2>2. [t EXCEPT !.offset = @ + n] = WithOffset(t, (o + 8) + n)
      BY <2>1 DEF WithOffset
    <2>3. WithOffset(Mach(b, o + 8, Append(s, <<b, o>>), r \cup ({"rsp"} \ w), w \cup {"rsp"}), (o + 8) + n)
            = Mach(b, (o + 8) + n, Append(s, <<b, o>>), r \cup ({"rsp"} \ w), w \cup {"rsp"})
      BY WithOffsetIs
    <2> QED BY <1>3, <2>2, <2>3, Zenon
  <1> QED BY <1>2, <1>4 DEF i

LEMMA PoppingStack ==
    ASSUME NEW b, NEW o, NEW s, NEW r, NEW w
    PROVE  Executes(Mach(b, o, s, r, w), Instruction("pop", <<"rsp">>, 0))
             = Mach("memory", 0, Append(s, <<b, o>>), r \cup ({"rsp"} \ w), w \cup {"rsp"})
  <1> DEFINE i == Instruction("pop", <<"rsp">>, 0)
             t == TakesSlot(Mach(b, o, s, r, w))
  <1>1. i.op = "pop" /\ i.regs[1] = "rsp"
    BY DEF Instruction
  <1> HIDE DEF i
  <1>2. t = Mach(b, o + 8, Append(s, <<b, o>>), r \cup ({"rsp"} \ w), w \cup {"rsp"})
    BY TakesSlotIs
  <1>3. Executes(Mach(b, o, s, r, w), i) = [t EXCEPT !.base = "memory", !.offset = 0]
    BY <1>1 DEF Executes
  <1> HIDE DEF t
  <1>4. [t EXCEPT !.base = "memory", !.offset = 0] = WithBase(t, "memory", 0)
    BY DEF WithBase
  <1>5. WithBase(Mach(b, o + 8, Append(s, <<b, o>>), r \cup ({"rsp"} \ w), w \cup {"rsp"}), "memory", 0)
          = Mach("memory", 0, Append(s, <<b, o>>), r \cup ({"rsp"} \ w), w \cup {"rsp"})
    BY WithBaseIs
  <1> QED BY <1>2, <1>3, <1>4, <1>5, Zenon DEF i

LEMMA PoppingOther ==
    ASSUME NEW b, NEW o, NEW s, NEW r, NEW w, NEW g, g # "rsp"
    PROVE  Executes(Mach(b, o, s, r, w), Instruction("pop", <<g>>, 0))
             = Mach(b, o + 8, Append(s, <<b, o>>), r \cup ({"rsp"} \ w), (w \cup {"rsp"}) \cup {g})
  <1> DEFINE i == Instruction("pop", <<g>>, 0)
             t == TakesSlot(Mach(b, o, s, r, w))
  <1>1. i.op = "pop" /\ i.regs[1] = g
    BY DEF Instruction
  <1> HIDE DEF i
  <1>2. t = Mach(b, o + 8, Append(s, <<b, o>>), r \cup ({"rsp"} \ w), w \cup {"rsp"})
    BY TakesSlotIs
  <1>3. Executes(Mach(b, o, s, r, w), i) = Writes(t, {g})
    BY <1>1 DEF Executes
  <1> HIDE DEF t
  <1>4. Writes(t, {g})
          = Mach(b, o + 8, Append(s, <<b, o>>), r \cup ({"rsp"} \ w), (w \cup {"rsp"}) \cup {g})
    BY <1>2, WritesIs
  <1> QED BY <1>3, <1>4, Zenon DEF i

LEMMA Moving ==
    ASSUME NEW x, NEW y, NEW op \in {"move", "write", "read"}
    PROVE  Executes(Machine, Instruction(op, <<x, y>>, 0))
             = IF op = "move" THEN Mach("rsp", 0, <<>>, {y}, {x})
               ELSE IF op = "write" THEN Mach("rsp", 0, <<>>, {x, y}, {})
               ELSE Mach("rsp", 0, <<>>, {x}, {y})
  <1> DEFINE i == Instruction(op, <<x, y>>, 0)
  <1>1. i.op = op /\ i.regs[1] = x /\ i.regs[2] = y
    BY DEF Instruction
  <1> HIDE DEF i
  <1>2. Executes(Machine, i) = IF op = "move" THEN Writes(Reads(Machine, {y}), {x})
                               ELSE IF op = "write" THEN Reads(Machine, {x, y})
                               ELSE Writes(Reads(Machine, {x}), {y})
    BY <1>1 DEF Executes
  <1>3. /\ Reads(Machine, {y}) = Mach("rsp", 0, <<>>, {y}, {})
        /\ Reads(Machine, {x}) = Mach("rsp", 0, <<>>, {x}, {})
        /\ Reads(Machine, {x, y}) = Mach("rsp", 0, <<>>, {x, y}, {})
    <2>1. {} \cup ({y} \ {}) = {y} /\ {} \cup ({x} \ {}) = {x} /\ {} \cup ({x, y} \ {}) = {x, y}
      OBVIOUS
    <2> QED BY <2>1, MachineIs, ReadsIs, WritesIs
  <1>4. /\ Writes(Mach("rsp", 0, <<>>, {y}, {}), {x}) = Mach("rsp", 0, <<>>, {y}, {x})
        /\ Writes(Mach("rsp", 0, <<>>, {x}, {}), {y}) = Mach("rsp", 0, <<>>, {x}, {y})
    <2>1. {} \cup {x} = {x} /\ {} \cup {y} = {y}
      OBVIOUS
    <2> QED BY <2>1, MachineIs, ReadsIs, WritesIs
  <1> QED BY <1>2, <1>3, <1>4 DEF i

LEMMA Leaving ==
    Executes(Machine, Instruction("leave", <<>>, 0))
      = Mach("rbp", 8, <<<<"rbp", 0>>>>, {"rbp"}, {"rsp", "rbp"})
  <1> DEFINE i == Instruction("leave", <<>>, 0)
             m == [Machine EXCEPT !.base = "rbp", !.offset = 0]
  <1>1. i.op = "leave"
    BY DEF Instruction
  <1> HIDE DEF i
  <1>2. Executes(Machine, i) = Writes(TakesSlot(Writes(Reads(m, {"rbp"}), {"rsp"})), {"rbp"})
    BY <1>1 DEF Executes
  <1>3. m = Mach("rbp", 0, <<>>, {}, {})
    <2>1. m = WithBase(Machine, "rbp", 0)
      BY DEF WithBase
    <2> QED BY <2>1, MachineIs, WithBaseIs
  <1> HIDE DEF m
  <1>4. Reads(m, {"rbp"}) = Mach("rbp", 0, <<>>, {} \cup ({"rbp"} \ {}), {})
    BY <1>3, MachineIs, ReadsIs, WritesIs
  <1>5. {} \cup ({"rbp"} \ {}) = {"rbp"} /\ {} \cup {"rsp"} = {"rsp"}
    OBVIOUS
  <1>6. Writes(Reads(m, {"rbp"}), {"rsp"}) = Mach("rbp", 0, <<>>, {"rbp"}, {"rsp"})
    BY <1>4, <1>5, MachineIs, ReadsIs, WritesIs
  <1>7. TakesSlot(Mach("rbp", 0, <<>>, {"rbp"}, {"rsp"}))
          = Mach("rbp", 0 + 8, Append(<<>>, <<"rbp", 0>>), {"rbp"} \cup ({"rsp"} \ {"rsp"}), {"rsp"} \cup {"rsp"})
    <2> DEFINE r == {"rbp"}
               w == {"rsp"}
               s == <<>>
    <2> HIDE DEF r, w, s
    <2>1. TakesSlot(Mach("rbp", 0, s, r, w))
            = Mach("rbp", 0 + 8, Append(s, <<"rbp", 0>>), r \cup ({"rsp"} \ w), w \cup {"rsp"})
      BY TakesSlotIs
    <2> QED BY <2>1, Zenon DEF r, w, s
  <1>8. /\ 0 + 8 = 8 /\ Append(<<>>, <<"rbp", 0>>) = <<<<"rbp", 0>>>>
        /\ {"rbp"} \cup ({"rsp"} \ {"rsp"}) = {"rbp"} /\ {"rsp"} \cup {"rsp"} = {"rsp"}
        /\ {"rsp"} \cup {"rbp"} = {"rsp", "rbp"}
    OBVIOUS
  <1>9. TakesSlot(Mach("rbp", 0, <<>>, {"rbp"}, {"rsp"})) = Mach("rbp", 8, <<<<"rbp", 0>>>>, {"rbp"}, {"rsp"})
    BY <1>7, <1>8
  <1>10. Writes(Mach("rbp", 8, <<<<"rbp", 0>>>>, {"rbp"}, {"rsp"}), {"rbp"})
           = Mach("rbp", 8, <<<<"rbp", 0>>>>, {"rbp"}, {"rsp"} \cup {"rbp"})
    BY MachineIs, ReadsIs, WritesIs
  <1> QED BY <1>2, <1>6, <1>8, <1>9, <1>10 DEF i

LEMMA Calling ==
    Executes(Machine, Instruction("syscall", <<>>, 0))
      = Mach("rsp", 0, <<>>, SyscallReads \ {"rsp"}, {"rax", "rcx", "r11"})
  <1> DEFINE i == Instruction("syscall", <<>>, 0)
             R == SyscallReads \ {"rsp"}
             W == {"rax", "rcx", "r11"}
  <1>1. i.op = "syscall"
    BY DEF Instruction
  <1> HIDE DEF i
  <1>2. Executes(Machine, i) = Writes(Reads(Machine, R), W)
    BY <1>1 DEF Executes
  <1> HIDE DEF R, W
  <1>3. {} \cup (R \ {}) = R /\ {} \cup W = W
    OBVIOUS
  <1>4. Reads(Machine, R) = Mach("rsp", 0, <<>>, R, {})
    BY <1>3, MachineIs, ReadsIs, WritesIs
  <1>5. Writes(Reads(Machine, R), W) = Mach("rsp", 0, <<>>, R, W)
    BY <1>3, <1>4, MachineIs, ReadsIs, WritesIs
  <1> QED BY <1>2, <1>5 DEF i, R, W

LEMMA Adding ==
    ASSUME NEW d \in Nat
    PROVE  Executes(Machine, Instruction("add", <<>>, d)) = Mach("rsp", d, <<>>, {"rsp"}, {"rsp"})
  <1> DEFINE i == Instruction("add", <<>>, d)
             m == [Machine EXCEPT !.offset = @ + d]
             rsp == {"rsp"}
  <1>1. i.op = "add" /\ i.n = d
    BY DEF Instruction
  <1> HIDE DEF i
  <1>2. Executes(Machine, i) = Writes(Reads(m, rsp), rsp)
    BY <1>1 DEF Executes
  <1>3. m = Mach("rsp", d, <<>>, {}, {})
    <2>1. Machine.offset + d = d
      BY DEF Machine
    <2>2. m = WithOffset(Machine, d)
      BY <2>1 DEF WithOffset
    <2> QED BY <2>2, MachineIs, WithOffsetIs
  <1> HIDE DEF m, rsp
  <1>4. {} \cup (rsp \ {}) = rsp /\ {} \cup rsp = rsp
    OBVIOUS
  <1>5. Reads(m, rsp) = Mach("rsp", d, <<>>, rsp, {})
    BY <1>3, <1>4, ReadsIs
  <1>6. Writes(Reads(m, rsp), rsp) = Mach("rsp", d, <<>>, rsp, rsp)
    BY <1>4, <1>5, WritesIs
  <1> QED BY <1>2, <1>6 DEF i, rsp

\* The instruction a reading ends with.
ReturnOf(c) == Instruction("return", <<>>, IF c.terminator = RET THEN 0 ELSE Immediate(c))

LEMMA AppendToOne == ASSUME NEW a, NEW b PROVE Append(<<a>>, b) = <<a, b>>
  <1> DEFINE s == Append(<<a>>, b)
  <1>1. <<a>> \in Seq({a, b}) /\ a \in {a, b} /\ b \in {a, b}
    OBVIOUS
  <1>2. s \in Seq({a, b}) /\ Len(s) = 2 /\ s[1] = a /\ s[2] = b
    BY <1>1, AppendProperties
  <1> HIDE DEF s
  <1>3. s = <<a, b>>
    BY <1>2
  <1> QED BY <1>3 DEF s

LEMMA AppendToTwo == ASSUME NEW a, NEW b, NEW c PROVE Append(<<a, b>>, c) = <<a, b, c>>
  <1> DEFINE s == Append(<<a, b>>, c)
  <1>1. <<a, b>> \in Seq({a, b, c}) /\ a \in {a, b, c} /\ b \in {a, b, c} /\ c \in {a, b, c}
    OBVIOUS
  <1>2. s \in Seq({a, b, c}) /\ Len(s) = 3 /\ s[1] = a /\ s[2] = b /\ s[3] = c
    BY <1>1, AppendProperties
  <1> HIDE DEF s
  <1>3. s = <<a, b, c>>
    BY <1>2
  <1> QED BY <1>3 DEF s

\* The return when nothing has been taken from the stack.
LEMMA ReturningFirst ==
    ASSUME NEW b, NEW o, NEW r, NEW w, NEW n
    PROVE  Executes(Mach(b, o, <<>>, r, w), Instruction("return", <<>>, n))
             = Mach(b, (o + 8) + n, <<<<b, o>>>>, r \cup ({"rsp"} \ w), w \cup {"rsp"})
  <1> DEFINE none == <<>>
  <1>1. Append(none, <<b, o>>) = <<<<b, o>>>>
    OBVIOUS
  <1> HIDE DEF none
  <1>2. Executes(Mach(b, o, none, r, w), Instruction("return", <<>>, n))
          = Mach(b, (o + 8) + n, Append(none, <<b, o>>), r \cup ({"rsp"} \ w), w \cup {"rsp"})
    BY Returning
  <1> QED BY <1>1, <1>2, Zenon DEF none

\* The meaning of a reading, by the number of its instructions.
LEMMA MeaningOf ==
    ASSUME NEW c
    PROVE  /\ Body[Reading(c)] = <<>> => Meaning(c) = Executes(Machine, ReturnOf(c))
           /\ \A a : Body[Reading(c)] = <<a>> => Meaning(c) = Executes(Executes(Machine, a), ReturnOf(c))
           /\ \A a, b : Body[Reading(c)] = <<a, b>> =>
                 Meaning(c) = Executes(Executes(Executes(Machine, a), b), ReturnOf(c))
  <1> DEFINE e == ReturnOf(c)
             body == Body[Reading(c)]
  <1>1. Meaning(c) = FoldLeft(Executes, Machine, Append(body, e))
    BY Zenon DEF Meaning, ReturnOf
  <1> HIDE DEF e, body
  <1>2. ASSUME body = <<>> PROVE Meaning(c) = Executes(Machine, e)
    <2>1. Append(body, e) = <<e>>
      BY <1>2
    <2> QED BY <1>1, <2>1, FoldOne, Zenon
  <1>3. ASSUME NEW a, body = <<a>> PROVE Meaning(c) = Executes(Executes(Machine, a), e)
    <2>1. Append(body, e) = <<a, e>>
      BY <1>3, AppendToOne, Zenon
    <2> QED BY <1>1, <2>1, FoldTwo, Zenon
  <1>4. ASSUME NEW a, NEW b, body = <<a, b>> PROVE Meaning(c) = Executes(Executes(Executes(Machine, a), b), e)
    <2>1. Append(body, e) = <<a, b, e>>
      BY <1>4, AppendToTwo, Zenon
    <2>2. FoldLeft(Executes, Machine, <<a, b, e>>) = Executes(Executes(Executes(Machine, a), b), e)
      <3> DEFINE s == <<a, b, e>>
      <3>1. DOMAIN s = {1, 2, 3} /\ s[1] = a /\ s[2] = b /\ s[3] = e
        OBVIOUS
      <3> HIDE DEF s
      <3>2. FoldLeft(Executes, Machine, s) = Executes(Executes(Executes(Machine, s[1]), s[2]), s[3])
        BY <3>1, FoldThree, Zenon
      <3> QED BY <3>1, <3>2, Zenon DEF s
    <2> QED BY <1>1, <2>1, <2>2
  <1> QED BY <1>2, <1>3, <1>4, Zenon DEF e, body

\* No instruction before the return.
LEMMA MeaningNone ==
    ASSUME NEW c, Body[Reading(c)] = <<>>, NEW n \in Nat, n = IF c.terminator = RET THEN 0 ELSE Immediate(c)
    PROVE  Meaning(c) = Mach("rsp", 8 + n, <<<<"rsp", 0>>>>, {"rsp"}, {"rsp"})
  <1> DEFINE zero == 0
             none == {}
             rsp == {"rsp"}
  <1>1. Meaning(c) = Executes(Mach("rsp", zero, <<>>, none, none), Instruction("return", <<>>, n))
    BY MeaningOf, MachineIs DEF ReturnOf
  <1>2. (zero + 8) + n = 8 + n /\ none \cup (rsp \ none) = rsp /\ none \cup rsp = rsp
    OBVIOUS
  <1> HIDE DEF zero, none
  <1>3. Executes(Mach("rsp", zero, <<>>, none, none), Instruction("return", <<>>, n))
          = Mach("rsp", (zero + 8) + n, <<<<"rsp", zero>>>>, none \cup (rsp \ none), none \cup rsp)
    BY ReturningFirst
  <1> HIDE DEF rsp
  <1>4. Meaning(c) = Mach("rsp", 8 + n, <<<<"rsp", zero>>>>, rsp, rsp)
    BY <1>1, <1>2, <1>3, Zenon
  <1> QED BY <1>4 DEF zero, rsp

\* A body of one instruction that takes nothing from the stack.
LEMMA MeaningOne ==
    ASSUME NEW c, c.terminator = RET, NEW a, Body[Reading(c)] = <<a>>, NEW b, NEW o \in Nat, NEW r, NEW w,
           Executes(Machine, a) = Mach(b, o, <<>>, r, w)
    PROVE  Meaning(c) = Mach(b, o + 8, <<<<b, o>>>>, r \cup ({"rsp"} \ w), w \cup {"rsp"})
  <1> DEFINE zero == 0
  <1>1. ReturnOf(c) = Instruction("return", <<>>, zero) /\ (o + 8) + zero = o + 8
    BY DEF ReturnOf
  <1> HIDE DEF zero
  <1>2. Meaning(c) = Executes(Mach(b, o, <<>>, r, w), Instruction("return", <<>>, zero))
    BY <1>1, MeaningOf
  <1>3. Executes(Mach(b, o, <<>>, r, w), Instruction("return", <<>>, zero))
          = Mach(b, (o + 8) + zero, <<<<b, o>>>>, r \cup ({"rsp"} \ w), w \cup {"rsp"})
    BY ReturningFirst
  <1> QED BY <1>1, <1>2, <1>3, Zenon

LEMMA MeaningLeave ==
    ASSUME NEW c, c.terminator = RET, Body[Reading(c)] = LeaveBody
    PROVE  Meaning(c) = Mach("rbp", 16, <<<<"rbp", 0>>, <<"rbp", 8>>>>, {"rbp"}, {"rsp", "rbp"})
  <1> DEFINE r == {"rbp"}
             w == {"rsp", "rbp"}
             s == <<<<"rbp", 0>>>>
             a == Instruction("leave", <<>>, 0)
             eight == 8
  <1>1. ReturnOf(c) = Instruction("return", <<>>, 0) /\ Body[Reading(c)] = <<a>>
    BY DEF ReturnOf, LeaveBody
  <1>2. Executes(Machine, a) = Mach("rbp", eight, s, r, w)
    BY Leaving
  <1>3. r \cup ({"rsp"} \ w) = r /\ w \cup {"rsp"} = w /\ (eight + 8) + 0 = 16
    OBVIOUS
  <1>4. Append(s, <<"rbp", eight>>) = <<<<"rbp", 0>>, <<"rbp", 8>>>>
    BY AppendToOne
  <1> HIDE DEF r, w, s, a, eight
  <1>5. Meaning(c) = Executes(Mach("rbp", eight, s, r, w), Instruction("return", <<>>, 0))
    BY <1>1, <1>2, MeaningOf
  <1>6. Executes(Mach("rbp", eight, s, r, w), Instruction("return", <<>>, 0))
          = Mach("rbp", (eight + 8) + 0, Append(s, <<"rbp", eight>>), r \cup ({"rsp"} \ w), w \cup {"rsp"})
    BY Returning
  <1>7. Meaning(c) = Mach("rbp", 16, <<<<"rbp", 0>>, <<"rbp", 8>>>>, r, w)
    BY <1>3, <1>4, <1>5, <1>6, Zenon
  <1> QED BY <1>7 DEF r, w

LEMMA MeaningPop ==
    ASSUME NEW c, c.terminator = RET, NEW i \in 0 .. 15, Body[Reading(c)] = PopBody(i)
    PROVE  Meaning(c) = IF i = 4 THEN Mach("memory", 8, <<<<"rsp", 0>>, <<"memory", 0>>>>, {"rsp"}, {"rsp"})
                        ELSE Mach("rsp", 16, <<<<"rsp", 0>>, <<"rsp", 8>>>>, {"rsp"}, {"rsp", Reg(i)})
  <1> DEFINE rsp == {"rsp"}
             s == <<<<"rsp", 0>>>>
             g == Reg(i)
             w == {"rsp", g}
             a == Instruction("pop", <<g>>, 0)
             end == Instruction("return", <<>>, 0)
             none == <<>>
             empty == {}
             zero == 0
  <1>1. ReturnOf(c) = end /\ Body[Reading(c)] = <<a>>
    BY Zenon DEF ReturnOf, PopBody
  <1>2. g = "rsp" <=> i = 4
    BY RegisterNumber
  <1>3. /\ empty \cup (rsp \ empty) = rsp /\ empty \cup rsp = rsp /\ rsp \cup rsp = rsp
        /\ rsp \cup (rsp \ rsp) = rsp /\ rsp \cup {g} = w /\ rsp \cup (rsp \ w) = rsp /\ w \cup rsp = w
    OBVIOUS
  <1>4. /\ Append(none, <<"rsp", zero>>) = s /\ zero + 8 = 8 /\ (zero + 8) + 0 = 8 /\ (8 + 8) + 0 = 16
    OBVIOUS
  <1>5. /\ Append(s, <<"memory", zero>>) = <<<<"rsp", 0>>, <<"memory", 0>>>>
        /\ Append(s, <<"rsp", 8>>) = <<<<"rsp", 0>>, <<"rsp", 8>>>>
    BY AppendToOne
  <1>6. Machine = Mach("rsp", zero, none, empty, empty)
    BY MachineIs
  <1> HIDE DEF rsp, s, g, w, a, end, none, empty, zero
  <1>7. Meaning(c) = Executes(Executes(Mach("rsp", zero, none, empty, empty), a), end)
    BY <1>1, <1>6, MeaningOf
  <1>8. CASE i = 4
    <2>1. Executes(Mach("rsp", zero, none, empty, empty), a) = Mach("memory", zero, s, rsp, rsp)
      <3>1. Executes(Mach("rsp", zero, none, empty, empty), Instruction("pop", <<"rsp">>, 0))
              = Mach("memory", 0, Append(none, <<"rsp", zero>>), empty \cup ({"rsp"} \ empty), empty \cup {"rsp"})
        BY PoppingStack
      <3>2. a = Instruction("pop", <<"rsp">>, 0)
        BY <1>2, <1>8 DEF a
      <3> QED BY <1>3, <1>4, <3>1, <3>2, Zenon DEF zero, rsp
    <2>2. Executes(Mach("memory", zero, s, rsp, rsp), end)
            = Mach("memory", (zero + 8) + 0, Append(s, <<"memory", zero>>), rsp \cup (rsp \ rsp), rsp \cup rsp)
      BY Returning DEF end, rsp
    <2>3. Meaning(c) = Mach("memory", 8, <<<<"rsp", 0>>, <<"memory", 0>>>>, rsp, rsp)
      BY <1>3, <1>4, <1>5, <1>7, <2>1, <2>2, Zenon
    <2> QED BY <1>8, <2>3 DEF rsp
  <1>9. CASE i # 4
    <2> DEFINE eight == 8
    <2>1. Executes(Mach("rsp", zero, none, empty, empty), a) = Mach("rsp", eight, s, rsp, w)
      <3>1. Executes(Mach("rsp", zero, none, empty, empty), Instruction("pop", <<g>>, 0))
              = Mach("rsp", zero + 8, Append(none, <<"rsp", zero>>), empty \cup ({"rsp"} \ empty),
                     (empty \cup {"rsp"}) \cup {g})
        BY <1>2, <1>9, PoppingOther
      <3> QED BY <1>3, <1>4, <3>1, Zenon DEF rsp, a
    <2>2. (eight + 8) + 0 = 16 /\ Append(s, <<"rsp", eight>>) = <<<<"rsp", 0>>, <<"rsp", 8>>>>
      BY <1>5
    <2> HIDE DEF eight
    <2>3. Executes(Mach("rsp", eight, s, rsp, w), end)
            = Mach("rsp", (eight + 8) + 0, Append(s, <<"rsp", eight>>), rsp \cup (rsp \ w), w \cup rsp)
      BY Returning DEF end, rsp
    <2>4. Meaning(c) = Mach("rsp", 16, <<<<"rsp", 0>>, <<"rsp", 8>>>>, rsp, w)
      BY <1>3, <1>7, <2>1, <2>2, <2>3, Zenon
    <2> QED BY <1>9, <2>4 DEF rsp, w, g
  <1> QED BY <1>8, <1>9

LEMMA MeaningTwo ==
    ASSUME NEW c, c.terminator = RET, NEW i \in ArgumentNumbers, NEW j \in ArgumentNumbers,
           Body[Reading(c)] = TwoPopBody(i, j)
    PROVE  Meaning(c) = Mach("rsp", 24, <<<<"rsp", 0>>, <<"rsp", 8>>, <<"rsp", 16>>>>, {"rsp"},
                             {"rsp", Reg(i), Reg(j)})
  <1> DEFINE rsp == {"rsp"}
             s1 == <<<<"rsp", 0>>>>
             s2 == <<<<"rsp", 0>>, <<"rsp", 8>>>>
             s3 == <<<<"rsp", 0>>, <<"rsp", 8>>, <<"rsp", 16>>>>
             g == Reg(i)
             h == Reg(j)
             w1 == {"rsp", g}
             w2 == {"rsp", g, h}
             a == Instruction("pop", <<g>>, 0)
             b == Instruction("pop", <<h>>, 0)
             end == Instruction("return", <<>>, 0)
             none == <<>>
             empty == {}
             zero == 0
             eight == 8
             sixteen == 16
  <1>1. ReturnOf(c) = end /\ Body[Reading(c)] = <<a, b>>
    BY Zenon DEF ReturnOf, TwoPopBody
  <1>2. g # "rsp" /\ h # "rsp"
    BY RegisterNumber DEF ArgumentNumbers
  <1>3. /\ empty \cup (rsp \ empty) = rsp /\ empty \cup rsp = rsp
        /\ rsp \cup {g} = w1 /\ rsp \cup (rsp \ w1) = rsp /\ w1 \cup rsp = w1 /\ w1 \cup {h} = w2
        /\ rsp \cup (rsp \ w2) = rsp /\ w2 \cup rsp = w2
    OBVIOUS
  <1>4. /\ Append(none, <<"rsp", zero>>) = s1
        /\ zero + 8 = eight /\ eight + 8 = sixteen /\ (sixteen + 8) + 0 = 24
    OBVIOUS
  <1>5. Append(s1, <<"rsp", eight>>) = s2 /\ Append(s2, <<"rsp", sixteen>>) = s3
    BY AppendToOne, AppendToTwo
  <1>6. Machine = Mach("rsp", zero, none, empty, empty)
    BY MachineIs
  <1> HIDE DEF rsp, s1, s2, s3, g, h, w1, w2, a, b, end, none, empty, zero, eight, sixteen
  <1>7. Meaning(c) = Executes(Executes(Executes(Mach("rsp", zero, none, empty, empty), a), b), end)
    BY <1>1, <1>6, MeaningOf
  <1>8. Executes(Mach("rsp", zero, none, empty, empty), a)
          = Mach("rsp", zero + 8, Append(none, <<"rsp", zero>>), empty \cup (rsp \ empty), (empty \cup rsp) \cup {g})
    <2>1. Executes(Mach("rsp", zero, none, empty, empty), Instruction("pop", <<g>>, 0))
            = Mach("rsp", zero + 8, Append(none, <<"rsp", zero>>), empty \cup ({"rsp"} \ empty),
                   (empty \cup {"rsp"}) \cup {g})
      BY <1>2, PoppingOther
    <2> QED BY <2>1, Zenon DEF rsp, a
  <1>9. Executes(Mach("rsp", eight, s1, rsp, w1), b)
          = Mach("rsp", eight + 8, Append(s1, <<"rsp", eight>>), rsp \cup (rsp \ w1), (w1 \cup rsp) \cup {h})
    <2>1. Executes(Mach("rsp", eight, s1, rsp, w1), Instruction("pop", <<h>>, 0))
            = Mach("rsp", eight + 8, Append(s1, <<"rsp", eight>>), rsp \cup ({"rsp"} \ w1),
                   (w1 \cup {"rsp"}) \cup {h})
      BY <1>2, PoppingOther
    <2> QED BY <2>1, Zenon DEF rsp, b
  <1>10. Executes(Mach("rsp", sixteen, s2, rsp, w2), end)
          = Mach("rsp", (sixteen + 8) + 0, Append(s2, <<"rsp", sixteen>>), rsp \cup (rsp \ w2), w2 \cup rsp)
    BY Returning DEF end, rsp
  <1>11. Meaning(c) = Mach("rsp", 24, s3, rsp, w2)
    BY <1>3, <1>4, <1>5, <1>7, <1>8, <1>9, <1>10, Zenon
  <1> QED BY <1>11 DEF rsp, s3, w2, g, h

LEMMA MeaningSyscall ==
    ASSUME NEW c, c.terminator = RET, Body[Reading(c)] = SyscallBody
    PROVE  Meaning(c) = Mach("rsp", 8, <<<<"rsp", 0>>>>, SyscallReads, {"rax", "rcx", "r11", "rsp"})
  <1> DEFINE r == SyscallReads \ {"rsp"}
             w == {"rax", "rcx", "r11"}
             a == Instruction("syscall", <<>>, 0)
  <1>1. Body[Reading(c)] = <<a>>
    BY DEF SyscallBody
  <1>2. Executes(Machine, a) = Mach("rsp", 0, <<>>, r, w)
    BY Calling
  <1>3. r \cup ({"rsp"} \ w) = SyscallReads /\ w \cup {"rsp"} = {"rax", "rcx", "r11", "rsp"} /\ 0 + 8 = 8
    BY DEF SyscallReads
  <1> HIDE DEF r, w, a
  <1>4. Meaning(c) = Mach("rsp", 0 + 8, <<<<"rsp", 0>>>>, r \cup ({"rsp"} \ w), w \cup {"rsp"})
    BY <1>1, <1>2, MeaningOne
  <1> QED BY <1>3, <1>4, Zenon

LEMMA MeaningAdjust ==
    ASSUME NEW c, c.terminator = RET, NEW d \in Nat, Body[Reading(c)] = AdjustBody(d)
    PROVE  Meaning(c) = Mach("rsp", d + 8, <<<<"rsp", d>>>>, {"rsp"}, {"rsp"})
  <1> DEFINE r == {"rsp"}
             a == Instruction("add", <<>>, d)
  <1>1. Body[Reading(c)] = <<a>>
    BY DEF AdjustBody
  <1>2. Executes(Machine, a) = Mach("rsp", d, <<>>, r, r)
    BY Adding
  <1>3. r \cup ({"rsp"} \ r) = r /\ r \cup {"rsp"} = r
    OBVIOUS
  <1> HIDE DEF r, a
  <1>4. Meaning(c) = Mach("rsp", d + 8, <<<<"rsp", d>>>>, r \cup ({"rsp"} \ r), r \cup {"rsp"})
    BY <1>1, <1>2, MeaningOne
  <1> QED BY <1>3, <1>4, Zenon DEF r

\* What a move of the kind op reads and writes, and what has been done after the return.
MoveReads(op, i, j)  == IF op = "move" THEN {Reg(j)} ELSE IF op = "write" THEN {Reg(i), Reg(j)} ELSE {Reg(i)}
MoveWrites(op, i, j) == IF op = "move" THEN {Reg(i)} ELSE IF op = "write" THEN {} ELSE {Reg(j)}
MovedMach(op, i, j) ==
    Mach("rsp", 8, <<<<"rsp", 0>>>>, MoveReads(op, i, j) \cup ({"rsp"} \ MoveWrites(op, i, j)),
         MoveWrites(op, i, j) \cup {"rsp"})

LEMMA MeaningMove ==
    ASSUME NEW c, c.terminator = RET, NEW i \in 0 .. 15, NEW j \in 0 .. 15, NEW op \in {"move", "write", "read"},
           Body[Reading(c)] = MoveBody(op, i, j)
    PROVE  Meaning(c) = MovedMach(op, i, j)
  <1> DEFINE r == MoveReads(op, i, j)
             w == MoveWrites(op, i, j)
             a == Instruction(op, <<Reg(i), Reg(j)>>, 0)
             zero == 0
  <1>1. Body[Reading(c)] = <<a>>
    BY DEF MoveBody
  <1>2. Executes(Machine, a) = Mach("rsp", zero, <<>>, r, w)
    <2>1. Executes(Machine, a) = IF op = "move" THEN Mach("rsp", 0, <<>>, {Reg(j)}, {Reg(i)})
                                 ELSE IF op = "write" THEN Mach("rsp", 0, <<>>, {Reg(i), Reg(j)}, {})
                                 ELSE Mach("rsp", 0, <<>>, {Reg(i)}, {Reg(j)})
      BY Moving
    <2> QED BY <2>1 DEF MoveReads, MoveWrites
  <1>3. zero + 8 = 8 /\ zero \in Nat
    OBVIOUS
  <1> HIDE DEF r, w, a, zero
  <1>4. Meaning(c) = Mach("rsp", zero + 8, <<<<"rsp", zero>>>>, r \cup ({"rsp"} \ w), w \cup {"rsp"})
    BY <1>1, <1>2, <1>3, MeaningOne
  <1> QED BY <1>3, <1>4, Zenon DEF zero, r, w, MovedMach

-----------------------------------------------------------------------------
(* What the passes record of a reading.                                    *)

LEMMA OneSlot ==
    ASSUME NEW m, NEW s, NEW d, m.slots = <<<<d.base, d.first>>>>, d.first \in Int,
           d.stackReads = 1, d.offsetsKnown = TRUE, d.stride = 0,
           s.delta = IF m.base = "rsp" THEN m.offset ELSE 0
    PROVE  StackOfTheReading(m, s, d)
  <1>1. Len(m.slots) = 1 /\ DOMAIN m.slots = {1} /\ m.slots[1][1] = d.base /\ m.slots[1][2] = d.first
    OBVIOUS
  <1>2. \A i \in DOMAIN m.slots : i = 1 /\ m.slots[i][2] = d.first + (i - 1) * d.stride
    BY <1>1
  <1> QED BY <1>1, <1>2 DEF StackOfTheReading

LEMMA TwoSlots ==
    ASSUME NEW m, NEW s, NEW d, m.slots = <<<<d.base, 0>>, <<d.base, 8>>>>,
           d.stackReads = 2, d.offsetsKnown = TRUE, d.first = 0, d.stride = 8,
           s.delta = IF m.base = "rsp" THEN m.offset ELSE 0
    PROVE  StackOfTheReading(m, s, d)
  <1>1. /\ Len(m.slots) = 2 /\ DOMAIN m.slots = {1, 2}
        /\ m.slots[1][1] = d.base /\ m.slots[1][2] = 0 /\ m.slots[2][1] = d.base /\ m.slots[2][2] = 8
    OBVIOUS
  <1>2. \A i \in DOMAIN m.slots : m.slots[i][1] = d.base /\ m.slots[i][2] = d.first + (i - 1) * d.stride
    <2> SUFFICES ASSUME NEW i \in {1, 2}
                 PROVE  m.slots[i][1] = d.base /\ m.slots[i][2] = d.first + (i - 1) * d.stride
      BY <1>1
    <2>1. CASE i = 1
      BY <1>1, <2>1
    <2>2. CASE i = 2
      BY <1>1, <2>2
    <2> QED BY <2>1, <2>2
  <1> QED BY <1>1, <1>2 DEF StackOfTheReading

LEMMA ThreeSlots ==
    ASSUME NEW m, NEW s, NEW d, m.slots = <<<<d.base, 0>>, <<d.base, 8>>, <<d.base, 16>>>>,
           d.stackReads = 3, d.offsetsKnown = TRUE, d.first = 0, d.stride = 8,
           s.delta = IF m.base = "rsp" THEN m.offset ELSE 0
    PROVE  StackOfTheReading(m, s, d)
  <1>1. /\ Len(m.slots) = 3 /\ DOMAIN m.slots = {1, 2, 3}
        /\ m.slots[1][1] = d.base /\ m.slots[1][2] = 0 /\ m.slots[2][1] = d.base /\ m.slots[2][2] = 8
        /\ m.slots[3][1] = d.base /\ m.slots[3][2] = 16
    OBVIOUS
  <1>2. \A i \in DOMAIN m.slots : m.slots[i][1] = d.base /\ m.slots[i][2] = d.first + (i - 1) * d.stride
    BY <1>1
  <1> QED BY <1>1, <1>2 DEF StackOfTheReading

LEMMA MixedSlots ==
    ASSUME NEW m, NEW s, NEW d, m.slots = <<<<"rsp", 0>>, <<"memory", 0>>>>,
           d.stackReads = 2, d.offsetsKnown = FALSE, d.base = "dynamic",
           s.delta = IF m.base = "rsp" THEN m.offset ELSE 0
    PROVE  StackOfTheReading(m, s, d)
  <1>1. /\ Len(m.slots) = 2 /\ 2 \in DOMAIN m.slots
        /\ m.slots[1][1] = "rsp" /\ m.slots[2][1] = "memory"
    OBVIOUS
  <1>2. ~ \A i \in DOMAIN m.slots : m.slots[i][1] = m.slots[1][1]
    BY <1>1
  <1> QED BY <1>1, <1>2 DEF StackOfTheReading

\* What a reading does, by the number of its instructions.
LEMMA DoingNone ==
    ASSUME NEW c, NEW op, Body[Reading(c)] = <<>>
    PROVE  ~Doing(c, op)
  BY DEF Doing

LEMMA DoingOne ==
    ASSUME NEW c, NEW op, NEW o, NEW regs, NEW n, Body[Reading(c)] = <<Instruction(o, regs, n)>>
    PROVE  Doing(c, op) <=> o = op
  <1> DEFINE body == Body[Reading(c)]
  <1>1. DOMAIN body = {1} /\ body[1].op = o
    BY DEF Instruction
  <1> HIDE DEF body
  <1>2. (\E i \in DOMAIN body : body[i].op = op) <=> o = op
    BY <1>1
  <1> QED BY <1>2, Zenon DEF Doing, body

LEMMA DoingTwo ==
    ASSUME NEW c, NEW op, NEW o, NEW r, NEW q, Body[Reading(c)] = <<Instruction(o, r, 0), Instruction(o, q, 0)>>
    PROVE  Doing(c, op) <=> o = op
  <1> DEFINE body == Body[Reading(c)]
  <1>1. DOMAIN body = {1, 2} /\ body[1].op = o /\ body[2].op = o
    BY DEF Instruction
  <1> HIDE DEF body
  <1>2. (\E i \in DOMAIN body : body[i].op = op) <=> o = op
    BY <1>1
  <1> QED BY <1>2, Zenon DEF Doing, body

\* What the passes check of one another: a row that is so is never refused.
Consistent(c, p, s) ==
    /\ OrderSound(p)
    /\ ClassifierAccepts(c, p)
    /\ MemoryAccepts(p, s)
    /\ FactsExpected(p, s)
    /\ s.class \in Classes \cup {"unknown"}
    /\ s.class = "memory write" <=> p.kind = "store"
    /\ s.class = "memory read" <=> p.kind = "load"

\* The row says what the reading does: m is its meaning, s, x and a are what the passes wrote.
Described(c, m, s, x, a) ==
    /\ StackOfTheReading(m, s, x.descriptor)
    /\ RegistersOfTheReading(c, m, s, x)
    /\ MemoryOfTheReading(c, a)
    /\ x.descriptor.complete = (x.descriptor.offsetsKnown /\ ~Doing(c, "syscall"))

LEMMA NoOrder ==
    ASSUME NEW kind \in {"ret", "ret imm16", "leave", "syscall", "adjust"}
    PROVE  OrderSound(Pattern(kind, <<>>))
  <1> DEFINE p == Pattern(kind, <<>>)
  <1>1. p.kind = kind /\ p.regs = <<>>
    BY DEF Pattern
  <1> HIDE DEF p
  <1>2. OrderSound(p)
    BY <1>1 DEF OrderSound
  <1> QED BY <1>2 DEF p

\* A row of each family is accepted by every pass.
LEMMA ConsistentRet ==
    ASSUME NEW c, NEW p, p = Pattern("ret", <<>>), NEW s, s = Classified(c, p)
    PROVE  /\ Consistent(c, p, s)
           /\ SuffixLength(p) = 1
           /\ s.controlled = {} /\ s.clobbered = {} /\ s.delta = 8
  <1>1. p.kind = "ret" /\ p.regs = <<>>
    BY DEF Pattern
  <1>2. OrderSound(p)
    BY NoOrder
  <1>3. s = Facts("alignment", {}, {}, 8, Returns)
    BY <1>1 DEF Classified
  <1>4. /\ s.class = "alignment" /\ s.controlled = {} /\ s.clobbered = {} /\ s.delta = 8
        /\ s.flags = Returns
    BY <1>3 DEF Facts
  <1>5. ClassifierAccepts(c, p) /\ MemoryAccepts(p, s)
    BY <1>1, <1>4 DEF ClassifierAccepts, MemoryAccepts
  <1>6. FactsExpected(p, s)
    <2>1. ClassExpected(p) = "alignment" /\ ControlledExpected(p, "alignment") = {} /\ ClobberedExpected(p) = {}
      BY <1>1 DEF ClassExpected, ControlledExpected, ClobberedExpected
    <2>2. DeltaExpected(p, "alignment", 8)
      BY <1>1 DEF DeltaExpected
    <2>3. FlagsExpected(p, "alignment") = Returns
      BY <1>1 DEF FlagsExpected, Returns
    <2> QED BY <1>4, <2>1, <2>2, <2>3, Zenon DEF FactsExpected
  <1>7. SuffixLength(p) = 1
    BY <1>1 DEF SuffixLength
  <1>8. s.class \in Classes \cup {"unknown"}
    BY <1>4 DEF Classes
  <1> QED BY <1>1, <1>2, <1>3, <1>4, <1>5, <1>6, <1>7, <1>8 DEF Consistent

\* Two families by name. A string with a space stays out of the arithmetic of the steps below.
IsRetImm(p)        == p = Pattern("ret imm16", <<>>)
IsTwoPops(p, g, h) == p = Pattern("two pops", <<g, h>>)

LEMMA Apart ==
    /\ "rax" \notin ArgumentRegisters /\ "rsp" \notin ArgumentRegisters /\ "rax" # "rsp"
    /\ "pop" \notin {"ret", "ret imm16", "adjust", "two pops", "leave", "syscall", "transfer", "store", "load"}
  BY DEF ArgumentRegisters

LEMMA OneRegister ==
    ASSUME NEW r, NEW g, r = <<g>>
    PROVE  Len(r) = 1 /\ r[1] = g /\ DOMAIN r = {1}
  OBVIOUS

LEMMA TwoRegisters ==
    ASSUME NEW r, NEW g, NEW h, r = <<g, h>>
    PROVE  Len(r) = 2 /\ r[1] = g /\ r[2] = h /\ DOMAIN r = {1, 2}
  OBVIOUS

LEMMA PopSuffix ==
    ASSUME NEW p, NEW g, p.kind = "pop", p.regs = <<g>>
    PROVE  SuffixLength(p) = IF Extended(g) THEN 3 ELSE 2
  <1> DEFINE E == {i \in DOMAIN p.regs : Extended(p.regs[i])}
  <1>1. Len(p.regs) = 1 /\ DOMAIN p.regs = {1} /\ p.regs[1] = g
    OBVIOUS
  <1>2. E = IF Extended(g) THEN {1} ELSE {}
    BY <1>1
  <1>3. Cardinality({1}) = 1 /\ Cardinality({}) = 0
    BY FS_Singleton, FS_EmptySet
  <1>4. Cardinality(E) = IF Extended(g) THEN 1 ELSE 0
    BY <1>2, <1>3
  <1> HIDE DEF E
  <1>5. SuffixLength(p) = 1 + Len(p.regs) + Cardinality(E)
    BY DEF SuffixLength, E
  <1> QED BY <1>1, <1>4, <1>5

LEMMA TwoSuffix ==
    ASSUME NEW p, NEW g, NEW h, IsTwoPops(p, g, h)
    PROVE  SuffixLength(p) = (IF Extended(g) THEN 2 ELSE 1) + (IF Extended(h) THEN 3 ELSE 2)
  <1> DEFINE E == {i \in DOMAIN p.regs : Extended(p.regs[i])}
             S == {1}
  <1>1. Len(p.regs) = 2 /\ p.regs[1] = g /\ p.regs[2] = h /\ DOMAIN p.regs = {1, 2}
    <2>1. p.regs = <<g, h>>
      BY Zenon DEF IsTwoPops, Pattern
    <2> QED BY <2>1, TwoRegisters, Zenon
  <1>2. E = (IF Extended(g) THEN {1} ELSE {}) \cup (IF Extended(h) THEN {2} ELSE {})
    BY <1>1
  <1>3. /\ Cardinality({1}) = 1 /\ Cardinality({2}) = 1 /\ Cardinality({}) = 0
        /\ Cardinality({1} \cup {2}) = 2
    <2>1. IsFiniteSet({1}) /\ Cardinality({1}) = 1 /\ Cardinality({2}) = 1 /\ Cardinality({}) = 0
      BY FS_Singleton, FS_EmptySet
    <2> DEFINE two == 2
    <2>2. two \notin S
      OBVIOUS
    <2> HIDE DEF S, two
    <2>3. Cardinality(S \cup {two}) = IF two \in S THEN Cardinality(S) ELSE Cardinality(S) + 1
      BY <2>1, FS_AddElement DEF S
    <2> QED BY <2>1, <2>2, <2>3 DEF S, two
  <1>4. Cardinality(E) = (IF Extended(g) THEN 1 ELSE 0) + (IF Extended(h) THEN 1 ELSE 0)
    <2>1. {1} \cup {} = {1} /\ {} \cup {2} = {2} /\ {} \cup {} = {}
      OBVIOUS
    <2>2. CASE Extended(g) /\ Extended(h)
      BY <1>2, <1>3, <2>2
    <2>3. CASE Extended(g) /\ ~Extended(h)
      BY <1>2, <1>3, <2>1, <2>3
    <2>4. CASE ~Extended(g) /\ Extended(h)
      BY <1>2, <1>3, <2>1, <2>4
    <2>5. CASE ~Extended(g) /\ ~Extended(h)
      BY <1>2, <1>3, <2>1, <2>5
    <2> QED BY <2>2, <2>3, <2>4, <2>5
  <1> HIDE DEF E
  <1>5. p.kind = "two pops"
    BY Zenon DEF Pattern, IsTwoPops
  <1>6. SuffixLength(p) = 1 + Len(p.regs) + Cardinality(E)
    BY <1>5, Zenon DEF SuffixLength, E
  <1> QED BY <1>1, <1>4, <1>6

LEMMA ConsistentRetImm ==
    ASSUME NEW c, NEW p, IsRetImm(p), NEW s, s = Classified(c, p),
           Immediate(c) \in Nat
    PROVE  /\ Consistent(c, p, s)
           /\ SuffixLength(p) = 3
           /\ s.controlled = {} /\ s.clobbered = {} /\ s.delta = 8 + Immediate(c)
  <1>1. p.kind = "ret imm16" /\ p.regs = <<>>
    BY Zenon DEF Pattern, IsRetImm
  <1>2. OrderSound(p)
    BY NoOrder, Zenon DEF IsRetImm
  <1>3. s = Facts("alignment", {}, {}, 8 + Immediate(c), Returns \cup {"stack adjust", "ret imm16"})
    BY <1>1, Zenon DEF Classified
  <1>4. /\ s.class = "alignment" /\ s.controlled = {} /\ s.clobbered = {}
        /\ s.delta = 8 + Immediate(c) /\ s.flags = Returns \cup {"stack adjust", "ret imm16"}
    <2> DEFINE class == "alignment"
               controlled == {}
               clobbered == {}
               delta == 8 + Immediate(c)
               flags == Returns \cup {"stack adjust", "ret imm16"}
    <2>1. s = Facts(class, controlled, clobbered, delta, flags)
      BY <1>3, Zenon
    <2> HIDE DEF class, controlled, clobbered, delta, flags
    <2>2. s.class = class /\ s.controlled = controlled /\ s.clobbered = clobbered /\ s.delta = delta /\ s.flags = flags
      BY <2>1 DEF Facts
    <2> QED BY <2>2, Zenon DEF class, controlled, clobbered, delta, flags
  <1>5. ClassifierAccepts(c, p) /\ MemoryAccepts(p, s)
    BY <1>1, <1>2, <1>4, Zenon DEF ClassifierAccepts, MemoryAccepts
  <1>6. FactsExpected(p, s)
    <2>1. ClassExpected(p) = "alignment"
      BY <1>1, Zenon DEF ClassExpected
    <2>2. ControlledExpected(p, "alignment") = {}
      BY <1>1, Zenon DEF ControlledExpected
    <2>3. ClobberedExpected(p) = {}
      BY <1>1, Zenon DEF ClobberedExpected
    <2>4. DeltaExpected(p, "alignment", 8 + Immediate(c))
      <3>1. 8 + Immediate(c) >= 8
        OBVIOUS
      <3> QED BY <1>1, <3>1, Zenon DEF DeltaExpected
    <2>5. FlagsExpected(p, "alignment") = Returns \cup {"stack adjust", "ret imm16"}
      BY <1>1, Zenon DEF FlagsExpected, Returns, Pops, Pivots
    <2> QED BY <1>4, <2>1, <2>2, <2>3, <2>4, <2>5, Zenon DEF FactsExpected
  <1>7. SuffixLength(p) = 3
    BY <1>1, Zenon DEF SuffixLength
  <1>8. s.class \in Classes \cup {"unknown"}
    BY <1>4, Zenon DEF Classes
  <1> QED BY <1>1, <1>2, <1>4, <1>5, <1>6, <1>7, <1>8, Zenon DEF Consistent

LEMMA ConsistentLeave ==
    ASSUME NEW c, NEW p, p = Pattern("leave", <<>>), NEW s, s = Classified(c, p)
    PROVE  /\ Consistent(c, p, s)
           /\ SuffixLength(p) = 2
           /\ s.controlled = {"rsp"} /\ s.clobbered = {"rbp"} /\ s.delta = 0
  <1>1. p.kind = "leave" /\ p.regs = <<>>
    BY Zenon DEF Pattern
  <1>2. OrderSound(p)
    BY NoOrder
  <1>3. s = Facts("stack pivot", {"rsp"}, {"rbp"}, 0, Pivots)
    BY <1>1, Zenon DEF Classified
  <1>4. /\ s.class = "stack pivot" /\ s.controlled = {"rsp"} /\ s.clobbered = {"rbp"}
        /\ s.delta = 0 /\ s.flags = Pivots
    <2> DEFINE class == "stack pivot"
               controlled == {"rsp"}
               clobbered == {"rbp"}
               delta == 0
               flags == Pivots
    <2>1. s = Facts(class, controlled, clobbered, delta, flags)
      BY <1>3, Zenon
    <2> HIDE DEF class, controlled, clobbered, delta, flags
    <2>2. s.class = class /\ s.controlled = controlled /\ s.clobbered = clobbered /\ s.delta = delta /\ s.flags = flags
      BY <2>1 DEF Facts
    <2> QED BY <2>2, Zenon DEF class, controlled, clobbered, delta, flags
  <1>5. ClassifierAccepts(c, p) /\ MemoryAccepts(p, s)
    BY <1>1, <1>2, <1>4, Zenon DEF ClassifierAccepts, MemoryAccepts
  <1>6. FactsExpected(p, s)
    <2>1. ClassExpected(p) = "stack pivot"
      BY <1>1, Zenon DEF ClassExpected
    <2>2. ControlledExpected(p, "stack pivot") = {"rsp"}
      BY <1>1, Zenon DEF ControlledExpected
    <2>3. ClobberedExpected(p) = {"rbp"}
      BY <1>1, Zenon DEF ClobberedExpected
    <2>4. DeltaExpected(p, "stack pivot", 0)
      BY <1>1, Zenon DEF DeltaExpected
    <2>5. FlagsExpected(p, "stack pivot") = Pivots
      BY <1>1, Zenon DEF FlagsExpected, Returns, Pops, Pivots
    <2> QED BY <1>4, <2>1, <2>2, <2>3, <2>4, <2>5, Zenon DEF FactsExpected
  <1>7. SuffixLength(p) = 2
    BY <1>1, Zenon DEF SuffixLength
  <1>8. s.class \in Classes \cup {"unknown"}
    BY <1>4, Zenon DEF Classes
  <1> QED BY <1>1, <1>2, <1>4, <1>5, <1>6, <1>7, <1>8, Zenon DEF Consistent

LEMMA ConsistentSyscall ==
    ASSUME NEW c, NEW p, p = Pattern("syscall", <<>>), NEW s, s = Classified(c, p)
    PROVE  /\ Consistent(c, p, s)
           /\ SuffixLength(p) = 3
           /\ s.controlled = {} /\ s.clobbered = {"rcx", "r11"} /\ s.delta = 8
  <1>1. p.kind = "syscall" /\ p.regs = <<>>
    BY Zenon DEF Pattern
  <1>2. OrderSound(p)
    BY NoOrder
  <1>3. s = Facts("syscall trigger", {}, {"rcx", "r11"}, 8, Pops \cup {"syscall"})
    BY <1>1, Zenon DEF Classified
  <1>4. /\ s.class = "syscall trigger" /\ s.controlled = {} /\ s.clobbered = {"rcx", "r11"}
        /\ s.delta = 8 /\ s.flags = Pops \cup {"syscall"}
    <2> DEFINE class == "syscall trigger"
               controlled == {}
               clobbered == {"rcx", "r11"}
               delta == 8
               flags == Pops \cup {"syscall"}
    <2>1. s = Facts(class, controlled, clobbered, delta, flags)
      BY <1>3, Zenon
    <2> HIDE DEF class, controlled, clobbered, delta, flags
    <2>2. s.class = class /\ s.controlled = controlled /\ s.clobbered = clobbered /\ s.delta = delta /\ s.flags = flags
      BY <2>1 DEF Facts
    <2> QED BY <2>2, Zenon DEF class, controlled, clobbered, delta, flags
  <1>5. ClassifierAccepts(c, p) /\ MemoryAccepts(p, s)
    BY <1>1, <1>2, <1>4, Zenon DEF ClassifierAccepts, MemoryAccepts
  <1>6. FactsExpected(p, s)
    <2>1. ClassExpected(p) = "syscall trigger"
      BY <1>1, Zenon DEF ClassExpected
    <2>2. ControlledExpected(p, "syscall trigger") = {}
      BY <1>1, Zenon DEF ControlledExpected
    <2>3. ClobberedExpected(p) = {"rcx", "r11"}
      BY <1>1, Zenon DEF ClobberedExpected
    <2>4. DeltaExpected(p, "syscall trigger", 8)
      BY <1>1, Zenon DEF DeltaExpected
    <2>5. FlagsExpected(p, "syscall trigger") = Pops \cup {"syscall"}
      BY <1>1, Zenon DEF FlagsExpected, Returns, Pops, Pivots
    <2> QED BY <1>4, <2>1, <2>2, <2>3, <2>4, <2>5, Zenon DEF FactsExpected
  <1>7. SuffixLength(p) = 3
    BY <1>1, Zenon DEF SuffixLength
  <1>8. s.class \in Classes \cup {"unknown"}
    BY <1>4, Zenon DEF Classes
  <1> QED BY <1>1, <1>2, <1>4, <1>5, <1>6, <1>7, <1>8, Zenon DEF Consistent

LEMMA ConsistentAdjust ==
    ASSUME NEW c, NEW p, p = Pattern("adjust", <<>>), NEW s, s = Classified(c, p),
           c.byteLen >= 5, AdjustBefore(c), Back(c, 1) \in 8 .. 120, Back(c, 1) % 8 = 0
    PROVE  /\ Consistent(c, p, s)
           /\ SuffixLength(p) = 5
           /\ s.controlled = {} /\ s.clobbered = {} /\ s.delta = 8 + Back(c, 1)
  <1>1. p.kind = "adjust" /\ p.regs = <<>>
    BY Zenon DEF Pattern
  <1>2. OrderSound(p)
    BY NoOrder
  <1>3. s = Facts("alignment", {}, {}, 8 + Back(c, 1), Returns \cup {"stack adjust", "flags write"})
    BY <1>1, Zenon DEF Classified
  <1>4. /\ s.class = "alignment" /\ s.controlled = {} /\ s.clobbered = {}
        /\ s.delta = 8 + Back(c, 1) /\ s.flags = Returns \cup {"stack adjust", "flags write"}
    <2> DEFINE class == "alignment"
               controlled == {}
               clobbered == {}
               delta == 8 + Back(c, 1)
               flags == Returns \cup {"stack adjust", "flags write"}
    <2>1. s = Facts(class, controlled, clobbered, delta, flags)
      BY <1>3, Zenon
    <2> HIDE DEF class, controlled, clobbered, delta, flags
    <2>2. s.class = class /\ s.controlled = controlled /\ s.clobbered = clobbered /\ s.delta = delta /\ s.flags = flags
      BY <2>1 DEF Facts
    <2> QED BY <2>2, Zenon DEF class, controlled, clobbered, delta, flags
  <1>5. ClassifierAccepts(c, p) /\ MemoryAccepts(p, s)
    BY <1>1, <1>2, <1>4, Zenon DEF ClassifierAccepts, MemoryAccepts
  <1>6. FactsExpected(p, s)
    <2>1. ClassExpected(p) = "alignment"
      BY <1>1, Zenon DEF ClassExpected
    <2>2. ControlledExpected(p, "alignment") = {}
      BY <1>1, Zenon DEF ControlledExpected
    <2>3. ClobberedExpected(p) = {}
      BY <1>1, Zenon DEF ClobberedExpected
    <2>4. DeltaExpected(p, "alignment", 8 + Back(c, 1))
      <3> DEFINE d == Back(c, 1)
      <3> HIDE DEF d
      <3>1. d \in 8 .. 120 /\ d % 8 = 0
        BY DEF d
      <3>2. 8 + d \in 16 .. 128 /\ (8 + d) % 8 = 0
        BY <3>1
      <3> QED BY <1>1, <3>2, Zenon DEF DeltaExpected, d
    <2>5. FlagsExpected(p, "alignment") = Returns \cup {"stack adjust", "flags write"}
      BY <1>1, Zenon DEF FlagsExpected, Returns, Pops, Pivots
    <2> QED BY <1>4, <2>1, <2>2, <2>3, <2>4, <2>5, Zenon DEF FactsExpected
  <1>7. SuffixLength(p) = 5
    BY <1>1, Zenon DEF SuffixLength
  <1>8. s.class \in Classes \cup {"unknown"}
    BY <1>4, Zenon DEF Classes
  <1> QED BY <1>1, <1>2, <1>4, <1>5, <1>6, <1>7, <1>8, Zenon DEF Consistent

LEMMA ConsistentPopArgument ==
    ASSUME NEW c, NEW g, NEW p, p = Pattern("pop", <<g>>), NEW s, s = Classified(c, p),
           g \in ArgumentRegisters
    PROVE  /\ Consistent(c, p, s)
           /\ SuffixLength(p) = IF Extended(g) THEN 3 ELSE 2
           /\ s.controlled = {g} /\ s.clobbered = {} /\ s.delta = 16
  <1>1. p.kind = "pop" /\ p.regs = <<g>>
    BY Zenon DEF Pattern
  <1>2. /\ p.kind = "pop" /\ Len(p.regs) = 1 /\ p.regs[1] = g
        /\ {p.regs[i] : i \in DOMAIN p.regs} = {g}
    <2>1. p.regs = <<g>>
      BY <1>1, Zenon
    <2>2. Len(p.regs) = 1 /\ p.regs[1] = g /\ DOMAIN p.regs = {1}
      BY <2>1
    <2>3. {p.regs[i] : i \in DOMAIN p.regs} = {g}
      BY <2>2
    <2> QED BY <1>1, <2>2, <2>3, Zenon
  <1>3. OrderSound(p)
    BY <1>2, Zenon DEF OrderSound
  <1>4. s = Facts("arg control", {g}, {}, 16, Pops)
    BY <1>2, Apart, Zenon DEF Classified, ClassifiedPop
  <1>5. /\ s.class = "arg control" /\ s.controlled = {g} /\ s.clobbered = {}
        /\ s.delta = 16 /\ s.flags = Pops
    <2> DEFINE class == "arg control"
               controlled == {g}
               clobbered == {}
               delta == 16
               flags == Pops
    <2>1. s = Facts(class, controlled, clobbered, delta, flags)
      BY <1>4, Zenon
    <2> HIDE DEF class, controlled, clobbered, delta, flags
    <2>2. s.class = class /\ s.controlled = controlled /\ s.clobbered = clobbered /\ s.delta = delta /\ s.flags = flags
      BY <2>1 DEF Facts
    <2> QED BY <2>2, Zenon DEF class, controlled, clobbered, delta, flags
  <1>6. ClassifierAccepts(c, p) /\ MemoryAccepts(p, s)
    BY <1>2, Apart, <1>3, <1>5, Zenon DEF ClassifierAccepts, MemoryAccepts
  <1>7. FactsExpected(p, s)
    <2>1. ClassExpected(p) = "arg control"
      BY <1>2, Apart, Zenon DEF ClassExpected
    <2>2. ControlledExpected(p, "arg control") = {g}
      BY <1>2, Apart, Zenon DEF ControlledExpected
    <2>3. ClobberedExpected(p) = {}
      BY <1>2, Apart, Zenon DEF ClobberedExpected
    <2>4. DeltaExpected(p, "arg control", 16)
      BY <1>1, Zenon DEF DeltaExpected
    <2>5. FlagsExpected(p, "arg control") = Pops
      BY <1>1, Zenon DEF FlagsExpected, Returns, Pops, Pivots
    <2> QED BY <1>5, <2>1, <2>2, <2>3, <2>4, <2>5, Zenon DEF FactsExpected
  <1>8. SuffixLength(p) = IF Extended(g) THEN 3 ELSE 2
    BY <1>1, PopSuffix
  <1>9. s.class \in Classes \cup {"unknown"}
    BY <1>5, Zenon DEF Classes
  <1> QED BY <1>1, <1>3, <1>5, <1>6, <1>7, <1>8, <1>9, Zenon DEF Consistent

LEMMA ConsistentPopNumber ==
    ASSUME NEW c, NEW g, NEW p, p = Pattern("pop", <<g>>), NEW s, s = Classified(c, p),
           g = "rax"
    PROVE  /\ Consistent(c, p, s)
           /\ SuffixLength(p) = IF Extended(g) THEN 3 ELSE 2
           /\ s.controlled = {g} /\ s.clobbered = {} /\ s.delta = 16
  <1>1. p.kind = "pop" /\ p.regs = <<g>>
    BY Zenon DEF Pattern
  <1>2. /\ p.kind = "pop" /\ Len(p.regs) = 1 /\ p.regs[1] = g
        /\ {p.regs[i] : i \in DOMAIN p.regs} = {g}
    <2>1. p.regs = <<g>>
      BY <1>1, Zenon
    <2>2. Len(p.regs) = 1 /\ p.regs[1] = g /\ DOMAIN p.regs = {1}
      BY <2>1
    <2>3. {p.regs[i] : i \in DOMAIN p.regs} = {g}
      BY <2>2
    <2> QED BY <1>1, <2>2, <2>3, Zenon
  <1>3. OrderSound(p)
    BY <1>2, Zenon DEF OrderSound
  <1>4. s = Facts("syscall number", {g}, {}, 16, Pops)
    BY <1>2, Apart, Zenon DEF Classified, ClassifiedPop
  <1>5. /\ s.class = "syscall number" /\ s.controlled = {g} /\ s.clobbered = {}
        /\ s.delta = 16 /\ s.flags = Pops
    <2> DEFINE class == "syscall number"
               controlled == {g}
               clobbered == {}
               delta == 16
               flags == Pops
    <2>1. s = Facts(class, controlled, clobbered, delta, flags)
      BY <1>4, Zenon
    <2> HIDE DEF class, controlled, clobbered, delta, flags
    <2>2. s.class = class /\ s.controlled = controlled /\ s.clobbered = clobbered /\ s.delta = delta /\ s.flags = flags
      BY <2>1 DEF Facts
    <2> QED BY <2>2, Zenon DEF class, controlled, clobbered, delta, flags
  <1>6. ClassifierAccepts(c, p) /\ MemoryAccepts(p, s)
    BY <1>2, Apart, <1>3, <1>5, Zenon DEF ClassifierAccepts, MemoryAccepts
  <1>7. FactsExpected(p, s)
    <2>1. ClassExpected(p) = "syscall number"
      BY <1>2, Apart, Zenon DEF ClassExpected
    <2>2. ControlledExpected(p, "syscall number") = {g}
      BY <1>2, Apart, Zenon DEF ControlledExpected
    <2>3. ClobberedExpected(p) = {}
      BY <1>2, Apart, Zenon DEF ClobberedExpected
    <2>4. DeltaExpected(p, "syscall number", 16)
      BY <1>1, Zenon DEF DeltaExpected
    <2>5. FlagsExpected(p, "syscall number") = Pops
      BY <1>1, Zenon DEF FlagsExpected, Returns, Pops, Pivots
    <2> QED BY <1>5, <2>1, <2>2, <2>3, <2>4, <2>5, Zenon DEF FactsExpected
  <1>8. SuffixLength(p) = IF Extended(g) THEN 3 ELSE 2
    BY <1>1, PopSuffix
  <1>9. s.class \in Classes \cup {"unknown"}
    BY <1>5, Zenon DEF Classes
  <1> QED BY <1>1, <1>3, <1>5, <1>6, <1>7, <1>8, <1>9, Zenon DEF Consistent

LEMMA ConsistentPopStack ==
    ASSUME NEW c, NEW g, NEW p, p = Pattern("pop", <<g>>), NEW s, s = Classified(c, p),
           g = "rsp"
    PROVE  /\ Consistent(c, p, s)
           /\ SuffixLength(p) = IF Extended(g) THEN 3 ELSE 2
           /\ s.controlled = {g} /\ s.clobbered = {} /\ s.delta = 0
  <1>1. p.kind = "pop" /\ p.regs = <<g>>
    BY Zenon DEF Pattern
  <1>2. /\ p.kind = "pop" /\ Len(p.regs) = 1 /\ p.regs[1] = g
        /\ {p.regs[i] : i \in DOMAIN p.regs} = {g}
    <2>1. p.regs = <<g>>
      BY <1>1, Zenon
    <2>2. Len(p.regs) = 1 /\ p.regs[1] = g /\ DOMAIN p.regs = {1}
      BY <2>1
    <2>3. {p.regs[i] : i \in DOMAIN p.regs} = {g}
      BY <2>2
    <2> QED BY <1>1, <2>2, <2>3, Zenon
  <1>3. OrderSound(p)
    BY <1>2, Zenon DEF OrderSound
  <1>4. s = Facts("stack pivot", {g}, {}, 0, Pivots)
    BY <1>2, Apart, Zenon DEF Classified, ClassifiedPop
  <1>5. /\ s.class = "stack pivot" /\ s.controlled = {g} /\ s.clobbered = {}
        /\ s.delta = 0 /\ s.flags = Pivots
    <2> DEFINE class == "stack pivot"
               controlled == {g}
               clobbered == {}
               delta == 0
               flags == Pivots
    <2>1. s = Facts(class, controlled, clobbered, delta, flags)
      BY <1>4, Zenon
    <2> HIDE DEF class, controlled, clobbered, delta, flags
    <2>2. s.class = class /\ s.controlled = controlled /\ s.clobbered = clobbered /\ s.delta = delta /\ s.flags = flags
      BY <2>1 DEF Facts
    <2> QED BY <2>2, Zenon DEF class, controlled, clobbered, delta, flags
  <1>6. ClassifierAccepts(c, p) /\ MemoryAccepts(p, s)
    BY <1>2, Apart, <1>3, <1>5, Zenon DEF ClassifierAccepts, MemoryAccepts
  <1>7. FactsExpected(p, s)
    <2>1. ClassExpected(p) = "stack pivot"
      BY <1>2, Apart, Zenon DEF ClassExpected
    <2>2. ControlledExpected(p, "stack pivot") = {g}
      BY <1>2, Apart, Zenon DEF ControlledExpected
    <2>3. ClobberedExpected(p) = {}
      BY <1>2, Apart, Zenon DEF ClobberedExpected
    <2>4. DeltaExpected(p, "stack pivot", 0)
      BY <1>1, Zenon DEF DeltaExpected
    <2>5. FlagsExpected(p, "stack pivot") = Pivots
      BY <1>1, Zenon DEF FlagsExpected, Returns, Pops, Pivots
    <2> QED BY <1>5, <2>1, <2>2, <2>3, <2>4, <2>5, Zenon DEF FactsExpected
  <1>8. SuffixLength(p) = IF Extended(g) THEN 3 ELSE 2
    BY <1>1, PopSuffix
  <1>9. s.class \in Classes \cup {"unknown"}
    BY <1>5, Zenon DEF Classes
  <1> QED BY <1>1, <1>3, <1>5, <1>6, <1>7, <1>8, <1>9, Zenon DEF Consistent

LEMMA ConsistentPopOther ==
    ASSUME NEW c, NEW g, NEW p, p = Pattern("pop", <<g>>), NEW s, s = Classified(c, p),
           g \notin ArgumentRegisters \cup {"rax", "rsp"}
    PROVE  /\ Consistent(c, p, s)
           /\ SuffixLength(p) = IF Extended(g) THEN 3 ELSE 2
           /\ s.controlled = {} /\ s.clobbered = {} /\ s.delta = 16 /\ s.class = "unknown"
  <1>1. p.kind = "pop" /\ p.regs = <<g>>
    BY Zenon DEF Pattern
  <1>2. /\ p.kind = "pop" /\ Len(p.regs) = 1 /\ p.regs[1] = g
        /\ {p.regs[i] : i \in DOMAIN p.regs} = {g}
    <2>1. p.regs = <<g>>
      BY <1>1, Zenon
    <2>2. Len(p.regs) = 1 /\ p.regs[1] = g /\ DOMAIN p.regs = {1}
      BY <2>1
    <2>3. {p.regs[i] : i \in DOMAIN p.regs} = {g}
      BY <2>2
    <2> QED BY <1>1, <2>2, <2>3, Zenon
  <1>3. OrderSound(p)
    BY <1>2, Zenon DEF OrderSound
  <1>4. s = Facts("unknown", {}, {}, 16, Pops)
    BY <1>2, Apart, Zenon DEF Classified, ClassifiedPop
  <1>5. /\ s.class = "unknown" /\ s.controlled = {} /\ s.clobbered = {}
        /\ s.delta = 16 /\ s.flags = Pops
    <2> DEFINE class == "unknown"
               controlled == {}
               clobbered == {}
               delta == 16
               flags == Pops
    <2>1. s = Facts(class, controlled, clobbered, delta, flags)
      BY <1>4, Zenon
    <2> HIDE DEF class, controlled, clobbered, delta, flags
    <2>2. s.class = class /\ s.controlled = controlled /\ s.clobbered = clobbered /\ s.delta = delta /\ s.flags = flags
      BY <2>1 DEF Facts
    <2> QED BY <2>2, Zenon DEF class, controlled, clobbered, delta, flags
  <1>6. ClassifierAccepts(c, p) /\ MemoryAccepts(p, s)
    BY <1>2, Apart, <1>3, <1>5, Zenon DEF ClassifierAccepts, MemoryAccepts
  <1>7. FactsExpected(p, s)
    <2>1. ClassExpected(p) = "unknown"
      BY <1>2, Apart, Zenon DEF ClassExpected
    <2>2. ControlledExpected(p, "unknown") = {}
      BY <1>2, Apart, Zenon DEF ControlledExpected
    <2>3. ClobberedExpected(p) = {}
      BY <1>2, Apart, Zenon DEF ClobberedExpected
    <2>4. DeltaExpected(p, "unknown", 16)
      BY <1>1, Zenon DEF DeltaExpected
    <2>5. FlagsExpected(p, "unknown") = Pops
      BY <1>1, Zenon DEF FlagsExpected, Returns, Pops, Pivots
    <2> QED BY <1>5, <2>1, <2>2, <2>3, <2>4, <2>5, Zenon DEF FactsExpected
  <1>8. SuffixLength(p) = IF Extended(g) THEN 3 ELSE 2
    BY <1>1, PopSuffix
  <1>9. s.class \in Classes \cup {"unknown"}
    BY <1>5, Zenon DEF Classes
  <1> QED BY <1>1, <1>3, <1>5, <1>6, <1>7, <1>8, <1>9, Zenon DEF Consistent

LEMMA ConsistentTwo ==
    ASSUME NEW c, NEW g, NEW h, NEW p, IsTwoPops(p, g, h), NEW s, s = Classified(c, p),
           g \in ArgumentRegisters, h \in ArgumentRegisters, g # h
    PROVE  /\ Consistent(c, p, s)
           /\ SuffixLength(p) = (IF Extended(g) THEN 2 ELSE 1) + (IF Extended(h) THEN 3 ELSE 2)
           /\ s.controlled = {g, h} /\ s.clobbered = {} /\ s.delta = 24
  <1>1. p.kind = "two pops" /\ p.regs = <<g, h>>
    BY Zenon DEF Pattern, IsTwoPops
  <1>2. /\ p.kind = "two pops" /\ Len(p.regs) = 2 /\ p.regs[1] = g /\ p.regs[2] = h
        /\ {p.regs[i] : i \in DOMAIN p.regs} = {g, h}
    <2>1. p.regs = <<g, h>>
      BY <1>1, Zenon
    <2>2. Len(p.regs) = 2 /\ p.regs[1] = g /\ p.regs[2] = h /\ DOMAIN p.regs = {1, 2}
      BY <2>1
    <2>3. {p.regs[i] : i \in DOMAIN p.regs} = {g, h}
      BY <2>2
    <2> QED BY <1>1, <2>2, <2>3, Zenon
  <1>3. OrderSound(p)
    BY <1>2, Zenon DEF OrderSound
  <1>4. s = Facts("arg control", {g, h}, {}, 24, Pops)
    BY <1>2, Zenon DEF Classified
  <1>5. /\ s.class = "arg control" /\ s.controlled = {g, h} /\ s.clobbered = {}
        /\ s.delta = 24 /\ s.flags = Pops
    <2> DEFINE class == "arg control"
               controlled == {g, h}
               clobbered == {}
               delta == 24
               flags == Pops
    <2>1. s = Facts(class, controlled, clobbered, delta, flags)
      BY <1>4, Zenon
    <2> HIDE DEF class, controlled, clobbered, delta, flags
    <2>2. s.class = class /\ s.controlled = controlled /\ s.clobbered = clobbered /\ s.delta = delta /\ s.flags = flags
      BY <2>1 DEF Facts
    <2> QED BY <2>2, Zenon DEF class, controlled, clobbered, delta, flags
  <1>6. ClassifierAccepts(c, p) /\ MemoryAccepts(p, s)
    BY <1>2, <1>3, <1>5, Zenon DEF ClassifierAccepts, MemoryAccepts
  <1>7. FactsExpected(p, s)
    <2>1. ClassExpected(p) = "arg control"
      BY <1>2, Zenon DEF ClassExpected
    <2>2. ControlledExpected(p, "arg control") = {g, h}
      BY <1>2, Zenon DEF ControlledExpected
    <2>3. ClobberedExpected(p) = {}
      BY <1>2, Zenon DEF ClobberedExpected
    <2>4. DeltaExpected(p, "arg control", 24)
      BY <1>1, Zenon DEF DeltaExpected
    <2>5. FlagsExpected(p, "arg control") = Pops
      BY <1>1, Zenon DEF FlagsExpected, Returns, Pops, Pivots
    <2> QED BY <1>5, <2>1, <2>2, <2>3, <2>4, <2>5, Zenon DEF FactsExpected
  <1>8. SuffixLength(p) = (IF Extended(g) THEN 2 ELSE 1) + (IF Extended(h) THEN 3 ELSE 2)
    BY TwoSuffix
  <1>9. s.class \in Classes \cup {"unknown"}
    BY <1>5, Zenon DEF Classes
  <1> QED BY <1>1, <1>3, <1>5, <1>6, <1>7, <1>8, <1>9, Zenon DEF Consistent

LEMMA ConsistentTransfer ==
    ASSUME NEW c, NEW g, NEW h, NEW p, p = Pattern("transfer", <<g, h>>), NEW s, s = Classified(c, p),
           g # "rsp", h # "rsp", g # h
    PROVE  /\ Consistent(c, p, s)
           /\ SuffixLength(p) = 4
           /\ s.controlled = {} /\ s.clobbered = {g} /\ s.delta = 8
  <1>1. p.kind = "transfer" /\ p.regs = <<g, h>>
    BY Zenon DEF Pattern
  <1>2. /\ p.kind = "transfer" /\ Len(p.regs) = 2 /\ p.regs[1] = g /\ p.regs[2] = h
        /\ {p.regs[i] : i \in DOMAIN p.regs} = {g, h}
    <2>1. p.regs = <<g, h>>
      BY <1>1, Zenon
    <2>2. Len(p.regs) = 2 /\ p.regs[1] = g /\ p.regs[2] = h /\ DOMAIN p.regs = {1, 2}
      BY <2>1
    <2>3. {p.regs[i] : i \in DOMAIN p.regs} = {g, h}
      BY <2>2
    <2> QED BY <1>1, <2>2, <2>3, Zenon
  <1>3. OrderSound(p)
    BY <1>2, Zenon DEF OrderSound
  <1>4. s = Facts("transfer", {}, {g}, 8, Pops)
    BY <1>2, Zenon DEF Classified
  <1>5. /\ s.class = "transfer" /\ s.controlled = {} /\ s.clobbered = {g}
        /\ s.delta = 8 /\ s.flags = Pops
    <2> DEFINE class == "transfer"
               controlled == {}
               clobbered == {g}
               delta == 8
               flags == Pops
    <2>1. s = Facts(class, controlled, clobbered, delta, flags)
      BY <1>4, Zenon
    <2> HIDE DEF class, controlled, clobbered, delta, flags
    <2>2. s.class = class /\ s.controlled = controlled /\ s.clobbered = clobbered /\ s.delta = delta /\ s.flags = flags
      BY <2>1 DEF Facts
    <2> QED BY <2>2, Zenon DEF class, controlled, clobbered, delta, flags
  <1>6. ClassifierAccepts(c, p) /\ MemoryAccepts(p, s)
    BY <1>2, <1>3, <1>5, Zenon DEF ClassifierAccepts, MemoryAccepts
  <1>7. FactsExpected(p, s)
    <2>1. ClassExpected(p) = "transfer"
      BY <1>2, Zenon DEF ClassExpected
    <2>2. ControlledExpected(p, "transfer") = {}
      BY <1>2, Zenon DEF ControlledExpected
    <2>3. ClobberedExpected(p) = {g}
      BY <1>2, Zenon DEF ClobberedExpected
    <2>4. DeltaExpected(p, "transfer", 8)
      BY <1>1, Zenon DEF DeltaExpected
    <2>5. FlagsExpected(p, "transfer") = Pops
      BY <1>1, Zenon DEF FlagsExpected, Returns, Pops, Pivots
    <2> QED BY <1>5, <2>1, <2>2, <2>3, <2>4, <2>5, Zenon DEF FactsExpected
  <1>8. SuffixLength(p) = 4
    BY <1>1, Zenon DEF SuffixLength
  <1>9. s.class \in Classes \cup {"unknown"}
    BY <1>5, Zenon DEF Classes
  <1> QED BY <1>1, <1>3, <1>5, <1>6, <1>7, <1>8, <1>9, Zenon DEF Consistent

LEMMA ConsistentStore ==
    ASSUME NEW c, NEW g, NEW h, NEW p, p = Pattern("store", <<g, h>>), NEW s, s = Classified(c, p),
           g \notin {"rsp", "rbp", "r12", "r13"}, h # "rsp"
    PROVE  /\ Consistent(c, p, s)
           /\ SuffixLength(p) = 4
           /\ s.controlled = {} /\ s.clobbered = {} /\ s.delta = 8
  <1>1. p.kind = "store" /\ p.regs = <<g, h>>
    BY Zenon DEF Pattern
  <1>2. /\ p.kind = "store" /\ Len(p.regs) = 2 /\ p.regs[1] = g /\ p.regs[2] = h
        /\ {p.regs[i] : i \in DOMAIN p.regs} = {g, h}
    <2>1. p.regs = <<g, h>>
      BY <1>1, Zenon
    <2>2. Len(p.regs) = 2 /\ p.regs[1] = g /\ p.regs[2] = h /\ DOMAIN p.regs = {1, 2}
      BY <2>1
    <2>3. {p.regs[i] : i \in DOMAIN p.regs} = {g, h}
      BY <2>2
    <2> QED BY <1>1, <2>2, <2>3, Zenon
  <1>3. OrderSound(p)
    BY <1>2, Zenon DEF OrderSound
  <1>4. s = Facts("memory write", {}, {}, 8, Returns \cup {"memory write"})
    BY <1>2, Zenon DEF Classified
  <1>5. /\ s.class = "memory write" /\ s.controlled = {} /\ s.clobbered = {}
        /\ s.delta = 8 /\ s.flags = Returns \cup {"memory write"}
    <2> DEFINE class == "memory write"
               controlled == {}
               clobbered == {}
               delta == 8
               flags == Returns \cup {"memory write"}
    <2>1. s = Facts(class, controlled, clobbered, delta, flags)
      BY <1>4, Zenon
    <2> HIDE DEF class, controlled, clobbered, delta, flags
    <2>2. s.class = class /\ s.controlled = controlled /\ s.clobbered = clobbered /\ s.delta = delta /\ s.flags = flags
      BY <2>1 DEF Facts
    <2> QED BY <2>2, Zenon DEF class, controlled, clobbered, delta, flags
  <1>6. ClassifierAccepts(c, p) /\ MemoryAccepts(p, s)
    BY <1>2, <1>3, <1>4, Zenon DEF ClassifierAccepts, MemoryAccepts
  <1>7. FactsExpected(p, s)
    <2>1. ClassExpected(p) = "memory write"
      BY <1>2, Zenon DEF ClassExpected
    <2>2. ControlledExpected(p, "memory write") = {}
      BY <1>2, Zenon DEF ControlledExpected
    <2>3. ClobberedExpected(p) = {}
      BY <1>2, Zenon DEF ClobberedExpected
    <2>4. DeltaExpected(p, "memory write", 8)
      BY <1>1, Zenon DEF DeltaExpected
    <2>5. FlagsExpected(p, "memory write") = Returns \cup {"memory write"}
      BY <1>1, Zenon DEF FlagsExpected, Returns, Pops, Pivots
    <2> QED BY <1>5, <2>1, <2>2, <2>3, <2>4, <2>5, Zenon DEF FactsExpected
  <1>8. SuffixLength(p) = 4
    BY <1>1, Zenon DEF SuffixLength
  <1>9. s.class \in Classes \cup {"unknown"}
    BY <1>5, Zenon DEF Classes
  <1> QED BY <1>1, <1>3, <1>5, <1>6, <1>7, <1>8, <1>9, Zenon DEF Consistent

LEMMA ConsistentLoad ==
    ASSUME NEW c, NEW g, NEW h, NEW p, p = Pattern("load", <<g, h>>), NEW s, s = Classified(c, p),
           g \notin {"rsp", "rbp", "r12", "r13"}, h # "rsp"
    PROVE  /\ Consistent(c, p, s)
           /\ SuffixLength(p) = 4
           /\ s.controlled = {} /\ s.clobbered = {h} /\ s.delta = 8
  <1>1. p.kind = "load" /\ p.regs = <<g, h>>
    BY Zenon DEF Pattern
  <1>2. /\ p.kind = "load" /\ Len(p.regs) = 2 /\ p.regs[1] = g /\ p.regs[2] = h
        /\ {p.regs[i] : i \in DOMAIN p.regs} = {g, h}
    <2>1. p.regs = <<g, h>>
      BY <1>1, Zenon
    <2>2. Len(p.regs) = 2 /\ p.regs[1] = g /\ p.regs[2] = h /\ DOMAIN p.regs = {1, 2}
      BY <2>1
    <2>3. {p.regs[i] : i \in DOMAIN p.regs} = {g, h}
      BY <2>2
    <2> QED BY <1>1, <2>2, <2>3, Zenon
  <1>3. OrderSound(p)
    BY <1>2, Zenon DEF OrderSound
  <1>4. s = Facts("memory read", {}, {h}, 8, Pops \cup {"memory read"})
    BY <1>2, Zenon DEF Classified
  <1>5. /\ s.class = "memory read" /\ s.controlled = {} /\ s.clobbered = {h}
        /\ s.delta = 8 /\ s.flags = Pops \cup {"memory read"}
    <2> DEFINE class == "memory read"
               controlled == {}
               clobbered == {h}
               delta == 8
               flags == Pops \cup {"memory read"}
    <2>1. s = Facts(class, controlled, clobbered, delta, flags)
      BY <1>4, Zenon
    <2> HIDE DEF class, controlled, clobbered, delta, flags
    <2>2. s.class = class /\ s.controlled = controlled /\ s.clobbered = clobbered /\ s.delta = delta /\ s.flags = flags
      BY <2>1 DEF Facts
    <2> QED BY <2>2, Zenon DEF class, controlled, clobbered, delta, flags
  <1>6. ClassifierAccepts(c, p) /\ MemoryAccepts(p, s)
    BY <1>2, <1>3, <1>4, Zenon DEF ClassifierAccepts, MemoryAccepts
  <1>7. FactsExpected(p, s)
    <2>1. ClassExpected(p) = "memory read"
      BY <1>2, Zenon DEF ClassExpected
    <2>2. ControlledExpected(p, "memory read") = {}
      BY <1>2, Zenon DEF ControlledExpected
    <2>3. ClobberedExpected(p) = {h}
      BY <1>2, Zenon DEF ClobberedExpected
    <2>4. DeltaExpected(p, "memory read", 8)
      BY <1>1, Zenon DEF DeltaExpected
    <2>5. FlagsExpected(p, "memory read") = Pops \cup {"memory read"}
      BY <1>1, Zenon DEF FlagsExpected, Returns, Pops, Pivots
    <2> QED BY <1>5, <2>1, <2>2, <2>3, <2>4, <2>5, Zenon DEF FactsExpected
  <1>8. SuffixLength(p) = 4
    BY <1>1, Zenon DEF SuffixLength
  <1>9. s.class \in Classes \cup {"unknown"}
    BY <1>5, Zenon DEF Classes
  <1> QED BY <1>1, <1>3, <1>5, <1>6, <1>7, <1>8, <1>9, Zenon DEF Consistent

LEMMA PlainParts ==
    /\ PlainReturn.complete = TRUE /\ PlainReturn.base = "rsp" /\ PlainReturn.offsetsKnown = TRUE
    /\ PlainReturn.stackReads = 1 /\ PlainReturn.first = 0 /\ PlainReturn.stride = 0
  BY DEF PlainReturn

LEMMA PopParts ==
    /\ PopReturn.complete = TRUE /\ PopReturn.base = "rsp" /\ PopReturn.offsetsKnown = TRUE
    /\ PopReturn.stackReads = 2 /\ PopReturn.first = 0 /\ PopReturn.stride = 8
  BY DEF PopReturn, PlainReturn

\* Nothing that touches memory but the stack.
LEMMA MemoryAbsent ==
    ASSUME NEW c, ~Doing(c, "write"), ~Doing(c, "read")
    PROVE  MemoryOfTheReading(c, NoAccess)
  BY Zenon DEF MemoryOfTheReading

\* A row of each family says what its reading does.
LEMMA DescribedNone ==
    ASSUME NEW c, Body[Reading(c)] = <<>>, NEW n \in Nat, n = IF c.terminator = RET THEN 0 ELSE Immediate(c),
           NEW s, s.controlled = {}, s.clobbered = {}, s.delta = 8 + n,
           NEW x, x = Effect({"rsp"}, {"rsp"}, PlainReturn)
    PROVE  Described(c, Meaning(c), s, x, NoAccess)
  <1> DEFINE m == Meaning(c)
  <1>1. m = Mach("rsp", 8 + n, <<<<"rsp", 0>>>>, {"rsp"}, {"rsp"})
    BY MeaningNone
  <1> HIDE DEF m
  <1>2. m.base = "rsp" /\ m.offset = 8 + n /\ m.slots = <<<<"rsp", 0>>>> /\ m.read = {"rsp"} /\ m.written = {"rsp"}
    BY <1>1 DEF Mach
  <1>3. x.read = {"rsp"} /\ x.written = {"rsp"} /\ x.descriptor = PlainReturn
    BY DEF Effect
  <1>4. ~Doing(c, "syscall") /\ ~Doing(c, "write") /\ ~Doing(c, "read")
    BY DoingNone
  <1>5. StackOfTheReading(m, s, x.descriptor)
    <2> DEFINE d == x.descriptor
    <2>1. /\ m.slots = <<<<d.base, d.first>>>> /\ d.first \in Int
          /\ d.stackReads = 1 /\ d.offsetsKnown = TRUE /\ d.stride = 0
      BY <1>2, <1>3, PlainParts
    <2>2. s.delta = IF m.base = "rsp" THEN m.offset ELSE 0
      BY <1>2
    <2> HIDE DEF d
    <2>3. StackOfTheReading(m, s, d)
      BY <2>1, <2>2, OneSlot
    <2> QED BY <2>3 DEF d
  <1>6. RegistersOfTheReading(c, m, s, x)
    BY <1>2, <1>3, <1>4 DEF RegistersOfTheReading
  <1>7. x.descriptor.complete = (x.descriptor.offsetsKnown /\ ~Doing(c, "syscall"))
    BY <1>3, <1>4, PlainParts, Zenon
  <1> QED BY <1>4, <1>5, <1>6, <1>7, MemoryAbsent, Zenon DEF Described, m

LEMMA DescribedLeave ==
    ASSUME NEW c, c.terminator = RET, Body[Reading(c)] = LeaveBody,
           NEW s, s.controlled = {"rsp"}, s.clobbered = {"rbp"}, s.delta = 0,
           NEW x, x = Effect({"rbp"}, {"rbp", "rsp"}, [PopReturn EXCEPT !.base = "rbp"])
    PROVE  Described(c, Meaning(c), s, x, NoAccess)
  <1> DEFINE m == Meaning(c)
  <1>1. m = Mach("rbp", 16, <<<<"rbp", 0>>, <<"rbp", 8>>>>, {"rbp"}, {"rsp", "rbp"})
    BY MeaningLeave
  <1> HIDE DEF m
  <1>2. /\ m.base = "rbp" /\ m.slots = <<<<"rbp", 0>>, <<"rbp", 8>>>>
        /\ m.read = {"rbp"} /\ m.written = {"rsp", "rbp"}
    BY <1>1 DEF Mach
  <1>3. x.read = {"rbp"} /\ x.written = {"rsp", "rbp"} /\ x.descriptor = [PopReturn EXCEPT !.base = "rbp"]
    BY DEF Effect
  <1> DEFINE d == x.descriptor
  <1>4. /\ d.complete = TRUE /\ d.base = "rbp" /\ d.offsetsKnown = TRUE
        /\ d.stackReads = 2 /\ d.first = 0 /\ d.stride = 8
    BY <1>3 DEF PopReturn, PlainReturn
  <1> HIDE DEF d
  <1>5. ~Doing(c, "syscall") /\ ~Doing(c, "write") /\ ~Doing(c, "read")
    BY DoingOne DEF LeaveBody
  <1>6. StackOfTheReading(m, s, d)
    BY <1>2, <1>4, TwoSlots
  <1>7. RegistersOfTheReading(c, m, s, x)
    BY <1>2, <1>3, <1>5 DEF RegistersOfTheReading
  <1>8. d.complete = (d.offsetsKnown /\ ~Doing(c, "syscall"))
    BY <1>4, <1>5, Zenon
  <1> QED BY <1>5, <1>6, <1>7, <1>8, MemoryAbsent, Zenon DEF Described, m, d

LEMMA DescribedSyscall ==
    ASSUME NEW c, c.terminator = RET, Body[Reading(c)] = SyscallBody,
           NEW s, s.controlled = {}, s.clobbered = {"rcx", "r11"}, s.delta = 8,
           NEW x, x = Effect(SyscallReads, {"rax", "rcx", "r11", "rsp"},
                             [PlainReturn EXCEPT !.complete = FALSE, !.flagsRead = {"syscall"},
                                                 !.control = {"return", "syscall"}])
    PROVE  Described(c, Meaning(c), s, x, NoAccess)
  <1> DEFINE m == Meaning(c)
  <1>1. m = Mach("rsp", 8, <<<<"rsp", 0>>>>, SyscallReads, {"rax", "rcx", "r11", "rsp"})
    BY MeaningSyscall
  <1> HIDE DEF m
  <1>2. /\ m.base = "rsp" /\ m.offset = 8 /\ m.slots = <<<<"rsp", 0>>>>
        /\ m.read = SyscallReads /\ m.written = {"rax", "rcx", "r11", "rsp"}
    BY <1>1 DEF Mach
  <1> DEFINE d == x.descriptor
  <1>3. /\ x.read = SyscallReads /\ x.written = {"rax", "rcx", "r11", "rsp"}
        /\ d = [PlainReturn EXCEPT !.complete = FALSE, !.flagsRead = {"syscall"}, !.control = {"return", "syscall"}]
    BY DEF Effect
  <1>4. /\ d.complete = FALSE /\ d.base = "rsp" /\ d.offsetsKnown = TRUE
        /\ d.stackReads = 1 /\ d.first = 0 /\ d.stride = 0
    BY <1>3 DEF PlainReturn
  <1> HIDE DEF d
  <1>5. Doing(c, "syscall") /\ ~Doing(c, "write") /\ ~Doing(c, "read")
    BY DoingOne DEF SyscallBody
  <1>6. StackOfTheReading(m, s, d)
    <2>1. m.slots = <<<<d.base, d.first>>>> /\ d.first \in Int
      BY <1>2, <1>4
    <2>2. s.delta = IF m.base = "rsp" THEN m.offset ELSE 0
      BY <1>2
    <2> QED BY <1>4, <2>1, <2>2, OneSlot
  <1>7. RegistersOfTheReading(c, m, s, x)
    BY <1>2, <1>3, <1>5 DEF RegistersOfTheReading
  <1>8. d.complete = (d.offsetsKnown /\ ~Doing(c, "syscall"))
    BY <1>4, <1>5, Zenon
  <1> QED BY <1>5, <1>6, <1>7, <1>8, MemoryAbsent, Zenon DEF Described, m, d

LEMMA DescribedAdjust ==
    ASSUME NEW c, c.terminator = RET, NEW n \in Nat, Body[Reading(c)] = AdjustBody(n),
           NEW s, s.controlled = {}, s.clobbered = {}, s.delta = 8 + n,
           NEW x, x = Effect({"rsp"}, {"rsp"},
                             [PlainReturn EXCEPT !.first = WordDifference(8 + n, 8), !.flagsWritten = {"arithmetic"}])
    PROVE  Described(c, Meaning(c), s, x, NoAccess)
  <1> DEFINE m == Meaning(c)
  <1>1. m = Mach("rsp", n + 8, <<<<"rsp", n>>>>, {"rsp"}, {"rsp"})
    BY MeaningAdjust
  <1> HIDE DEF m
  <1>2. /\ m.base = "rsp" /\ m.offset = n + 8 /\ m.slots = <<<<"rsp", n>>>>
        /\ m.read = {"rsp"} /\ m.written = {"rsp"}
    BY <1>1 DEF Mach
  <1>3. WordDifference(8 + n, 8) = n /\ 8 + n = n + 8
    BY DEF WordDifference
  <1> DEFINE d == x.descriptor
  <1>4. /\ x.read = {"rsp"} /\ x.written = {"rsp"}
        /\ d = [PlainReturn EXCEPT !.first = n, !.flagsWritten = {"arithmetic"}]
    BY <1>3 DEF Effect
  <1>5. /\ d.complete = TRUE /\ d.base = "rsp" /\ d.offsetsKnown = TRUE
        /\ d.stackReads = 1 /\ d.first = n /\ d.stride = 0
    BY <1>4 DEF PlainReturn
  <1> HIDE DEF d
  <1>6. ~Doing(c, "syscall") /\ ~Doing(c, "write") /\ ~Doing(c, "read")
    BY DoingOne DEF AdjustBody
  <1>7. StackOfTheReading(m, s, d)
    <2>1. m.slots = <<<<d.base, d.first>>>> /\ d.first \in Int
      BY <1>2, <1>5
    <2>2. s.delta = IF m.base = "rsp" THEN m.offset ELSE 0
      BY <1>2, <1>3
    <2> QED BY <1>5, <2>1, <2>2, OneSlot
  <1>8. RegistersOfTheReading(c, m, s, x)
    BY <1>2, <1>4, <1>6 DEF RegistersOfTheReading
  <1>9. d.complete = (d.offsetsKnown /\ ~Doing(c, "syscall"))
    BY <1>5, <1>6, Zenon
  <1> QED BY <1>6, <1>7, <1>8, <1>9, MemoryAbsent, Zenon DEF Described, m, d

\* A pop of a register that is not the stack pointer; the class may be unknown.
LEMMA DescribedPop ==
    ASSUME NEW c, c.terminator = RET, NEW i \in 0 .. 15, i # 4, Body[Reading(c)] = PopBody(i),
           NEW s, s.controlled = {Reg(i)} \/ (s.class = "unknown" /\ s.controlled = {}),
           s.clobbered = {}, s.delta = 16,
           NEW x, x = Effect({"rsp"}, {"rsp", Reg(i)}, PopReturn)
    PROVE  Described(c, Meaning(c), s, x, NoAccess)
  <1> DEFINE m == Meaning(c)
             d == x.descriptor
             g == Reg(i)
  <1>1. m = Mach("rsp", 16, <<<<"rsp", 0>>, <<"rsp", 8>>>>, {"rsp"}, {"rsp", g})
    BY MeaningPop
  <1>2. g # "rsp"
    BY RegisterNumber
  <1>3. s.controlled = {g} \/ (s.class = "unknown" /\ s.controlled = {})
    OBVIOUS
  <1>4. x.read = {"rsp"} /\ x.written = {"rsp", g} /\ d = PopReturn
    BY DEF Effect
  <1> HIDE DEF m, g, d
  <1>5. /\ m.base = "rsp" /\ m.offset = 16 /\ m.slots = <<<<"rsp", 0>>, <<"rsp", 8>>>>
        /\ m.read = {"rsp"} /\ m.written = {"rsp", g}
    BY <1>1 DEF Mach
  <1>6. ~Doing(c, "syscall") /\ ~Doing(c, "write") /\ ~Doing(c, "read")
    BY DoingOne DEF PopBody
  <1>7. StackOfTheReading(m, s, d)
    <2>1. /\ d.stackReads = 2 /\ d.offsetsKnown = TRUE /\ d.first = 0 /\ d.stride = 8
          /\ m.slots = <<<<d.base, 0>>, <<d.base, 8>>>>
      BY <1>4, <1>5, PopParts
    <2>2. s.delta = IF m.base = "rsp" THEN m.offset ELSE 0
      BY <1>5
    <2> QED BY <2>1, <2>2, TwoSlots
  <1>8. RegistersOfTheReading(c, m, s, x)
    BY <1>2, <1>3, <1>4, <1>5, <1>6 DEF RegistersOfTheReading
  <1>9. d.complete = (d.offsetsKnown /\ ~Doing(c, "syscall"))
    BY <1>4, <1>6, PopParts, Zenon
  <1> QED BY <1>6, <1>7, <1>8, <1>9, MemoryAbsent, Zenon DEF Described, m, d

LEMMA DescribedPopStack ==
    ASSUME NEW c, c.terminator = RET, Body[Reading(c)] = PopBody(4),
           NEW s, s.controlled = {"rsp"}, s.clobbered = {}, s.delta = 0,
           NEW x, x = Effect({"rsp"}, {"rsp"}, [PlainReturn EXCEPT !.complete = FALSE, !.offsetsKnown = FALSE,
                                                               !.base = "dynamic", !.stackReads = 2])
    PROVE  Described(c, Meaning(c), s, x, NoAccess)
  <1> DEFINE m == Meaning(c)
             d == x.descriptor
  <1>1. m = Mach("memory", 8, <<<<"rsp", 0>>, <<"memory", 0>>>>, {"rsp"}, {"rsp"})
    <2> DEFINE four == 4
    <2>1. four \in 0 .. 15 /\ Body[Reading(c)] = PopBody(four) /\ four = 4
      OBVIOUS
    <2> HIDE DEF four
    <2>2. Meaning(c) = IF four = 4 THEN Mach("memory", 8, <<<<"rsp", 0>>, <<"memory", 0>>>>, {"rsp"}, {"rsp"})
                       ELSE Mach("rsp", 16, <<<<"rsp", 0>>, <<"rsp", 8>>>>, {"rsp"}, {"rsp", Reg(four)})
      BY <2>1, MeaningPop
    <2> QED BY <2>1, <2>2
  <1>2. /\ x.read = {"rsp"} /\ x.written = {"rsp"}
        /\ d = [PlainReturn EXCEPT !.complete = FALSE, !.offsetsKnown = FALSE, !.base = "dynamic", !.stackReads = 2]
    BY DEF Effect
  <1>3. /\ d.complete = FALSE /\ d.base = "dynamic" /\ d.offsetsKnown = FALSE /\ d.stackReads = 2
    BY <1>2 DEF PlainReturn
  <1> HIDE DEF m, d
  <1>4. /\ m.base = "memory" /\ m.slots = <<<<"rsp", 0>>, <<"memory", 0>>>>
        /\ m.read = {"rsp"} /\ m.written = {"rsp"}
    BY <1>1 DEF Mach
  <1>5. ~Doing(c, "syscall") /\ ~Doing(c, "write") /\ ~Doing(c, "read")
    BY DoingOne DEF PopBody
  <1>6. StackOfTheReading(m, s, d)
    BY <1>3, <1>4, MixedSlots
  <1>7. RegistersOfTheReading(c, m, s, x)
    BY <1>2, <1>4, <1>5 DEF RegistersOfTheReading
  <1>8. d.complete = (d.offsetsKnown /\ ~Doing(c, "syscall"))
    BY <1>3, <1>5, Zenon
  <1> QED BY <1>5, <1>6, <1>7, <1>8, MemoryAbsent, Zenon DEF Described, m, d

LEMMA DescribedTwo ==
    ASSUME NEW c, c.terminator = RET, NEW i \in ArgumentNumbers, NEW j \in ArgumentNumbers,
           Body[Reading(c)] = TwoPopBody(i, j),
           NEW s, s.controlled = {Reg(i), Reg(j)}, s.clobbered = {}, s.delta = 24,
           NEW x, x = Effect({"rsp"}, {Reg(i), Reg(j), "rsp"}, [PopReturn EXCEPT !.stackReads = 3])
    PROVE  Described(c, Meaning(c), s, x, NoAccess)
  <1> DEFINE m == Meaning(c)
             d == x.descriptor
             g == Reg(i)
             h == Reg(j)
  <1>1. m = Mach("rsp", 24, <<<<"rsp", 0>>, <<"rsp", 8>>, <<"rsp", 16>>>>, {"rsp"}, {"rsp", g, h})
    BY MeaningTwo
  <1>2. g # "rsp" /\ h # "rsp"
    BY RegisterNumber DEF ArgumentNumbers
  <1>3. s.controlled = {g, h}
    OBVIOUS
  <1>4. x.read = {"rsp"} /\ x.written = {g, h, "rsp"} /\ d = [PopReturn EXCEPT !.stackReads = 3]
    BY DEF Effect
  <1>5. /\ d.complete = TRUE /\ d.base = "rsp" /\ d.offsetsKnown = TRUE
        /\ d.stackReads = 3 /\ d.first = 0 /\ d.stride = 8
    BY <1>4 DEF PopReturn, PlainReturn
  <1> HIDE DEF m, g, h, d
  <1>6. /\ m.base = "rsp" /\ m.offset = 24 /\ m.slots = <<<<"rsp", 0>>, <<"rsp", 8>>, <<"rsp", 16>>>>
        /\ m.read = {"rsp"} /\ m.written = {"rsp", g, h}
    BY <1>1 DEF Mach
  <1>7. ~Doing(c, "syscall") /\ ~Doing(c, "write") /\ ~Doing(c, "read")
    BY DoingTwo DEF TwoPopBody
  <1>8. StackOfTheReading(m, s, d)
    <2>1. m.slots = <<<<d.base, 0>>, <<d.base, 8>>, <<d.base, 16>>>>
      BY <1>5, <1>6
    <2>2. s.delta = IF m.base = "rsp" THEN m.offset ELSE 0
      BY <1>6
    <2> QED BY <1>5, <2>1, <2>2, ThreeSlots
  <1>9. RegistersOfTheReading(c, m, s, x)
    BY <1>2, <1>3, <1>4, <1>6, <1>7 DEF RegistersOfTheReading
  <1>10. d.complete = (d.offsetsKnown /\ ~Doing(c, "syscall"))
    BY <1>5, <1>7, Zenon
  <1> QED BY <1>7, <1>8, <1>9, <1>10, MemoryAbsent, Zenon DEF Described, m, d

\* A move between registers, to memory or from memory.
LEMMA DescribedMove ==
    ASSUME NEW c, c.terminator = RET, NEW i \in 0 .. 15, NEW j \in 0 .. 15, i # 4, j # 4,
           NEW op \in {"move", "write", "read"}, Body[Reading(c)] = MoveBody(op, i, j),
           NEW s, s.controlled = {}, s.delta = 8,
           s.clobbered = IF op = "move" THEN {Reg(i)} ELSE IF op = "write" THEN {} ELSE {Reg(j)},
           NEW x, x = IF op = "move" THEN Effect({Reg(j), "rsp"}, {Reg(i), "rsp"}, PlainReturn)
                      ELSE IF op = "write" THEN Effect({Reg(i), Reg(j), "rsp"}, {"rsp"}, PlainReturn)
                      ELSE Effect({Reg(i), "rsp"}, {Reg(j), "rsp"}, PlainReturn),
           NEW a, a = IF op = "move" THEN NoAccess ELSE [direction |-> op, base |-> Reg(i), value |-> Reg(j)]
    PROVE  Described(c, Meaning(c), s, x, a)
  <1> DEFINE m == Meaning(c)
             d == x.descriptor
             g == Reg(i)
             h == Reg(j)
             r == IF op = "move" THEN {h} ELSE IF op = "write" THEN {g, h} ELSE {g}
             w == IF op = "move" THEN {g} ELSE IF op = "write" THEN {} ELSE {h}
  <1>1. m = Mach("rsp", 8, <<<<"rsp", 0>>>>, r \cup ({"rsp"} \ w), w \cup {"rsp"})
    <2>1. m = MovedMach(op, i, j)
      BY MeaningMove, Zenon
    <2>2. r = MoveReads(op, i, j) /\ w = MoveWrites(op, i, j)
      BY Zenon DEF MoveReads, MoveWrites
    <2> QED BY <2>1, <2>2, Zenon DEF MovedMach
  <1>2. g # "rsp" /\ h # "rsp"
    BY RegisterNumber
  <1>3. s.clobbered = w
    OBVIOUS
  <1>4. x.read = r \cup {"rsp"} /\ x.written = w \cup {"rsp"} /\ d = PlainReturn
    <2>1. CASE op = "move"
      BY <2>1 DEF Effect
    <2>2. CASE op = "write"
      BY <2>2 DEF Effect
    <2>3. CASE op = "read"
      BY <2>3 DEF Effect
    <2> QED BY <2>1, <2>2, <2>3
  <1>5. w \subseteq {g, h} /\ "rsp" \notin w /\ r \cup ({"rsp"} \ w) = r \cup {"rsp"}
    <2> HIDE DEF g, h
    <2> QED BY <1>2
  <1>6. a = IF op = "move" THEN NoAccess ELSE [direction |-> op, base |-> g, value |-> h]
    OBVIOUS
  <1> HIDE DEF m, d, g, h, r, w
  <1>7. /\ m.base = "rsp" /\ m.offset = 8 /\ m.slots = <<<<"rsp", 0>>>>
        /\ m.read = r \cup {"rsp"} /\ m.written = w \cup {"rsp"}
    BY <1>1, <1>5 DEF Mach
  <1>8. /\ ~Doing(c, "syscall")
        /\ Doing(c, "write") <=> op = "write"
        /\ Doing(c, "read") <=> op = "read"
    BY DoingOne DEF MoveBody
  <1>9. StackOfTheReading(m, s, d)
    <2>1. /\ m.slots = <<<<d.base, d.first>>>> /\ d.first \in Int
          /\ d.stackReads = 1 /\ d.offsetsKnown = TRUE /\ d.stride = 0
      BY <1>4, <1>7, PlainParts
    <2>2. s.delta = IF m.base = "rsp" THEN m.offset ELSE 0
      BY <1>7
    <2> QED BY <2>1, <2>2, OneSlot
  <1>10. RegistersOfTheReading(c, m, s, x)
    BY <1>3, <1>4, <1>5, <1>7, <1>8 DEF RegistersOfTheReading
  <1>11. MemoryOfTheReading(c, a)
    <2>1. CASE op = "move"
      BY <1>6, <1>8, <2>1, MemoryAbsent, Zenon
    <2>2. CASE op # "move"
      <3> DEFINE body == Body[Reading(c)]
      <3>1. body[1].op = op /\ body[1].regs[1] = g /\ body[1].regs[2] = h
        BY DEF MoveBody, Instruction, g, h
      <3> HIDE DEF body
      <3>2. Doing(c, "write") \/ Doing(c, "read")
        BY <1>8, <2>2
      <3>3. a = [direction |-> body[1].op, base |-> body[1].regs[1], value |-> body[1].regs[2]]
        BY <1>6, <2>2, <3>1, Zenon
      <3> QED BY <3>2, <3>3, Zenon DEF MemoryOfTheReading, body
    <2> QED BY <2>1, <2>2
  <1>12. d.complete = (d.offsetsKnown /\ ~Doing(c, "syscall"))
    BY <1>4, <1>8, PlainParts, Zenon
  <1> QED BY <1>9, <1>10, <1>11, <1>12, Zenon DEF Described, m, d

-----------------------------------------------------------------------------
(* What the passes make of a window, by its shape.                         *)

\* The length of the return.
Ending(c) == IF c.terminator = RET THEN 1 ELSE 3

\* The row that begins with pattern p is accepted by every pass, and says what the reading does.
Told(c, p) ==
    /\ Consistent(c, p, Classified(c, p))
    /\ SuffixLength(p) = Len(Reading(c)) + Ending(c)
    /\ Described(c, Meaning(c), Classified(c, p), EffectOf(p, Classified(c, p).delta), MemoryEffect(p))

LEMMA NoMemory ==
    ASSUME NEW p, p.kind \notin {"store", "load"}
    PROVE  MemoryEffect(p) = NoAccess
  BY Zenon DEF MemoryEffect

\* Both, by the shape of the window.
LEMMA ToldRetImm ==
    ASSUME NEW c, Immediate(c) \in Nat, NEW p, ShapeRetImm(c, p, Body[Reading(c)], Len(Reading(c)))
    PROVE  Told(c, p)
  <1> DEFINE s == Classified(c, p)
             x == EffectOf(p, s.delta)
  <1>1. c.terminator = RET_IMM16 /\ IsRetImm(p) /\ Body[Reading(c)] = <<>> /\ Len(Reading(c)) = 0
    BY Zenon DEF ShapeRetImm, IsRetImm
  <1>2. Ending(c) = 3 /\ Immediate(c) = IF c.terminator = RET THEN 0 ELSE Immediate(c)
    BY <1>1, ScannerAssumption DEF Ending
  <1>3. /\ Consistent(c, p, s) /\ SuffixLength(p) = 3
        /\ s.controlled = {} /\ s.clobbered = {} /\ s.delta = 8 + Immediate(c)
    BY <1>1, ConsistentRetImm, Zenon
  <1>4. p.kind = "ret imm16"
    BY <1>1, Zenon DEF IsRetImm, Pattern
  <1>5. x = Effect({"rsp"}, {"rsp"}, PlainReturn)
    BY <1>4, Zenon DEF EffectOf
  <1>6. MemoryEffect(p) = NoAccess
    BY <1>4, NoMemory, Zenon
  <1> HIDE DEF s, x
  <1>7. Described(c, Meaning(c), s, x, NoAccess)
    BY <1>1, <1>2, <1>3, <1>5, DescribedNone
  <1>8. SuffixLength(p) = Len(Reading(c)) + Ending(c)
    BY <1>1, <1>2, <1>3
  <1> QED BY <1>3, <1>6, <1>7, <1>8, Zenon DEF Told, s, x

LEMMA ToldRet ==
    ASSUME NEW c, c.terminator = RET, NEW p, ShapeRet(p, Body[Reading(c)], Len(Reading(c)))
    PROVE  Told(c, p)
  <1> DEFINE s == Classified(c, p)
             x == EffectOf(p, s.delta)
             zero == 0
  <1>1. p = Pattern("ret", <<>>) /\ Body[Reading(c)] = <<>> /\ Len(Reading(c)) = 0
    BY Zenon DEF ShapeRet
  <1>2. /\ Consistent(c, p, s) /\ SuffixLength(p) = 1
        /\ s.controlled = {} /\ s.clobbered = {} /\ s.delta = 8
    BY <1>1, ConsistentRet, Zenon
  <1>3. p.kind = "ret"
    BY <1>1, Zenon DEF Pattern
  <1>4. x = Effect({"rsp"}, {"rsp"}, PlainReturn)
    BY <1>3, Zenon DEF EffectOf
  <1>5. MemoryEffect(p) = NoAccess
    BY <1>3, NoMemory, Zenon
  <1>6. zero \in Nat /\ zero = IF c.terminator = RET THEN 0 ELSE Immediate(c)
    OBVIOUS
  <1>7. s.delta = 8 + zero
    BY <1>2
  <1> HIDE DEF s, x, zero
  <1>8. Described(c, Meaning(c), s, x, NoAccess)
    BY <1>1, <1>2, <1>4, <1>6, <1>7, DescribedNone
  <1>9. SuffixLength(p) = Len(Reading(c)) + Ending(c)
    BY <1>1, <1>2 DEF Ending
  <1> QED BY <1>2, <1>5, <1>8, <1>9, Zenon DEF Told, s, x

LEMMA ToldLeave ==
    ASSUME NEW c, c.terminator = RET, NEW p, ShapeLeave(p, Body[Reading(c)], Len(Reading(c)))
    PROVE  Told(c, p)
  <1> DEFINE s == Classified(c, p)
             x == EffectOf(p, s.delta)
  <1>1. p = Pattern("leave", <<>>) /\ Body[Reading(c)] = LeaveBody /\ Len(Reading(c)) = 1
    BY Zenon DEF ShapeLeave
  <1>2. /\ Consistent(c, p, s) /\ SuffixLength(p) = 2
        /\ s.controlled = {"rsp"} /\ s.clobbered = {"rbp"} /\ s.delta = 0
    BY <1>1, ConsistentLeave, Zenon
  <1>3. p.kind = "leave"
    BY <1>1, Zenon DEF Pattern
  <1>4. x = Effect({"rbp"}, {"rbp", "rsp"}, [PopReturn EXCEPT !.base = "rbp"])
    BY <1>3, Zenon DEF EffectOf
  <1>5. MemoryEffect(p) = NoAccess
    BY <1>3, NoMemory, Zenon
  <1> HIDE DEF s, x
  <1>6. Described(c, Meaning(c), s, x, NoAccess)
    BY <1>1, <1>2, <1>4, DescribedLeave
  <1>7. SuffixLength(p) = Len(Reading(c)) + Ending(c)
    BY <1>1, <1>2 DEF Ending
  <1> QED BY <1>2, <1>5, <1>6, <1>7, Zenon DEF Told, s, x

LEMMA ToldSyscall ==
    ASSUME NEW c, c.terminator = RET, NEW p, ShapeSyscall(p, Body[Reading(c)], Len(Reading(c)))
    PROVE  Told(c, p)
  <1> DEFINE s == Classified(c, p)
             x == EffectOf(p, s.delta)
  <1>1. p = Pattern("syscall", <<>>) /\ Body[Reading(c)] = SyscallBody /\ Len(Reading(c)) = 2
    BY Zenon DEF ShapeSyscall
  <1>2. /\ Consistent(c, p, s) /\ SuffixLength(p) = 3
        /\ s.controlled = {} /\ s.clobbered = {"rcx", "r11"} /\ s.delta = 8
    BY <1>1, ConsistentSyscall, Zenon
  <1>3. p.kind = "syscall"
    BY <1>1, Zenon DEF Pattern
  <1>4. x = Effect(SyscallReads, {"rax", "rcx", "r11", "rsp"},
                   [PlainReturn EXCEPT !.complete = FALSE, !.flagsRead = {"syscall"},
                                       !.control = {"return", "syscall"}])
    BY <1>3, Zenon DEF EffectOf
  <1>5. MemoryEffect(p) = NoAccess
    BY <1>3, NoMemory, Zenon
  <1> HIDE DEF s, x
  <1>6. Described(c, Meaning(c), s, x, NoAccess)
    BY <1>1, <1>2, <1>4, DescribedSyscall
  <1>7. SuffixLength(p) = Len(Reading(c)) + Ending(c)
    BY <1>1, <1>2 DEF Ending
  <1> QED BY <1>2, <1>5, <1>6, <1>7, Zenon DEF Told, s, x

LEMMA ToldAdjust ==
    ASSUME NEW c, Sound(c), c.terminator = RET, c.byteLen = Room(c) + Ending(c),
           NEW p, ShapeAdjust(c, p, Body[Reading(c)], Len(Reading(c)))
    PROVE  Told(c, p)
  <1> DEFINE s == Classified(c, p)
             x == EffectOf(p, s.delta)
             d == Back(c, 1)
  <1>1. /\ p = Pattern("adjust", <<>>) /\ Body[Reading(c)] = AdjustBody(d) /\ Len(Reading(c)) = 4
        /\ d \in 8 .. 120 /\ d % 8 = 0 /\ AdjustBefore(c)
    BY Zenon DEF ShapeAdjust
  <1>2. c.byteLen >= 5
    <2>1. Room(c) \in Nat /\ Room(c) >= 4
      BY <1>1, ValidLengths DEF AdjustBefore
    <2> QED BY <2>1 DEF Ending
  <1>3. /\ Consistent(c, p, s) /\ SuffixLength(p) = 5
        /\ s.controlled = {} /\ s.clobbered = {} /\ s.delta = 8 + d
    BY <1>1, <1>2, ConsistentAdjust, Zenon
  <1>4. p.kind = "adjust"
    BY <1>1, Zenon DEF Pattern
  <1>5. x = Effect({"rsp"}, {"rsp"}, [PlainReturn EXCEPT !.first = WordDifference(8 + d, 8),
                                                       !.flagsWritten = {"arithmetic"}])
    <2>1. x = Effect({"rsp"}, {"rsp"}, [PlainReturn EXCEPT !.first = WordDifference(s.delta, 8),
                                                         !.flagsWritten = {"arithmetic"}])
      BY <1>4, Zenon DEF EffectOf
    <2> QED BY <1>3, <2>1, Zenon
  <1>6. MemoryEffect(p) = NoAccess
    BY <1>4, NoMemory, Zenon
  <1> HIDE DEF s, x, d
  <1>7. d \in Nat
    BY <1>1
  <1>8. Described(c, Meaning(c), s, x, NoAccess)
    BY <1>1, <1>3, <1>5, <1>7, DescribedAdjust
  <1>9. SuffixLength(p) = Len(Reading(c)) + Ending(c)
    BY <1>1, <1>3 DEF Ending
  <1> QED BY <1>3, <1>6, <1>8, <1>9, Zenon DEF Told, s, x

LEMMA PopFacts ==
    ASSUME NEW c, NEW i \in 0 .. 15, i # 4, NEW p, p = Pattern("pop", <<Reg(i)>>),
           NEW s, s = Classified(c, p)
    PROVE  /\ Consistent(c, p, s)
           /\ SuffixLength(p) = IF Extended(Reg(i)) THEN 3 ELSE 2
           /\ s.controlled = {Reg(i)} \/ (s.class = "unknown" /\ s.controlled = {})
           /\ s.clobbered = {} /\ s.delta = 16
  <1> DEFINE g == Reg(i)
  <1>1. g # "rsp"
    BY RegisterNumber
  <1> HIDE DEF g
  <1>2. CASE g \in ArgumentRegisters
    BY <1>2, ConsistentPopArgument DEF g
  <1>3. CASE g = "rax"
    BY <1>3, ConsistentPopNumber DEF g
  <1>4. CASE g \notin ArgumentRegisters \cup {"rax", "rsp"}
    BY <1>4, ConsistentPopOther DEF g
  <1>5. g \in ArgumentRegisters \/ g = "rax" \/ g \notin ArgumentRegisters \cup {"rax", "rsp"}
    BY <1>1
  <1> QED BY <1>2, <1>3, <1>4, <1>5, Zenon

LEMMA ToldPop ==
    ASSUME NEW c, c.terminator = RET, NEW p, NEW i \in 0 .. 15, i # 4,
           ShapePop(p, Body[Reading(c)], Len(Reading(c)), i)
    PROVE  Told(c, p)
  <1> DEFINE s == Classified(c, p)
             x == EffectOf(p, s.delta)
             g == Reg(i)
  <1>1. p = Pattern("pop", <<g>>) /\ Body[Reading(c)] = PopBody(i) /\ Len(Reading(c)) = PopLength(i)
    BY Zenon DEF ShapePop
  <1>2. /\ Consistent(c, p, s) /\ SuffixLength(p) = IF Extended(g) THEN 3 ELSE 2
        /\ s.controlled = {g} \/ (s.class = "unknown" /\ s.controlled = {})
        /\ s.clobbered = {} /\ s.delta = 16
    BY <1>1, PopFacts, Zenon
  <1>3. p.kind = "pop" /\ p.regs = <<g>>
    BY <1>1, Zenon DEF Pattern
  <1>4. p.regs[1] = g /\ g # "rsp" /\ (Extended(g) <=> i >= 8)
    <2>1. p.regs[1] = g
      BY <1>3, OneRegister, Zenon
    <2> QED BY <2>1, RegisterNumber
  <1>5. x = Effect({"rsp"}, {"rsp", g}, PopReturn)
    BY <1>3, <1>4, Zenon DEF EffectOf
  <1>6. MemoryEffect(p) = NoAccess
    BY <1>3, NoMemory, Zenon
  <1> HIDE DEF s, x
  <1>7. Described(c, Meaning(c), s, x, NoAccess)
    BY <1>1, <1>2, <1>5, DescribedPop
  <1>8. SuffixLength(p) = Len(Reading(c)) + Ending(c)
    <2> HIDE DEF g
    <2> QED BY <1>1, <1>2, <1>4 DEF Ending, PopLength
  <1> QED BY <1>2, <1>6, <1>7, <1>8, Zenon DEF Told, s, x

LEMMA ToldPopStack ==
    ASSUME NEW c, c.terminator = RET, NEW p, ShapePop(p, Body[Reading(c)], Len(Reading(c)), 4)
    PROVE  Told(c, p)
  <1> DEFINE s == Classified(c, p)
             x == EffectOf(p, s.delta)
             g == Reg(4)
  <1>1. p = Pattern("pop", <<g>>) /\ Body[Reading(c)] = PopBody(4) /\ Len(Reading(c)) = PopLength(4)
    BY Zenon DEF ShapePop
  <1>2. g = "rsp" /\ ~Extended(g)
    <2>1. 4 \in 0 .. 15
      OBVIOUS
    <2> QED BY <2>1, RegisterNumber
  <1>3. /\ Consistent(c, p, s) /\ SuffixLength(p) = IF Extended(g) THEN 3 ELSE 2
        /\ s.controlled = {g} /\ s.clobbered = {} /\ s.delta = 0
    BY <1>1, <1>2, ConsistentPopStack
  <1>4. p.kind = "pop" /\ p.regs = <<g>>
    BY <1>1, Zenon DEF Pattern
  <1>5. p.regs[1] = "rsp"
    BY <1>2, <1>4, OneRegister, Zenon
  <1>6. x = Effect({"rsp"}, {"rsp"}, [PlainReturn EXCEPT !.complete = FALSE, !.offsetsKnown = FALSE,
                                                   !.base = "dynamic", !.stackReads = 2])
    BY <1>4, <1>5, Zenon DEF EffectOf
  <1>7. MemoryEffect(p) = NoAccess
    BY <1>4, NoMemory, Zenon
  <1> HIDE DEF s, x, g
  <1>8. Described(c, Meaning(c), s, x, NoAccess)
    BY <1>1, <1>2, <1>3, <1>6, DescribedPopStack
  <1>9. SuffixLength(p) = Len(Reading(c)) + Ending(c)
    BY <1>1, <1>2, <1>3 DEF Ending, PopLength
  <1> QED BY <1>3, <1>7, <1>8, <1>9, Zenon DEF Told, s, x

LEMMA ToldTwo ==
    ASSUME NEW c, c.terminator = RET, NEW p, NEW i \in ArgumentNumbers, NEW j \in ArgumentNumbers, i # j,
           ShapeTwo(p, Body[Reading(c)], Len(Reading(c)), i, j)
    PROVE  Told(c, p)
  <1> DEFINE s == Classified(c, p)
             x == EffectOf(p, s.delta)
             g == Reg(i)
             h == Reg(j)
  <1>1. /\ IsTwoPops(p, g, h) /\ Body[Reading(c)] = TwoPopBody(i, j)
        /\ Len(Reading(c)) = PopLength(i) + PopLength(j)
    BY Zenon DEF ShapeTwo, IsTwoPops
  <1>2. /\ g \in ArgumentRegisters /\ h \in ArgumentRegisters /\ g # h
        /\ (Extended(g) <=> i >= 8) /\ (Extended(h) <=> j >= 8)
    <2>1. i \in 0 .. 15 /\ j \in 0 .. 15
      BY DEF ArgumentNumbers
    <2>2. /\ g \in ArgumentRegisters /\ h \in ArgumentRegisters
          /\ (Extended(g) <=> i >= 8) /\ (Extended(h) <=> j >= 8)
      BY <2>1, RegisterNumber DEF ArgumentNumbers
    <2>3. g # h
      BY <2>1, RegistersDiffer
    <2> QED BY <2>2, <2>3
  <1>3. /\ Consistent(c, p, s)
        /\ SuffixLength(p) = (IF Extended(g) THEN 2 ELSE 1) + (IF Extended(h) THEN 3 ELSE 2)
        /\ s.controlled = {g, h} /\ s.clobbered = {} /\ s.delta = 24
    BY <1>1, <1>2, ConsistentTwo
  <1>4. p.kind = "two pops" /\ p.regs = <<g, h>>
    BY <1>1, Zenon DEF Pattern, IsTwoPops
  <1>5. p.regs[1] = g /\ p.regs[2] = h
    <2> HIDE DEF g, h
    <2>1. p.regs = <<g, h>>
      BY <1>4, Zenon
    <2> QED BY <2>1, TwoRegisters, Zenon
  <1>6. x = Effect({"rsp"}, {g, h, "rsp"}, [PopReturn EXCEPT !.stackReads = 3])
    BY <1>4, <1>5, Zenon DEF EffectOf
  <1>7. MemoryEffect(p) = NoAccess
    BY <1>4, NoMemory, Zenon
  <1> HIDE DEF s, x
  <1>8. Described(c, Meaning(c), s, x, NoAccess)
    BY <1>1, <1>3, <1>6, DescribedTwo
  <1>9. SuffixLength(p) = Len(Reading(c)) + Ending(c)
    <2> HIDE DEF g, h
    <2> QED BY <1>1, <1>2, <1>3 DEF Ending, PopLength, ArgumentNumbers
  <1> QED BY <1>3, <1>7, <1>8, <1>9, Zenon DEF Told, s, x

LEMMA ToldTransfer ==
    ASSUME NEW c, c.terminator = RET, NEW p, NEW i \in MovableNumbers, NEW j \in MovableNumbers, i # j,
           ShapeTransfer(p, Body[Reading(c)], Len(Reading(c)), i, j)
    PROVE  Told(c, p)
  <1> DEFINE s == Classified(c, p)
             x == EffectOf(p, s.delta)
             g == Reg(i)
             h == Reg(j)
             op == "move"
  <1>1. p = Pattern("transfer", <<g, h>>) /\ Body[Reading(c)] = MoveBody(op, i, j) /\ Len(Reading(c)) = 3
    BY Zenon DEF ShapeTransfer
  <1>2. /\ i \in 0 .. 15 /\ j \in 0 .. 15 /\ i # 4 /\ j # 4
        /\ g # "rsp" /\ h # "rsp" /\ g # h
    <2>1. i \in 0 .. 15 /\ j \in 0 .. 15 /\ i # 4 /\ j # 4
      BY DEF MovableNumbers
    <2>2. g # h
      BY <2>1, RegistersDiffer
    <2> QED BY <2>1, <2>2, RegisterNumber
  <1>3. /\ Consistent(c, p, s) /\ SuffixLength(p) = 4
        /\ s.controlled = {} /\ s.clobbered = {g} /\ s.delta = 8
    BY <1>1, <1>2, ConsistentTransfer
  <1>4. p.kind = "transfer" /\ p.regs[1] = g /\ p.regs[2] = h
    <2> HIDE DEF g, h
    <2>1. p.kind = "transfer" /\ p.regs = <<g, h>>
      BY <1>1, Zenon DEF Pattern
    <2> QED BY <2>1, TwoRegisters, Zenon
  <1>5. x = Effect({h, "rsp"}, {g, "rsp"}, PlainReturn)
    BY <1>4, Zenon DEF EffectOf
  <1>6. MemoryEffect(p) = NoAccess
    BY <1>4, NoMemory, Zenon
  <1>7. op \in {"move", "write", "read"} /\ op = "move"
    OBVIOUS
  <1> HIDE DEF s, x, op
  <1>8. Described(c, Meaning(c), s, x, NoAccess)
    BY <1>1, <1>2, <1>3, <1>5, <1>7, DescribedMove
  <1>9. SuffixLength(p) = Len(Reading(c)) + Ending(c)
    BY <1>1, <1>3 DEF Ending
  <1> QED BY <1>3, <1>6, <1>8, <1>9, Zenon DEF Told, s, x

LEMMA PlainNumber ==
    ASSUME NEW i \in PlainNumbers
    PROVE  i \in 0 .. 15 /\ i # 4 /\ Reg(i) \notin {"rsp", "rbp", "r12", "r13"}
  <1>1. i \in 0 .. 15 /\ i \notin {4, 5, 12, 13}
    BY DEF PlainNumbers
  <1>2. Reg(i) \in Plain
    BY <1>1, RegisterNumber
  <1> QED BY <1>1, <1>2 DEF Plain

LEMMA ToldStore ==
    ASSUME NEW c, c.terminator = RET, NEW p, NEW i \in PlainNumbers, NEW j \in MovableNumbers,
           ShapeStore(p, Body[Reading(c)], Len(Reading(c)), i, j)
    PROVE  Told(c, p)
  <1> DEFINE s == Classified(c, p)
             x == EffectOf(p, s.delta)
             g == Reg(i)
             h == Reg(j)
             op == "write"
             a == [direction |-> op, base |-> g, value |-> h]
  <1>1. p = Pattern("store", <<g, h>>) /\ Body[Reading(c)] = MoveBody(op, i, j) /\ Len(Reading(c)) = 3
    BY Zenon DEF ShapeStore
  <1>2. /\ i \in 0 .. 15 /\ j \in 0 .. 15 /\ i # 4 /\ j # 4
        /\ g \notin {"rsp", "rbp", "r12", "r13"} /\ h # "rsp"
    <2>1. j \in 0 .. 15 /\ j # 4
      BY DEF MovableNumbers
    <2> QED BY <2>1, PlainNumber, RegisterNumber
  <1>3. /\ Consistent(c, p, s) /\ SuffixLength(p) = 4
        /\ s.controlled = {} /\ s.clobbered = {} /\ s.delta = 8
    BY <1>1, <1>2, ConsistentStore
  <1>4. p.kind = "store" /\ p.regs[1] = g /\ p.regs[2] = h
    <2> HIDE DEF g, h
    <2>1. p.kind = "store" /\ p.regs = <<g, h>>
      BY <1>1, Zenon DEF Pattern
    <2> QED BY <2>1, TwoRegisters, Zenon
  <1>5. x = Effect({g, h, "rsp"}, {"rsp"}, PlainReturn)
    BY <1>4, Zenon DEF EffectOf
  <1>6. MemoryEffect(p) = a
    BY <1>4, Zenon DEF MemoryEffect
  <1>7. op \in {"move", "write", "read"} /\ op # "move" /\ op = "write"
    OBVIOUS
  <1>8. a = [direction |-> op, base |-> Reg(i), value |-> Reg(j)]
    OBVIOUS
  <1> HIDE DEF s, x, op, a
  <1>9. Described(c, Meaning(c), s, x, a)
    BY <1>1, <1>2, <1>3, <1>5, <1>7, <1>8, DescribedMove
  <1>10. SuffixLength(p) = Len(Reading(c)) + Ending(c)
    BY <1>1, <1>3 DEF Ending
  <1> QED BY <1>3, <1>6, <1>9, <1>10, Zenon DEF Told, s, x

LEMMA ToldLoad ==
    ASSUME NEW c, c.terminator = RET, NEW p, NEW i \in PlainNumbers, NEW j \in MovableNumbers,
           ShapeLoad(p, Body[Reading(c)], Len(Reading(c)), i, j)
    PROVE  Told(c, p)
  <1> DEFINE s == Classified(c, p)
             x == EffectOf(p, s.delta)
             g == Reg(i)
             h == Reg(j)
             op == "read"
             a == [direction |-> op, base |-> g, value |-> h]
  <1>1. p = Pattern("load", <<g, h>>) /\ Body[Reading(c)] = MoveBody(op, i, j) /\ Len(Reading(c)) = 3
    BY Zenon DEF ShapeLoad
  <1>2. /\ i \in 0 .. 15 /\ j \in 0 .. 15 /\ i # 4 /\ j # 4
        /\ g \notin {"rsp", "rbp", "r12", "r13"} /\ h # "rsp"
    <2>1. j \in 0 .. 15 /\ j # 4
      BY DEF MovableNumbers
    <2> QED BY <2>1, PlainNumber, RegisterNumber
  <1>3. /\ Consistent(c, p, s) /\ SuffixLength(p) = 4
        /\ s.controlled = {} /\ s.clobbered = {h} /\ s.delta = 8
    BY <1>1, <1>2, ConsistentLoad
  <1>4. p.kind = "load" /\ p.regs[1] = g /\ p.regs[2] = h
    <2> HIDE DEF g, h
    <2>1. p.kind = "load" /\ p.regs = <<g, h>>
      BY <1>1, Zenon DEF Pattern
    <2> QED BY <2>1, TwoRegisters, Zenon
  <1>5. x = Effect({g, "rsp"}, {h, "rsp"}, PlainReturn)
    BY <1>4, Zenon DEF EffectOf
  <1>6. MemoryEffect(p) = a
    BY <1>4, Zenon DEF MemoryEffect
  <1>7. op \in {"move", "write", "read"} /\ op # "move" /\ op # "write"
    OBVIOUS
  <1>8. a = [direction |-> op, base |-> Reg(i), value |-> Reg(j)]
    OBVIOUS
  <1> HIDE DEF s, x, op, a
  <1>9. Described(c, Meaning(c), s, x, a)
    BY <1>1, <1>2, <1>3, <1>5, <1>7, <1>8, DescribedMove
  <1>10. SuffixLength(p) = Len(Reading(c)) + Ending(c)
    BY <1>1, <1>3 DEF Ending
  <1> QED BY <1>3, <1>6, <1>9, <1>10, Zenon DEF Told, s, x

\* So every window is told as it is.
LEMMA ToldOf ==
    ASSUME NEW c, Sound(c), c.byteLen = Room(c) + Ending(c),
           c.terminator = RET_IMM16 => Immediate(c) \in Nat
    PROVE  Told(c, PatternOf(c))
  <1> DEFINE p == PatternOf(c)
             body == Body[Reading(c)]
             n == Len(Reading(c))
  <1>1. Shape(c, p, body, n)
    BY ShapeOf
  <1> HIDE DEF p, body, n
  <1>2. ASSUME ShapeRetImm(c, p, body, n) PROVE Told(c, p)
    <2>1. c.terminator = RET_IMM16
      BY <1>2, Zenon DEF ShapeRetImm
    <2> QED BY <1>2, <2>1, ToldRetImm, Zenon DEF p, body, n
  <1>3. ASSUME c.terminator = RET /\ ShapeRet(p, body, n) PROVE Told(c, p)
    BY <1>3, ToldRet, Zenon DEF p, body, n
  <1>4. ASSUME c.terminator = RET /\ ShapeLeave(p, body, n) PROVE Told(c, p)
    BY <1>4, ToldLeave, Zenon DEF p, body, n
  <1>5. ASSUME c.terminator = RET /\ ShapeSyscall(p, body, n) PROVE Told(c, p)
    BY <1>5, ToldSyscall, Zenon DEF p, body, n
  <1>6. ASSUME c.terminator = RET /\ ShapeAdjust(c, p, body, n) PROVE Told(c, p)
    BY <1>6, ToldAdjust, Zenon DEF p, body, n
  <1>7. ASSUME c.terminator = RET, NEW i \in 0 .. 15, ShapePop(p, body, n, i) PROVE Told(c, p)
    <2>1. CASE i = 4
      BY <1>7, <2>1, ToldPopStack, Zenon DEF p, body, n
    <2>2. CASE i # 4
      BY <1>7, <2>2, ToldPop, Zenon DEF p, body, n
    <2> QED BY <2>1, <2>2
  <1>8. ASSUME c.terminator = RET, NEW i \in ArgumentNumbers, NEW j \in ArgumentNumbers, i # j,
               ShapeTwo(p, body, n, i, j)
        PROVE  Told(c, p)
    BY <1>8, ToldTwo, Zenon DEF p, body, n
  <1>9. ASSUME c.terminator = RET, NEW i \in MovableNumbers, NEW j \in MovableNumbers, i # j,
               ShapeTransfer(p, body, n, i, j)
        PROVE  Told(c, p)
    BY <1>9, ToldTransfer, Zenon DEF p, body, n
  <1>10. ASSUME c.terminator = RET, NEW i \in PlainNumbers, NEW j \in MovableNumbers,
                ShapeStore(p, body, n, i, j) \/ ShapeLoad(p, body, n, i, j)
         PROVE  Told(c, p)
    BY <1>10, ToldStore, ToldLoad, Zenon DEF p, body, n
  <1>11. Told(c, p)
    BY <1>1, <1>2, <1>3, <1>4, <1>5, <1>6, <1>7, <1>8, <1>9, <1>10, Zenon DEF Shape
  <1> QED BY <1>11, Zenon DEF p

-----------------------------------------------------------------------------
(* What is said of a candidate does not change: the file does not.         *)

LEMMA BytesKept ==
    ASSUME object' = object
    PROVE  /\ \A c, n : Back(c, n)' = Back(c, n)
           /\ \A c : Immediate(c)' = Immediate(c)
  BY DEF Back, Immediate

LEMMA MovesKept ==
    ASSUME object' = object
    PROVE  /\ \A c : SyscallBefore(c)' <=> SyscallBefore(c)
           /\ \A c : AdjustBefore(c)' <=> AdjustBefore(c)
           /\ \A c : MemoryMoveBefore(c)' <=> MemoryMoveBefore(c)
           /\ \A c : RegisterMoveBefore(c)' <=> RegisterMoveBefore(c)
           /\ \A c : Stores(c)' <=> Stores(c)
           /\ \A c : BaseOperand(c)' = BaseOperand(c)
           /\ \A c : ValueOperand(c)' = ValueOperand(c)
  <1>1. \A c, n : Back(c, n)' = Back(c, n)
    BY BytesKept
  <1>2. \A c : Room(c)' = Room(c)
    BY DEF Room
  <1>3. /\ \A c : SyscallBefore(c)' <=> SyscallBefore(c)
        /\ \A c : AdjustBefore(c)' <=> AdjustBefore(c)
    BY <1>1, <1>2 DEF SyscallBefore, AdjustBefore
  <1>4. /\ \A c : MoveBefore(c)' <=> MoveBefore(c)
        /\ \A c : Stores(c)' <=> Stores(c)
    BY <1>1, <1>2 DEF MoveBefore, Stores
  <1>5. /\ \A c, bit : Prefix(c, bit)' <=> Prefix(c, bit)
        /\ \A c : Mode(c)' = Mode(c)
        /\ \A c : BaseField(c)' = BaseField(c)
    BY <1>1 DEF Prefix, Mode, BaseField
  <1>6. \A c : BaseOperand(c)' = BaseOperand(c)
    BY <1>5 DEF BaseOperand
  <1>7. \A c : ValueOperand(c)' = ValueOperand(c)
    BY <1>1, <1>5 DEF ValueOperand
  <1>8. \A c : MemoryMoveBefore(c)' <=> MemoryMoveBefore(c)
    BY <1>4, <1>5, <1>7 DEF MemoryMoveBefore
  <1>9. \A c : RegisterMoveBefore(c)' <=> RegisterMoveBefore(c)
    BY <1>4, <1>5, <1>6, <1>7 DEF RegisterMoveBefore
  <1> QED BY <1>3, <1>4, <1>6, <1>7, <1>8, <1>9

LEMMA PopsKept ==
    ASSUME object' = object
    PROVE  /\ \A c : LastPop(c)' = LastPop(c)
           /\ \A c : ArgumentPops(c)' = ArgumentPops(c)
  <1>1. \A c, e : PopsEndingAt(c, e)' = PopsEndingAt(c, e)
    BY DEF PopsEndingAt
  <1>2. \A c : LastPop(c)' = LastPop(c)
    BY <1>1 DEF LastPop
  <1>3. \A c : ArgumentPops(c)' = ArgumentPops(c)
    BY <1>1, <1>2 DEF ArgumentPops
  <1> QED BY <1>2, <1>3

LEMMA PatternsKept ==
    ASSUME object' = object
    PROVE  \A c : PatternOf(c)' = PatternOf(c)
  <1> SUFFICES ASSUME NEW c PROVE PatternOf(c)' = PatternOf(c)
    OBVIOUS
  <1>1. /\ SyscallBefore(c)' <=> SyscallBefore(c)
        /\ AdjustBefore(c)' <=> AdjustBefore(c)
        /\ MemoryMoveBefore(c)' <=> MemoryMoveBefore(c)
        /\ RegisterMoveBefore(c)' <=> RegisterMoveBefore(c)
        /\ Stores(c)' <=> Stores(c)
        /\ BaseOperand(c)' = BaseOperand(c)
        /\ ValueOperand(c)' = ValueOperand(c)
    BY MovesKept
  <1>2. LastPop(c)' = LastPop(c) /\ ArgumentPops(c)' = ArgumentPops(c)
    BY PopsKept
  <1>3. Room(c)' = Room(c) /\ Back(c, 1)' = Back(c, 1)
    BY BytesKept DEF Room
  <1> DEFINE pops == CHOOSE regs \in ArgumentPops(c) : TRUE
             pop == CHOOSE q \in LastPop(c) : TRUE
  <1>4. pops' = pops /\ pop' = pop
    BY <1>2
  <1>5. CASE c.terminator = RET_IMM16
    BY <1>1, <1>2, <1>3, <1>5, Zenon DEF PatternOf
  <1>6. CASE c.terminator # RET_IMM16 /\ SyscallBefore(c)
    BY <1>1, <1>2, <1>3, <1>6, Zenon DEF PatternOf
  <1>7. CASE c.terminator # RET_IMM16 /\ ~SyscallBefore(c) /\ AdjustBefore(c)
    BY <1>1, <1>2, <1>3, <1>7, Zenon DEF PatternOf
  <1>8. CASE c.terminator # RET_IMM16 /\ ~SyscallBefore(c) /\ ~AdjustBefore(c) /\ MemoryMoveBefore(c)
    BY <1>1, <1>2, <1>3, <1>8, Zenon DEF PatternOf
  <1>9. CASE c.terminator # RET_IMM16 /\ ~SyscallBefore(c) /\ ~AdjustBefore(c) /\ ~MemoryMoveBefore(c) /\ RegisterMoveBefore(c)
    BY <1>1, <1>2, <1>3, <1>9, Zenon DEF PatternOf
  <1>10. CASE c.terminator # RET_IMM16 /\ NoMove(c) /\ ArgumentPops(c) # {}
    BY <1>1, <1>2, <1>3, <1>4, <1>10, Zenon DEF PatternOf, NoMove
  <1>11. CASE c.terminator # RET_IMM16 /\ NoMove(c) /\ ArgumentPops(c) = {} /\ LastPop(c) # {}
    BY <1>1, <1>2, <1>3, <1>4, <1>11, Zenon DEF PatternOf, NoMove
  <1>12. CASE c.terminator # RET_IMM16 /\ NoMove(c) /\ ArgumentPops(c) = {} /\ LastPop(c) = {}
               /\ Room(c) > 0 /\ Back(c, 1) = \hC9
    BY <1>1, <1>2, <1>3, <1>12, Zenon DEF PatternOf, NoMove
  <1>13. CASE c.terminator # RET_IMM16 /\ NoMove(c) /\ ArgumentPops(c) = {} /\ LastPop(c) = {}
               /\ ~(Room(c) > 0 /\ Back(c, 1) = \hC9)
    BY <1>1, <1>2, <1>3, <1>13, Zenon DEF PatternOf, NoMove
  <1> QED BY <1>5, <1>6, <1>7, <1>8, <1>9, <1>10, <1>11, <1>12, <1>13, Zenon DEF NoMove

LEMMA FactsKept ==
    ASSUME object' = object
    PROVE  \A c, p : Classified(c, p)' = Classified(c, p)
  <1> SUFFICES ASSUME NEW c, NEW p PROVE Classified(c, p)' = Classified(c, p)
    OBVIOUS
  <1>1. Immediate(c)' = Immediate(c) /\ Back(c, 1)' = Back(c, 1)
    BY BytesKept
  <1> QED BY <1>1, Zenon DEF Classified

LEMMA ContributorsKept ==
    ASSUME object' = object
    PROVE  \A c : Contributors(c)' = Contributors(c)
  BY DEF Contributors, ContainsWindow, WindowEnd

-----------------------------------------------------------------------------
(* What the scan has found when it ends well.                              *)

\* The records are all the candidates of the object, and nothing else.
Finished ==
    pc = "done" /\ status = EXIT_OK =>
        /\ Enumeration!DepthAccepted(Asked)
        /\ capacity = Asked.capacity
        /\ \A i \in 1 .. Len(object.regions) : Enumeration!InFile(Asked, object.regions[i])
        /\ Found = Enumeration!CandidatesUpTo(Asked, Len(object.regions))

\* The window of c, with its return, lies in region r, at the address r gives it.
InRegion(c, r) ==
    /\ r.fileOffset <= c.byteStart /\ c.byteStart <= c.fileOffset
    /\ c.fileOffset < c.byteStart + c.byteLen
    /\ c.byteStart + c.byteLen <= r.fileOffset + r.filesz
    /\ r.fileOffset + r.filesz <= object.fileSize
    /\ c.virtualAddress = r.vaddr + (c.fileOffset - r.fileOffset)

\* Every record is a window of its region.
LEMMA FoundIs ==
    ASSUME RInv, Finished, pc = "done", status = EXIT_OK, NEW k \in Rows
    PROVE  /\ Sound(records[k])
           /\ records[k].byteLen = Room(records[k]) + Ending(records[k])
           /\ records[k].terminator = RET_IMM16 => Immediate(records[k]) \in Nat
           /\ records[k].region \in 1 .. Len(object.regions)
           /\ InRegion(records[k], object.regions[records[k].region])
  <1> DEFINE c == records[k]
             r == object.regions[c.region]
  <1>1. k \in 1 .. Len(records) /\ c \in Record /\ object \in Objects
    BY ElementOfSeq DEF RInv, IInv, TypeOK, Rows
  <1>2. c.region \in 1 .. Len(object.regions)
    <2>1. c.region <= Len(object.regions) /\ c.region \in Nat \ {0}
      BY <1>1 DEF RInv, IInv, RecordsBehind, Record
    <2> QED BY <1>1, <2>1, ObjectTyped
  <1>3. /\ r.fileOffset <= c.byteStart /\ c.byteStart <= c.fileOffset
        /\ c.fileOffset < c.byteStart + c.byteLen
        /\ c.byteStart + c.byteLen <= r.fileOffset + r.filesz
        /\ r.fileOffset + r.filesz <= object.fileSize
    BY <1>1 DEF RInv, IInv, WindowsInsideRegion
  <1>4. /\ c.byteStart \in Nat /\ c.fileOffset \in Nat /\ c.fileOffset <= WordMax /\ c.byteLen \in Nat
        /\ c.terminator \in {RET, RET_IMM16}
    BY <1>1, WordMaxAssumption DEF Record, Word
  <1>5. r \in Region /\ object.fileSize \in Word
    BY <1>1, <1>2, ObjectTyped, ElementOfSeq
  <1>6. /\ c.byteLen = (c.fileOffset - c.byteStart) + Enumeration!TerminatorLength(c.terminator)
        /\ c.virtualAddress = r.vaddr + (c.fileOffset - r.fileOffset)
    <2>1. c \in Found
      BY <1>1 DEF Found
    <2>2. PICK i \in 1 .. Len(object.regions) : c \in Enumeration!CandidatesOf(Asked, i)
      BY <2>1 DEF Finished, Enumeration!CandidatesUpTo
    <2>3. PICK at : c = Enumeration!Candidate(Asked, i, at)
      BY <2>2 DEF Enumeration!CandidatesOf
    <2>4. Asked.regions = object.regions
      BY <1>1, AskedFields
    <2>5. /\ c.region = i /\ c.fileOffset = at /\ c.terminator = Asked.image[at]
          /\ c.byteLen = (at - c.byteStart) + Enumeration!TerminatorLength(Asked.image[at])
          /\ c.virtualAddress = Asked.regions[i].vaddr + (at - Asked.regions[i].fileOffset)
      BY <2>3 DEF Enumeration!Candidate
    <2> QED BY <2>4, <2>5
  <1> HIDE DEF c, r
  <1>7. Ending(c) = Enumeration!TerminatorLength(c.terminator) /\ Ending(c) \in {1, 3}
        /\ (c.terminator = RET_IMM16 => Ending(c) = 3)
    BY ScannerAssumption DEF Ending, Enumeration!TerminatorLength
  <1>8. c.byteLen = Room(c) + Ending(c)
    BY <1>3, <1>4, <1>6, <1>7 DEF Room, WordDifference
  <1>9. r.fileOffset \in Nat /\ r.filesz \in Nat /\ object.fileSize \in Nat
    BY <1>5, WordMaxAssumption DEF Region, Word
  <1>10. \A i \in 0 .. object.fileSize - 1 : object.image[i] \in 0 .. 255
    BY <1>1, ReportAssumption
  <1>11. Sound(c)
    <2>1. \A i \in c.byteStart .. c.fileOffset - 1 : i \in 0 .. object.fileSize - 1
      BY <1>3, <1>4, <1>9
    <2> QED BY <1>3, <1>4, <1>10, <2>1 DEF Sound
  <1>12. c.terminator = RET_IMM16 => Immediate(c) \in Nat
    <2> SUFFICES ASSUME c.terminator = RET_IMM16 PROVE Immediate(c) \in Nat
      OBVIOUS
    <2>1. c.byteLen = (c.fileOffset - c.byteStart) + 3
      BY <1>6, <1>7
    <2>2. c.fileOffset + 1 \in 0 .. object.fileSize - 1 /\ c.fileOffset + 2 \in 0 .. object.fileSize - 1
      BY <1>3, <1>4, <1>9, <2>1
    <2>3. object.image[c.fileOffset + 1] \in 0 .. 255 /\ object.image[c.fileOffset + 2] \in 0 .. 255
      BY <1>10, <2>2
    <2> DEFINE low == object.image[c.fileOffset + 1]
               high == object.image[c.fileOffset + 2]
    <2>4. Immediate(c) = low + 256 * high
      BY DEF Immediate
    <2>5. low \in 0 .. 255 /\ high \in 0 .. 255
      BY <2>3
    <2> HIDE DEF low, high
    <2>6. low + 256 * high \in Nat
      BY <2>5
    <2> QED BY <2>4, <2>6
  <1>13. InRegion(c, r)
    BY <1>3, <1>6 DEF InRegion
  <1> QED BY <1>2, <1>8, <1>11, <1>12, <1>13 DEF c, r

-----------------------------------------------------------------------------
(* The regions a candidate is attributed to.                               *)

\* Every region c is attributed to holds it at its address, and its own is among them.
Attributed(c) ==
    /\ c.region \in Contributors(c)
    /\ \A r \in Contributors(c) :
          /\ object.regions[r].fileOffset <= c.byteStart
          /\ c.byteStart + c.byteLen <= object.regions[r].fileOffset + object.regions[r].filesz
          /\ c.fileOffset + object.regions[r].vaddr
                = c.virtualAddress + object.regions[r].fileOffset

\* A region that holds the window on both sides gives it the address it has.
LEMMA RegionContains ==
    ASSUME object \in Objects, NEW i \in 1 .. Len(object.regions),
           Enumeration!InFile(Asked, object.regions[i]),
           NEW c, c.byteStart \in Nat, c.fileOffset \in Nat, c.byteLen \in Nat,
           c.byteStart <= c.fileOffset, c.fileOffset < c.byteStart + c.byteLen,
           c.byteStart + c.byteLen <= WordMax
    PROVE  /\ ~Carries(object.regions[i].filesz, object.regions[i].fileOffset)
           /\ ContainsWindow(object.regions[i], c) <=>
                 /\ object.regions[i].fileOffset <= c.byteStart
                 /\ c.byteStart + c.byteLen <= object.regions[i].fileOffset + object.regions[i].filesz
           /\ ContainsWindow(object.regions[i], c) =>
                 LET r == object.regions[i]
                 IN  /\ ~Carries(WordDifference(c.fileOffset, r.fileOffset), r.vaddr)
                     /\ WordSum(WordDifference(c.fileOffset, r.fileOffset), r.vaddr)
                           = r.vaddr + (c.fileOffset - r.fileOffset)
  <1> DEFINE r == object.regions[i]
             f == r.fileOffset
             z == r.filesz
             v == r.vaddr
             b == c.byteStart
             o == c.fileOffset
             l == c.byteLen
  <1>1. r \in Region /\ v + z <= WordMax + 1 /\ object.fileSize \in Word
    BY ObjectTyped, ElementOfSeq
  <1>2. f \in Nat /\ z \in Nat /\ v \in Nat /\ object.fileSize \in Nat /\ object.fileSize <= WordMax
    BY <1>1, WordMaxAssumption DEF Region, Word
  <1>3. f + z <= object.fileSize
    BY AskedFields DEF Enumeration!InFile, Enumeration!End
  <1>4. b \in Nat /\ o \in Nat /\ l \in Nat /\ b <= o /\ o < b + l /\ b + l <= WordMax /\ WordMax \in Nat
    BY WordMaxAssumption
  <1>5. ContainsWindow(r, c) <=> /\ f <= b
                                 /\ ~(WordSum(b, l) > WordSum(z, f))
                                 /\ o >= f
                                 /\ o < WordSum(z, f)
    BY DEF ContainsWindow, WindowEnd
  <1> HIDE DEF r, f, z, v, b, o, l
  <1>6. ~Carries(z, f) /\ WordSum(z, f) = f + z /\ WordSum(b, l) = b + l
    BY <1>2, <1>3, <1>4 DEF Carries, WordSum
  <1>7. ContainsWindow(r, c) <=> f <= b /\ b + l <= f + z
    BY <1>2, <1>4, <1>5, <1>6
  <1>8. ContainsWindow(r, c) =>
           /\ ~Carries(WordDifference(o, f), v)
           /\ WordSum(WordDifference(o, f), v) = v + (o - f)
    <2> SUFFICES ASSUME f <= b, b + l <= f + z
                 PROVE  /\ ~Carries(WordDifference(o, f), v)
                        /\ WordSum(WordDifference(o, f), v) = v + (o - f)
      BY <1>7
    <2>1. f <= o /\ (o - f) < z /\ WordDifference(o, f) = o - f
      BY <1>2, <1>4 DEF WordDifference
    <2>2. (o - f) + v <= WordMax
      BY <1>1, <1>2, <1>4, <2>1
    <2> QED BY <1>2, <1>4, <2>1, <2>2 DEF Carries, WordSum
  <1> QED BY <1>6, <1>7, <1>8 DEF r, f, z, v, b, o, l

LEMMA MappingIs ==
    ASSUME RInv, Finished, pc = "done", status = EXIT_OK, NEW k \in Rows
    PROVE  MappingAccepts(records[k]) /\ Attributed(records[k])
  <1> DEFINE c == records[k]
  <1>1. /\ Sound(c) /\ c.region \in 1 .. Len(object.regions) /\ InRegion(c, object.regions[c.region])
        /\ object \in Objects
    BY FoundIs DEF RInv, IInv, TypeOK
  <1>2. c.byteLen \in Nat
    <2>1. k \in 1 .. Len(records) /\ c \in Record
      BY ElementOfSeq DEF RInv, IInv, TypeOK, Rows
    <2> QED BY <2>1, WordMaxAssumption DEF Record, Word
  <1>3. \A i \in 1 .. Len(object.regions) : Enumeration!InFile(Asked, object.regions[i])
    BY DEF Finished
  <1> HIDE DEF c
  <1>4. c.byteStart \in Nat /\ c.fileOffset \in Nat /\ c.byteStart <= c.fileOffset
    BY <1>1 DEF Sound
  <1>5. c.fileOffset < c.byteStart + c.byteLen /\ c.byteStart + c.byteLen <= WordMax
    <2>1. object.fileSize \in Nat /\ object.fileSize <= WordMax /\ object.regions[c.region] \in Region
      BY <1>1, ObjectTyped, ElementOfSeq, WordMaxAssumption DEF Word
    <2>2. object.regions[c.region].fileOffset + object.regions[c.region].filesz \in Nat
      BY <2>1, WordMaxAssumption DEF Region, Word
    <2> QED BY <1>1, <1>2, <1>4, <2>1, <2>2, WordMaxAssumption DEF InRegion
  <1>6. DOMAIN object.regions = 1 .. Len(object.regions)
    BY <1>1, ObjectTyped
  <1>7. \A i \in 1 .. Len(object.regions) :
           /\ ~Carries(object.regions[i].filesz, object.regions[i].fileOffset)
           /\ ContainsWindow(object.regions[i], c) <=>
                 /\ object.regions[i].fileOffset <= c.byteStart
                 /\ c.byteStart + c.byteLen <= object.regions[i].fileOffset + object.regions[i].filesz
           /\ ContainsWindow(object.regions[i], c) =>
                 LET r == object.regions[i]
                 IN  /\ ~Carries(WordDifference(c.fileOffset, r.fileOffset), r.vaddr)
                     /\ WordSum(WordDifference(c.fileOffset, r.fileOffset), r.vaddr)
                           = r.vaddr + (c.fileOffset - r.fileOffset)
    BY <1>1, <1>2, <1>3, <1>4, <1>5, RegionContains
  <1>8. \A i \in 1 .. Len(object.regions) :
           i \in Contributors(c) <=>
              /\ object.regions[i].fileOffset <= c.byteStart
              /\ c.byteStart + c.byteLen <= object.regions[i].fileOffset + object.regions[i].filesz
              /\ object.regions[i].vaddr + (c.fileOffset - object.regions[i].fileOffset) = c.virtualAddress
    BY <1>6, <1>7 DEF Contributors
  <1>9. c.region \in Contributors(c)
    BY <1>1, <1>8 DEF InRegion
  <1>10. Contributors(c) \subseteq 1 .. Len(object.regions)
    BY <1>6 DEF Contributors
  <1>11. Attributed(c)
    <2> SUFFICES ASSUME NEW i \in Contributors(c)
                 PROVE  /\ object.regions[i].fileOffset <= c.byteStart
                        /\ c.byteStart + c.byteLen <= object.regions[i].fileOffset + object.regions[i].filesz
                        /\ c.fileOffset + object.regions[i].vaddr
                              = c.virtualAddress + object.regions[i].fileOffset
      BY <1>9 DEF Attributed
    <2>1. i \in 1 .. Len(object.regions)
      BY <1>10
    <2>2. object.regions[i] \in Region
      BY <1>1, <2>1, ObjectTyped, ElementOfSeq
    <2>3. object.regions[i].fileOffset \in Nat /\ object.regions[i].vaddr \in Nat
      BY <2>2, WordMaxAssumption DEF Region, Word
    <2> QED BY <1>4, <1>8, <2>1, <2>3
  <1>12. MappingAccepts(c)
    <2>1. c.byteLen # 0 /\ ~Carries(c.byteStart, c.byteLen) /\ c.fileOffset < WindowEnd(c)
      BY <1>2, <1>4, <1>5, WordMaxAssumption DEF Carries, WindowEnd, WordSum
    <2> QED BY <1>4, <1>6, <1>7, <1>9, <2>1 DEF MappingAccepts
  <1> QED BY <1>11, <1>12 DEF c

-----------------------------------------------------------------------------
(* What the passes have written by each stage.                             *)

\* The stages at which each pass has ended.
AfterPatterns == {"classify", "evidence", "mapping", "memory", "effect", "role", "scoring", "labels",
                  "summary", "complete", "printed"}
AfterFacts    == AfterPatterns \ {"classify"}
AfterEvidence == AfterFacts \ {"evidence"}
AfterMapping  == AfterEvidence \ {"mapping"}
AfterMemory   == AfterMapping \ {"memory"}
AfterEffects  == AfterMemory \ {"effect"}

\* The counters the commands keep.
Counters == {"pattern", "semantic", "unknown", "scored", "classes", "controlled"}

\* What each pass has written, for every row: the next passes leave it alone.
PatternsWritten ==
    /\ patterns = [k \in Rows |-> PatternOf(records[k])]
    /\ counts.pattern = Len(records)

\* The rows of a class.
OfClass(class) == {k \in Rows : semantics[k].class = class}

FactsWritten ==
    /\ semantics = [k \in Rows |-> Classified(records[k], patterns[k])]
    /\ counts.unknown = Cardinality(OfClass("unknown"))
    /\ counts.semantic = Len(records) - counts.unknown
    /\ \A class \in Classes : counts.classes[class] = Cardinality(OfClass(class))

EvidenceWritten ==
    /\ DOMAIN evidence = Rows
    /\ \A k \in Rows :
          /\ {"offset", "length", "regions"} \subseteq DOMAIN evidence[k]
          /\ evidence[k].offset = WordDifference(records[k].byteLen, SuffixLength(patterns[k]))
          /\ evidence[k].length = SuffixLength(patterns[k])

MappingWritten == \A k \in Rows : evidence[k].regions = Contributors(records[k])

MemoryWritten == memory = [k \in Rows |-> MemoryEffect(patterns[k])]

EffectsWritten == effects = [k \in Rows |-> EffectOf(patterns[k], semantics[k].delta)]

\* What has been written by the stage reached.
Written ==
    /\ stage \in AfterPatterns => PatternsWritten
    /\ stage \in AfterFacts => FactsWritten
    /\ stage \in AfterEvidence => EvidenceWritten
    /\ stage \in AfterMapping => MappingWritten
    /\ stage \in AfterMemory => MemoryWritten
    /\ stage \in AfterEffects => EffectsWritten

\* No pass begins before a scan that ended well, and none ends in a refusal.
Ready ==
    /\ stage \in AfterPatterns \cup {"stripped", "regions", "scan", EXIT_MALFORMED_ELF}
    /\ stage \in AfterPatterns => pc = "done" /\ status = EXIT_OK
    /\ Counters \subseteq DOMAIN counts

\* The inductive invariant of the passes.
FInv == RInv /\ Finished /\ Ready /\ Written

-----------------------------------------------------------------------------
(* The end of the scan.                                                    *)

LEMMA FinishedKept ==
    ASSUME UNCHANGED <<object, capacity, records, pc, status>>, Finished
    PROVE  Finished'
  <1> SUFFICES ASSUME pc = "done", status = EXIT_OK
               PROVE  /\ Enumeration!DepthAccepted(Asked)'
                      /\ capacity' = Asked'.capacity
                      /\ \A i \in 1 .. Len(object'.regions) : Enumeration!InFile(Asked, object.regions[i])'
                      /\ Found' = Enumeration!CandidatesUpTo(Asked, Len(object.regions))'
    BY DEF Finished
  <1>1. /\ Enumeration!DepthAccepted(Asked)
        /\ capacity = Asked.capacity
        /\ \A i \in 1 .. Len(object.regions) : Enumeration!InFile(Asked, object.regions[i])
        /\ Found = Enumeration!CandidatesUpTo(Asked, Len(object.regions))
    BY DEF Finished
  <1>2. Found' = Found
    BY DEF Found
  <1>3. Enumeration!CandidatesUpTo(Asked, Len(object.regions))'
          = Enumeration!CandidatesUpTo(Asked, Len(object.regions))
    BY AskedKept
  <1>4. \A i \in 1 .. Len(object'.regions) : Enumeration!InFile(Asked, object.regions[i])'
    BY <1>1, AskedKept
  <1>5. Enumeration!DepthAccepted(Asked)' /\ capacity' = Asked'.capacity
    BY <1>1, AskedKept
  <1> QED BY <1>1, <1>2, <1>3, <1>4, <1>5

LEMMA ScanFinishes == ASSUME RInv, Step PROVE Finished'
  <1>1. CASE RegionsDone
    <2>1. /\ object' = object /\ records' = records /\ capacity' = capacity /\ pc = "region"
          /\ region > Len(object.regions) /\ region \in 1 .. Len(object.regions) + 1
          /\ Collected /\ object \in Objects
      BY <1>1 DEF RegionsDone, Return, summary, RInv, EInv, IInv, TypeOK
    <2>2. region - 1 = Len(object.regions)
      BY <2>1, ObjectTyped
    <2>3. /\ Enumeration!DepthAccepted(Asked)
          /\ capacity = Asked.capacity
          /\ \A i \in 1 .. Len(object.regions) : Enumeration!InFile(Asked, object.regions[i])
      BY <2>1, <2>2 DEF Collected
    <2>4. Found = Enumeration!CandidatesUpTo(Asked, Len(object.regions))
      <3>1. Found = Enumeration!CandidatesUpTo(Asked, region - 1)
        BY <2>1 DEF Collected
      <3> QED BY <2>2, <3>1
    <2>5. Found' = Found
      BY <2>1 DEF Found
    <2>6. Enumeration!CandidatesUpTo(Asked, Len(object.regions))'
            = Enumeration!CandidatesUpTo(Asked, Len(object.regions))
      BY <2>1, AskedKept
    <2>7. \A i \in 1 .. Len(object'.regions) : Enumeration!InFile(Asked, object.regions[i])'
      BY <2>1, <2>3, AskedKept
    <2>8. Enumeration!DepthAccepted(Asked)' /\ capacity' = Asked'.capacity
      BY <2>1, <2>3, AskedKept
    <2> QED BY <2>4, <2>5, <2>6, <2>7, <2>8 DEF Finished
  <1>2. CASE RejectDepth \/ RejectRegion \/ CapacityExceeded
    <2>1. status' \in {EXIT_UNSUPPORTED, EXIT_MALFORMED_ELF}
      BY <1>2 DEF RejectDepth, RejectRegion, CapacityExceeded, Return
    <2>2. status' # EXIT_OK
      BY <2>1 DEF EXIT_OK, EXIT_UNSUPPORTED, EXIT_MALFORMED_ELF
    <2> QED BY <2>2 DEF Finished
  <1>3. CASE BeginScan \/ SkipEmptyRegion \/ EnterRegion \/ LeaveRegion \/ AdvanceByte \/ StoreCandidate
    <2>1. pc' # "done"
      BY <1>3 DEF BeginScan, SkipEmptyRegion, EnterRegion, LeaveRegion, AdvanceByte, StoreCandidate
    <2> QED BY <2>1 DEF Finished
  <1> QED BY <1>1, <1>2, <1>3 DEF Step

-----------------------------------------------------------------------------
(* What the passes have written stays, while the records do.               *)

LEMMA WrittenKept ==
    ASSUME object' = object, records' = records
    PROVE  /\ PatternsWritten /\ patterns' = patterns /\ counts'.pattern = counts.pattern => PatternsWritten'
           /\ FactsWritten /\ UNCHANGED <<patterns, semantics>> /\ counts'.unknown = counts.unknown
                /\ counts'.semantic = counts.semantic /\ counts'.classes = counts.classes => FactsWritten'
           /\ EvidenceWritten /\ UNCHANGED <<patterns, evidence>> => EvidenceWritten'
           /\ MappingWritten /\ UNCHANGED evidence => MappingWritten'
           /\ MemoryWritten /\ UNCHANGED <<patterns, memory>> => MemoryWritten'
           /\ EffectsWritten /\ UNCHANGED <<patterns, semantics, effects>> => EffectsWritten'
  <1>1. Rows' = Rows
    BY DEF Rows
  <1>2. ASSUME PatternsWritten, patterns' = patterns, counts'.pattern = counts.pattern
        PROVE  PatternsWritten'
    <2>1. patterns' = [k \in Rows' |-> PatternOf(records[k])']
      BY <1>1, <1>2, PatternsKept DEF PatternsWritten
    <2>2. counts'.pattern = Len(records')
      BY <1>2 DEF PatternsWritten
    <2> QED BY <2>1, <2>2 DEF PatternsWritten
  <1>3. ASSUME FactsWritten, UNCHANGED <<patterns, semantics>>, counts'.unknown = counts.unknown,
               counts'.semantic = counts.semantic, counts'.classes = counts.classes
        PROVE  FactsWritten'
    <2>1. semantics' = [k \in Rows' |-> Classified(records[k], patterns[k])']
      BY <1>1, <1>3, FactsKept DEF FactsWritten
    <2>2. \A class : OfClass(class)' = OfClass(class)
      BY <1>1, <1>3 DEF OfClass
    <2>3. /\ counts'.unknown = Cardinality(OfClass("unknown")')
          /\ \A class \in Classes : counts'.classes[class] = Cardinality(OfClass(class)')
      BY <1>3, <2>2, Zenon DEF FactsWritten
    <2>4. counts'.semantic = Len(records') - counts'.unknown
      BY <1>3 DEF FactsWritten
    <2> QED BY <2>1, <2>3, <2>4, Zenon DEF FactsWritten
  <1>4. ASSUME EvidenceWritten, UNCHANGED <<patterns, evidence>> PROVE EvidenceWritten'
    BY <1>1, <1>4 DEF EvidenceWritten
  <1>5. ASSUME MappingWritten, UNCHANGED evidence PROVE MappingWritten'
    BY <1>1, <1>5, ContributorsKept DEF MappingWritten
  <1>6. ASSUME MemoryWritten, UNCHANGED <<patterns, memory>> PROVE MemoryWritten'
    BY <1>1, <1>6 DEF MemoryWritten
  <1>7. ASSUME EffectsWritten, UNCHANGED <<patterns, semantics, effects>> PROVE EffectsWritten'
    BY <1>1, <1>7 DEF EffectsWritten
  <1> QED BY <1>2, <1>3, <1>4, <1>5, <1>6, <1>7

-----------------------------------------------------------------------------
(* What a row holds once it has been written.                              *)

LEMMA RowsAre ==
    ASSUME RInv
    PROVE  /\ Rows = 1 .. Len(records) /\ Len(records) \in Nat
           /\ IsFiniteSet(Rows) /\ Cardinality(Rows) = Len(records)
  <1>1. records \in Seq(Record)
    BY DEF RInv, IInv, TypeOK
  <1>2. Rows = 1 .. Len(records) /\ Len(records) \in Nat
    BY <1>1 DEF Rows
  <1> QED BY <1>2, FS_Interval

LEMMA RowTold ==
    ASSUME FInv, stage \in AfterPatterns, NEW k \in Rows
    PROVE  Told(records[k], patterns[k])
  <1>1. patterns[k] = PatternOf(records[k])
    BY DEF FInv, Written, PatternsWritten
  <1>2. Told(records[k], PatternOf(records[k]))
    BY FoundIs, ToldOf DEF FInv, Ready
  <1> QED BY <1>1, <1>2

LEMMA RowConsistent ==
    ASSUME FInv, stage \in AfterFacts, NEW k \in Rows
    PROVE  /\ Consistent(records[k], patterns[k], semantics[k])
           /\ SuffixLength(patterns[k]) = Len(Reading(records[k])) + Ending(records[k])
           /\ Described(records[k], Meaning(records[k]), semantics[k],
                        EffectOf(patterns[k], semantics[k].delta), MemoryEffect(patterns[k]))
  <1>1. semantics[k] = Classified(records[k], patterns[k]) /\ stage \in AfterPatterns
    BY DEF FInv, Written, FactsWritten, AfterFacts
  <1>2. Told(records[k], patterns[k])
    BY <1>1, RowTold
  <1> QED BY <1>1, <1>2 DEF Told

\* The suffix is inside the window.
LEMMA RowFits ==
    ASSUME FInv, stage \in AfterPatterns, NEW k \in Rows
    PROVE  /\ SuffixLength(patterns[k]) \in Nat /\ records[k].byteLen \in Nat
           /\ SuffixLength(patterns[k]) <= records[k].byteLen
  <1> DEFINE c == records[k]
  <1>1. Sound(c) /\ c.byteLen = Room(c) + Ending(c)
    BY FoundIs DEF FInv, Ready
  <1>2. SuffixLength(patterns[k]) = Len(Reading(c)) + Ending(c)
    BY RowTold DEF Told
  <1> HIDE DEF c
  <1>3. Len(Reading(c)) \in 0 .. 4 /\ Len(Reading(c)) <= Room(c) /\ Room(c) \in Nat
    BY <1>1, ReadingFits, ValidLengths
  <1>4. Ending(c) \in {1, 3}
    BY DEF Ending
  <1> QED BY <1>1, <1>2, <1>3, <1>4 DEF c

-----------------------------------------------------------------------------
(* The passes, one after the other.                                        *)

LEMMA PassFrame ==
    ASSUME NEW now, NEW next, NEW accepted, Pass(now, next, accepted)
    PROVE  /\ stage = now /\ object' = object /\ records' = records /\ capacity' = capacity
           /\ pc' = pc /\ status' = status /\ Rows' = Rows
           /\ accepted => stage' = next
  BY DEF Pass, vars, summary, Rows

LEMMA MatchWrites == ASSUME FInv, MatchPatterns PROVE Ready' /\ Written'
  <1>1. Pass("scan", "classify", TRUE)
    BY DEF MatchPatterns
  <1>2. /\ object' = object /\ records' = records /\ pc' = pc /\ status' = status /\ Rows' = Rows
        /\ stage' = "classify"
    BY <1>1, PassFrame
  <1>3. /\ patterns' = [k \in Rows |-> PatternOf(records[k])]
        /\ counts' = [counts EXCEPT !.pattern = Len(records)]
        /\ pc = "done" /\ status = EXIT_OK
    BY DEF MatchPatterns
  <1>4. Counters \subseteq DOMAIN counts /\ DOMAIN counts' = DOMAIN counts /\ counts'.pattern = Len(records)
    BY <1>3 DEF FInv, Ready, Counters
  <1>5. patterns' = [k \in Rows' |-> PatternOf(records[k])']
    BY <1>2, <1>3, PatternsKept
  <1>6. PatternsWritten'
    BY <1>2, <1>4, <1>5 DEF PatternsWritten
  <1>7. Ready'
    BY <1>2, <1>3, <1>4 DEF Ready, AfterPatterns
  <1> QED BY <1>2, <1>6, <1>7 DEF Written, AfterPatterns, AfterFacts, AfterEvidence, AfterMapping, AfterMemory, AfterEffects

LEMMA ClassifyWrites == ASSUME FInv, Classify PROVE Ready' /\ Written'
  <1> DEFINE accepted == \A k \in Rows : ClassifierAccepts(records[k], patterns[k])
             Of(class) == Cardinality({k \in Rows : semantics'[k].class = class})
             unknown == Of("unknown")
             semantic == Len(records) - unknown
             classes == [class \in Classes |-> Of(class)]
             controlled == UNION {semantics'[k].controlled : k \in Rows}
  <1>1. /\ Pass("classify", "evidence", accepted)
        /\ semantics' = [k \in Rows |-> Classified(records[k], patterns[k])]
        /\ UNCHANGED <<patterns, evidence, memory, effects, roles, scores>>
        /\ counts' = [counts EXCEPT !.unknown = unknown, !.semantic = semantic,
                                    !.classes = classes, !.controlled = controlled]
    BY DEF Classify
  <1>2. stage = "classify"
    BY <1>1, PassFrame
  <1>3. accepted
    <2> SUFFICES ASSUME NEW k \in Rows PROVE ClassifierAccepts(records[k], patterns[k])
      OBVIOUS
    <2>1. Told(records[k], patterns[k])
      BY <1>2, RowTold DEF AfterPatterns
    <2> QED BY <2>1, Zenon DEF Told, Consistent
  <1>4. /\ object' = object /\ records' = records /\ pc' = pc /\ status' = status /\ Rows' = Rows
        /\ stage' = "evidence"
    BY <1>1, <1>3, PassFrame
  <1>5. Counters \subseteq DOMAIN counts /\ PatternsWritten
    BY <1>2 DEF FInv, Ready, Written, AfterPatterns
  <1>6. \A class : OfClass(class)' = {k \in Rows : semantics'[k].class = class}
    BY <1>4 DEF OfClass
  <1>7. \A class : Of(class) = Cardinality(OfClass(class)')
    BY <1>6
  <1> HIDE DEF accepted, unknown, semantic, classes, controlled
  <1>8. /\ DOMAIN counts' = DOMAIN counts /\ counts'.unknown = unknown /\ counts'.semantic = semantic
        /\ counts'.classes = classes /\ counts'.pattern = counts.pattern
    BY <1>1, <1>5 DEF Counters
  <1>9. PatternsWritten'
    BY <1>1, <1>4, <1>5, <1>8, WrittenKept
  <1>10. semantics' = [k \in Rows' |-> Classified(records[k], patterns[k])']
    BY <1>1, <1>4, FactsKept
  <1>11. counts'.unknown = Cardinality(OfClass("unknown")')
    BY <1>7, <1>8, Zenon DEF unknown
  <1>12. \A class \in Classes : counts'.classes[class] = Cardinality(OfClass(class)')
    <2> HIDE DEF Of
    <2> QED BY <1>7, <1>8 DEF classes
  <1>13. counts'.semantic = Len(records') - counts'.unknown
    BY <1>4, <1>8 DEF semantic
  <1>14. FactsWritten'
    BY <1>10, <1>11, <1>12, <1>13, Zenon DEF FactsWritten
  <1>15. Ready'
    BY <1>2, <1>4, <1>5, <1>8 DEF FInv, Ready, AfterPatterns
  <1> QED BY <1>4, <1>9, <1>14, <1>15 DEF Written, AfterPatterns, AfterFacts, AfterEvidence, AfterMapping, AfterMemory, AfterEffects

LEMMA EvidenceWrites == ASSUME FInv, GatherEvidence PROVE Ready' /\ Written'
  <1>1. /\ Pass("evidence", "mapping", EvidenceAccepts)
        /\ evidence' = [k \in Rows |-> Evidence(records[k], patterns[k], semantics[k])]
        /\ UNCHANGED <<patterns, semantics, memory, effects, roles, scores, counts>>
    BY DEF GatherEvidence
  <1>2. stage = "evidence" /\ stage \in AfterPatterns /\ stage \in AfterFacts
    BY <1>1, PassFrame DEF AfterPatterns, AfterFacts
  <1>3. PatternsWritten /\ FactsWritten
    BY <1>2 DEF FInv, Written
  <1>4. EvidenceAccepts
    <2>1. InTable
      <3>1. Len(records) <= capacity /\ capacity = Asked.capacity /\ Len(records) \in Nat /\ object \in Objects
        BY <1>2, RowsAre DEF FInv, Ready, Finished, RInv, IInv, TableBounded, TypeOK
      <3>2. Asked.capacity <= DefaultCapacity /\ Asked.capacity \in Nat /\ DefaultCapacity \in Nat
        BY <3>1, AskedFields, ReportAssumption, ScannerAssumption
      <3> QED BY <3>1, <3>2 DEF InTable
    <2>2. \A k \in Rows : OrderSound(patterns[k]) /\ records[k].byteLen >= SuffixLength(patterns[k])
      <3> SUFFICES ASSUME NEW k \in Rows
                   PROVE  OrderSound(patterns[k]) /\ records[k].byteLen >= SuffixLength(patterns[k])
        OBVIOUS
      <3>1. OrderSound(patterns[k])
        BY <1>2, RowConsistent, Zenon DEF Consistent
      <3>2. /\ SuffixLength(patterns[k]) \in Nat /\ records[k].byteLen \in Nat
            /\ SuffixLength(patterns[k]) <= records[k].byteLen
        BY <1>2, RowFits
      <3> QED BY <3>1, <3>2
    <2>3. Len(patterns) = counts.pattern
      BY <1>3, RowsAre DEF FInv, PatternsWritten
    <2> DEFINE U == {k \in Rows : semantics[k].class = "unknown"}
               V == {k \in Rows : semantics[k].class # "unknown"}
    <2>4. Cardinality(U) = counts.unknown
      BY <1>3 DEF FactsWritten, OfClass
    <2>5. IsFiniteSet(Rows) /\ Cardinality(Rows) = Len(records) /\ Len(records) \in Nat
      BY RowsAre DEF FInv
    <2>6. V = Rows \ U /\ Rows \cap U = U /\ U \in SUBSET Rows
      OBVIOUS
    <2> HIDE DEF U, V
    <2>7. Cardinality(U) \in Nat
      BY <2>5, <2>6, FS_Subset, FS_CardinalityType
    <2>8. Cardinality(Rows \ U) = Cardinality(Rows) - Cardinality(Rows \cap U)
      BY <2>5, FS_Difference
    <2>9. Cardinality(V) = Len(records) - Cardinality(U)
      BY <2>5, <2>6, <2>8
    <2>10. counts.semantic = Len(records) - counts.unknown
      BY <1>3 DEF FactsWritten
    <2>11. Cardinality(V) = counts.semantic /\ counts.semantic + counts.unknown = Len(records)
      BY <2>4, <2>5, <2>7, <2>9, <2>10
    <2> QED BY <2>1, <2>2, <2>3, <2>4, <2>11 DEF EvidenceAccepts, U, V
  <1>5. /\ object' = object /\ records' = records /\ pc' = pc /\ status' = status /\ Rows' = Rows
        /\ stage' = "mapping"
    BY <1>1, <1>4, PassFrame
  <1>6. PatternsWritten' /\ FactsWritten'
    BY <1>1, <1>3, <1>5, WrittenKept
  <1>7. EvidenceWritten'
    <2>1. ASSUME NEW k \in Rows
          PROVE  /\ {"offset", "length", "regions"} \subseteq DOMAIN evidence'[k]
                 /\ evidence'[k].offset = WordDifference(records[k].byteLen, SuffixLength(patterns[k]))
                 /\ evidence'[k].length = SuffixLength(patterns[k])
      <3>1. evidence'[k] = Evidence(records[k], patterns[k], semantics[k])
        BY <1>1
      <3> QED BY <3>1 DEF Evidence
    <2>2. DOMAIN evidence' = Rows
      BY <1>1
    <2> QED BY <1>1, <1>5, <2>1, <2>2 DEF EvidenceWritten
  <1>8. Ready'
    BY <1>1, <1>2, <1>5 DEF FInv, Ready, AfterPatterns
  <1> QED BY <1>5, <1>6, <1>7, <1>8 DEF Written, AfterPatterns, AfterFacts, AfterEvidence, AfterMapping, AfterMemory, AfterEffects

\* The table is large enough for every pass that looks.
LEMMA TableFits == ASSUME FInv, stage \in AfterPatterns PROVE InTable /\ capacity <= DefaultCapacity /\ capacity # 0
  <1>1. /\ Len(records) <= capacity /\ capacity = Asked.capacity /\ Len(records) \in Nat
        /\ object \in Objects
    BY RowsAre DEF FInv, Ready, Finished, RInv, IInv, TableBounded, TypeOK
  <1>2. /\ Asked.capacity <= DefaultCapacity /\ Asked.capacity \in Nat /\ DefaultCapacity \in Nat
        /\ Asked.capacity # 0
    BY <1>1, AskedFields, ReportAssumption, ScannerAssumption
  <1> QED BY <1>1, <1>2 DEF InTable

LEMMA MappingWrites == ASSUME FInv, MapToRegions PROVE Ready' /\ Written'
  <1> DEFINE accepted == /\ InTable /\ capacity <= DefaultCapacity
                         /\ \A k \in Rows : MappingAccepts(records[k])
  <1>1. /\ Pass("mapping", "memory", accepted)
        /\ evidence' = [k \in Rows |-> [evidence[k] EXCEPT !.regions = Contributors(records[k])]]
        /\ UNCHANGED <<patterns, semantics, memory, effects, roles, scores, counts>>
    BY DEF MapToRegions
  <1>2. stage = "mapping" /\ stage \in AfterPatterns
    BY <1>1, PassFrame DEF AfterPatterns
  <1>3. PatternsWritten /\ FactsWritten /\ EvidenceWritten
    BY <1>2 DEF FInv, Written, AfterPatterns, AfterFacts, AfterEvidence
  <1>4. accepted
    <2>1. \A k \in Rows : MappingAccepts(records[k])
      BY <1>2, MappingIs DEF FInv, Ready
    <2> QED BY <1>2, <2>1, TableFits
  <1>5. /\ object' = object /\ records' = records /\ pc' = pc /\ status' = status /\ Rows' = Rows
        /\ stage' = "memory"
    BY <1>1, <1>4, PassFrame
  <1> HIDE DEF accepted
  <1>6. PatternsWritten' /\ FactsWritten'
    BY <1>1, <1>3, <1>5, WrittenKept
  <1>7. EvidenceWritten' /\ MappingWritten'
    <2>1. ASSUME NEW k \in Rows
          PROVE  /\ {"offset", "length", "regions"} \subseteq DOMAIN evidence'[k]
                 /\ evidence'[k].offset = WordDifference(records[k].byteLen, SuffixLength(patterns[k]))
                 /\ evidence'[k].length = SuffixLength(patterns[k])
                 /\ evidence'[k].regions = Contributors(records[k])
      <3>1. evidence'[k] = [evidence[k] EXCEPT !.regions = Contributors(records[k])]
        BY <1>1
      <3> QED BY <1>3, <3>1 DEF EvidenceWritten
    <2>2. DOMAIN evidence' = Rows
      BY <1>1
    <2> QED BY <1>1, <1>5, <2>1, <2>2, ContributorsKept DEF EvidenceWritten, MappingWritten
  <1>8. Ready'
    BY <1>1, <1>2, <1>5 DEF FInv, Ready, AfterPatterns
  <1> QED BY <1>5, <1>6, <1>7, <1>8 DEF Written, AfterPatterns, AfterFacts, AfterEvidence, AfterMapping, AfterMemory, AfterEffects

LEMMA MemoryWrites == ASSUME FInv, RecordMemory PROVE Ready' /\ Written'
  <1> DEFINE accepted == /\ InTable /\ MemoryCountsAgree
                         /\ \A k \in Rows : MemoryAccepts(patterns[k], semantics[k])
  <1>1. /\ Pass("memory", "effect", accepted)
        /\ memory' = [k \in Rows |-> MemoryEffect(patterns[k])]
        /\ UNCHANGED <<patterns, semantics, evidence, effects, roles, scores, counts>>
    BY DEF RecordMemory
  <1>2. stage = "memory" /\ stage \in AfterPatterns /\ stage \in AfterFacts
    <2>1. stage = "memory"
      BY <1>1, Zenon DEF Pass
    <2> QED BY <2>1 DEF AfterPatterns, AfterFacts
  <1>3. PatternsWritten /\ FactsWritten /\ EvidenceWritten /\ MappingWritten
    BY <1>2 DEF FInv, Written, AfterPatterns, AfterFacts, AfterEvidence, AfterMapping
  <1>4. accepted
    <2>1. ASSUME NEW k \in Rows PROVE Consistent(records[k], patterns[k], semantics[k])
      BY <1>2, RowConsistent
    <2>2. ASSUME NEW k \in Rows PROVE MemoryAccepts(patterns[k], semantics[k])
      BY <2>1, Zenon DEF Consistent
    <2>3. MemoryCountsAgree
      <3> DEFINE stores == {k \in Rows : patterns[k].kind = "store"}
                 loads == {k \in Rows : patterns[k].kind = "load"}
      <3>1. OfClass("memory write") = stores /\ OfClass("memory read") = loads
        BY <2>1, Zenon DEF OfClass, Consistent
      <3>2. "memory write" \in Classes /\ "memory read" \in Classes
        BY Zenon DEF Classes
      <3>3. /\ counts.classes["memory write"] = Cardinality(OfClass("memory write"))
            /\ counts.classes["memory read"] = Cardinality(OfClass("memory read"))
        BY <1>3, <3>2, Zenon DEF FactsWritten
      <3> QED BY <3>1, <3>3, Zenon DEF MemoryCountsAgree
    <2> QED BY <1>2, <2>2, <2>3, TableFits
  <1>5. /\ object' = object /\ records' = records /\ pc' = pc /\ status' = status /\ Rows' = Rows
        /\ stage' = "effect"
    BY <1>1, <1>4, PassFrame
  <1> HIDE DEF accepted
  <1>6. PatternsWritten' /\ FactsWritten' /\ EvidenceWritten' /\ MappingWritten'
    BY <1>1, <1>3, <1>5, WrittenKept
  <1>7. MemoryWritten'
    BY <1>1, <1>5 DEF MemoryWritten
  <1>8. Ready'
    BY <1>1, <1>2, <1>5 DEF FInv, Ready, AfterPatterns
  <1> QED BY <1>5, <1>6, <1>7, <1>8 DEF Written, AfterPatterns, AfterFacts, AfterEvidence, AfterMapping, AfterMemory, AfterEffects

LEMMA EffectsWrites == ASSUME FInv, RecordEffects PROVE Ready' /\ Written'
  <1> DEFINE accepted == /\ InTable /\ Len(patterns) = counts.pattern
                         /\ \A k \in Rows : EffectAccepts(k)
  <1>1. /\ Pass("effect", "role", accepted)
        /\ effects' = [k \in Rows |-> EffectOf(patterns[k], semantics[k].delta)]
        /\ UNCHANGED <<patterns, semantics, evidence, memory, roles, scores, counts>>
    BY DEF RecordEffects
  <1>2. stage = "effect" /\ stage \in AfterPatterns /\ stage \in AfterFacts
    <2>1. stage = "effect"
      BY <1>1, Zenon DEF Pass
    <2> QED BY <2>1 DEF AfterPatterns, AfterFacts
  <1>3. PatternsWritten /\ FactsWritten /\ EvidenceWritten /\ MappingWritten /\ MemoryWritten
    BY <1>2 DEF FInv, Written, AfterPatterns, AfterFacts, AfterEvidence, AfterMapping, AfterMemory
  <1>4. accepted
    <2>1. ASSUME NEW k \in Rows PROVE EffectAccepts(k)
      <3>1. Consistent(records[k], patterns[k], semantics[k])
        BY <1>2, RowConsistent
      <3>2. memory[k] = MemoryEffect(patterns[k])
        BY <1>3 DEF MemoryWritten
      <3> QED BY <3>1, <3>2, Zenon DEF Consistent, EffectAccepts
    <2>2. Len(patterns) = counts.pattern
      BY <1>3, RowsAre DEF FInv, PatternsWritten
    <2> QED BY <1>2, <2>1, <2>2, TableFits
  <1>5. /\ object' = object /\ records' = records /\ pc' = pc /\ status' = status /\ Rows' = Rows
        /\ stage' = "role"
    BY <1>1, <1>4, PassFrame
  <1> HIDE DEF accepted
  <1>6. PatternsWritten' /\ FactsWritten' /\ EvidenceWritten' /\ MappingWritten' /\ MemoryWritten'
    BY <1>1, <1>3, <1>5, WrittenKept
  <1>7. EffectsWritten'
    BY <1>1, <1>5 DEF EffectsWritten
  <1>8. Ready'
    BY <1>1, <1>2, <1>5 DEF FInv, Ready, AfterPatterns
  <1> QED BY <1>5, <1>6, <1>7, <1>8 DEF Written

LEMMA WrittenStays ==
    ASSUME Written, object' = object, records' = records,
           UNCHANGED <<patterns, semantics, evidence, memory, effects>>,
           counts'.pattern = counts.pattern, counts'.unknown = counts.unknown,
           counts'.semantic = counts.semantic, counts'.classes = counts.classes,
           stage' \notin AfterPatterns \/ stage' = stage \/ stage \in AfterEffects
    PROVE  Written'
  <1>1. /\ stage' \in AfterPatterns => stage \in AfterPatterns
        /\ stage' \in AfterFacts => stage \in AfterFacts
        /\ stage' \in AfterEvidence => stage \in AfterEvidence
        /\ stage' \in AfterMapping => stage \in AfterMapping
        /\ stage' \in AfterMemory => stage \in AfterMemory
        /\ stage' \in AfterEffects => stage \in AfterEffects
    <2> HIDE DEF AfterPatterns
    <2> QED BY DEF AfterFacts, AfterEvidence, AfterMapping, AfterMemory, AfterEffects
  <1>2. /\ PatternsWritten => PatternsWritten'
        /\ FactsWritten => FactsWritten'
        /\ EvidenceWritten => EvidenceWritten'
        /\ MappingWritten => MappingWritten'
        /\ MemoryWritten => MemoryWritten'
        /\ EffectsWritten => EffectsWritten'
    BY WrittenKept
  <1> QED BY <1>1, <1>2, Zenon DEF Written

LEMMA RolesWrite == ASSUME FInv, AssignRoles PROVE Ready' /\ Written'
  <1> DEFINE accepted == InTable /\ \A k \in Rows : patterns[k].kind = "pop" => OrderSound(patterns[k])
  <1>1. /\ Pass("role", "scoring", accepted)
        /\ UNCHANGED <<patterns, semantics, evidence, memory, effects, scores, counts>>
    BY DEF AssignRoles
  <1>2. stage = "role" /\ stage \in AfterPatterns /\ stage \in AfterFacts /\ stage \in AfterEffects
    <2>1. stage = "role"
      BY <1>1, Zenon DEF Pass
    <2> QED BY <2>1 DEF AfterPatterns, AfterFacts, AfterEvidence, AfterMapping, AfterMemory, AfterEffects
  <1>3. accepted
    <2>1. ASSUME NEW k \in Rows PROVE OrderSound(patterns[k])
      BY <1>2, RowConsistent, Zenon DEF Consistent
    <2> QED BY <1>2, <2>1, TableFits
  <1>4. /\ object' = object /\ records' = records /\ pc' = pc /\ status' = status
        /\ stage' = "scoring"
    BY <1>1, <1>3, PassFrame
  <1> HIDE DEF accepted
  <1>5. Ready'
    BY <1>1, <1>2, <1>4 DEF FInv, Ready, AfterPatterns
  <1>6. Written'
    BY <1>1, <1>2, <1>4, WrittenStays DEF FInv
  <1> QED BY <1>5, <1>6

LEMMA ScoresWrite == ASSUME FInv, ApplyScores PROVE Ready' /\ Written'
  <1> DEFINE accepted == InTable /\ \A k \in Rows : ScoringAccepts(k)
             scored == Cardinality({k \in Rows : scores'[k] # 0})
  <1>1. /\ Pass("scoring", "labels", accepted)
        /\ UNCHANGED <<patterns, semantics, evidence, memory, effects, roles>>
        /\ counts' = [counts EXCEPT !.scored = scored]
    BY DEF ApplyScores
  <1>2. stage = "scoring" /\ stage \in AfterPatterns /\ stage \in AfterFacts /\ stage \in AfterEffects
    <2>1. stage = "scoring"
      BY <1>1, Zenon DEF Pass
    <2> QED BY <2>1 DEF AfterPatterns, AfterFacts, AfterEvidence, AfterMapping, AfterMemory, AfterEffects
  <1>3. accepted
    <2>1. ASSUME NEW k \in Rows PROVE ScoringAccepts(k)
      <3>1. Consistent(records[k], patterns[k], semantics[k])
        BY <1>2, RowConsistent
      <3>2. effects[k] = EffectOf(patterns[k], semantics[k].delta)
        BY <1>2 DEF FInv, Written, EffectsWritten
      <3> QED BY <3>1, <3>2, Zenon DEF Consistent, ScoringAccepts
    <2> QED BY <1>2, <2>1, TableFits
  <1>4. /\ object' = object /\ records' = records /\ pc' = pc /\ status' = status
        /\ stage' = "labels"
    BY <1>1, <1>3, PassFrame
  <1> HIDE DEF accepted, scored
  <1>5. Counters \subseteq DOMAIN counts
    BY DEF FInv, Ready
  <1>6. /\ DOMAIN counts' = DOMAIN counts /\ counts'.pattern = counts.pattern
        /\ counts'.unknown = counts.unknown /\ counts'.semantic = counts.semantic
        /\ counts'.classes = counts.classes
    BY <1>1, <1>5 DEF Counters
  <1>7. Ready'
    BY <1>2, <1>4, <1>5, <1>6 DEF FInv, Ready, AfterPatterns
  <1>8. Written'
    BY <1>1, <1>2, <1>4, <1>6, WrittenStays DEF FInv
  <1> QED BY <1>7, <1>8

LEMMA CompleteWrites == ASSUME FInv, MarkComplete PROVE Ready' /\ Written'
  <1> DEFINE accepted == /\ object.depth # 0 /\ object.depth <= DepthLimit
                         /\ capacity # 0 /\ Len(records) <= capacity
  <1>1. Pass("summary", "complete", accepted) /\ UNCHANGED tables
    BY DEF MarkComplete
  <1>2. stage = "summary" /\ stage \in AfterPatterns /\ stage \in AfterEffects
    <2>1. stage = "summary"
      BY <1>1, Zenon DEF Pass
    <2> QED BY <2>1 DEF AfterPatterns, AfterFacts, AfterEvidence, AfterMapping, AfterMemory, AfterEffects
  <1>3. accepted
    <2>1. InTable /\ capacity # 0
      BY <1>2, TableFits
    <2>2. object \in Objects /\ Enumeration!DepthAccepted(Asked)
      BY <1>2 DEF FInv, Ready, Finished, RInv, IInv, TypeOK
    <2>3. object.depth # 0 /\ object.depth <= DepthLimit
      BY <2>2, AskedFields DEF Enumeration!DepthAccepted
    <2> QED BY <2>1, <2>3 DEF InTable
  <1>4. /\ object' = object /\ records' = records /\ pc' = pc /\ status' = status
        /\ stage' = "complete"
    BY <1>1, <1>3, PassFrame
  <1> HIDE DEF accepted
  <1>5. UNCHANGED <<patterns, semantics, evidence, memory, effects, counts>>
    BY <1>1 DEF tables
  <1>6. Ready'
    BY <1>2, <1>4, <1>5 DEF FInv, Ready, AfterPatterns
  <1>7. Written'
    BY <1>2, <1>4, <1>5, WrittenStays DEF FInv
  <1> QED BY <1>6, <1>7

\* The steps that write none of the tables.
LEMMA QuietWrites ==
    ASSUME FInv, UNCHANGED <<object, records, tables>>,
           \/ UNCHANGED <<pc, status, stage>>
           \/ stage' \in {"regions", "scan", EXIT_MALFORMED_ELF}
           \/ stage \in {"labels", "complete"} /\ stage' \in {"summary", "printed"} /\ UNCHANGED <<pc, status>>
    PROVE  Ready' /\ Written'
  <1>1. UNCHANGED <<patterns, semantics, evidence, memory, effects, counts>>
    BY DEF tables
  <1>2. stage' \notin AfterPatterns \/ stage' = stage \/ stage \in AfterEffects
    BY DEF AfterPatterns, AfterFacts, AfterEvidence, AfterMapping, AfterMemory, AfterEffects, EXIT_MALFORMED_ELF
  <1>3. Written'
    BY <1>1, <1>2, WrittenStays DEF FInv
  <1>4. Ready'
    BY <1>1 DEF FInv, Ready, AfterPatterns, EXIT_MALFORMED_ELF
  <1> QED BY <1>3, <1>4

LEMMA FactsKeep == FInv /\ [ReportStep \/ Ended]_reportVars => FInv'
  <1> SUFFICES ASSUME FInv, [ReportStep \/ Ended]_reportVars PROVE FInv'
    OBVIOUS
  <1>1. RInv'
    BY ReportKeeps DEF FInv
  <1>2. Finished'
    <2>1. CASE Scans
      BY <2>1, ScanFinishes DEF Scans, FInv
    <2>2. CASE Refuses
      <3>1. status' # EXIT_OK
        BY <2>2 DEF Refuses, Return, EXIT_OK, EXIT_MALFORMED_ELF
      <3> QED BY <3>1 DEF Finished
    <2>3. CASE Stays \/ HandsOver
      <3>1. UNCHANGED <<object, capacity, records, pc, status>>
        BY <2>3 DEF Stays, HandsOver, vars, summary
      <3> QED BY <3>1, FinishedKept DEF FInv
    <2> QED BY <2>1, <2>2, <2>3, StepShape DEF FInv
  <1>3. Ready' /\ Written'
    <2>1. CASE UNCHANGED reportVars \/ Ended
      <3>1. UNCHANGED <<object, records, tables, pc, status, stage>>
        BY <2>1 DEF Ended, reportVars, allVars, vars, summary
      <3> QED BY <3>1, QuietWrites
    <2>2. CASE PrintJson \/ PrintText
      <3>1. /\ stage = "complete" /\ stage' = "printed"
            /\ UNCHANGED <<object, records, tables, pc, status>>
        BY <2>2 DEF PrintJson, PrintText, Emit, vars, summary
      <3> QED BY <3>1, QuietWrites
    <2>3. CASE ClassifyStripped \/ AnnotateRegions
      <3>1. /\ stage' \in {"regions", "scan", EXIT_MALFORMED_ELF}
            /\ UNCHANGED <<object, records, tables>>
        BY <2>3 DEF ClassifyStripped, AnnotateRegions, PassSections, summary
      <3> QED BY <3>1, QuietWrites
    <2>4. CASE AnnotateGadgets
      <3>1. /\ stage = "labels" /\ stage' \in {"summary", EXIT_MALFORMED_ELF}
            /\ UNCHANGED <<object, records, tables>>
            /\ stage' = EXIT_MALFORMED_ELF \/ UNCHANGED <<pc, status>>
        BY <2>4 DEF AnnotateGadgets, PassSections, summary
      <3> QED BY <3>1, QuietWrites
    <2>5. CASE ScanStep
      <3>1. stage = "scan" /\ stage' = stage /\ UNCHANGED tables
        BY <2>5 DEF ScanStep
      <3>2. UNCHANGED <<patterns, semantics, evidence, memory, effects, counts>>
        BY <3>1 DEF tables
      <3>3. Ready'
        BY <3>1, <3>2 DEF FInv, Ready, AfterPatterns
      <3>4. stage' \notin AfterPatterns
        BY <3>1 DEF AfterPatterns
      <3>5. Written'
        <4> HIDE DEF AfterPatterns
        <4> QED BY <3>4 DEF Written, AfterFacts, AfterEvidence, AfterMapping, AfterMemory, AfterEffects
      <3> QED BY <3>3, <3>5
    <2>6. CASE MatchPatterns \/ Classify \/ GatherEvidence \/ MapToRegions
      BY <2>6, MatchWrites, ClassifyWrites, EvidenceWrites, MappingWrites
    <2>7. CASE RecordMemory \/ RecordEffects \/ AssignRoles \/ ApplyScores \/ MarkComplete
      BY <2>7, MemoryWrites, EffectsWrites, RolesWrite, ScoresWrite, CompleteWrites
    <2> QED BY <2>1, <2>2, <2>3, <2>4, <2>5, <2>6, <2>7 DEF ReportStep, LabelStep, AnalysisStep
  <1> QED BY <1>1, <1>2, <1>3 DEF FInv

LEMMA FactsStart == ReportInit => FInv
  <1> SUFFICES ASSUME ReportInit PROVE FInv
    OBVIOUS
  <1>1. FactsInit /\ Init
    BY DEF ReportInit, FactsInit
  <1>2. RInv
    BY ReportStarts
  <1>3. Finished
    BY <1>1 DEF Init, Finished
  <1>4. stage = "stripped" /\ Counters \subseteq DOMAIN counts
    BY <1>1 DEF FactsInit, Counters
  <1>5. Ready /\ Written
    BY <1>4 DEF Ready, Written, AfterPatterns, AfterFacts, AfterEvidence, AfterMapping, AfterMemory, AfterEffects
  <1> QED BY <1>2, <1>3, <1>5 DEF FInv

\* At the end the rows say what the windows do.
LEMMA FactsFollow == FInv => FactsOfTheWindow
  <1> SUFFICES ASSUME FInv PROVE FactsOfTheWindow
    OBVIOUS
  <1>1. stage # EXIT_BOUNDS
    BY DEF FInv, Ready, AfterPatterns, EXIT_BOUNDS, EXIT_MALFORMED_ELF
  <1>2. ASSUME stage = "complete", NEW k \in Rows
        PROVE  /\ SuffixIsTheReading(records[k], evidence[k])
               /\ StackOfTheReading(Meaning(records[k]), semantics[k], effects[k].descriptor)
               /\ RegistersOfTheReading(records[k], Meaning(records[k]), semantics[k], effects[k])
               /\ MemoryOfTheReading(records[k], memory[k])
               /\ effects[k].descriptor.complete
                     = (effects[k].descriptor.offsetsKnown /\ ~Doing(records[k], "syscall"))
               /\ records[k].region \in evidence[k].regions
               /\ \A r \in evidence[k].regions :
                     /\ object.regions[r].fileOffset <= records[k].byteStart
                     /\ records[k].byteStart + records[k].byteLen
                           <= object.regions[r].fileOffset + object.regions[r].filesz
                     /\ records[k].fileOffset + object.regions[r].vaddr
                           = records[k].virtualAddress + object.regions[r].fileOffset
    <2> DEFINE c == records[k]
    <2>1. /\ stage \in AfterPatterns /\ stage \in AfterFacts /\ stage \in AfterEvidence
          /\ stage \in AfterMapping /\ stage \in AfterMemory /\ stage \in AfterEffects
      BY <1>2 DEF AfterPatterns, AfterFacts, AfterEvidence, AfterMapping, AfterMemory, AfterEffects
    <2>2. /\ evidence[k].offset = WordDifference(c.byteLen, SuffixLength(patterns[k]))
          /\ evidence[k].length = SuffixLength(patterns[k])
          /\ evidence[k].regions = Contributors(c)
          /\ memory[k] = MemoryEffect(patterns[k])
          /\ effects[k] = EffectOf(patterns[k], semantics[k].delta)
      BY <2>1 DEF FInv, Written, EvidenceWritten, MappingWritten, MemoryWritten, EffectsWritten
    <2>3. /\ SuffixLength(patterns[k]) = Len(Reading(c)) + Ending(c)
          /\ Described(c, Meaning(c), semantics[k], effects[k], memory[k])
      BY <2>1, <2>2, RowConsistent
    <2>4. /\ SuffixLength(patterns[k]) \in Nat /\ c.byteLen \in Nat
          /\ SuffixLength(patterns[k]) <= c.byteLen
      BY <2>1, RowFits
    <2>5. Attributed(c)
      BY <2>1, MappingIs DEF FInv, Ready
    <2> HIDE DEF c
    <2>6. SuffixIsTheReading(c, evidence[k])
      <3>1. evidence[k].length = Len(Reading(c)) + IF c.terminator = RET THEN 1 ELSE 3
        BY <2>2, <2>3 DEF Ending
      <3>2. evidence[k].offset = c.byteLen - evidence[k].length
        BY <2>2, <2>4 DEF WordDifference
      <3> QED BY <2>2, <2>4, <3>1, <3>2 DEF SuffixIsTheReading
    <2>7. /\ StackOfTheReading(Meaning(c), semantics[k], effects[k].descriptor)
          /\ RegistersOfTheReading(c, Meaning(c), semantics[k], effects[k])
          /\ MemoryOfTheReading(c, memory[k])
          /\ effects[k].descriptor.complete
                = (effects[k].descriptor.offsetsKnown /\ ~Doing(c, "syscall"))
      BY <2>3 DEF Described
    <2> QED BY <2>2, <2>5, <2>6, <2>7 DEF Attributed, c
  <1> QED BY <1>1, <1>2, Zenon DEF FactsOfTheWindow

(***************************************************************************)
(* A complete report says of every candidate what its last instructions    *)
(* do, whatever the bytes around them, and no pass ever refuses what the   *)
(* passes before it have written.                                          *)
(***************************************************************************)
THEOREM CommandsTellTheWindow == ReportSpec => []FactsOfTheWindow
  <1>1. ReportSpec => []FInv
    BY FactsStart, FactsKeep, PTL DEF ReportSpec
  <1> QED BY <1>1, FactsFollow, PTL

-----------------------------------------------------------------------------
(* The name of a section.                                                  *)

LEMMA SectionTyped ==
    ASSUME object \in Objects, NEW i \in Entries
    PROVE  /\ Table.table[i].offset \in Word /\ Table.table[i].size \in Word
           /\ Table.table[i].address \in Word /\ Table.table[i].name \in Word
  <1>1. {Table.table[i].offset, Table.table[i].size, Table.table[i].address, Table.table[i].name} \subseteq Word
    BY ReportAssumption DEF Table, Entries
  <1> QED BY <1>1

\* The tests of the program, which cannot be passed by a sum that carries.
LEMMA HoldsExactly ==
    ASSUME object \in Objects, NEW i \in Entries, NEW o \in Nat, NEW a \in Nat
    PROVE  CodeInFile(Table.table[i]) /\ Holds(Table.table[i], o, a) <=> HoldsBoth(Table.table[i], o, a)
  <1> DEFINE s == Table.table[i]
             file == object.fileSize
  <1>1. /\ s.offset \in Nat /\ s.size \in Nat /\ s.address \in Nat /\ WordMax \in Nat /\ file \in Nat
        /\ s.offset <= WordMax /\ s.size <= WordMax /\ s.address <= WordMax /\ file <= WordMax
    BY SectionTyped, ObjectTyped, WordMaxAssumption DEF Word
  <1> HIDE DEF s, file
  <1>2. /\ RangeEndValid(file, s.offset, s.size) <=> s.offset + s.size <= file
        /\ s.offset + s.size <= file => RangeEnd(s.offset, s.size) = s.offset + s.size
        /\ ~Carries(s.address, s.size) <=> s.address + s.size <= WordMax
        /\ ~Carries(s.address, s.size) => WordSum(s.address, s.size) = s.address + s.size
    BY <1>1 DEF RangeEndValid, RangeEnd, Carries, WordSum
  <1>3. /\ o < s.offset + s.size /\ s.offset <= o => s.size # 0
        /\ RangeEnd(s.offset, s.size) \in Int \/ ~RangeEndValid(file, s.offset, s.size)
    BY <1>1, <1>2
  <1>4. CodeInFile(s) <=> /\ s.type \notin {"null", "nobits"} /\ {"alloc", "exec"} \subseteq s.flags
                          /\ s.size # 0 /\ s.offset + s.size <= file
    BY <1>2, Zenon DEF CodeInFile, file
  <1>5. ASSUME s.offset + s.size <= file
        PROVE  Holds(s, o, a) <=> /\ s.offset <= o /\ o < s.offset + s.size
                                  /\ s.address <= a /\ a < s.address + s.size /\ s.address + s.size <= WordMax
    BY <1>2, <1>5 DEF Holds
  <1>6. HoldsBoth(s, o, a) <=> /\ s.type \notin {"null", "nobits"} /\ {"alloc", "exec"} \subseteq s.flags
                               /\ s.offset <= o /\ o < s.offset + s.size
                               /\ s.address <= a /\ a < s.address + s.size
                               /\ s.offset + s.size <= file /\ s.address + s.size <= WordMax
    BY Zenon DEF HoldsBoth, file
  <1> QED BY <1>3, <1>4, <1>5, <1>6, Zenon DEF s

\* A name ends at the first NUL that follows it.
LEMMA NameExactly ==
    ASSUME object \in Objects, NamesUsable, NEW i \in Entries
    PROVE  /\ NameLengths(Table.table[i]) \notin {{}, {0}}
                <=> /\ Table.table[i].name # 0 /\ NameEnds(Table.table[i]) # {}
                    /\ object.image[NameBegin(Table.table[i])] # 0
           /\ Table.table[i].name # 0 /\ NameEnds(Table.table[i]) # {}
                => NameOf(Table.table[i]) = NameRead(Table.table[i])
  <1> DEFINE s == Table.table[i]
             lengths == NameLengths(s)
             ends == NameEnds(s)
             start == NameTable.offset
             size == NameTable.size
             image == object.image
             b == start + s.name
  <1>1. start \in Nat /\ size \in Nat /\ s.name \in Nat
    BY SectionTyped, WordMaxAssumption DEF Word, NamesUsable, NameTable
  <1>2. NameBegin(s) = b /\ b \in Nat
    BY <1>1 DEF NameBegin
  <1>3. ends = {n \in b .. start + size - 1 : image[n] = 0}
    BY DEF NameEnds, NameBegin
  <1>4. lengths = IF s.name = 0 \/ s.name >= size THEN {}
                  ELSE {n \in 0 .. size - s.name - 1 :
                          image[b + n] = 0 /\ \A j \in 0 .. n - 1 : image[b + j] # 0}
    BY DEF NameLengths
  <1>5. NameOf(s) = LET n == CHOOSE m \in lengths : TRUE IN [j \in 1 .. n |-> image[b + j - 1]]
    BY DEF NameOf
  <1>6. NameRead(s) = LET e == CHOOSE e \in ends : \A d \in ends : e <= d
                      IN  [n \in 1 .. e - b |-> image[b + n - 1]]
    BY <1>2 DEF NameRead
  <1> HIDE DEF s, lengths, ends, start, size, image
  <1>7. CASE s.name = 0 \/ ends = {}
    <2>1. lengths = {}
      <3>1. CASE s.name = 0 \/ s.name >= size
        BY <3>1, <1>4
      <3>2. CASE ~(s.name = 0 \/ s.name >= size)
        <4>1. ASSUME NEW n \in lengths PROVE FALSE
          <5>1. n \in 0 .. size - s.name - 1 /\ image[b + n] = 0
            BY <3>2, <4>1, <1>4
          <5>2. b + n \in ends
            BY <1>1, <1>3, <5>1
          <5> QED BY <5>2, <3>2, <1>7
        <4> QED BY <4>1
      <3> QED BY <3>1, <3>2
    <2> QED BY <2>1, <1>7 DEF lengths, ends, s
  <1>8. CASE s.name # 0 /\ ends # {}
    <2>1. ends \in SUBSET Nat
      BY <1>1, <1>2, <1>3
    <2>2. PICK e \in ends : \A d \in ends : ~(d < e)
      BY <2>1, <1>8, LeastElement
    <2>3. e \in Nat /\ e \in b .. start + size - 1 /\ image[e] = 0
      BY <2>1, <1>3, <2>2
    <2>4. \A d \in ends : d \in Nat /\ e <= d
      BY <2>1, <2>2, <2>3
    <2>5. (CHOOSE x \in ends : \A d \in ends : x <= d) = e
      <3>1. \A x \in ends : (\A d \in ends : x <= d) => x = e
        BY <2>2, <2>3, <2>4
      <3> QED BY <2>2, <2>4, <3>1
    <2>6. ~(s.name = 0 \/ s.name >= size)
      BY <1>1, <1>8, <2>3
    <2>7. lengths = {e - b}
      <3>1. e - b \in 0 .. size - s.name - 1 /\ b + (e - b) = e
        BY <1>1, <1>2, <2>3
      <3>2. \A j \in 0 .. (e - b) - 1 : image[b + j] # 0
        <4>1. ASSUME NEW j \in 0 .. (e - b) - 1, image[b + j] = 0 PROVE FALSE
          <5>1. b + j \in b .. start + size - 1 /\ b + j < e
            BY <1>1, <1>2, <2>3, <4>1
          <5>2. b + j \in ends
            BY <5>1, <4>1, <1>3
          <5> QED BY <5>1, <5>2, <2>2
        <4> QED BY <4>1
      <3>3. e - b \in lengths
        BY <3>1, <3>2, <2>3, <2>6, <1>4
      <3>4. ASSUME NEW n \in lengths PROVE n = e - b
        <4>1. /\ n \in 0 .. size - s.name - 1 /\ image[b + n] = 0
              /\ \A j \in 0 .. n - 1 : image[b + j] # 0
          BY <2>6, <3>4, <1>4
        <4>2. b + n \in ends
          BY <1>1, <1>3, <4>1
        <4>3. e <= b + n
          BY <2>4, <4>2
        <4>4. CASE e - b \in 0 .. n - 1
          BY <4>1, <4>4, <3>1, <2>3
        <4>5. CASE ~(e - b \in 0 .. n - 1)
          BY <1>2, <2>3, <4>1, <4>3, <4>5
        <4> QED BY <4>4, <4>5
      <3> QED BY <3>3, <3>4
    <2>8. (CHOOSE m \in lengths : TRUE) = e - b
      BY <2>7
    <2>9. NameOf(s) = NameRead(s)
      BY <1>5, <1>6, <2>5, <2>8
    <2>10. lengths # {} /\ (lengths = {0} <=> e = b)
      BY <1>2, <2>3, <2>7
    <2>11. e = b <=> image[b] = 0
      <3>1. ASSUME image[b] = 0 PROVE e = b
        <4>1. start + size - 1 \in Int /\ b <= e /\ e <= start + size - 1
          BY <1>1, <1>2, <2>3
        <4>2. b \in b .. start + size - 1
          BY <1>2, <2>3, <4>1
        <4>3. b \in ends
          BY <1>3, <3>1, <4>2
        <4>4. e <= b
          BY <2>4, <4>3
        <4> QED BY <4>1, <4>4, <1>2, <2>3
      <3> QED BY <2>3, <3>1
    <2> QED BY <1>2, <1>8, <2>9, <2>10, <2>11 DEF lengths, ends, s, image
  <1> QED BY <1>7, <1>8

LEMMA MatchesExactly ==
    ASSUME object \in Objects, NamesUsable, NEW o \in Nat, NEW a \in Nat
    PROVE  Matches(o, a) = SectionsHolding(o, a)
  <1>1. \A i \in Entries : /\ CodeInFile(Table.table[i]) /\ Holds(Table.table[i], o, a)
                                 <=> HoldsBoth(Table.table[i], o, a)
                           /\ NameLengths(Table.table[i]) \notin {{}, {0}}
                                 <=> /\ Table.table[i].name # 0 /\ NameEnds(Table.table[i]) # {}
                                     /\ object.image[NameBegin(Table.table[i])] # 0
    BY HoldsExactly, NameExactly
  <1>2. \A i : i \in Matches(o, a) <=> i \in SectionsHolding(o, a)
    BY <1>1, Zenon DEF Matches, SectionsHolding
  <1> QED BY <1>2

\* shdr_find_section_for_file_offset names the only section, or none.
LEMMA LabelIs ==
    ASSUME object \in Objects, SetupAccepts, NEW o \in Nat, NEW a \in Nat
    PROVE  (IF NamesUsable THEN Label(o, a) ELSE NoLabel) = TrueLabel(o, a)
  <1> DEFINE holding == SectionsHolding(o, a)
             chosen == CHOOSE i \in holding : TRUE
  <1>1. TrueLabel(o, a) = IF NamesTrusted /\ Cardinality(holding) = 1
                          THEN NameRead(Table.table[chosen]) ELSE NoLabel
    BY DEF TrueLabel
  <1>2. ASSUME Table.strings \in Entries \ {0}
        PROVE  /\ NameTable.offset \in Nat /\ NameTable.size \in Nat
               /\ RangeEndValid(object.fileSize, NameTable.offset, NameTable.size)
                     <=> NameTable.offset + NameTable.size <= object.fileSize
    <2>1. /\ NameTable.offset \in Nat /\ NameTable.size \in Nat /\ object.fileSize \in Nat
          /\ object.fileSize <= WordMax /\ NameTable.offset <= WordMax /\ NameTable.size <= WordMax
          /\ WordMax \in Nat
      BY <1>2, SectionTyped, ObjectTyped, WordMaxAssumption DEF Word, NameTable
    <2> QED BY <2>1 DEF RangeEndValid, RangeEnd, Carries, WordSum
  <1>3. CASE NamesUsable
    <2>1. NamesTrusted
      BY <1>2, <1>3, Zenon DEF NamesUsable, NamesTrusted
    <2>2. \A i \in Entries : HeaderAt(i)
      <3>1. Table.count \in Nat /\ Table.strings \in 0 .. Table.count - 1
        BY <1>3, ObjectTyped, WordMaxAssumption DEF NamesUsable, Entries, Word
      <3>2. Table.count # 0
        BY <3>1
      <3> QED BY <3>2, TableExact DEF SetupAccepts
    <2>3. Matches(o, a) = holding
      BY <1>3, MatchesExactly
    <2>4. Label(o, a) = IF Cardinality(holding) = 1 THEN NameOf(Table.table[chosen]) ELSE NoLabel
      BY <2>2, <2>3 DEF Label
    <2>5. ASSUME Cardinality(holding) = 1
          PROVE  NameOf(Table.table[chosen]) = NameRead(Table.table[chosen])
      <3>1. holding # {}
        BY <2>5, FS_EmptySet
      <3>2. chosen \in holding
        BY <3>1
      <3>3. /\ chosen \in Entries /\ Table.table[chosen].name # 0
            /\ NameEnds(Table.table[chosen]) # {}
        BY <3>2, Zenon DEF SectionsHolding
      <3> QED BY <3>3, <1>3, NameExactly
    <2> HIDE DEF holding, chosen
    <2> QED BY <1>1, <1>3, <2>1, <2>4, <2>5
  <1>4. CASE ~NamesUsable
    <2>1. ASSUME NamesTrusted PROVE holding = {}
      <3>1. NameTable.size = 0
        BY <1>2, <1>4, <2>1, Zenon DEF NamesUsable, NamesTrusted
      <3>2. ASSUME NEW i \in Entries PROVE NameEnds(Table.table[i]) = {}
        <4>1. NameTable.offset \in Nat /\ Table.table[i].name \in Nat
          BY <1>2, <2>1, SectionTyped, WordMaxAssumption DEF Word, NamesTrusted
        <4> QED BY <3>1, <4>1 DEF NameEnds, NameBegin
      <3> QED BY <3>2, Zenon DEF SectionsHolding
    <2>2. ASSUME holding = {} PROVE Cardinality(holding) # 1
      BY <2>2, FS_EmptySet
    <2> HIDE DEF holding, chosen
    <2> QED BY <1>1, <1>4, <2>1, <2>2
  <1> QED BY <1>3, <1>4

\* The invariant of the commands and the names given so far.
NInv == RInv /\ NamesOfTheSections

\* The section table does not change.
LEMMA LabelsKept ==
    ASSUME object' = object
    PROVE  /\ \A o, a : TrueLabel(o, a)' = TrueLabel(o, a)
           /\ records' = records => Rows' = Rows
  <1>1. /\ Table' = Table /\ Entries' = Entries /\ NameTable' = NameTable
    BY DEF Table, Entries, NameTable
  <1>2. \A s : NameBegin(s)' = NameBegin(s) /\ NameEnds(s)' = NameEnds(s) /\ NameRead(s)' = NameRead(s)
    BY <1>1 DEF NameBegin, NameEnds, NameRead
  <1>3. \A s, o, a : HoldsBoth(s, o, a)' <=> HoldsBoth(s, o, a)
    BY DEF HoldsBoth
  <1>4. \A o, a : SectionsHolding(o, a)' = SectionsHolding(o, a)
    BY <1>1, <1>2, <1>3 DEF SectionsHolding
  <1>5. NamesTrusted' <=> NamesTrusted
    BY <1>1 DEF NamesTrusted
  <1>6. \A o, a : TrueLabel(o, a)' = TrueLabel(o, a)
    <2> SUFFICES ASSUME NEW o, NEW a PROVE TrueLabel(o, a)' = TrueLabel(o, a)
      OBVIOUS
    <2>1. SectionsHolding(o, a)' = SectionsHolding(o, a)
      BY <1>4
    <2> QED BY <1>1, <1>2, <1>5, <2>1 DEF TrueLabel
  <1> QED BY <1>6 DEF Rows

\* The steps that give no names.
LEMMA NamesStay ==
    ASSUME NamesOfTheSections, object' = object, names' = names, regionNames' = regionNames,
           stage' \in Named => stage \in Named /\ records' = records,
           stage' \in BeforeNaming \/ stage \notin BeforeNaming \/ object.command # "analyze"
    PROVE  NamesOfTheSections'
  <1> QED BY LabelsKept DEF NamesOfTheSections

LEMMA NamesKeep == NInv /\ [ReportStep \/ Ended]_reportVars => NInv'
  <1> SUFFICES ASSUME NInv, [ReportStep \/ Ended]_reportVars PROVE NInv'
    OBVIOUS
  <1>1. RInv'
    BY ReportKeeps DEF NInv
  <1>2. NamesOfTheSections /\ object \in Objects
    BY DEF NInv, RInv, IInv, TypeOK
  <1>3. NamesOfTheSections'
    <2>1. CASE UNCHANGED reportVars \/ Ended
      <3>1. UNCHANGED <<object, records, stage, names, regionNames>>
        BY <2>1 DEF Ended, reportVars, allVars, vars, summary, labels
      <3> QED BY <1>2, <3>1, NamesStay
    <2>2. CASE PrintJson \/ PrintText
      <3>1. /\ stage = "complete" /\ stage' = "printed"
            /\ UNCHANGED <<object, records, names, regionNames>>
        BY <2>2 DEF PrintJson, PrintText, Emit, vars, summary, labels
      <3>2. stage \in Named /\ stage \notin BeforeNaming
        BY <3>1 DEF Named, BeforeNaming, EXIT_MALFORMED_ELF
      <3> QED BY <1>2, <3>1, <3>2, NamesStay
    <2>3. CASE AnalysisStep /\ UNCHANGED labels
      <3>1. names' = names /\ regionNames' = regionNames
        BY <2>3 DEF labels
      <3>2. CASE ScanStep
        <4>1. stage = "scan" /\ stage' = "scan" /\ object' = object
          BY <3>2 DEF ScanStep, Step, RejectDepth, BeginScan, RegionsDone, RejectRegion, SkipEmptyRegion,
                      EnterRegion, LeaveRegion, AdvanceByte, StoreCandidate, CapacityExceeded, Return, summary
        <4>2. stage' \notin Named /\ stage \notin BeforeNaming
          BY <4>1 DEF Named, BeforeNaming, EXIT_MALFORMED_ELF
        <4> QED BY <1>2, <3>1, <4>1, <4>2, NamesStay
      <3>3. CASE \E now, next, accepted :
                    /\ Pass(now, next, accepted) /\ now \notin BeforeNaming
                    /\ next \in Named => now \in Named
        <4>1. PICK now, next, accepted : /\ Pass(now, next, accepted) /\ now \notin BeforeNaming
                                         /\ next \in Named => now \in Named
          BY <3>3
        <4>2. /\ stage = now /\ stage' \in {next, EXIT_BOUNDS} /\ object' = object /\ records' = records
          BY <4>1 DEF Pass, vars, summary
        <4>3. EXIT_BOUNDS \notin Named
          BY DEF Named, EXIT_BOUNDS
        <4> QED BY <1>2, <3>1, <4>1, <4>2, <4>3, NamesStay
      <3>4. CASE AnalysisStep /\ ~ScanStep
        <4>1. \E now \in {"scan", "classify", "evidence", "mapping", "memory", "effect", "role", "scoring", "summary"} :
                 \E next \in {"classify", "evidence", "mapping", "memory", "effect", "role", "scoring", "labels", "complete"} :
                 \E accepted :
                    /\ Pass(now, next, accepted)
                    /\ next = "complete" => now = "summary"
          BY <3>4, Zenon DEF AnalysisStep, MatchPatterns, Classify, GatherEvidence, MapToRegions,
                      RecordMemory, RecordEffects, AssignRoles, ApplyScores, MarkComplete
        <4> QED BY <3>3, <4>1 DEF Named, BeforeNaming, EXIT_MALFORMED_ELF
      <3> QED BY <2>3, <3>2, <3>4
    <2>4. CASE ClassifyStripped
      <3>1. /\ stage' = EXIT_MALFORMED_ELF \/ stage' = IF object.command = "analyze" THEN "regions" ELSE "scan"
            /\ UNCHANGED <<object, records, names, regionNames>>
        BY <2>4, Zenon DEF ClassifyStripped, PassSections, summary
      <3>2. /\ stage' \notin Named
            /\ stage' \in BeforeNaming \/ object.command # "analyze"
        BY <3>1 DEF Named, BeforeNaming, EXIT_MALFORMED_ELF
      <3> QED BY <1>2, <3>1, <3>2, NamesStay
    <2>5. CASE AnnotateRegions
      <3>1. /\ UNCHANGED <<object, records, names>>
            /\ stage' = IF SetupAccepts THEN "scan" ELSE EXIT_MALFORMED_ELF
            /\ regionNames' = [i \in DOMAIN object.regions |->
                                 IF NamesUsable THEN Label(object.regions[i].fileOffset, object.regions[i].vaddr)
                                 ELSE NoLabel]
        BY <2>5 DEF AnnotateRegions, PassSections, summary
      <3>2. stage' \notin Named /\ (~SetupAccepts => stage' \in BeforeNaming)
        BY <3>1 DEF Named, BeforeNaming, EXIT_MALFORMED_ELF
      <3>3. ASSUME SetupAccepts
            PROVE  regionNames' = [i \in DOMAIN object.regions |->
                                     TrueLabel(object.regions[i].fileOffset, object.regions[i].vaddr)]
        <4>1. ASSUME NEW i \in DOMAIN object.regions
              PROVE  object.regions[i].fileOffset \in Nat /\ object.regions[i].vaddr \in Nat
          <5>1. object.regions[i] \in Region
            BY <1>2, ObjectTyped
          <5> QED BY <5>1, WordMaxAssumption DEF Region, Word
        <4> QED BY <1>2, <3>1, <3>3, <4>1, LabelIs
      <3> QED BY <3>1, <3>2, <3>3, LabelsKept DEF NamesOfTheSections
    <2>6. CASE AnnotateGadgets
      <3>1. /\ UNCHANGED <<object, records, regionNames>> /\ stage = "labels"
            /\ stage' = IF SetupAccepts THEN "summary" ELSE EXIT_MALFORMED_ELF
            /\ names' = [k \in Rows |-> IF NamesUsable
                                        THEN Label(records[k].fileOffset, records[k].virtualAddress)
                                        ELSE NoLabel]
        BY <2>6 DEF AnnotateGadgets, PassSections, summary
      <3>2. /\ stage \notin BeforeNaming
            /\ ~SetupAccepts => stage' \notin Named /\ stage' \in BeforeNaming
        BY <3>1 DEF Named, BeforeNaming, EXIT_MALFORMED_ELF
      <3>3. ASSUME SetupAccepts
            PROVE  names' = [k \in Rows |-> TrueLabel(records[k].fileOffset, records[k].virtualAddress)]
        <4>1. ASSUME NEW k \in Rows
              PROVE  records[k].fileOffset \in Nat /\ records[k].virtualAddress \in Nat
          <5>1. records[k] \in Record
            <6>1. records \in Seq(Record) /\ k \in 1 .. Len(records)
              BY DEF NInv, RInv, IInv, TypeOK, Rows
            <6> QED BY <6>1
          <5> QED BY <5>1, WordMaxAssumption DEF Record, Word
        <4> QED BY <1>2, <3>1, <3>3, <4>1, LabelIs
      <3> QED BY <1>2, <3>1, <3>2, <3>3, LabelsKept DEF NamesOfTheSections
    <2> QED BY <2>1, <2>2, <2>3, <2>4, <2>5, <2>6 DEF ReportStep, LabelStep
  <1> QED BY <1>1, <1>3 DEF NInv

(***************************************************************************)
(* A report names a section only where it is the one that holds the        *)
(* candidate or the region, however the headers of the file are arranged.  *)
(***************************************************************************)
THEOREM CommandsNameTheSections == ReportSpec => []NamesOfTheSections
  <1>1. ReportInit => NInv
    <2>1. ReportInit => stage = "stripped"
      BY DEF ReportInit, FactsInit
    <2> QED BY <2>1, ReportStarts DEF NInv, NamesOfTheSections, Named, BeforeNaming
  <1>2. NInv => NamesOfTheSections
    BY DEF NInv
  <1> QED BY <1>1, <1>2, NamesKeep, PTL DEF ReportSpec
=============================================================================
