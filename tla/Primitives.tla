----------------------------- MODULE Primitives -----------------------------
(***************************************************************************)
(* The two services the commands of analyze.asm and gadgets.asm are built  *)
(* on, in the order they use them: the parsers ask the checked arithmetic  *)
(* of src/src/bounds.asm about the file, and only when they are done does  *)
(* the command initialise its arena (module Arena).                        *)
(*                                                                         *)
(* A parser calls a helper with any words as arguments, keeps the call and *)
(* its answer until it returns, and calls again, so an invariant over      *)
(* "call" speaks of every call the parsers can make.                       *)
(***************************************************************************)
EXTENDS Arena

VARIABLE call             \* the helper call in progress: its name, arguments and answer

-----------------------------------------------------------------------------
(* The calls.  An answer carries "end", the word stored through the output *)
(* pointer, which is meaningful only when "ok" holds.                      *)

NoCall == [helper |-> "none"]
Idle == call = NoCall

RangeCall ==
    /\ Idle
    /\ \E fileSize, offset, length \in Word :
          call' = [helper |-> "range", fileSize |-> fileSize, offset |-> offset,
                   length |-> length,
                   fits |-> RangeValid(fileSize, offset, length),
                   ok |-> RangeEndValid(fileSize, offset, length),
                   end |-> RangeEnd(offset, length)]

TableCall ==
    /\ Idle
    /\ \E fileSize, offset, stride, count \in Word :
          call' = [helper |-> "table", fileSize |-> fileSize, offset |-> offset,
                   stride |-> stride, count |-> count,
                   ok |-> TableExtentValid(fileSize, offset, stride, count),
                   end |-> TableEnd(offset, stride, count)]

EntryCall ==
    /\ Idle
    /\ \E fileSize, offset, stride, count, index \in Word :
          call' = [helper |-> "entry", fileSize |-> fileSize, offset |-> offset,
                   stride |-> stride, count |-> count, index |-> index,
                   ok |-> EntryOffsetValid(fileSize, offset, stride, count, index),
                   start |-> EntryOffset(offset, stride, index)]

Return == ~Idle /\ call' = NoCall

CallInit == Idle

CallNext == RangeCall \/ TableCall \/ EntryCall \/ Return

CallSpec == CallInit /\ [][CallNext]_call

-----------------------------------------------------------------------------
(* The parsers, then the command.                                          *)

ParsersCheck ==
    /\ answer.call = "none"
    /\ RangeCall \/ TableCall \/ EntryCall \/ Return
    /\ UNCHANGED vars

CommandAllocates == Idle /\ Next /\ UNCHANGED call

PrimitivesInit == Init /\ CallInit

PrimitivesSpec == PrimitivesInit /\ [][ParsersCheck \/ CommandAllocates]_<<vars, call>>

-----------------------------------------------------------------------------
(* What the parsers rely on, in unbounded arithmetic.                      *)

(***************************************************************************)
(* No range helper is fooled by a wrapped sum: a range is accepted exactly *)
(* when offset + length, as numbers, does not pass the end of the file,    *)
(* the two range helpers agree, and the stored end is that sum.            *)
(***************************************************************************)
RangesExact ==
    call.helper = "range" =>
       /\ call.ok <=> (call.offset + call.length <= call.fileSize)
       /\ call.fits <=> call.ok
       /\ call.ok => call.end = call.offset + call.length

(***************************************************************************)
(* No table helper is fooled by a wrapped product or sum: a table, and one *)
(* entry of a table, is accepted exactly when its last byte, computed in   *)
(* numbers, is in the file, and the stored offset is the computed one.     *)
(***************************************************************************)
TablesExact ==
    /\ call.helper = "table" =>
          /\ call.ok <=> /\ call.offset + call.stride * call.count <= call.fileSize
                         /\ call.count # 0 => call.stride # 0
          /\ call.ok => call.end = call.offset + call.stride * call.count
    /\ call.helper = "entry" =>
          /\ call.ok <=> /\ call.index < call.count
                         /\ call.stride # 0
                         /\ call.offset + call.stride * call.index + call.stride <= call.fileSize
          /\ call.ok => call.start = call.offset + call.stride * call.index

(***************************************************************************)
(* The two table helpers agree.  Once the extent of a table is accepted    *)
(* every index below its count gets an entry inside that extent, so the    *)
(* per-entry check made again in the loops of phdr.asm and shdr.asm cannot *)
(* fail half-way through a table that was accepted as a whole.             *)
(***************************************************************************)
AcceptedTableCoversEntries ==
    call.helper = "table" /\ call.ok =>
       \A index \in Word : index < call.count =>
          /\ EntryOffsetValid(call.fileSize, call.offset, call.stride, call.count, index)
          /\ EntryOffset(call.offset, call.stride, index) >= call.offset
          /\ EntryOffset(call.offset, call.stride, index) + call.stride <= call.end
=============================================================================
