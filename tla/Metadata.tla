----------------------------- MODULE Metadata -----------------------------
(***************************************************************************)
(* The metadata of a mitigation report, as x64lens_phdr_analyze puts its   *)
(* two parts together: the loop over the headers registers the carriers    *)
(* of GNU property notes (module GnuProperty), the dynamic table is read   *)
(* (module DynamicMetadata), then the notes are parsed, and last           *)
(* binary_role.asm draws its conclusion.  A status other than EXIT_OK ends *)
(* the analysis where it is returned.                                      *)
(*                                                                         *)
(* The dynamic header may come anywhere among the note headers; the two    *)
(* parts share no state, so the model reads it after the last of them.     *)
(***************************************************************************)
EXTENDS GnuProperty

CONSTANTS DynamicTargets, DynamicEntryMax, DynamicStringMax, DynamicCarrierMax,
          SearchRecords, SearchBytes, Canary,    \* see DynamicMetadata
          PlainTables, PlainNotes   \* bound: what the files of the other part hold

\* The state of DynamicMetadata.
VARIABLES dtarget, dpc, dindex, dstrings, dsummary, dcontext, dstatus

dynamicVars == <<dtarget, dpc, dindex, dstrings, dsummary, dcontext, dstatus>>
metadataVars == <<vars, dynamicVars>>

D == INSTANCE DynamicMetadata WITH
        Targets <- DynamicTargets, EntryMax <- DynamicEntryMax, CarrierMax <- DynamicCarrierMax,
        StringScanMax <- DynamicStringMax, SearchRecordMax <- SearchRecords,
        SearchBytesMax <- SearchBytes, CanarySymbol <- Canary,
        strings <- dstrings, summary <- dsummary, context <- dcontext,
        target <- dtarget, pc <- dpc, index <- dindex, status <- dstatus

ASSUME MetadataAssumption ==
    /\ D!DynamicAssumption
    /\ PlainTables \subseteq DynamicTargets
    /\ PlainNotes \subseteq Targets

-----------------------------------------------------------------------------
RegistersHeaders ==
    /\ Register
    /\ UNCHANGED dynamicVars

ReadsDynamicTable ==
    /\ pc = "carrier" /\ slot = 1
    /\ D!FirstPass \/ D!SecondPass \/ D!Finalize
    /\ UNCHANGED vars

ParsesNotes ==
    /\ dpc = "role"
    /\ Parse \/ Finalize
    /\ UNCHANGED dynamicVars

ClassifiesRole ==
    /\ pc = "done" /\ status = EXIT_OK
    /\ D!ClassifyRole
    /\ UNCHANGED vars

Ends == (status # EXIT_OK \/ dpc = "done") /\ UNCHANGED metadataVars

MetadataInit ==
    /\ \/ target \in PlainNotes /\ dtarget \in DynamicTargets
       \/ target \in Targets /\ dtarget \in PlainTables
    /\ Begins /\ D!Begins

MetadataNext == RegistersHeaders \/ ReadsDynamicTable \/ ParsesNotes \/ ClassifiesRole \/ Ends

MetadataSpec == MetadataInit /\ [][MetadataNext]_metadataVars

-----------------------------------------------------------------------------
(***************************************************************************)
(* The two passes, the counters and the accumulated flags of phdr.asm and  *)
(* dynamic_metadata.asm end in the evidence of the table: what is reported *)
(* does not depend on the order of the entries, and what was not seen is   *)
(* not reported absent.  And throughout the second pass the retained       *)
(* search-path values are the strings of their own entries, in order and   *)
(* next to each other in the pool, each from one carrier of the first      *)
(* pass.                                                                   *)
(***************************************************************************)
EvidenceOfTheTable == D!EvidenceOfTheTable /\ D!ValuesKeepTheirPlace

(***************************************************************************)
(* The analysis succeeds on exactly the files whose dynamic table and      *)
(* whose notes are both readable.  The early returns of three modules, in  *)
(* two passes, refuse every ambiguous, unterminated or oversized file and  *)
(* nothing else, whichever header or entry they meet first; and what one   *)
(* part accepts the other cannot make good.                                *)
(***************************************************************************)
Over == status # EXIT_OK \/ dpc = "done"

AcceptsExactlyTheReadable ==
    Over => ((status = EXIT_OK /\ dstatus = EXIT_OK) <=> (Readable(target) /\ D!Readable(dtarget)))
=============================================================================
