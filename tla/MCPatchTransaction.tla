------------------------- MODULE MCPatchTransaction -------------------------
(***************************************************************************)
(* One file that the patch changes and makes executable and one that it    *)
(* adds; rolled back, one that changes and one that goes.                  *)
(***************************************************************************)
EXTENDS PatchTransaction

MCPaths == {"changed", "added"}

MCBase == [p \in MCPaths |-> IF p = "changed" THEN [oid |-> "base", exec |-> FALSE] ELSE NoEntry]

MCCandidate == [p \in MCPaths |-> [oid |-> "candidate", exec |-> p = "changed"]]
=============================================================================
