--------------------------- MODULE MCSyncRestore ---------------------------
(* The instance of MCSync_diverge: rows of two owners, and one restore. *)
EXTENDS SyncRestore, MCSync

=============================================================================
