----------------------------- MODULE MCSyncLoop -----------------------------
(* SyncLoop on small instances.                                            *)
EXTENDS SyncLoop
=============================================================================
