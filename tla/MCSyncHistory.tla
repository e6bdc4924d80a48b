---------------------------- MODULE MCSyncHistory ----------------------------
(***************************************************************************)
(* SyncHistory on the instances of MCSyncEngine.                           *)
(***************************************************************************)
EXTENDS MCSyncEngine, SyncHistory
=============================================================================
