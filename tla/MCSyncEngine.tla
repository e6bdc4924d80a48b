---------------------------- MODULE MCSyncEngine ----------------------------
(***************************************************************************)
(* SyncEngine on two devices and one file, for TLC.  A conflict copy is    *)
(* named by the file and the peer it lost to.                              *)
(***************************************************************************)
EXTENDS SyncEngine, TLC

CONSTANTS A, B, \* devices
          f     \* a file

OneFile == {f}
Copies  == OneFile \X {A, B}
AllNames == OneFile \cup Copies

CopyName == [x \in Copies |-> x]

\* Where all devices count under one id no copy is ever made: theorem
\* OneIdNoConflicts of SyncEngineProofs.
NoCopyName == [x \in {} |-> f]

\* Every device with an id of its own.
OwnIds == [d \in {A, B} |-> d]

\* config.get("device.id", "unknown") where nothing sets device.id.
OneId == [d \in {A, B} |-> "unknown"]

\* Swapping the two devices maps one behaviour to another.
Swap == Permutations({A, B})
=============================================================================
