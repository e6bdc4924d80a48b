----------------------------- MODULE SyncHistory -----------------------------
(***************************************************************************)
(* SyncEngine with the history that its versions are meant to summarise:   *)
(* which saves each save was made on top of.  The engine neither reads nor *)
(* changes it.                                                             *)
(***************************************************************************)
EXTENDS SyncEngine

VARIABLE basis  \* of each save, the saves that the file it replaced grew from

historyVars == <<vars, basis>>

HistoryInit ==
    /\ Init
    /\ basis = [c \in Content |-> {}]

\* A save on top of the bytes b knows b and what b knew.
LineOf(b) == IF b \in Content THEN basis[b] \cup {b} ELSE {}

HistoryNext ==
    \/ \E d \in Devices, n \in UserNames :
         /\ Save(d, n)
         /\ basis' = [basis EXCEPT ![saves + 1] = LineOf(disk[d][n])]
    \/ /\ Next
       /\ saves' = saves
       /\ UNCHANGED basis

HistorySpec == HistoryInit /\ [][HistoryNext]_historyVars

-----------------------------------------------------------------------------
\* The fetched save new is about to take the place of the save old.
Replaces(t, new, old) ==
    /\ task[t].pc = "verify" /\ task'[t].pc = "write"
    /\ task[t].data = new
    /\ disk[t.owner][task[t].cur] = old
    /\ new # old

KeptAside(t) ==
    \E n \in Names \ UserNames :
        /\ disk'[t.owner][n] = disk[t.owner][task[t].cur]
        /\ disk[t.owner][n] # disk'[t.owner][n]

\* "Vector clocks track file versions for conflict detection" (sync.py:17):
\* of two saves neither of which was made on top of the other, the one that
\* is replaced where it was indexed stays as a conflict copy.
ConcurrentSavesConflict ==
    [][\A t \in Task, new, old \in Content :
        /\ Replaces(t, new, old)
        /\ index[t.owner][task[t].cur] # NoRecord
        /\ new \notin LineOf(old) /\ old \notin LineOf(new)
        => KeptAside(t)]_historyVars
=============================================================================
