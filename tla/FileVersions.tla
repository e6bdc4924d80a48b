----------------------------- MODULE FileVersions -----------------------------
(***************************************************************************)
(* The versions of a synchronised file and the comparisons the sync engine *)
(* makes on them (src/services/sync.py, class FileRecord and           *)
(* SyncEngine._compute_needed).                                            *)
(*                                                                         *)
(* A version is a Python dictionary from device ids to positive counters.  *)
(* Every comparison in the code reads it with get(k, 0), so it is a total  *)
(* function here, 0 standing for an absent key; the empty dictionary,      *)
(* which is false in a Python condition, is the function that is 0         *)
(* everywhere.                                                             *)
(***************************************************************************)
EXTENDS Naturals

CONSTANT Ids  \* the values config.get("device.id") takes on the devices

Version == [Ids -> Nat]

NoEntries == [i \in Ids |-> 0]

HasEntries(v) == v # NoEntries

Dominates(v, w) == \A i \in Ids : v[i] >= w[i]

ConflictsWith(v, w) == ~Dominates(v, w) /\ ~Dominates(w, v)

Bump(v, id) == [v EXCEPT ![id] = @ + 1]

(***************************************************************************)
(* Does a device that holds the record local want the peer's file?         *)
(* newer: the peer's modification time is the later one.  Two clocks that  *)
(* nothing synchronises give the times, so newer is an input.              *)
(***************************************************************************)
Supersedes(remote, local, newer) ==
    /\ remote.hash # local.hash
    /\ IF HasEntries(remote.version) /\ HasEntries(local.version)
       THEN \/ Dominates(remote.version, local.version)
            \/ ConflictsWith(remote.version, local.version)
       ELSE newer

-----------------------------------------------------------------------------
(***************************************************************************)
(* A version that only the device named id ever counted in: what a scan    *)
(* makes, for it bumps the device's own entry and copies no other.         *)
(***************************************************************************)
CountsOnly(v, id) == v[id] > 0 /\ \A i \in Ids \ {id} : v[i] = 0
=============================================================================
