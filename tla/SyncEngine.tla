------------------------------ MODULE SyncEngine ------------------------------
(***************************************************************************)
(* The sync engine of src/services/sync.py on several devices that     *)
(* pull files from one another.                                            *)
(*                                                                         *)
(* A device owns a directory (disk), an in-memory index of it that a scan  *)
(* rebuilds (index) and one coroutine for each sync cycle with a peer      *)
(* (task).  A cycle asks the peer for its index, compares it with the      *)
(* device's own, then asks for one file after the other and writes each.   *)
(* A step of this module is what the asyncio loop runs between two awaits, *)
(* except that writing a file takes two: a peer's request, which another   *)
(* thread answers, or a crash may fall between truncating and filling it.  *)
(*                                                                         *)
(* The bytes of a file are the number of the save that produced them, so   *)
(* two saves never write the same bytes.  Partial stands for a file that   *)
(* was truncated and not filled yet.  A hash is the bytes it is taken of.  *)
(***************************************************************************)
EXTENDS Naturals, FiniteSets, FileVersions

CONSTANTS
    Devices,       \* the devices, named by their RNS destination
    DeviceId,      \* the id each device counts versions under
    Names,         \* every file name, those of conflict copies included
    UserNames,     \* the names the user saves under
    ConflictName,  \* <<name, peer>> to the name of the conflict copy
    NoFile,        \* a name with no file
    Partial,       \* the bytes of a file whose writing was cut short
    NoHash,        \* the "" that _sha256 returns when it cannot read
    NoRecord,      \* a name that is not in an index
    NoName,        \* the name a task that fetches nothing is fetching
    EmptySaves,    \* the saves that write a file of no bytes
    Unreadable,    \* the files whose reading may fail during a scan
    Events,        \* what may befall a device in a run: see EventKinds
    Slots,         \* bound: cycles one device runs with one peer at a time
    MaxSaves,      \* bound: saves by the users of all devices
    MaxFailures,   \* bound: processes that die, writes and renames that fail
    MaxVersion     \* bound: versions a device counts for one name

EventKinds == {"timeout", "lost", "stop", "delete"}

Content == 1 .. MaxSaves
Bytes   == Content \cup {Partial}
Hash    == Bytes \cup {NoHash}
Record  == [hash : Hash, version : Version]
Index   == [Names -> Record \cup {NoRecord}]

ASSUME SyncAssumption ==
    /\ IsFiniteSet(Devices)
    /\ DeviceId \in [Devices -> Ids]
    /\ UserNames \subseteq Names
    /\ DOMAIN ConflictName \subseteq Names \X Devices
    /\ \A x \in DOMAIN ConflictName : ConflictName[x] \in Names \ {x[1]}
    /\ NoFile \notin Bytes
    /\ Partial \notin Content
    /\ NoHash \notin Bytes
    /\ NoRecord \notin Record
    /\ NoName \notin Names
    /\ Unreadable \subseteq Names
    /\ Events \subseteq EventKinds
    /\ Slots \in Nat
    /\ MaxSaves \in Nat
    /\ MaxFailures \in Nat
    /\ MaxVersion \in Nat

Task == {t \in [owner : Devices, peer : Devices, slot : 1 .. Slots] :
            t.owner # t.peer}

VARIABLES
    disk,       \* the files in each device's sync directory
    saves,      \* how many saves the users made
    failures,   \* how many processes died, writes and renames failed
    life,       \* where each device's process is: see Lives
    index,      \* _local_files of each device
    known,      \* the peers in each device's peer table
    task,       \* what each _sync_with_peer coroutine is at
    transfers   \* _status.active_transfers of each device

vars == <<disk, saves, failures, life, index, known, task, transfers>>

\* "booted": the process is up and hears announces, SyncEngine.start() has
\* not run yet.  "stopped": stop() has run after it.
Lives == {"down", "booted", "running", "stopped"}

\* index, file: awaiting the peer's answer; compare, verify: the answer is
\* there, the coroutine has not resumed; write: between open() and close().
Stages == {"idle", "index", "compare", "file", "verify", "write"}

TaskState == [pc     : Stages,
              snap   : Index,
              needed : SUBSET Names,
              cur    : Names \cup {NoName},
              data   : Bytes \cup {NoFile}]

EmptyIndex == [n \in Names |-> NoRecord]

IdleTask == [pc |-> "idle", snap |-> EmptyIndex, needed |-> {},
             cur |-> NoName, data |-> NoFile]

Init ==
    /\ disk = [d \in Devices |-> [n \in Names |-> NoFile]]
    /\ saves = 0
    /\ failures = 0
    /\ life = [d \in Devices |-> "down"]
    /\ index = [d \in Devices |-> EmptyIndex]
    /\ known = [d \in Devices |-> {}]
    /\ task = [t \in Task |-> IdleTask]
    /\ transfers = [d \in Devices |-> 0]

Up(d) == life[d] # "down"

\* start() registered the handlers; nothing ever takes them back.
Serves(d) == life[d] \in {"running", "stopped"}

\* open(), write() and close() run on the loop with no await between them.
LoopFree(d) == Up(d) /\ \A t \in Task : t.owner = d => task[t].pc # "write"

-----------------------------------------------------------------------------
(* Scanning                                                                *)

\* Seeded fault: a file seen for the first time gets the empty version.
ScanFileUncounted(d, hash, rec) ==
    IF rec = NoRecord
    THEN [hash |-> hash, version |-> NoEntries]
    ELSE [hash    |-> hash,
          version |-> IF rec.hash = hash THEN rec.version
                      ELSE Bump(rec.version, DeviceId[d])]

\* Seeded fault: a file that changed keeps the version it had.
ScanFileUnbumped(d, hash, rec) ==
    [hash    |-> hash,
     version |-> IF rec = NoRecord THEN Bump(NoEntries, DeviceId[d])
                 ELSE rec.version]

ScanFile(d, hash, rec) ==
    IF rec # NoRecord /\ rec.hash = hash
    THEN rec
    ELSE [hash    |-> hash,
          version |-> Bump(IF rec = NoRecord THEN NoEntries ELSE rec.version,
                           DeviceId[d])]

\* The index _scan_local_files makes of files when bad could not be read.
Scan(d, files, bad) ==
    [n \in Names |->
        IF files[n] = NoFile
        THEN NoRecord
        ELSE ScanFile(d, IF n \in bad THEN NoHash ELSE files[n], index[d][n])]

\* Bound: the scan counts no name beyond MaxVersion.
WithinBound(d, idx) ==
    \A n \in Names : idx[n] # NoRecord
                        => idx[n].version[DeviceId[d]] <= MaxVersion

-----------------------------------------------------------------------------
(* Cycles                                                                  *)

FirstFree(t) ==
    /\ task[t].pc = "idle"
    /\ \A u \in Task : /\ u.owner = t.owner
                       /\ u.peer = t.peer
                       /\ u.slot < t.slot
                       => task[u].pc # "idle"

\* Bound: a new cycle with a peer finds a free slot.
SlotsLeft(d, peers) ==
    \A q \in peers : \E t \in Task : /\ t.owner = d
                                     /\ t.peer = q
                                     /\ task[t].pc = "idle"

\* create_task(_sync_with_peer(q)) for every q of peers.
Spawn(d, peers) ==
    /\ SlotsLeft(d, peers)
    /\ task' = [t \in Task |->
                   IF t.owner = d /\ t.peer \in peers /\ FirstFree(t)
                   THEN [IdleTask EXCEPT !.pc = "index"]
                   ELSE task[t]]

\* The cycle r, with the fetches in r.needed ahead of it, goes on to one of
\* them, in whatever order the peer listed its files, or ends.
Onward(r) ==
    IF r.needed = {}
    THEN {IdleTask}
    ELSE {[pc |-> "file", cur |-> n, needed |-> r.needed \ {n},
           data |-> NoFile,
           snap |-> [m \in Names |-> IF m \in r.needed THEN r.snap[m]
                                     ELSE NoRecord]] : n \in r.needed}

\* Seeded fault: an early return counts down before finally does, unfloored.
EndFetchTwice(t) ==
    \E r \in Onward(task[t]) :
        /\ task' = [task EXCEPT ![t] = r]
        /\ transfers' = [transfers EXCEPT ![t.owner] =
                            IF r.pc = "file" THEN @ ELSE @ - 2]

\* Seeded fault: no finally clause, the count never goes down.
EndFetchUncounted(t) ==
    \E r \in Onward(task[t]) :
        /\ task' = [task EXCEPT ![t] = r]
        /\ transfers' = [transfers EXCEPT ![t.owner] =
                            @ + (IF r.pc = "file" THEN 1 ELSE 0)]

\* _request_file returns (its finally clause runs) and the for loop goes on.
EndFetch(t) ==
    \E r \in Onward(task[t]) :
        /\ task' = [task EXCEPT ![t] = r]
        /\ transfers' = [transfers EXCEPT ![t.owner] =
                            (IF @ > 0 THEN @ - 1 ELSE 0)
                              + (IF r.pc = "file" THEN 1 ELSE 0)]

\* What a device hands its peers: its index, and the bytes on its disk now,
\* whatever its index said when it was asked.
ProvideIndex(d) == index[d]
ProvideFile(d, n) == disk[d][n]

\* Seeded fault: a peer with nothing to offer does not answer.
ServeIndexUnlessEmpty(t) ==
    /\ task[t].pc = "index"
    /\ Up(t.peer)
    /\ index[t.peer] # EmptyIndex
    /\ task' = [task EXCEPT ![t].pc = "compare", ![t].snap = ProvideIndex(t.peer)]
    /\ UNCHANGED <<disk, saves, failures, life, index, known, transfers>>

\* The peer's RNS thread answers PATH_INDEX: {} as long as no engine has
\* registered its handlers, and then no engine has indexed anything either.
ServeIndex(t) ==
    /\ task[t].pc = "index"
    /\ Up(t.peer)
    /\ task' = [task EXCEPT ![t].pc = "compare", ![t].snap = ProvideIndex(t.peer)]
    /\ UNCHANGED <<disk, saves, failures, life, index, known, transfers>>

\* Names whose records carry no version: there modification times decide.
Undated(t) ==
    {n \in Names :
        /\ task[t].snap[n] # NoRecord /\ index[t.owner][n] # NoRecord
        /\ ~(/\ HasEntries(task[t].snap[n].version)
             /\ HasEntries(index[t.owner][n].version))}

\* Seeded fault: a file the device does not have is not asked for.
NeededIfIndexed(t, newer) ==
    {n \in Names :
        /\ task[t].snap[n] # NoRecord
        /\ index[t.owner][n] # NoRecord
        /\ Supersedes(task[t].snap[n], index[t.owner][n], n \in newer)}

Needed(t, newer) ==
    {n \in Names :
        /\ task[t].snap[n] # NoRecord
        /\ \/ index[t.owner][n] = NoRecord
           \/ Supersedes(task[t].snap[n], index[t.owner][n], n \in newer)}

\* The index arrives: _compute_needed and the first _request_file, if any.
Compare(t) ==
    /\ task[t].pc = "compare"
    /\ LoopFree(t.owner)
    /\ \E newer \in SUBSET Undated(t) :
         \E r \in Onward([task[t] EXCEPT !.needed = Needed(t, newer)]) :
            /\ task' = [task EXCEPT ![t] = r]
            /\ transfers' = [transfers EXCEPT ![t.owner] =
                                @ + (IF r.pc = "file" THEN 1 ELSE 0)]
    /\ UNCHANGED <<disk, saves, failures, life, index, known>>

\* The peer's RNS thread answers PATH_FILE.
ServeFile(t) ==
    /\ task[t].pc = "file"
    /\ Serves(t.peer)
    /\ task' = [task EXCEPT ![t].pc = "verify",
                            ![t].data = ProvideFile(t.peer, task[t].cur)]
    /\ UNCHANGED <<disk, saves, failures, life, index, known, transfers>>

\* Both an absent file and an empty one come back as false in "if not data".
NoData(bytes) == bytes = NoFile \/ bytes \in EmptySaves

\* Seeded fault: the hash of what arrives is not compared.
HashUnchecked(t) == TRUE

HashMatches(t) ==
    LET expected == task[t].snap[task[t].cur].hash
    IN  expected = NoHash \/ expected = task[t].data

\* The bytes are missing or are not those the index promised: drop them.
Reject(t) ==
    /\ task[t].pc = "verify"
    /\ LoopFree(t.owner)
    /\ NoData(task[t].data) \/ ~HashMatches(t)
    /\ EndFetch(t)
    /\ UNCHANGED <<disk, saves, failures, life, index, known>>

\* Seeded fault: only a file that was never changed here is moved aside.
InConflictIfOriginal(t) ==
    LET local  == index[t.owner][task[t].cur]
        remote == task[t].snap[task[t].cur]
    IN  /\ local # NoRecord
        /\ ~Dominates(remote.version, local.version)
        /\ local.version[DeviceId[t.owner]] = 1

\* The conflict check of _request_file, on the index as it is now.
InConflict(t) ==
    LET local  == index[t.owner][task[t].cur]
        remote == task[t].snap[task[t].cur]
    IN  /\ local # NoRecord
        /\ HasEntries(local.version)
        /\ HasEntries(remote.version)
        /\ ConflictsWith(remote.version, local.version)

\* The file is moved aside if it conflicts, then opened for writing.
BeginWrite(t) ==
    LET d == t.owner
        n == task[t].cur
        copied == InConflict(t) /\ disk[d][n] # NoFile
    IN  /\ task[t].pc = "verify"
        /\ LoopFree(d)
        /\ ~NoData(task[t].data) /\ HashMatches(t)
        /\ copied => <<n, t.peer>> \in DOMAIN ConflictName  \* bound
        /\ disk' = [disk EXCEPT ![d] = [m \in Names |->
                      IF m = n THEN Partial
                      ELSE IF copied /\ m = ConflictName[<<n, t.peer>>]
                           THEN disk[d][n]
                      ELSE disk[d][m]]]
        /\ task' = [task EXCEPT ![t].pc = "write"]
        /\ UNCHANGED <<saves, failures, life, index, known, transfers>>

\* os.rename raises, which is ignored: the file is overwritten where it is.
RenameFails(t) ==
    LET d == t.owner
        n == task[t].cur
    IN  /\ task[t].pc = "verify"
        /\ LoopFree(d)
        /\ ~NoData(task[t].data) /\ HashMatches(t)
        /\ InConflict(t) /\ disk[d][n] # NoFile
        /\ failures < MaxFailures
        /\ failures' = failures + 1
        /\ disk' = [disk EXCEPT ![d][n] = Partial]
        /\ task' = [task EXCEPT ![t].pc = "write"]
        /\ UNCHANGED <<saves, life, index, known, transfers>>

\* The file is complete; the directory is scanned again.
FinishWrite(t) ==
    LET d == t.owner
        files == [disk[d] EXCEPT ![task[t].cur] = task[t].data]
    IN  /\ task[t].pc = "write"
        /\ disk' = [disk EXCEPT ![d] = files]
        /\ \E bad \in SUBSET Unreadable :
             /\ WithinBound(d, Scan(d, files, bad))
             /\ index' = [index EXCEPT ![d] = Scan(d, files, bad)]
        /\ EndFetch(t)
        /\ UNCHANGED <<saves, failures, life, known>>

\* The link or the request fails, or wait_for gives up on an answer.
RequestFails(t) ==
    /\ "timeout" \in Events
    /\ LoopFree(t.owner)
    /\ \/ /\ task[t].pc \in {"index", "compare"}
          /\ task' = [task EXCEPT ![t] = IdleTask]
          /\ UNCHANGED transfers
       \/ /\ task[t].pc \in {"file", "verify"}
          /\ EndFetch(t)
    /\ UNCHANGED <<disk, saves, failures, life, index, known>>

\* write() raises: the file stays truncated and the whole cycle ends, for
\* nothing above _request_file catches the exception.
WriteFails(t) ==
    /\ task[t].pc = "write"
    /\ failures < MaxFailures
    /\ failures' = failures + 1
    /\ task' = [task EXCEPT ![t] = IdleTask]
    /\ transfers' = [transfers EXCEPT ![t.owner] = IF @ > 0 THEN @ - 1 ELSE 0]
    /\ UNCHANGED <<disk, saves, life, index, known>>

\* makedirs() raises, or open() does, before or after the file was moved aside:
\* the cycle ends in the same way, with nothing truncated.
OpenFails(t) ==
    LET d == t.owner
        n == task[t].cur
    IN  /\ task[t].pc = "verify"
        /\ LoopFree(d)
        /\ ~NoData(task[t].data) /\ HashMatches(t)
        /\ failures < MaxFailures
        /\ failures' = failures + 1
        /\ \/ UNCHANGED disk
           \/ /\ InConflict(t) /\ disk[d][n] # NoFile
              /\ <<n, t.peer>> \in DOMAIN ConflictName  \* bound
              /\ disk' = [disk EXCEPT ![d][n] = NoFile,
                                      ![d][ConflictName[<<n, t.peer>>]] = disk[d][n]]
        /\ task' = [task EXCEPT ![t] = IdleTask]
        /\ transfers' = [transfers EXCEPT ![d] = IF @ > 0 THEN @ - 1 ELSE 0]
        /\ UNCHANGED <<saves, life, index, known>>

CycleStep(t) ==
    \/ ServeIndex(t) \/ Compare(t) \/ ServeFile(t) \/ Reject(t)
    \/ BeginWrite(t) \/ RenameFails(t) \/ FinishWrite(t)
    \/ WriteFails(t) \/ OpenFails(t) \/ RequestFails(t)

-----------------------------------------------------------------------------
(* The engine's lifecycle, its scan loop and the events of the peer table  *)

\* A process starts: a fresh SyncEngine subscribes to the peer events.
Boot(d) ==
    /\ life[d] = "down"
    /\ life' = [life EXCEPT ![d] = "booted"]
    /\ UNCHANGED <<disk, saves, failures, index, known, task, transfers>>

Start(d) ==
    /\ life[d] \in {"booted", "stopped"}
    /\ LoopFree(d)
    /\ life' = [life EXCEPT ![d] = "running"]
    /\ \E bad \in SUBSET Unreadable :
         /\ WithinBound(d, Scan(d, disk[d], bad))
         /\ index' = [index EXCEPT ![d] = Scan(d, disk[d], bad)]
    /\ UNCHANGED <<disk, saves, failures, known, task, transfers>>

\* The scan loop is cancelled; cycles that are under way are not.
Stop(d) ==
    /\ "stop" \in Events
    /\ life[d] = "running"
    /\ LoopFree(d)
    /\ life' = [life EXCEPT ![d] = "stopped"]
    /\ UNCHANGED <<disk, saves, failures, index, known, task, transfers>>

\* The process dies: its memory goes, the directory stays as it is.
Crash(d) ==
    /\ Up(d)
    /\ failures < MaxFailures
    /\ failures' = failures + 1
    /\ life' = [life EXCEPT ![d] = "down"]
    /\ index' = [index EXCEPT ![d] = EmptyIndex]
    /\ known' = [known EXCEPT ![d] = {}]
    /\ task' = [t \in Task |-> IF t.owner = d THEN IdleTask ELSE task[t]]
    /\ transfers' = [transfers EXCEPT ![d] = 0]
    /\ UNCHANGED <<disk, saves>>

\* Seeded fault: every turn of the scan loop counts as a change.
HashesEver(idx, old) == TRUE

HashesDiffer(idx, old) ==
    \E n \in Names : \/ (idx[n] = NoRecord) # (old[n] = NoRecord)
                     \/ /\ idx[n] # NoRecord /\ old[n] # NoRecord
                        /\ idx[n].hash # old[n].hash

\* One turn of _scan_loop: a change starts a cycle with every known peer.
ScanTurn(d) ==
    /\ life[d] = "running"
    /\ LoopFree(d)
    /\ \E bad \in SUBSET Unreadable :
         LET idx == Scan(d, disk[d], bad)
         IN  /\ WithinBound(d, idx)
             /\ index' = [index EXCEPT ![d] = idx]
             /\ IF HashesDiffer(idx, index[d])
                THEN Spawn(d, known[d])
                ELSE UNCHANGED task
    /\ UNCHANGED <<disk, saves, failures, life, known, transfers>>

\* peer.discovered: a new peer announced itself and _on_peer_discovered ran.
Discover(d, q) ==
    /\ LoopFree(d) /\ Up(q)
    /\ q \notin known[d]
    /\ known' = [known EXCEPT ![d] = @ \cup {q}]
    /\ Spawn(d, {q})
    /\ UNCHANGED <<disk, saves, failures, life, index, transfers>>

\* peer.lost: the peer timed out.  Its link is torn down, which a cycle on
\* that link meets as a failed request.
Lose(d, q) ==
    /\ "lost" \in Events
    /\ LoopFree(d)
    /\ q \in known[d]
    /\ known' = [known EXCEPT ![d] = @ \ {q}]
    /\ UNCHANGED <<disk, saves, failures, life, index, task, transfers>>

-----------------------------------------------------------------------------
(* The user                                                                *)

Save(d, n) ==
    /\ saves < MaxSaves
    /\ saves' = saves + 1
    /\ disk' = [disk EXCEPT ![d][n] = saves + 1]
    /\ UNCHANGED <<failures, life, index, known, task, transfers>>

Delete(d, n) ==
    /\ "delete" \in Events
    /\ disk[d][n] # NoFile
    /\ disk' = [disk EXCEPT ![d][n] = NoFile]
    /\ UNCHANGED <<saves, failures, life, index, known, task, transfers>>

-----------------------------------------------------------------------------
Next ==
    \/ \E t \in Task : CycleStep(t)
    \/ \E d \in Devices :
         \/ Boot(d) \/ Start(d) \/ Stop(d) \/ Crash(d) \/ ScanTurn(d)
         \/ \E q \in Devices \ {d} : Discover(d, q) \/ Lose(d, q)
         \/ \E n \in UserNames : Save(d, n) \/ Delete(d, n)

Spec == Init /\ [][Next]_vars

(***************************************************************************)
(* The loop runs what is ready, every request is answered or times out     *)
(* after wait_for, a process that was started goes through main.start(),   *)
(* scans every minute and hears the announces of the peers that are up.    *)
(* Nothing obliges a user to save, or a process to fail.                   *)
(***************************************************************************)
Fairness ==
    /\ \A t \in Task : WF_vars(CycleStep(t))
    /\ \A d \in Devices :
         /\ WF_vars(Boot(d)) /\ WF_vars(Start(d)) /\ WF_vars(ScanTurn(d))
         /\ \A q \in Devices \ {d} : WF_vars(Discover(d, q))

FairSpec == Spec /\ Fairness

-----------------------------------------------------------------------------
TypeOK ==
    /\ disk \in [Devices -> [Names -> Bytes \cup {NoFile}]]
    /\ saves \in 0 .. MaxSaves
    /\ failures \in 0 .. MaxFailures
    /\ life \in [Devices -> Lives]
    /\ index \in [Devices -> Index]
    /\ known \in [Devices -> SUBSET Devices]
    /\ task \in [Task -> TaskState]
    /\ transfers \in [Devices -> Nat]

\* A cycle only fetches what its peer's index lists.
Listed(r) ==
    /\ r.pc \in {"file", "verify", "write"}
          => r.cur \in Names /\ r.snap[r.cur] # NoRecord
    /\ r.pc = "index" => r.needed = {}
    /\ \A n \in r.needed : r.snap[n] # NoRecord

FetchesListed == \A t \in Task : Listed(task[t])

-----------------------------------------------------------------------------
(* What holds of the engine                                                *)

CountedBy(d, idx) ==
    \A n \in Names : idx[n] # NoRecord
                        => CountsOnly(idx[n].version, DeviceId[d])

\* A version is never merged with the peer's: whatever has been exchanged,
\* every record a device indexes, and every record a cycle took from a peer,
\* counts the scans of the device that indexed it and nothing else.
VersionsCountOwnScans ==
    /\ \A d \in Devices : CountedBy(d, index[d])
    /\ \A t \in Task : CountedBy(t.peer, task[t].snap)

\* The counter the user is shown is the number of fetches under way, through
\* every early return, failure and crash, and max(0, ...) never hides a slip.
TransfersCounted ==
    \A d \in Devices :
        transfers[d] = Cardinality({t \in Task :
                          /\ t.owner = d
                          /\ task[t].pc \in {"file", "verify", "write"}})

\* As long as no process dies and nothing fails, and if every scan can read,
\* a truncated file is never seen but while its own device is filling it: the
\* peer that reads it in that window is stopped by the hash it was promised.
PartialOnlyWhileWriting ==
    failures = 0 /\ Unreadable = {} => \A d \in Devices, n \in Names :
        disk[d][n] = Partial
            => \E t \in Task : /\ t.owner = d
                              /\ task[t].pc = "write"
                              /\ task[t].cur = n

\* Between devices with ids of their own, a fetched file that replaces one
\* the device has indexed leaves it under the name of a conflict copy, even
\* what the user saved after the last scan, unless the renaming itself fails.
ReplacedFilesAreKept ==
    [][\A t \in Task :
        LET d == t.owner
            n == task[t].cur
        IN  /\ task[t].pc = "verify" /\ task'[t].pc = "write"
            /\ failures' = failures
            /\ DeviceId[d] # DeviceId[t.peer]
            /\ index[d][n] # NoRecord
            /\ disk[d][n] # NoFile
            => disk'[d][ConflictName[<<n, t.peer>>]] = disk[d][n]]_vars

\* Between devices that count under one id, the configuration that ships, no
\* conflict is ever found and no conflict copy is ever made.
NoCopies ==
    \A d \in Devices, n \in Names \ UserNames : disk[d][n] = NoFile

OneIdNeverConflicts ==
    (\A d, q \in Devices : DeviceId[d] = DeviceId[q])
        => /\ \A t \in Task : task[t].pc = "verify" => ~InConflict(t)
           /\ NoCopies

\* As long as no index is lost, and if no file is deleted, what a cycle knows
\* of its peer is a past of what the peer indexes now, and equal versions are
\* equal files.
SnapshotsLagIndex ==
    failures = 0 /\ "delete" \notin Events => \A t \in Task, n \in Names :
        task[t].snap[n] # NoRecord
            => LET was == task[t].snap[n]
                   is  == index[t.peer][n]
               IN  /\ is # NoRecord
                   /\ Dominates(is.version, was.version)
                   /\ is.version = was.version => is.hash = was.hash

\* Every cycle comes to its end.
CyclesEnd == \A t \in Task : task[t].pc # "idle" ~> task[t].pc = "idle"

\* The last scan of the device found the file as it is now.
Scanned(d, n) == index[d][n] # NoRecord /\ index[d][n].hash = disk[d][n]

\* The device counts every change of the file that its peer counts, and more.
CountsMore(d, q, n) ==
    LET mine == index[d][n].version
        theirs == index[q][n].version
    IN  Dominates(mine, theirs) /\ ~Dominates(theirs, mine)

\* Once the saves are over and if no request fails, a cycle brings every file
\* its peer has indexed as it stands when the cycle asks for the index: those
\* very bytes, unless the peer's copy makes way meanwhile, for the file of another
\* device or for a deletion.  Excepted are files of no bytes, and those that the
\* device has too: if it counts more changes of them, or has not scanned the last.
IndexedFilesArrive ==
    \A t \in Task, n \in Names, c \in Content \ EmptySaves :
        (/\ task[t].pc = "index"
         /\ saves = MaxSaves
         /\ Scanned(t.peer, n) /\ disk[t.peer][n] = c
         /\ index[t.owner][n] # NoRecord =>
                Scanned(t.owner, n) /\ ~CountsMore(t.owner, t.peer, n))
            ~> disk[t.owner][n] = c \/ disk[t.peer][n] # c

\* A step in which no user saves or deletes.
UsersRest ==
    /\ saves' = saves
    /\ \A d \in Devices, n \in Names : disk'[d][n] = NoFile => disk[d][n] = NoFile

\* Once the users rest, the devices come to rest too: neither do two devices
\* with equal counts take one another's file for ever, nor does what a fetch
\* changes on a device make its scan loop start the next cycle.
SyncSettles ==
    <>[][UsersRest]_vars => <>[](\A t \in Task : task[t].pc = "idle")

\* "Synchronises ~/Sync across all discovered peers" (sync.py:106): a file
\* that a known peer indexes comes to the device.
FilesReachKnownPeers ==
    \A d \in Devices : \A q \in Devices \ {d}, n \in Names :
        q \in known[d] /\ index[q][n] # NoRecord ~> disk[d][n] # NoFile
=============================================================================
