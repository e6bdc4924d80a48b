--------------------------- MODULE SyncEngineProofs ---------------------------
(***************************************************************************)
(* Theorems about SyncEngine, for any number of devices, files, cycles,    *)
(* saves and failures, any assignment of ids and any set of events.         *)
(***************************************************************************)
EXTENDS SyncEngine, TLAPS

-----------------------------------------------------------------------------
(* What the comparisons of FileVersions mean, for every set of device ids. *)

\* dominates is a partial order: a version dominates itself, what a dominated
\* version dominates is dominated, and two versions that dominate one another
\* are the same dictionary.
THEOREM DominatesIsPartialOrder ==
    ASSUME NEW u \in Version, NEW v \in Version, NEW w \in Version
    PROVE  /\ Dominates(u, u)
           /\ Dominates(u, v) /\ Dominates(v, w) => Dominates(u, w)
           /\ Dominates(u, v) /\ Dominates(v, u) => u = v
<1>1. \A i \in Ids : u[i] \in Nat /\ v[i] \in Nat /\ w[i] \in Nat
  BY DEF Version
<1>2. Dominates(u, u)
  <2>1. ASSUME NEW i \in Ids
        PROVE  u[i] >= u[i]
    BY <1>1
  <2>. QED  BY <2>1 DEF Dominates
<1>3. ASSUME Dominates(u, v), Dominates(v, w)
      PROVE  Dominates(u, w)
  <2>1. ASSUME NEW i \in Ids
        PROVE  u[i] >= w[i]
    <3>1. u[i] >= v[i] /\ v[i] >= w[i]
      BY <1>3 DEF Dominates
    <3>. QED  BY <3>1, <1>1
  <2>. QED  BY <2>1 DEF Dominates
<1>4. ASSUME Dominates(u, v), Dominates(v, u)
      PROVE  u = v
  <2>1. ASSUME NEW i \in Ids
        PROVE  u[i] = v[i]
    <3>1. u[i] >= v[i] /\ v[i] >= u[i]
      BY <1>4 DEF Dominates
    <3>. QED  BY <3>1, <1>1
  <2>. QED  BY <2>1 DEF Version
<1>. QED  BY <1>2, <1>3, <1>4

\* conflicts_with does not depend on which side asks.
LEMMA ConflictIsSymmetric ==
    ASSUME NEW v, NEW w, ConflictsWith(v, w)
    PROVE  ConflictsWith(w, v)
BY DEF ConflictsWith

LEMMA BumpType ==
    ASSUME NEW v \in Version, NEW id \in Ids
    PROVE  Bump(v, id) \in Version
BY DEF Bump, Version

LEMMA NoEntriesType == NoEntries \in Version
BY DEF NoEntries, Version

\* A counted version is not the empty dictionary.
LEMMA CountedHasEntries ==
    ASSUME NEW id \in Ids, NEW v, CountsOnly(v, id)
    PROVE  HasEntries(v)
BY DEF CountsOnly, HasEntries, NoEntries

\* Versions that two devices with different ids counted always conflict,
\* however the files came about: neither device knows the other's entry.
THEOREM OwnIdsAlwaysConflict ==
    ASSUME NEW id \in Ids, NEW other \in Ids, id # other,
           NEW v \in Version, NEW w \in Version,
           CountsOnly(v, id), CountsOnly(w, other)
    PROVE  ConflictsWith(v, w)
<1>1. v[id] > w[id] /\ w[other] > v[other]
  BY DEF CountsOnly, Version
<1>. QED  BY <1>1 DEF ConflictsWith, Dominates, Version

\* Versions that devices with one id counted never conflict: the higher count
\* dominates, and equal counts dominate one another.
THEOREM OneIdNeverInConflict ==
    ASSUME NEW id \in Ids, NEW v \in Version, NEW w \in Version,
           CountsOnly(v, id), CountsOnly(w, id)
    PROVE  ~ConflictsWith(v, w)
<1>1. CASE v[id] >= w[id]
  BY <1>1 DEF CountsOnly, ConflictsWith, Dominates, Version
<1>2. CASE w[id] >= v[id]
  BY <1>2 DEF CountsOnly, ConflictsWith, Dominates, Version
<1>. QED  BY <1>1, <1>2 DEF Version

LEMMA BumpCountsOnly ==
    ASSUME NEW id \in Ids, NEW v \in Version,
           v = NoEntries \/ CountsOnly(v, id)
    PROVE  CountsOnly(Bump(v, id), id)
BY DEF CountsOnly, Bump, NoEntries, Version

-----------------------------------------------------------------------------
(* The operators of the module have the types their uses rely on.          *)

LEMMA EmptyTypes == EmptyIndex \in Index /\ IdleTask \in TaskState
<1>1. EmptyIndex \in Index
  BY DEF EmptyIndex, Index
<1>. QED  BY <1>1 DEF IdleTask, TaskState, Stages

LEMMA TaskFields ==
    ASSUME NEW t \in Task
    PROVE  /\ t.owner \in Devices
           /\ t.peer \in Devices
           /\ t.owner # t.peer
BY DEF Task

LEMMA StateFields ==
    ASSUME NEW r \in TaskState
    PROVE  /\ r.pc \in Stages
           /\ r.snap \in Index
           /\ r.needed \in SUBSET Names
           /\ r.cur \in Names \cup {NoName}
           /\ r.data \in Bytes \cup {NoFile}
BY DEF TaskState

LEMMA ScanFileType ==
    ASSUME NEW d \in Devices, NEW hash \in Hash,
           NEW rec \in Record \cup {NoRecord}
    PROVE  ScanFile(d, hash, rec) \in Record
<1>1. DeviceId[d] \in Ids
  BY SyncAssumption
<1>2. CASE rec # NoRecord
  <2>1. rec.version \in Version /\ rec \in Record
    BY <1>2 DEF Record
  <2>2. Bump(rec.version, DeviceId[d]) \in Version
    BY <2>1, <1>1, BumpType
  <2>. QED  BY <2>1, <2>2, <1>2 DEF ScanFile, Record
<1>3. CASE rec = NoRecord
  <2>1. Bump(NoEntries, DeviceId[d]) \in Version
    BY <1>1, NoEntriesType, BumpType
  <2>. QED  BY <2>1, <1>3 DEF ScanFile, Record
<1>. QED  BY <1>2, <1>3

LEMMA ScanType ==
    ASSUME index \in [Devices -> Index], NEW d \in Devices,
           NEW files \in [Names -> Bytes \cup {NoFile}], NEW bad
    PROVE  Scan(d, files, bad) \in Index
<1>1. ASSUME NEW n \in Names, files[n] # NoFile
      PROVE  ScanFile(d, IF n \in bad THEN NoHash ELSE files[n], index[d][n])
                \in Record
  <2>1. index[d][n] \in Record \cup {NoRecord}
    BY DEF Index
  <2>2. (IF n \in bad THEN NoHash ELSE files[n]) \in Hash
    BY <1>1 DEF Hash
  <2>. QED  BY <2>1, <2>2, ScanFileType
<1>. QED  BY <1>1 DEF Scan, Index

LEMMA OnwardType ==
    ASSUME NEW r \in TaskState, NEW next \in Onward(r)
    PROVE  /\ next \in TaskState
           /\ next.pc \in {"idle", "file"}
<1>1. CASE r.needed = {}
  BY <1>1, EmptyTypes DEF Onward, IdleTask
<1>2. CASE r.needed # {}
  <2>1. PICK n \in r.needed :
           next = [pc |-> "file", cur |-> n, needed |-> r.needed \ {n},
                   data |-> NoFile,
                   snap |-> [m \in Names |-> IF m \in r.needed THEN r.snap[m]
                                             ELSE NoRecord]]
    BY <1>2 DEF Onward
  <2>2. [m \in Names |-> IF m \in r.needed THEN r.snap[m] ELSE NoRecord]
            \in Index
    BY StateFields DEF Index
  <2>3. n \in Names /\ r.needed \ {n} \in SUBSET Names
    BY <2>1, StateFields
  <2>. QED  BY <2>1, <2>2, <2>3 DEF TaskState, Stages
<1>. QED  BY <1>1, <1>2

LEMMA EndFetchType ==
    ASSUME TypeOK, NEW t \in Task, EndFetch(t)
    PROVE  /\ task' \in [Task -> TaskState]
           /\ transfers' \in [Devices -> Nat]
<1>1. task[t] \in TaskState /\ t.owner \in Devices
  BY TaskFields DEF TypeOK
<1>2. PICK r \in Onward(task[t]) :
         /\ task' = [task EXCEPT ![t] = r]
         /\ transfers' = [transfers EXCEPT ![t.owner] =
                             (IF @ > 0 THEN @ - 1 ELSE 0)
                               + (IF r.pc = "file" THEN 1 ELSE 0)]
  BY DEF EndFetch
<1>3. r \in TaskState
  BY <1>1, <1>2, OnwardType
<1>4. (IF transfers[t.owner] > 0 THEN transfers[t.owner] - 1 ELSE 0)
         + (IF r.pc = "file" THEN 1 ELSE 0) \in Nat
  BY <1>1 DEF TypeOK
<1>. QED  BY <1>1, <1>2, <1>3, <1>4 DEF TypeOK

LEMMA SpawnType ==
    ASSUME TypeOK, NEW d \in Devices, NEW peers, Spawn(d, peers)
    PROVE  task' \in [Task -> TaskState]
<1>1. [IdleTask EXCEPT !.pc = "index"] \in TaskState
  BY EmptyTypes DEF TaskState, Stages
<1>. QED  BY <1>1 DEF Spawn, TypeOK

-----------------------------------------------------------------------------
(* Type correctness, one step of the proof for each action.                *)

LEMMA TypeInductive ==
    ASSUME TypeOK, FetchesListed, [Next]_vars
    PROVE  TypeOK'
<1> USE DEF TypeOK
<1>1. ASSUME NEW t \in Task, ServeIndex(t)
      PROVE  TypeOK'
  <2>1. [task[t] EXCEPT !.pc = "compare", !.snap = index[t.peer]]
           \in TaskState
    BY TaskFields DEF TaskState, Stages
  <2>2. task' = [task EXCEPT ![t] =
                   [task[t] EXCEPT !.pc = "compare", !.snap = index[t.peer]]]
    BY <1>1 DEF ServeIndex, ProvideIndex
  <2>3. task' \in [Task -> TaskState]
    BY <2>1, <2>2
  <2>. QED  BY <1>1, <2>3 DEF ServeIndex, ProvideIndex
<1>2. ASSUME NEW t \in Task, Compare(t)
      PROVE  TypeOK'
  <2>1. PICK newer \in SUBSET Undated(t) :
         \E r \in Onward([task[t] EXCEPT !.needed = Needed(t, newer)]) :
            /\ task' = [task EXCEPT ![t] = r]
            /\ transfers' = [transfers EXCEPT ![t.owner] =
                                @ + (IF r.pc = "file" THEN 1 ELSE 0)]
    BY <1>2 DEF Compare
  <2>2. [task[t] EXCEPT !.needed = Needed(t, newer)] \in TaskState
    BY DEF TaskState, Needed
  <2>3. PICK r \in TaskState :
          /\ task' = [task EXCEPT ![t] = r]
          /\ transfers' = [transfers EXCEPT ![t.owner] =
                              @ + (IF r.pc = "file" THEN 1 ELSE 0)]
    BY <2>1, <2>2, OnwardType
  <2>. QED  BY <1>2, <2>3, TaskFields DEF Compare
<1>3. ASSUME NEW t \in Task, ServeFile(t)
      PROVE  TypeOK'
  <2>1. disk[t.peer][task[t].cur] \in Bytes \cup {NoFile}
    BY <1>3, TaskFields DEF ServeFile, ProvideFile, FetchesListed, Listed
  <2>2. [task[t] EXCEPT !.pc = "verify", !.data = disk[t.peer][task[t].cur]]
           \in TaskState
    BY <2>1 DEF TaskState, Stages
  <2>3. task' = [task EXCEPT ![t] =
                   [task[t] EXCEPT !.pc = "verify",
                                   !.data = disk[t.peer][task[t].cur]]]
    BY <1>3 DEF ServeFile, ProvideFile
  <2>4. task' \in [Task -> TaskState]
    BY <2>2, <2>3
  <2>. QED  BY <1>3, <2>4 DEF ServeFile, ProvideFile
<1>4. ASSUME NEW t \in Task, Reject(t)
      PROVE  TypeOK'
  BY <1>4, EndFetchType DEF Reject
<1>5. ASSUME NEW t \in Task, BeginWrite(t)
      PROVE  TypeOK'
  <2> DEFINE d == t.owner
             n == task[t].cur
             copied == InConflict(t) /\ disk[d][n] # NoFile
             files == [m \in Names |->
                        IF m = n THEN Partial
                        ELSE IF copied /\ m = ConflictName[<<n, t.peer>>]
                             THEN disk[d][n]
                        ELSE disk[d][m]]
  <2>1. d \in Devices /\ n \in Names
    BY <1>5, TaskFields DEF BeginWrite, FetchesListed, Listed
  <2>2. files \in [Names -> Bytes \cup {NoFile}]
    <3>1. Partial \in Bytes
      BY DEF Bytes
    <3>2. \A m \in Names : disk[d][m] \in Bytes \cup {NoFile}
      BY <2>1
    <3> HIDE DEF d, n, copied
    <3>. QED  BY <2>1, <3>1, <3>2
  <2>3. disk' = [disk EXCEPT ![d] = files]
    BY <1>5 DEF BeginWrite
  <2>4. [task[t] EXCEPT !.pc = "write"] \in TaskState
    BY DEF TaskState, Stages
  <2>5. task' = [task EXCEPT ![t] = [task[t] EXCEPT !.pc = "write"]]
    BY <1>5 DEF BeginWrite
  <2>6. disk' \in [Devices -> [Names -> Bytes \cup {NoFile}]]
    <3> HIDE DEF files
    <3>. QED  BY <2>1, <2>2, <2>3
  <2>7. task' \in [Task -> TaskState]
    BY <2>4, <2>5
  <2>. QED  BY <1>5, <2>6, <2>7 DEF BeginWrite
<1>6. ASSUME NEW t \in Task, FinishWrite(t)
      PROVE  TypeOK'
  <2> DEFINE d == t.owner
             files == [disk[d] EXCEPT ![task[t].cur] = task[t].data]
  <2>1. d \in Devices
    BY TaskFields
  <2>2. files \in [Names -> Bytes \cup {NoFile}]
    BY <2>1, StateFields
  <2>3. PICK bad \in SUBSET Unreadable :
           index' = [index EXCEPT ![d] = Scan(d, files, bad)]
    BY <1>6 DEF FinishWrite
  <2>4. Scan(d, files, bad) \in Index
    BY <2>1, <2>2, ScanType
  <2>5. disk' = [disk EXCEPT ![d] = files]
    BY <1>6 DEF FinishWrite
  <2>6. /\ task' \in [Task -> TaskState]
        /\ transfers' \in [Devices -> Nat]
    BY <1>6, EndFetchType DEF FinishWrite
  <2> HIDE DEF files
  <2>7. /\ disk' \in [Devices -> [Names -> Bytes \cup {NoFile}]]
        /\ index' \in [Devices -> Index]
    BY <2>1, <2>2, <2>3, <2>4, <2>5
  <2>. QED  BY <1>6, <2>6, <2>7 DEF FinishWrite
<1>7. ASSUME NEW t \in Task, RequestFails(t)
      PROVE  TypeOK'
  BY <1>7, EndFetchType, EmptyTypes DEF RequestFails
<1>17. ASSUME NEW t \in Task, WriteFails(t)
       PROVE  TypeOK'
  <2>1. /\ task' = [task EXCEPT ![t] = IdleTask]
        /\ transfers' = [transfers EXCEPT ![t.owner] =
                            IF @ > 0 THEN @ - 1 ELSE 0]
    BY <1>17 DEF WriteFails
  <2>2. transfers' \in [Devices -> Nat]
    <3>1. (IF transfers[t.owner] > 0 THEN transfers[t.owner] - 1 ELSE 0) \in Nat
      BY TaskFields
    <3>. QED  BY <2>1, <3>1
  <2>3. failures' \in 0 .. MaxFailures
    BY <1>17, SyncAssumption DEF WriteFails
  <2>. QED  BY <1>17, <2>1, <2>2, <2>3, EmptyTypes DEF WriteFails
<1>18. ASSUME NEW t \in Task, RenameFails(t)
       PROVE  TypeOK'
  <2>1. t.owner \in Devices /\ Partial \in Bytes
    BY TaskFields DEF Bytes
  <2>2. disk' \in [Devices -> [Names -> Bytes \cup {NoFile}]]
    BY <1>18, <2>1 DEF RenameFails
  <2>3. [task[t] EXCEPT !.pc = "write"] \in TaskState
    BY DEF TaskState, Stages
  <2>4. task' = [task EXCEPT ![t] = [task[t] EXCEPT !.pc = "write"]]
    BY <1>18 DEF RenameFails
  <2>5. task' \in [Task -> TaskState]
    BY <2>3, <2>4
  <2>6. failures' \in 0 .. MaxFailures
    BY <1>18, SyncAssumption DEF RenameFails
  <2>. QED  BY <1>18, <2>2, <2>5, <2>6 DEF RenameFails
<1>19. ASSUME NEW t \in Task, OpenFails(t)
       PROVE  TypeOK'
  <2>1. t.owner \in Devices
    BY TaskFields
  <2>2. disk' \in [Devices -> [Names -> Bytes \cup {NoFile}]]
    <3>1. CASE UNCHANGED disk
      BY <3>1
    <3>2. ASSUME <<task[t].cur, t.peer>> \in DOMAIN ConflictName,
                 disk[t.owner][task[t].cur] # NoFile,
                 disk' = [disk EXCEPT
                             ![t.owner][task[t].cur] = NoFile,
                             ![t.owner][ConflictName[<<task[t].cur, t.peer>>]]
                                  = disk[t.owner][task[t].cur]]
          PROVE  disk' \in [Devices -> [Names -> Bytes \cup {NoFile}]]
      <4>1. task[t].cur \in Names
        BY <1>19, <2>1 DEF OpenFails, FetchesListed, Listed
      <4>2. disk[t.owner][task[t].cur] \in Bytes
        BY <2>1, <3>2, <4>1
      <4>. QED  BY <2>1, <3>2, <4>1, <4>2
    <3>. QED  BY <1>19, <3>1, <3>2 DEF OpenFails
  <2>3. task' \in [Task -> TaskState]
    BY <1>19, EmptyTypes DEF OpenFails
  <2>4. transfers' \in [Devices -> Nat]
    <3>1. (IF transfers[t.owner] > 0 THEN transfers[t.owner] - 1 ELSE 0) \in Nat
      BY TaskFields
    <3>2. transfers' = [transfers EXCEPT ![t.owner] =
                            IF @ > 0 THEN @ - 1 ELSE 0]
      BY <1>19 DEF OpenFails
    <3>. QED  BY <3>1, <3>2
  <2>5. failures' \in 0 .. MaxFailures
    BY <1>19, SyncAssumption DEF OpenFails
  <2>6. UNCHANGED <<saves, life, index, known>>
    BY <1>19 DEF OpenFails
  <2>. QED  BY <2>2, <2>3, <2>4, <2>5, <2>6
<1>8. ASSUME NEW d \in Devices, Boot(d) \/ Stop(d)
      PROVE  TypeOK'
  BY <1>8 DEF Boot, Stop, Lives
<1>9. ASSUME NEW d \in Devices, Start(d)
      PROVE  TypeOK'
  <2>1. PICK bad \in SUBSET Unreadable :
           index' = [index EXCEPT ![d] = Scan(d, disk[d], bad)]
    BY <1>9 DEF Start
  <2>2. Scan(d, disk[d], bad) \in Index
    BY ScanType
  <2>. QED  BY <1>9, <2>1, <2>2 DEF Start, Lives
<1>10. ASSUME NEW d \in Devices, Crash(d)
       PROVE  TypeOK'
  <2>1. failures' \in 0 .. MaxFailures
    BY <1>10, SyncAssumption DEF Crash
  <2>. QED  BY <1>10, <2>1, EmptyTypes DEF Crash, Lives
<1>11. ASSUME NEW d \in Devices, ScanTurn(d)
       PROVE  TypeOK'
  <2>1. PICK bad \in SUBSET Unreadable :
          /\ index' = [index EXCEPT ![d] = Scan(d, disk[d], bad)]
          /\ Spawn(d, known[d]) \/ UNCHANGED task
    BY <1>11 DEF ScanTurn
  <2>2. Scan(d, disk[d], bad) \in Index
    BY ScanType
  <2>3. task' \in [Task -> TaskState]
    BY <2>1, SpawnType
  <2>. QED  BY <1>11, <2>1, <2>2, <2>3 DEF ScanTurn
<1>12. ASSUME NEW d \in Devices, NEW q \in Devices \ {d}, Discover(d, q)
       PROVE  TypeOK'
  <2>1. task' \in [Task -> TaskState]
    BY <1>12, SpawnType DEF Discover
  <2>. QED  BY <1>12, <2>1 DEF Discover
<1>13. ASSUME NEW d \in Devices, NEW q \in Devices \ {d}, Lose(d, q)
       PROVE  TypeOK'
  BY <1>13 DEF Lose
<1>14. ASSUME NEW d \in Devices, NEW n \in UserNames, Save(d, n)
       PROVE  TypeOK'
  <2>1. saves + 1 \in Content
    BY <1>14, SyncAssumption DEF Save, Content
  <2>2. saves' \in 0 .. MaxSaves
    BY <1>14, SyncAssumption DEF Save
  <2>. QED  BY <1>14, <2>1, <2>2 DEF Save, Bytes
<1>15. ASSUME NEW d \in Devices, NEW n \in UserNames, Delete(d, n)
       PROVE  TypeOK'
  BY <1>15 DEF Delete
<1>16. CASE UNCHANGED vars
  BY <1>16 DEF vars
<1>. QED
  BY <1>1, <1>2, <1>3, <1>4, <1>5, <1>6, <1>7, <1>8, <1>9, <1>10, <1>11,
     <1>12, <1>13, <1>14, <1>15, <1>16, <1>17, <1>18, <1>19 DEF Next, CycleStep

-----------------------------------------------------------------------------
(* What a step can make of one cycle and of one index.                     *)

TaskStep(t) ==
    \/ task'[t] = task[t]
    \/ task'[t] = IdleTask
    \/ task'[t] = [IdleTask EXCEPT !.pc = "index"]
    \/ /\ task[t].pc = "index"
       /\ task'[t] = [task[t] EXCEPT !.pc = "compare", !.snap = index[t.peer]]
    \/ \E newer : task'[t] \in Onward([task[t] EXCEPT
                                            !.needed = Needed(t, newer)])
    \/ task[t].pc = "file" /\ \E data \in Bytes \cup {NoFile} :
         task'[t] = [task[t] EXCEPT !.pc = "verify", !.data = data]
    \/ task[t].pc = "verify" /\ task'[t] = [task[t] EXCEPT !.pc = "write"]
    \/ task'[t] \in Onward(task[t])

LEMMA TaskSteps ==
    ASSUME TypeOK, FetchesListed, [Next]_vars, NEW u \in Task
    PROVE  TaskStep(u)
<1> USE DEF TaskStep
<1>0. task \in [Task -> TaskState]
  BY DEF TypeOK
<1>1. ASSUME NEW t \in Task, ServeIndex(t)
      PROVE  TaskStep(u)
  BY <1>0, <1>1 DEF ServeIndex, ProvideIndex
<1>2. ASSUME NEW t \in Task, Compare(t)
      PROVE  TaskStep(u)
  <2>1. PICK newer \in SUBSET Undated(t) :
         \E r \in Onward([task[t] EXCEPT !.needed = Needed(t, newer)]) :
            task' = [task EXCEPT ![t] = r]
    BY <1>2 DEF Compare
  <2>2. PICK r \in Onward([task[t] EXCEPT !.needed = Needed(t, newer)]) :
            task' = [task EXCEPT ![t] = r]
    BY <2>1
  <2>3. CASE u = t
    BY <1>0, <2>2, <2>3
  <2>4. CASE u # t
    BY <1>0, <2>2, <2>4
  <2>. QED  BY <2>3, <2>4
<1>3. ASSUME NEW t \in Task, ServeFile(t)
      PROVE  TaskStep(u)
  <2>1. disk[t.peer][task[t].cur] \in Bytes \cup {NoFile}
    BY <1>3, TaskFields DEF ServeFile, ProvideFile, FetchesListed, Listed, TypeOK
  <2>2. task' = [task EXCEPT ![t] =
                   [task[t] EXCEPT !.pc = "verify",
                                   !.data = disk[t.peer][task[t].cur]]]
    BY <1>3 DEF ServeFile, ProvideFile
  <2>. QED  BY <1>0, <1>3, <2>1, <2>2 DEF ServeFile, ProvideFile
<1>4. ASSUME NEW t \in Task, EndFetch(t)
      PROVE  TaskStep(u)
  BY <1>0, <1>4 DEF EndFetch
<1>5. ASSUME NEW t \in Task, BeginWrite(t) \/ RenameFails(t)
      PROVE  TaskStep(u)
  BY <1>0, <1>5 DEF BeginWrite, RenameFails
<1>6. ASSUME NEW t \in Task, RequestFails(t) \/ WriteFails(t) \/ OpenFails(t)
      PROVE  TaskStep(u)
  BY <1>0, <1>4, <1>6 DEF RequestFails, WriteFails, OpenFails
<1>7. ASSUME NEW d \in Devices, NEW peers, Spawn(d, peers)
      PROVE  TaskStep(u)
  BY <1>7 DEF Spawn
<1>8. ASSUME NEW d \in Devices, Crash(d)
      PROVE  TaskStep(u)
  BY <1>8 DEF Crash
<1>9. ASSUME UNCHANGED task
      PROVE  TaskStep(u)
  BY <1>9
<1>10. ASSUME NEW d \in Devices, ScanTurn(d)
       PROVE  TaskStep(u)
  BY <1>7, <1>9, <1>10 DEF ScanTurn
<1> HIDE DEF TaskStep
<1>11. ASSUME NEW t \in Task, CycleStep(t)
       PROVE  TaskStep(u)
  BY <1>1, <1>2, <1>3, <1>4, <1>5, <1>6, <1>11
     DEF CycleStep, Reject, FinishWrite
<1>12. ASSUME NEW d \in Devices,
              \/ Boot(d) \/ Start(d) \/ Stop(d)
              \/ \E q \in Devices \ {d} : Discover(d, q) \/ Lose(d, q)
              \/ \E n \in UserNames : Save(d, n) \/ Delete(d, n)
       PROVE  TaskStep(u)
  BY <1>7, <1>9, <1>12 DEF Boot, Start, Stop, Discover, Lose, Save, Delete
<1>13. CASE UNCHANGED vars
  BY <1>9, <1>13 DEF vars
<1>. QED  BY <1>8, <1>10, <1>11, <1>12, <1>13 DEF Next

\* The index of d is left alone, lost with the process, or made anew by a scan
\* of the files as they are after the step.
IndexStep(d) ==
    \/ index'[d] = index[d]
    \/ failures' = failures + 1 /\ index'[d] = EmptyIndex
    \/ \E bad \in SUBSET Unreadable : index'[d] = Scan(d, disk'[d], bad)

LEMMA IndexSteps ==
    ASSUME TypeOK, [Next]_vars, NEW e \in Devices
    PROVE  IndexStep(e)
<1>0. /\ index \in [Devices -> Index]
      /\ disk \in [Devices -> [Names -> Bytes \cup {NoFile}]]
  BY DEF TypeOK
<1>1. ASSUME NEW d \in Devices, NEW bad \in SUBSET Unreadable,
             index' = [index EXCEPT ![d] = Scan(d, disk'[d], bad)]
      PROVE  IndexStep(e)
  BY <1>0, <1>1 DEF IndexStep
<1>2. ASSUME NEW t \in Task, FinishWrite(t)
      PROVE  IndexStep(e)
  <2> DEFINE files == [disk[t.owner] EXCEPT ![task[t].cur] = task[t].data]
  <2>1. t.owner \in Devices
    BY TaskFields
  <2>2. disk' = [disk EXCEPT ![t.owner] = files]
    BY <1>2 DEF FinishWrite
  <2>3. PICK bad \in SUBSET Unreadable :
           index' = [index EXCEPT ![t.owner] = Scan(t.owner, files, bad)]
    BY <1>2 DEF FinishWrite
  <2> HIDE DEF files
  <2>4. files = disk'[t.owner]
    BY <1>0, <2>1, <2>2
  <2>. QED  BY <1>1, <2>1, <2>3, <2>4
<1>3. ASSUME NEW d \in Devices, Start(d)
      PROVE  IndexStep(e)
  <2>1. disk' = disk
    BY <1>3 DEF Start
  <2>2. PICK bad \in SUBSET Unreadable :
           index' = [index EXCEPT ![d] = Scan(d, disk[d], bad)]
    BY <1>3 DEF Start
  <2>. QED  BY <1>1, <2>1, <2>2
<1>4. ASSUME NEW d \in Devices, ScanTurn(d)
      PROVE  IndexStep(e)
  <2>1. disk' = disk
    BY <1>4 DEF ScanTurn
  <2>2. PICK bad \in SUBSET Unreadable :
           index' = [index EXCEPT ![d] = Scan(d, disk[d], bad)]
    BY <1>4 DEF ScanTurn
  <2>. QED  BY <1>1, <2>1, <2>2
<1>5. ASSUME NEW d \in Devices, Crash(d)
      PROVE  IndexStep(e)
  BY <1>0, <1>5 DEF Crash, IndexStep
<1>6. ASSUME UNCHANGED index
      PROVE  IndexStep(e)
  BY <1>6 DEF IndexStep
<1>7. ASSUME NEW t \in Task, CycleStep(t)
      PROVE  IndexStep(e)
  BY <1>2, <1>6, <1>7 DEF CycleStep, ServeIndex, ProvideIndex, Compare, ServeFile, ProvideFile, Reject,
     BeginWrite, RenameFails, RequestFails, WriteFails, OpenFails
<1>8. ASSUME NEW d \in Devices,
             \/ Boot(d) \/ Stop(d)
             \/ \E q \in Devices \ {d} : Discover(d, q) \/ Lose(d, q)
             \/ \E n \in UserNames : Save(d, n) \/ Delete(d, n)
      PROVE  IndexStep(e)
  BY <1>6, <1>8 DEF Boot, Stop, Discover, Lose, Save, Delete
<1>9. CASE UNCHANGED vars
  BY <1>6, <1>9 DEF vars
<1>. QED  BY <1>3, <1>4, <1>5, <1>7, <1>8, <1>9 DEF Next

-----------------------------------------------------------------------------
(* The inductive invariant.                                                *)

LEMMA OnwardListed ==
    ASSUME NEW r \in TaskState, \A n \in r.needed : r.snap[n] # NoRecord,
           NEW next \in Onward(r)
    PROVE  Listed(next)
<1>1. CASE r.needed = {}
  BY <1>1 DEF Onward, IdleTask, Listed
<1>2. CASE r.needed # {}
  BY <1>2, StateFields DEF Onward, Listed
<1>. QED  BY <1>1, <1>2

LEMMA NeededState ==
    ASSUME TypeOK, NEW t \in Task, NEW newer
    PROVE  LET r == [task[t] EXCEPT !.needed = Needed(t, newer)]
           IN  /\ r \in TaskState
               /\ r.snap = task[t].snap
               /\ \A n \in r.needed : r.snap[n] # NoRecord
BY DEF TypeOK, TaskState, Needed

LEMMA FetchesInductive ==
    ASSUME TypeOK, FetchesListed, [Next]_vars
    PROVE  FetchesListed'
<1> SUFFICES ASSUME NEW t \in Task
             PROVE  Listed(task'[t])
  BY DEF FetchesListed
<1>1. task[t] \in TaskState /\ Listed(task[t])
  BY DEF TypeOK, FetchesListed
<1>2. CASE \/ task'[t] = task[t]
           \/ task'[t] = IdleTask
           \/ task'[t] = [IdleTask EXCEPT !.pc = "index"]
  BY <1>1, <1>2 DEF Listed, IdleTask
<1>3. CASE /\ task[t].pc = "index"
           /\ task'[t] = [task[t] EXCEPT !.pc = "compare",
                                        !.snap = index[t.peer]]
  BY <1>1, <1>3 DEF Listed, TaskState
<1>4. ASSUME NEW newer,
             task'[t] \in Onward([task[t] EXCEPT !.needed = Needed(t, newer)])
      PROVE  Listed(task'[t])
  BY <1>4, NeededState, OnwardListed
<1>5. CASE \/ /\ task[t].pc = "file"
              /\ \E data \in Bytes \cup {NoFile} :
                   task'[t] = [task[t] EXCEPT !.pc = "verify", !.data = data]
           \/ /\ task[t].pc = "verify"
              /\ task'[t] = [task[t] EXCEPT !.pc = "write"]
  BY <1>1, <1>5 DEF Listed, TaskState
<1>6. CASE task'[t] \in Onward(task[t])
  BY <1>1, <1>6, OnwardListed DEF Listed
<1>. QED
  BY <1>2, <1>3, <1>4, <1>5, <1>6, TaskSteps DEF TaskStep

LEMMA ScanCounted ==
    ASSUME index \in [Devices -> Index], NEW d \in Devices,
           CountedBy(d, index[d]),
           NEW files \in [Names -> Bytes \cup {NoFile}], NEW bad
    PROVE  CountedBy(d, Scan(d, files, bad))
<1> SUFFICES ASSUME NEW n \in Names, files[n] # NoFile
             PROVE  CountsOnly(Scan(d, files, bad)[n].version, DeviceId[d])
  BY DEF CountedBy, Scan
<1> DEFINE hash == IF n \in bad THEN NoHash ELSE files[n]
           rec == index[d][n]
<1>1. Scan(d, files, bad)[n] = ScanFile(d, hash, rec)
  BY DEF Scan
<1>2. DeviceId[d] \in Ids
  BY SyncAssumption
<1>3. rec \in Record \cup {NoRecord}
  BY DEF Index
<1>4. rec # NoRecord => CountsOnly(rec.version, DeviceId[d])
  BY DEF CountedBy
<1> HIDE DEF hash, rec
<1>5. CASE rec # NoRecord /\ rec.hash = hash
  BY <1>1, <1>4, <1>5 DEF ScanFile
<1>6. CASE rec # NoRecord /\ rec.hash # hash
  <2>1. rec.version \in Version
    BY <1>3, <1>6 DEF Record
  <2>2. CountsOnly(Bump(rec.version, DeviceId[d]), DeviceId[d])
    BY <1>2, <1>4, <1>6, <2>1, BumpCountsOnly
  <2>. QED  BY <1>1, <1>6, <2>2 DEF ScanFile
<1>7. CASE rec = NoRecord
  <2>1. CountsOnly(Bump(NoEntries, DeviceId[d]), DeviceId[d])
    BY <1>2, NoEntriesType, BumpCountsOnly
  <2>. QED  BY <1>1, <1>7, <2>1 DEF ScanFile
<1>. QED  BY <1>5, <1>6, <1>7

LEMMA OnwardCounted ==
    ASSUME NEW d, NEW r \in TaskState, CountedBy(d, r.snap),
           NEW next \in Onward(r)
    PROVE  CountedBy(d, next.snap)
BY DEF Onward, CountedBy, IdleTask, EmptyIndex

LEMMA VersionsInductive ==
    ASSUME TypeOK, FetchesListed, VersionsCountOwnScans, [Next]_vars
    PROVE  VersionsCountOwnScans'
<1>1. ASSUME NEW d \in Devices
      PROVE  CountedBy(d, index'[d])
  <2>1. index \in [Devices -> Index] /\ CountedBy(d, index[d])
    BY DEF TypeOK, VersionsCountOwnScans
  <2>2. CASE index'[d] = EmptyIndex
    BY <2>2 DEF CountedBy, EmptyIndex
  <2>3. disk'[d] \in [Names -> Bytes \cup {NoFile}]
    BY TypeInductive DEF TypeOK
  <2>. QED  BY <2>1, <2>2, <2>3, IndexSteps, ScanCounted DEF IndexStep
<1>2. ASSUME NEW t \in Task
      PROVE  CountedBy(t.peer, task'[t].snap)
  <2>1. /\ task[t] \in TaskState
        /\ CountedBy(t.peer, task[t].snap)
        /\ CountedBy(t.peer, index[t.peer])
    BY TaskFields DEF TypeOK, VersionsCountOwnScans
  <2>2. CASE \/ task'[t] = IdleTask
             \/ task'[t] = [IdleTask EXCEPT !.pc = "index"]
    BY <2>2 DEF CountedBy, IdleTask, EmptyIndex
  <2>3. ASSUME NEW newer,
               task'[t] \in Onward([task[t] EXCEPT
                                        !.needed = Needed(t, newer)])
        PROVE  CountedBy(t.peer, task'[t].snap)
    BY <2>1, <2>3, NeededState, OnwardCounted
  <2>4. CASE task'[t] \in Onward(task[t])
    BY <2>1, <2>4, OnwardCounted
  <2>5. CASE \/ task'[t] = task[t]
             \/ task'[t] = [task[t] EXCEPT !.pc = "compare",
                                          !.snap = index[t.peer]]
             \/ \E data : task'[t] = [task[t] EXCEPT !.pc = "verify",
                                                    !.data = data]
             \/ task'[t] = [task[t] EXCEPT !.pc = "write"]
    BY <2>1, <2>5 DEF TaskState
  <2>. QED  BY <2>2, <2>3, <2>4, <2>5, TaskSteps DEF TaskStep
<1>. QED  BY <1>1, <1>2 DEF VersionsCountOwnScans

-----------------------------------------------------------------------------
(* The theorems.                                                           *)

Inv == TypeOK /\ FetchesListed /\ VersionsCountOwnScans

LEMMA InitInv == Init => Inv
<1> SUFFICES ASSUME Init PROVE Inv
  OBVIOUS
<1>1. TypeOK
  <2>1. /\ saves \in 0 .. MaxSaves
        /\ failures \in 0 .. MaxFailures
    BY SyncAssumption DEF Init
  <2>. QED  BY <2>1, EmptyTypes DEF Init, TypeOK, Lives
<1>2. FetchesListed
  BY DEF Init, FetchesListed, Listed, IdleTask
<1>3. VersionsCountOwnScans
  BY TaskFields DEF Init, VersionsCountOwnScans, CountedBy, IdleTask,
     EmptyIndex
<1>. QED  BY <1>1, <1>2, <1>3 DEF Inv

LEMMA NextInv == Inv /\ [Next]_vars => Inv'
BY TypeInductive, FetchesInductive, VersionsInductive DEF Inv

\* The inductive invariant: the state is well typed, a cycle fetches only what
\* its peer's index lists, and no version is ever merged with a peer's.
THEOREM InvHolds == Spec => []Inv
BY InitInv, NextInv, PTL DEF Spec

\* Through every interleaving of cycles, scans, saves and failures the engine's
\* state is well typed.
THEOREM TypeCorrect == Spec => []TypeOK
BY InvHolds, PTL DEF Inv

\* A version counts the scans of the device that indexed the file and nothing
\* else, in the index (_scan_local_files) as in what cycles took from peers
\* (_sync_with_peer): replication exchanges files, never versions.
THEOREM VersionsStayOwn == Spec => []VersionsCountOwnScans
BY InvHolds, PTL DEF Inv

-----------------------------------------------------------------------------
(* Conflicts.                                                              *)

\* The two steps that take a cycle from a checked answer to writing it.
LEMMA WritesBegin ==
    ASSUME TypeOK, [Next]_vars, NEW t \in Task,
           task[t].pc = "verify", task'[t].pc = "write"
    PROVE  BeginWrite(t) \/ RenameFails(t)
<1>0. task \in [Task -> TaskState]
  BY DEF TypeOK
<1>1. ASSUME NEW u \in Task, EndFetch(u)
      PROVE  FALSE
  <2>1. PICK r \in Onward(task[u]) : task' = [task EXCEPT ![u] = r]
    BY <1>1 DEF EndFetch
  <2>2. r.pc # "write"
    BY <1>0, <2>1, OnwardType
  <2>. QED  BY <1>0, <2>1, <2>2
<1>2. ASSUME NEW u \in Task, Compare(u)
      PROVE  FALSE
  <2>1. u # t
    BY <1>2 DEF Compare
  <2>. QED  BY <1>0, <1>2, <2>1 DEF Compare
<1>3. ASSUME NEW u \in Task,
             \/ ServeIndex(u) \/ ServeFile(u)
             \/ RequestFails(u) \/ WriteFails(u) \/ OpenFails(u)
      PROVE  FALSE
  BY <1>0, <1>1, <1>3
     DEF ServeIndex, ProvideIndex, ServeFile, ProvideFile, RequestFails,
         WriteFails, OpenFails, IdleTask
<1>4. ASSUME NEW u \in Task, BeginWrite(u) \/ RenameFails(u)
      PROVE  u = t
  BY <1>0, <1>4 DEF BeginWrite, RenameFails
<1>5. ASSUME NEW d, NEW peers, Spawn(d, peers)
      PROVE  FALSE
  BY <1>5 DEF Spawn, IdleTask
<1>6. ASSUME NEW d \in Devices, ScanTurn(d) \/ Crash(d)
      PROVE  FALSE
  BY <1>5, <1>6 DEF ScanTurn, Crash, IdleTask
<1>7. ASSUME NEW d \in Devices,
             \/ Boot(d) \/ Start(d) \/ Stop(d)
             \/ \E q \in Devices \ {d} : Discover(d, q) \/ Lose(d, q)
             \/ \E n \in UserNames : Save(d, n) \/ Delete(d, n)
      PROVE  FALSE
  BY <1>5, <1>7 DEF Boot, Start, Stop, Discover, Lose, Save, Delete
<1>8. CASE UNCHANGED vars
  BY <1>8 DEF vars
<1>. QED
  BY <1>1, <1>2, <1>3, <1>4, <1>6, <1>7, <1>8
     DEF Next, CycleStep, Reject, FinishWrite

\* What a cycle fetched and what its device indexed meet as versions that
\* their own devices counted.
LEMMA FetchMeetsIndex ==
    ASSUME Inv, NEW t \in Task, task[t].pc = "verify",
           index[t.owner][task[t].cur] # NoRecord
    PROVE  LET n == task[t].cur
               local == index[t.owner][n].version
               remote == task[t].snap[n].version
           IN  /\ n \in Names
               /\ local \in Version /\ remote \in Version
               /\ CountsOnly(local, DeviceId[t.owner])
               /\ CountsOnly(remote, DeviceId[t.peer])
               /\ DeviceId[t.owner] \in Ids /\ DeviceId[t.peer] \in Ids
<1> DEFINE n == task[t].cur
<1>1. n \in Names /\ task[t].snap[n] # NoRecord
  BY DEF Inv, FetchesListed, Listed
<1>2. task[t].snap \in Index /\ index[t.owner] \in Index
  BY TaskFields, StateFields DEF Inv, TypeOK
<1>3. index[t.owner][n] \in Record /\ task[t].snap[n] \in Record
  BY <1>1, <1>2 DEF Index
<1>4. /\ CountedBy(t.owner, index[t.owner])
      /\ CountedBy(t.peer, task[t].snap)
  BY TaskFields DEF Inv, VersionsCountOwnScans
<1>5. /\ CountsOnly(index[t.owner][n].version, DeviceId[t.owner])
      /\ CountsOnly(task[t].snap[n].version, DeviceId[t.peer])
  BY <1>1, <1>4 DEF CountedBy
<1>. QED  BY <1>1, <1>3, <1>5, TaskFields, SyncAssumption DEF Record

\* Between devices with ids of their own a fetched file never destroys one
\* the device has indexed: _request_file moves it aside first.  Versions that
\* are never merged always conflict, so the check never lets one through.
THEOREM ReplacedFilesStay == Spec => ReplacedFilesAreKept
<1>1. ASSUME Inv, [Next]_vars, NEW t \in Task,
             task[t].pc = "verify", task'[t].pc = "write",
             failures' = failures,
             DeviceId[t.owner] # DeviceId[t.peer],
             index[t.owner][task[t].cur] # NoRecord,
             disk[t.owner][task[t].cur] # NoFile
      PROVE  disk'[t.owner][ConflictName[<<task[t].cur, t.peer>>]]
                = disk[t.owner][task[t].cur]
  <2> DEFINE d == t.owner
             n == task[t].cur
             copy == ConflictName[<<n, t.peer>>]
  <2>1. BeginWrite(t)
    <3>1. failures \in Nat
      BY <1>1, SyncAssumption DEF Inv, TypeOK
    <3>2. ~RenameFails(t)
      BY <1>1, <3>1 DEF RenameFails
    <3>. QED  BY <1>1, <3>2, WritesBegin DEF Inv
  <2>2. InConflict(t)
    <3>1. ConflictsWith(task[t].snap[n].version, index[d][n].version)
      BY <1>1, FetchMeetsIndex, OwnIdsAlwaysConflict
    <3>2. HasEntries(task[t].snap[n].version) /\ HasEntries(index[d][n].version)
      BY <1>1, FetchMeetsIndex, CountedHasEntries
    <3>. QED  BY <1>1, <3>1, <3>2 DEF InConflict
  <2>3. <<n, t.peer>> \in DOMAIN ConflictName
    BY <1>1, <2>1, <2>2 DEF BeginWrite
  <2>4. copy \in Names /\ copy # n
    BY <2>3, SyncAssumption
  <2>5. disk' = [disk EXCEPT ![d] = [m \in Names |->
                    IF m = n THEN Partial
                    ELSE IF m = copy THEN disk[d][n]
                    ELSE disk[d][m]]]
    BY <1>1, <2>1, <2>2 DEF BeginWrite
  <2>6. disk \in [Devices -> [Names -> Bytes \cup {NoFile}]] /\ d \in Devices
    BY <1>1, TaskFields DEF Inv, TypeOK
  <2> HIDE DEF d, n, copy
  <2>7. disk'[d][copy] = disk[d][n]
    BY <2>4, <2>5, <2>6
  <2>. QED  BY <2>7 DEF d, n, copy
<1>2. Inv /\ [Next]_vars =>
        [\A t \in Task :
            LET d == t.owner
                n == task[t].cur
            IN  /\ task[t].pc = "verify" /\ task'[t].pc = "write"
                /\ failures' = failures
                /\ DeviceId[d] # DeviceId[t.peer]
                /\ index[d][n] # NoRecord
                /\ disk[d][n] # NoFile
                => disk'[d][ConflictName[<<n, t.peer>>]] = disk[d][n]]_vars
  BY <1>1
<1>. QED  BY <1>2, InvHolds, PTL DEF Spec, ReplacedFilesAreKept

-----------------------------------------------------------------------------
(* One id for all devices.                                                 *)

OneIdForAll == \A d, q \in Devices : DeviceId[d] = DeviceId[q]

UserFilesOnly(idx) == \A n \in Names \ UserNames : idx[n] = NoRecord

\* No conflict copy on a disk, in an index or in what a cycle took of one.
CopyFree ==
    /\ NoCopies
    /\ \A d \in Devices : UserFilesOnly(index[d])
    /\ \A t \in Task : UserFilesOnly(task[t].snap)

LEMMA NoConflictFound ==
    ASSUME Inv, OneIdForAll, NEW t \in Task, task[t].pc = "verify"
    PROVE  ~InConflict(t)
<1> SUFFICES ASSUME index[t.owner][task[t].cur] # NoRecord
             PROVE  ~ConflictsWith(task[t].snap[task[t].cur].version,
                                   index[t.owner][task[t].cur].version)
  BY DEF InConflict
<1>1. DeviceId[t.owner] = DeviceId[t.peer]
  BY TaskFields DEF OneIdForAll
<1>. QED  BY <1>1, FetchMeetsIndex, OneIdNeverInConflict

LEMMA DisksStayCopyFree ==
    ASSUME Inv, OneIdForAll, CopyFree, [Next]_vars
    PROVE  NoCopies'
<1>0. /\ disk \in [Devices -> [Names -> Bytes \cup {NoFile}]]
      /\ NoCopies
  BY DEF Inv, TypeOK, CopyFree
<1>1. ASSUME NEW t \in Task, task[t].pc \in {"verify", "write"}
      PROVE  task[t].cur \in UserNames
  BY <1>1 DEF Inv, FetchesListed, Listed, CopyFree, UserFilesOnly
<1>2. ASSUME NEW t \in Task, BeginWrite(t)
      PROVE  NoCopies'
  <2> DEFINE d == t.owner
             n == task[t].cur
  <2>1. n \in UserNames /\ ~InConflict(t) /\ d \in Devices
    BY <1>1, <1>2, NoConflictFound, TaskFields DEF BeginWrite
  <2>2. disk' = [disk EXCEPT ![d] = [m \in Names |->
                    IF m = n THEN Partial ELSE disk[d][m]]]
    BY <1>2, <2>1 DEF BeginWrite
  <2> HIDE DEF d, n
  <2>. QED  BY <1>0, <2>1, <2>2 DEF NoCopies
<1>3. ASSUME NEW t \in Task, FinishWrite(t)
      PROVE  NoCopies'
  <2>1. task[t].cur \in UserNames /\ t.owner \in Devices
    BY <1>1, <1>3, TaskFields DEF FinishWrite
  <2>2. disk' = [disk EXCEPT ![t.owner] =
                    [disk[t.owner] EXCEPT ![task[t].cur] = task[t].data]]
    BY <1>3 DEF FinishWrite
  <2>. QED  BY <1>0, <2>1, <2>2 DEF NoCopies
<1>4. ASSUME NEW d \in Devices, NEW n \in UserNames, Save(d, n) \/ Delete(d, n)
      PROVE  NoCopies'
  <2>1. PICK bytes : disk' = [disk EXCEPT ![d][n] = bytes]
    BY <1>4 DEF Save, Delete
  <2>. QED  BY <1>0, <2>1 DEF NoCopies
<1>5. ASSUME UNCHANGED disk
      PROVE  NoCopies'
  BY <1>0, <1>5 DEF NoCopies
<1>6. ASSUME NEW t \in Task, CycleStep(t)
      PROVE  NoCopies'
  <2>1. ~RenameFails(t)
    BY NoConflictFound DEF RenameFails
  <2>2. OpenFails(t) => UNCHANGED disk
    BY NoConflictFound DEF OpenFails
  <2>. QED  BY <1>2, <1>3, <1>5, <1>6, <2>1, <2>2 DEF CycleStep, ServeIndex, ProvideIndex,
             Compare, ServeFile, ProvideFile, Reject, RequestFails, WriteFails
<1>7. ASSUME NEW d \in Devices,
             \/ Boot(d) \/ Start(d) \/ Stop(d) \/ Crash(d) \/ ScanTurn(d)
             \/ \E q \in Devices \ {d} : Discover(d, q) \/ Lose(d, q)
      PROVE  NoCopies'
  BY <1>5, <1>7 DEF Boot, Start, Stop, Crash, ScanTurn, Discover, Lose
<1>8. CASE UNCHANGED vars
  BY <1>5, <1>8 DEF vars
<1>. QED  BY <1>4, <1>6, <1>7, <1>8 DEF Next

LEMMA CopyFreeInductive ==
    ASSUME Inv, OneIdForAll, CopyFree, [Next]_vars
    PROVE  CopyFree'
<1>1. NoCopies'
  BY DisksStayCopyFree
<1>2. ASSUME NEW d \in Devices
      PROVE  UserFilesOnly(index'[d])
  <2>1. ASSUME NEW bad, index'[d] = Scan(d, disk'[d], bad)
        PROVE  UserFilesOnly(index'[d])
    BY <1>1, <2>1 DEF UserFilesOnly, NoCopies, Scan
  <2>2. CASE index'[d] = EmptyIndex
    BY <2>2 DEF UserFilesOnly, EmptyIndex
  <2>3. UserFilesOnly(index[d])
    BY DEF CopyFree
  <2>. QED  BY <2>1, <2>2, <2>3, IndexSteps DEF IndexStep, Inv
<1>3. ASSUME NEW t \in Task
      PROVE  UserFilesOnly(task'[t].snap)
  <2>1. /\ task[t] \in TaskState
        /\ UserFilesOnly(task[t].snap)
        /\ UserFilesOnly(index[t.peer])
    BY TaskFields DEF Inv, TypeOK, CopyFree
  <2>2. CASE \/ task'[t] = IdleTask
             \/ task'[t] = [IdleTask EXCEPT !.pc = "index"]
    BY <2>2 DEF UserFilesOnly, IdleTask, EmptyIndex
  <2>3. ASSUME NEW r \in TaskState, UserFilesOnly(r.snap),
               task'[t] \in Onward(r)
        PROVE  UserFilesOnly(task'[t].snap)
    BY <2>3 DEF Onward, UserFilesOnly, IdleTask, EmptyIndex
  <2>4. ASSUME NEW newer,
               task'[t] \in Onward([task[t] EXCEPT
                                        !.needed = Needed(t, newer)])
        PROVE  UserFilesOnly(task'[t].snap)
    BY <2>1, <2>3, <2>4, NeededState DEF Inv
  <2>5. CASE \/ task'[t] = task[t]
             \/ task'[t] = [task[t] EXCEPT !.pc = "compare",
                                          !.snap = index[t.peer]]
             \/ \E data : task'[t] = [task[t] EXCEPT !.pc = "verify",
                                                    !.data = data]
             \/ task'[t] = [task[t] EXCEPT !.pc = "write"]
    BY <2>1, <2>5 DEF TaskState
  <2>. QED  BY <2>1, <2>2, <2>3, <2>4, <2>5, TaskSteps DEF TaskStep, Inv
<1>. QED  BY <1>1, <1>2, <1>3 DEF CopyFree

\* The configuration that ships: devices that all count under one id never
\* find a conflict, so _request_file never keeps what it overwrites.
THEOREM OneIdNoConflicts == Spec => []OneIdNeverConflicts
<1> DEFINE CopyInv == OneIdForAll => CopyFree
<1>1. Init => CopyInv
  BY DEF Init, CopyFree, NoCopies, UserFilesOnly, IdleTask, EmptyIndex
<1>2. Inv /\ CopyInv /\ [Next]_vars => CopyInv'
  BY CopyFreeInductive DEF OneIdForAll
<1>3. Inv /\ CopyInv => OneIdNeverConflicts
  BY NoConflictFound DEF OneIdNeverConflicts, OneIdForAll, CopyFree
<1>. QED  BY <1>1, <1>2, <1>3, InvHolds, PTL DEF Spec
===============================================================================
