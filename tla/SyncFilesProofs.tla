--------------------------- MODULE SyncFilesProofs ---------------------------
(***************************************************************************)
(* What the files, the indexes and the snapshots of SyncEngine are to one  *)
(* another as long as nothing fails, for any devices, files and cycles;    *)
(* and the transfer counter, for any finite set of devices and any number  *)
(* of overlapping cycles.                                                  *)
(***************************************************************************)
EXTENDS SyncEngineProofs, FiniteSetTheorems

-----------------------------------------------------------------------------
(* What a step can do to a disk, and when.                                 *)

LEMMA FailuresStay ==
    ASSUME TypeOK, [Next]_vars, failures' = 0
    PROVE  failures = 0
<1>0. failures \in Nat
  BY SyncAssumption DEF TypeOK
<1>1. failures' = failures \/ failures' = failures + 1
  BY DEF Next, CycleStep, ServeIndex, ProvideIndex, Compare, ServeFile, ProvideFile, Reject, BeginWrite,
     RenameFails, FinishWrite, WriteFails, OpenFails, RequestFails, Boot, Start, Stop,
     Crash, ScanTurn, Discover, Lose, Save, Delete, vars
<1>. QED  BY <1>0, <1>1

LEMMA DiskSteps ==
    ASSUME [Next]_vars
    PROVE  \/ UNCHANGED disk
           \/ \E t \in Task : \/ BeginWrite(t) \/ RenameFails(t)
                            \/ OpenFails(t) \/ FinishWrite(t)
           \/ \E d \in Devices, n \in UserNames : Save(d, n) \/ Delete(d, n)
BY DEF Next, CycleStep, ServeIndex, ProvideIndex, Compare, ServeFile, ProvideFile, Reject, WriteFails,
   RequestFails, Boot, Start, Stop, Crash, ScanTurn, Discover, Lose, vars

\* A device fills one file at a time.
OneWriter ==
    \A t, u \in Task : /\ t.owner = u.owner
                       /\ task[t].pc = "write" /\ task[u].pc = "write"
                       => t = u

\* A cycle comes to write from the check of what it received.
LEMMA WritersVerified ==
    ASSUME TypeOK, FetchesListed, [Next]_vars, NEW t \in Task,
           task'[t].pc = "write", task[t].pc # "write"
    PROVE  task[t].pc = "verify"
<1>0. task \in [Task -> TaskState]
  BY DEF TypeOK
<1>1. task[t] \in TaskState
  BY <1>0
<1>2. ASSUME NEW r \in TaskState, task'[t] \in Onward(r)
      PROVE  FALSE
  BY <1>2, OnwardType
<1>3. ASSUME NEW newer,
             task'[t] \in Onward([task[t] EXCEPT
                                      !.needed = Needed(t, newer)])
      PROVE  FALSE
  BY <1>2, <1>3, NeededState
<1>4. task'[t] # task[t]
  OBVIOUS
<1>5. task'[t] # IdleTask /\ task'[t] # [IdleTask EXCEPT !.pc = "index"]
  BY <1>1 DEF IdleTask
<1>6. task'[t] # [task[t] EXCEPT !.pc = "compare", !.snap = index[t.peer]]
  BY <1>1 DEF TaskState
<1>7. ASSUME NEW data,
             task'[t] = [task[t] EXCEPT !.pc = "verify", !.data = data]
      PROVE  FALSE
  BY <1>1, <1>7 DEF TaskState
<1>. QED  BY <1>1, <1>2, <1>3, <1>4, <1>5, <1>6, <1>7, TaskSteps
          DEF TaskStep

LEMMA OneWriterInductive ==
    ASSUME TypeOK, FetchesListed, OneWriter, [Next]_vars
    PROVE  OneWriter'
<1>0. task \in [Task -> TaskState]
  BY DEF TypeOK
<1>1. ASSUME NEW t \in Task, task'[t].pc = "write", task[t].pc # "write"
      PROVE  \A u \in Task : task'[u].pc = "write" /\ u.owner = t.owner
                                => u = t
  <2>1. task[t].pc = "verify"
    BY <1>1, WritersVerified
  <2>2. BeginWrite(t) \/ RenameFails(t)
    BY <1>1, <2>1, WritesBegin
  <2>3. LoopFree(t.owner) /\ \A u \in Task \ {t} : task'[u] = task[u]
    BY <1>0, <2>2 DEF BeginWrite, RenameFails
  <2>. QED  BY <2>3 DEF LoopFree
<1>. QED  BY <1>1 DEF OneWriter

\* Nothing but the end of the writing takes a cycle out of it.
LEMMA WriterStays ==
    ASSUME TypeOK, [Next]_vars, failures' = failures,
           NEW t \in Task, task[t].pc = "write"
    PROVE  task'[t] = task[t] \/ FinishWrite(t)
<1>0. task \in [Task -> TaskState] /\ failures \in Nat
  BY SyncAssumption DEF TypeOK
<1>1. ASSUME NEW u \in Task, EndFetch(u), u # t
      PROVE  task'[t] = task[t]
  BY <1>0, <1>1 DEF EndFetch
<1>2. ASSUME NEW u \in Task, CycleStep(u)
      PROVE  task'[t] = task[t] \/ FinishWrite(t)
  <2>1. CASE u = t
    <3>1. ~WriteFails(t) /\ ~OpenFails(t)
      BY <1>0 DEF WriteFails, OpenFails
    <3>. QED  BY <1>2, <2>1, <3>1
              DEF CycleStep, ServeIndex, ProvideIndex, Compare, ServeFile, ProvideFile, Reject,
                  BeginWrite, RenameFails, RequestFails
  <2>2. CASE u # t
    BY <1>0, <1>1, <1>2, <2>2
       DEF CycleStep, ServeIndex, ProvideIndex, Compare, ServeFile, ProvideFile, Reject, BeginWrite,
           RenameFails, FinishWrite, WriteFails, OpenFails, RequestFails
  <2>. QED  BY <2>1, <2>2
<1>3. ASSUME NEW d, NEW peers, Spawn(d, peers)
      PROVE  task'[t] = task[t]
  BY <1>3 DEF Spawn, FirstFree
<1>4. ASSUME NEW d \in Devices, Crash(d)
      PROVE  FALSE
  BY <1>0, <1>4 DEF Crash
<1>5. ASSUME NEW d \in Devices,
             \/ Boot(d) \/ Start(d) \/ Stop(d) \/ ScanTurn(d)
             \/ \E q \in Devices \ {d} : Discover(d, q) \/ Lose(d, q)
             \/ \E n \in UserNames : Save(d, n) \/ Delete(d, n)
      PROVE  task'[t] = task[t]
  BY <1>3, <1>5 DEF Boot, Start, Stop, ScanTurn, Discover, Lose, Save, Delete
<1>6. CASE UNCHANGED vars
  BY <1>6 DEF vars
<1>. QED  BY <1>2, <1>4, <1>5, <1>6 DEF Next

\* When a scan ends, no file of its device is being filled.
LEMMA ScansAlone ==
    ASSUME TypeOK, OneWriter, [Next]_vars, NEW d \in Devices,
           failures' = failures, index'[d] # index[d],
           NEW t \in Task, t.owner = d
    PROVE  task'[t].pc # "write"
<1>0. task \in [Task -> TaskState] /\ failures \in Nat
      /\ index \in [Devices -> Index]
  BY SyncAssumption DEF TypeOK
<1>1. ASSUME NEW u \in Task, FinishWrite(u)
      PROVE  task'[t].pc # "write"
  <2>1. u.owner = d
    BY <1>0, <1>1 DEF FinishWrite
  <2>2. PICK r \in Onward(task[u]) : task' = [task EXCEPT ![u] = r]
    BY <1>1 DEF FinishWrite, EndFetch
  <2>3. r.pc # "write"
    BY <1>0, <2>2, OnwardType
  <2>4. t # u => task[t].pc # "write"
    BY <1>1, <2>1 DEF FinishWrite, OneWriter
  <2>. QED  BY <1>0, <2>2, <2>3, <2>4
<1>2. ASSUME NEW e \in Devices, Start(e)
      PROVE  task'[t].pc # "write"
  BY <1>0, <1>2 DEF Start, LoopFree
<1>3. ASSUME NEW e \in Devices, ScanTurn(e)
      PROVE  task'[t].pc # "write"
  <2>1. e = d /\ task[t].pc # "write"
    BY <1>0, <1>3 DEF ScanTurn, LoopFree
  <2>. QED  BY <1>3, <2>1 DEF ScanTurn, Spawn, IdleTask
<1>4. ASSUME NEW e \in Devices, Crash(e)
      PROVE  FALSE
  BY <1>0, <1>4 DEF Crash
<1>5. index' # index
  OBVIOUS
<1>. QED
  BY <1>1, <1>2, <1>3, <1>4, <1>5
     DEF Next, CycleStep, ServeIndex, ProvideIndex, Compare, ServeFile, ProvideFile, Reject, BeginWrite,
         RenameFails, WriteFails, OpenFails, RequestFails, Boot, Stop, Discover, Lose,
         Save, Delete, vars

-----------------------------------------------------------------------------
(* Whole files.                                                            *)

\* Every record carries the hash of a whole file.
WholeFiles(idx) == \A n \in Names : idx[n] # NoRecord => idx[n].hash \in Content

NoStrayPartial ==
    \A d \in Devices, n \in Names :
        disk[d][n] = Partial
            => \E t \in Task : /\ t.owner = d
                              /\ task[t].pc = "write"
                              /\ task[t].cur = n

Whole ==
    /\ \A d \in Devices : WholeFiles(index[d])
    /\ \A t \in Task : WholeFiles(task[t].snap)
    /\ \A t \in Task : task[t].pc = "write" => task[t].data \in Content
    /\ NoStrayPartial

LEMMA ScanWhole ==
    ASSUME NEW d \in Devices, NEW files \in [Names -> Content \cup {NoFile}]
    PROVE  WholeFiles(Scan(d, files, {}))
<1> SUFFICES ASSUME NEW n \in Names, files[n] # NoFile
             PROVE  ScanFile(d, files[n], index[d][n]).hash \in Content
  BY DEF WholeFiles, Scan
<1>1. files[n] \in Content
  OBVIOUS
<1>. QED  BY <1>1 DEF ScanFile

\* What is accepted is what the peer's index promised, and that was whole.
LEMMA WholeAccepted ==
    ASSUME FetchesListed, NEW t \in Task, WholeFiles(task[t].snap),
           task[t].pc = "verify", HashMatches(t)
    PROVE  task[t].data \in Content
<1>1. task[t].snap[task[t].cur].hash \in Content
  BY DEF FetchesListed, Listed, WholeFiles
<1>2. task[t].snap[task[t].cur].hash # NoHash
  BY <1>1, SyncAssumption DEF Bytes
<1>. QED  BY <1>1, <1>2 DEF HashMatches

LEMMA NoStrayInductive ==
    ASSUME TypeOK, FetchesListed, OneWriter, Whole, [Next]_vars,
           failures' = failures
    PROVE  NoStrayPartial'
<1>0. /\ task \in [Task -> TaskState]
      /\ disk \in [Devices -> [Names -> Bytes \cup {NoFile}]]
      /\ failures \in Nat /\ saves \in Nat /\ NoStrayPartial
      /\ Partial \notin Content /\ Partial # NoFile
  BY SyncAssumption DEF TypeOK, Whole, Bytes
<1> SUFFICES ASSUME NEW d \in Devices, NEW n \in Names, disk'[d][n] = Partial
             PROVE  \E t \in Task : /\ t.owner = d
                                   /\ task'[t].pc = "write"
                                   /\ task'[t].cur = n
  BY DEF NoStrayPartial
<1>1. ASSUME NEW t \in Task, FinishWrite(t), t.owner = d
      PROVE  FALSE
  <2>1. disk'[d] = [disk[d] EXCEPT ![task[t].cur] = task[t].data]
    BY <1>0, <1>1 DEF FinishWrite
  <2>2. task[t].data \in Content /\ task[t].pc = "write"
    BY <1>1 DEF FinishWrite, Whole
  <2>3. n # task[t].cur /\ disk[d][n] = Partial
    BY <1>0, <2>1, <2>2
  <2>4. PICK u \in Task : u.owner = d /\ task[u].pc = "write" /\ task[u].cur = n
    BY <2>3, <1>0 DEF NoStrayPartial
  <2>. QED  BY <1>1, <2>2, <2>3, <2>4 DEF OneWriter
<1>2. ASSUME disk[d][n] = Partial, \A t \in Task : t.owner = d => ~FinishWrite(t)
      PROVE  \E t \in Task : /\ t.owner = d
                            /\ task'[t].pc = "write"
                            /\ task'[t].cur = n
  BY <1>0, <1>2, WriterStays DEF NoStrayPartial
<1>3. CASE disk[d][n] = Partial
  BY <1>1, <1>2, <1>3
<1>4. ASSUME NEW t \in Task, BeginWrite(t), disk[d][n] # Partial
      PROVE  t.owner = d /\ task'[t].pc = "write" /\ task'[t].cur = n
  <2> DEFINE files == [m \in Names |->
                        IF m = task[t].cur THEN Partial
                        ELSE IF /\ InConflict(t)
                                /\ disk[t.owner][task[t].cur] # NoFile
                                /\ m = ConflictName[<<task[t].cur, t.peer>>]
                             THEN disk[t.owner][task[t].cur]
                        ELSE disk[t.owner][m]]
  <2>1. disk' = [disk EXCEPT ![t.owner] = files]
    BY <1>4 DEF BeginWrite
  <2>2. \A m \in Names : disk[t.owner][m] # Partial
    BY <1>0, <1>4, TaskFields DEF BeginWrite, LoopFree, NoStrayPartial
  <2>3. task[t].cur \in Names
    BY <1>4 DEF BeginWrite, FetchesListed, Listed
  <2>4. \A m \in Names : files[m] = Partial => m = task[t].cur
    BY <2>2, <2>3
  <2>5. task'[t].pc = "write" /\ task'[t].cur = task[t].cur
    BY <1>0, <1>4 DEF BeginWrite, TaskState
  <2> HIDE DEF files
  <2>. QED  BY <1>0, <1>4, <2>1, <2>4, <2>5
<1>5. ASSUME NEW t \in Task, RenameFails(t) \/ OpenFails(t)
      PROVE  FALSE
  BY <1>0, <1>5 DEF RenameFails, OpenFails
<1>6. ASSUME NEW t \in Task, FinishWrite(t), t.owner # d
      PROVE  disk[d][n] = Partial
  BY <1>0, <1>6 DEF FinishWrite
<1>7. ASSUME NEW e \in Devices, NEW m \in UserNames, Save(e, m) \/ Delete(e, m)
      PROVE  disk[d][n] = Partial
  <2>1. ASSUME NEW bytes \in Content \cup {NoFile},
               disk' = [disk EXCEPT ![e][m] = bytes]
        PROVE  disk[d][n] = Partial
    BY <1>0, <2>1
  <2>2. CASE Save(e, m)
    <3>1. saves + 1 \in Content
      BY <1>0, <2>2, SyncAssumption DEF Save, Content
    <3>. QED  BY <2>1, <2>2, <3>1 DEF Save
  <2>3. CASE Delete(e, m)
    BY <2>1, <2>3 DEF Delete
  <2>. QED  BY <1>7, <2>2, <2>3
<1>8. CASE UNCHANGED disk
  BY <1>3, <1>8
<1>. QED  BY <1>1, <1>3, <1>4, <1>5, <1>6, <1>7, <1>8, DiskSteps

LEMMA WholeInductive ==
    ASSUME TypeOK, FetchesListed, OneWriter, Whole, [Next]_vars,
           failures' = failures, Unreadable = {}
    PROVE  Whole'
<1>0. /\ task \in [Task -> TaskState]
      /\ index \in [Devices -> Index]
  BY DEF TypeOK
<1>1. NoStrayPartial'
  BY NoStrayInductive
<1>2. ASSUME NEW d \in Devices
      PROVE  WholeFiles(index'[d])
  <2>1. CASE index'[d] = index[d]
    BY <2>1 DEF Whole
  <2>2. CASE index'[d] = EmptyIndex
    BY <2>2 DEF EmptyIndex, WholeFiles
  <2>3. CASE index'[d] # index[d] /\ index'[d] = Scan(d, disk'[d], {})
    <3>1. \A t \in Task : t.owner = d => task'[t].pc # "write"
      BY <2>3, ScansAlone
    <3>2. \A n \in Names : disk'[d][n] # Partial
      BY <1>1, <3>1 DEF NoStrayPartial
    <3>3. disk'[d] \in [Names -> Bytes \cup {NoFile}]
      BY TypeInductive DEF TypeOK
    <3>4. disk'[d] \in [Names -> Content \cup {NoFile}]
      BY <3>2, <3>3 DEF Bytes
    <3>. QED  BY <2>3, <3>4, ScanWhole
  <2>4. IndexStep(d)
    BY IndexSteps
  <2>. QED  BY <2>1, <2>2, <2>3, <2>4 DEF IndexStep
<1>3. ASSUME NEW t \in Task
      PROVE  WholeFiles(task'[t].snap)
  <2>1. /\ task[t] \in TaskState
        /\ WholeFiles(task[t].snap)
        /\ WholeFiles(index[t.peer])
    BY <1>0, TaskFields DEF Whole
  <2>2. CASE \/ task'[t] = IdleTask
             \/ task'[t] = [IdleTask EXCEPT !.pc = "index"]
    BY <2>2 DEF WholeFiles, IdleTask, EmptyIndex
  <2>3. ASSUME NEW r \in TaskState, WholeFiles(r.snap),
               task'[t] \in Onward(r)
        PROVE  WholeFiles(task'[t].snap)
    BY <2>3 DEF Onward, WholeFiles, IdleTask, EmptyIndex
  <2>4. ASSUME NEW newer,
               task'[t] \in Onward([task[t] EXCEPT
                                        !.needed = Needed(t, newer)])
        PROVE  WholeFiles(task'[t].snap)
    BY <2>1, <2>3, <2>4, NeededState
  <2>5. CASE \/ task'[t] = task[t]
             \/ task'[t] = [task[t] EXCEPT !.pc = "compare",
                                          !.snap = index[t.peer]]
             \/ \E data : task'[t] = [task[t] EXCEPT !.pc = "verify",
                                                    !.data = data]
             \/ task'[t] = [task[t] EXCEPT !.pc = "write"]
    BY <2>1, <2>5 DEF TaskState
  <2>. QED  BY <2>1, <2>2, <2>3, <2>4, <2>5, TaskSteps DEF TaskStep
<1>4. ASSUME NEW t \in Task, task'[t].pc = "write"
      PROVE  task'[t].data \in Content
  <2>1. CASE task[t].pc # "write"
    <3>1. BeginWrite(t) \/ RenameFails(t)
      BY <1>4, <2>1, WritesBegin, WritersVerified
    <3>2. task'[t].data = task[t].data
      BY <1>0, <3>1 DEF BeginWrite, RenameFails, TaskState
    <3>. QED  BY <3>1, <3>2, WholeAccepted
              DEF BeginWrite, RenameFails, Whole
  <2>2. CASE task[t].pc = "write"
    <3>1. ~FinishWrite(t)
      <4>1. ASSUME FinishWrite(t)
            PROVE  FALSE
        <5>1. PICK r \in Onward(task[t]) : task' = [task EXCEPT ![t] = r]
          BY <4>1 DEF FinishWrite, EndFetch
        <5>. QED  BY <1>0, <1>4, <5>1, OnwardType
      <4>. QED  BY <4>1
    <3>. QED  BY <1>4, <2>2, <3>1, WriterStays DEF Whole
  <2>. QED  BY <2>1, <2>2
<1>. QED  BY <1>1, <1>2, <1>3, <1>4 DEF Whole

\* While nothing fails and every scan can read, a truncated file is seen only
\* while its own device is filling it (the write of _request_file): no index
\* ever carries a hash of half a file, so no peer accepts one.
THEOREM PartialStaysHome == Spec => []PartialOnlyWhileWriting
<1> DEFINE WholeInv == failures = 0 /\ Unreadable = {} => Whole
<1>1. Init => OneWriter /\ WholeInv
  <2> SUFFICES ASSUME Init PROVE OneWriter /\ Whole
    OBVIOUS
  <2>1. OneWriter
    BY DEF Init, OneWriter, IdleTask
  <2>2. NoFile # Partial
    BY SyncAssumption DEF Bytes
  <2>. QED  BY <2>1, <2>2 DEF Init, Whole, WholeFiles, NoStrayPartial,
             IdleTask, EmptyIndex
<1>2. Inv /\ OneWriter /\ WholeInv /\ [Next]_vars => OneWriter' /\ WholeInv'
  <2> SUFFICES ASSUME Inv, OneWriter, WholeInv, [Next]_vars
               PROVE  OneWriter' /\ WholeInv'
    OBVIOUS
  <2>1. OneWriter'
    BY OneWriterInductive DEF Inv
  <2>2. ASSUME failures' = 0, Unreadable = {}
        PROVE  Whole'
    BY <2>2, FailuresStay, WholeInductive DEF Inv
  <2>. QED  BY <2>1, <2>2
<1>3. WholeInv => PartialOnlyWhileWriting
  BY DEF Whole, NoStrayPartial, PartialOnlyWhileWriting
<1>. QED  BY <1>1, <1>2, <1>3, InvHolds, PTL DEF Spec

-----------------------------------------------------------------------------
(* Snapshots.                                                              *)

\* The record was is a past of the record is.
Lags(was, is) ==
    /\ is # NoRecord
    /\ Dominates(is.version, was.version)
    /\ is.version = was.version => is.hash = was.hash

LEMMA LagsTransitive ==
    ASSUME NEW a \in Record, NEW b \in Record, NEW c \in Record,
           Lags(a, b), Lags(b, c)
    PROVE  Lags(a, c)
<1>1. a.version \in Version /\ b.version \in Version /\ c.version \in Version
  BY DEF Record
<1>2. Dominates(c.version, a.version)
  BY <1>1, DominatesIsPartialOrder DEF Lags
<1>3. c.version = a.version => c.version = b.version
  BY <1>1, DominatesIsPartialOrder DEF Lags
<1>. QED  BY <1>2, <1>3 DEF Lags

LEMMA LagsReflexive ==
    ASSUME NEW a \in Record
    PROVE  Lags(a, a)
BY SyncAssumption, DominatesIsPartialOrder DEF Lags, Record

\* A scan moves a record on; what keeps its version keeps its hash.
LEMMA ScanFileLags ==
    ASSUME NEW d \in Devices, NEW hash \in Hash, NEW rec \in Record
    PROVE  Lags(rec, ScanFile(d, hash, rec))
<1>1. DeviceId[d] \in Ids /\ rec.version \in Version /\ rec # NoRecord
  BY SyncAssumption DEF Record
<1>2. ScanFile(d, hash, rec) \in Record
  BY ScanFileType
<1>3. CASE rec.hash = hash
  BY <1>1, <1>3, LagsReflexive DEF ScanFile
<1>4. CASE rec.hash # hash
  <2>1. ScanFile(d, hash, rec).version = Bump(rec.version, DeviceId[d])
    BY <1>1, <1>4 DEF ScanFile
  <2>2. /\ Dominates(Bump(rec.version, DeviceId[d]), rec.version)
        /\ Bump(rec.version, DeviceId[d]) # rec.version
    <3>1. \A i \in Ids : rec.version[i] \in Nat
      BY <1>1 DEF Version
    <3>2. Bump(rec.version, DeviceId[d])[DeviceId[d]]
             = rec.version[DeviceId[d]] + 1
      BY <1>1 DEF Bump, Version
    <3>3. \A i \in Ids : Bump(rec.version, DeviceId[d])[i] >= rec.version[i]
      BY <1>1, <3>1 DEF Bump, Version
    <3>4. Bump(rec.version, DeviceId[d]) # rec.version
      BY <1>1, <3>1, <3>2
    <3>. QED  BY <3>3, <3>4 DEF Dominates
  <2>. QED  BY <1>2, <2>1, <2>2, SyncAssumption DEF Lags
<1>. QED  BY <1>3, <1>4

\* What is indexed is on the disk, and what is about to be written is there.
Filed ==
    /\ \A d \in Devices, n \in Names :
         index[d][n] # NoRecord => disk[d][n] # NoFile
    /\ \A t \in Task : task[t].pc = "write" => task[t].data # NoFile

LEMMA FilesStay ==
    ASSUME TypeOK, FetchesListed, Filed, [Next]_vars,
           failures' = failures, "delete" \notin Events,
           NEW d \in Devices, NEW n \in Names, disk[d][n] # NoFile
    PROVE  disk'[d][n] # NoFile
<1>0. /\ disk \in [Devices -> [Names -> Bytes \cup {NoFile}]]
      /\ failures \in Nat /\ saves \in Nat
      /\ Partial # NoFile /\ NoFile \notin Content
  BY SyncAssumption DEF TypeOK, Bytes
<1>1. ASSUME NEW t \in Task, BeginWrite(t)
      PROVE  disk'[d][n] # NoFile
  <2> DEFINE copied == InConflict(t) /\ disk[t.owner][task[t].cur] # NoFile
             files == [m \in Names |->
                        IF m = task[t].cur THEN Partial
                        ELSE IF copied /\ m = ConflictName[<<task[t].cur, t.peer>>]
                             THEN disk[t.owner][task[t].cur]
                        ELSE disk[t.owner][m]]
  <2>1. disk' = [disk EXCEPT ![t.owner] = files]
    BY <1>1 DEF BeginWrite
  <2>2. copied => disk[t.owner][task[t].cur] # NoFile
    OBVIOUS
  <2>3. d = t.owner => files[n] # NoFile
    <3> HIDE DEF copied
    <3>. QED  BY <1>0, <2>2
  <2> HIDE DEF files, copied
  <2>. QED  BY <1>0, <2>1, <2>3
<1>2. ASSUME NEW t \in Task, RenameFails(t) \/ OpenFails(t)
      PROVE  FALSE
  BY <1>0, <1>2 DEF RenameFails, OpenFails
<1>3. ASSUME NEW t \in Task, FinishWrite(t)
      PROVE  disk'[d][n] # NoFile
  <2>1. task[t].data # NoFile
    BY <1>3 DEF FinishWrite, Filed
  <2>2. disk' = [disk EXCEPT ![t.owner] =
                    [disk[t.owner] EXCEPT ![task[t].cur] = task[t].data]]
    BY <1>3 DEF FinishWrite
  <2>. QED  BY <1>0, <2>1, <2>2
<1>4. ASSUME NEW e \in Devices, NEW m \in UserNames, Save(e, m)
      PROVE  disk'[d][n] # NoFile
  <2>1. saves + 1 \in Content
    BY <1>0, <1>4, SyncAssumption DEF Save, Content
  <2>2. disk' = [disk EXCEPT ![e][m] = saves + 1] /\ saves + 1 # NoFile
    BY <1>0, <1>4, <2>1 DEF Save
  <2>. QED  BY <1>0, <2>2
<1>5. ASSUME NEW e \in Devices, NEW m \in UserNames, Delete(e, m)
      PROVE  FALSE
  BY <1>5 DEF Delete
<1>6. CASE UNCHANGED disk
  BY <1>6
<1>. QED  BY <1>1, <1>2, <1>3, <1>4, <1>5, <1>6, DiskSteps

LEMMA IndexesMoveOn ==
    ASSUME TypeOK, FetchesListed, Filed, [Next]_vars,
           failures' = failures, "delete" \notin Events,
           NEW d \in Devices, NEW n \in Names, index[d][n] # NoRecord
    PROVE  Lags(index[d][n], index'[d][n])
<1>0. /\ index[d] \in Index /\ failures \in Nat
      /\ disk' \in [Devices -> [Names -> Bytes \cup {NoFile}]]
  BY TypeInductive, SyncAssumption DEF TypeOK
<1>1. index[d][n] \in Record
  BY <1>0 DEF Index
<1>2. disk'[d][n] # NoFile
  BY FilesStay DEF Filed
<1>3. CASE index'[d] = index[d]
  BY <1>1, <1>3, LagsReflexive
<1>4. ASSUME NEW bad, index'[d] = Scan(d, disk'[d], bad)
      PROVE  Lags(index[d][n], index'[d][n])
  <2> DEFINE hash == IF n \in bad THEN NoHash ELSE disk'[d][n]
  <2>1. index'[d][n] = ScanFile(d, hash, index[d][n])
    BY <1>2, <1>4 DEF Scan
  <2>2. hash \in Hash
    BY <1>0, <1>2 DEF Hash
  <2> HIDE DEF hash
  <2>. QED  BY <1>1, <2>1, <2>2, ScanFileLags
<1>5. failures' # failures + 1
  BY <1>0
<1>6. IndexStep(d)
  BY IndexSteps
<1>. QED  BY <1>3, <1>4, <1>5, <1>6 DEF IndexStep

LEMMA FiledInductive ==
    ASSUME TypeOK, FetchesListed, Filed, [Next]_vars,
           failures' = failures, "delete" \notin Events
    PROVE  Filed'
<1>0. task \in [Task -> TaskState]
  BY DEF TypeOK
<1>1. ASSUME NEW d \in Devices, NEW n \in Names, index'[d][n] # NoRecord
      PROVE  disk'[d][n] # NoFile
  <2>1. CASE index'[d] = index[d]
    BY <1>1, <2>1, FilesStay DEF Filed
  <2>2. CASE index'[d] = EmptyIndex
    BY <1>1, <2>2 DEF EmptyIndex
  <2>3. ASSUME NEW bad, index'[d] = Scan(d, disk'[d], bad)
        PROVE  disk'[d][n] # NoFile
    BY <1>1, <2>3 DEF Scan
  <2>4. IndexStep(d)
    BY IndexSteps
  <2>. QED  BY <2>1, <2>2, <2>3, <2>4 DEF IndexStep
<1>2. ASSUME NEW t \in Task, task'[t].pc = "write"
      PROVE  task'[t].data # NoFile
  <2>1. CASE task[t].pc # "write"
    <3>1. BeginWrite(t) \/ RenameFails(t)
      BY <1>2, <2>1, WritesBegin, WritersVerified
    <3>2. task'[t].data = task[t].data
      BY <1>0, <3>1 DEF BeginWrite, RenameFails, TaskState
    <3>. QED  BY <3>1, <3>2 DEF BeginWrite, RenameFails, NoData
  <2>2. CASE task[t].pc = "write"
    <3>1. ASSUME FinishWrite(t)
          PROVE  FALSE
      <4>1. PICK r \in Onward(task[t]) : task' = [task EXCEPT ![t] = r]
        BY <3>1 DEF FinishWrite, EndFetch
      <4>. QED  BY <1>0, <1>2, <4>1, OnwardType
    <3>. QED  BY <1>2, <2>2, <3>1, WriterStays DEF Filed
  <2>. QED  BY <2>1, <2>2
<1>. QED  BY <1>1, <1>2 DEF Filed

Lagging ==
    \A t \in Task, n \in Names :
        task[t].snap[n] # NoRecord
            => Lags(task[t].snap[n], index[t.peer][n])

LEMMA LaggingInductive ==
    ASSUME TypeOK, FetchesListed, Filed, Lagging, [Next]_vars,
           failures' = failures, "delete" \notin Events
    PROVE  Lagging'
<1> SUFFICES ASSUME NEW t \in Task, NEW n \in Names,
                    task'[t].snap[n] # NoRecord
             PROVE  Lags(task'[t].snap[n], index'[t.peer][n])
  BY DEF Lagging, Lags
<1>1. /\ task[t] \in TaskState /\ task[t].snap \in Index
      /\ t.peer \in Devices
      /\ index[t.peer] \in Index /\ index'[t.peer] \in Index
  BY TypeInductive, TaskFields, StateFields DEF TypeOK
<1>2. ASSUME task'[t].snap[n] = task[t].snap[n]
      PROVE  Lags(task'[t].snap[n], index'[t.peer][n])
  <2>1. Lags(task[t].snap[n], index[t.peer][n])
    BY <1>2 DEF Lagging
  <2>2. Lags(index[t.peer][n], index'[t.peer][n])
    BY <1>1, <2>1, IndexesMoveOn DEF Lags
  <2>3. /\ task[t].snap[n] \in Record
        /\ index[t.peer][n] \in Record /\ index'[t.peer][n] \in Record
    BY <1>1, <1>2, <2>1, <2>2 DEF Index, Lags
  <2>. QED  BY <1>2, <2>1, <2>2, <2>3, LagsTransitive
<1>3. CASE \/ task'[t] = IdleTask
           \/ task'[t] = [IdleTask EXCEPT !.pc = "index"]
  BY <1>3 DEF IdleTask, EmptyIndex
<1>4. ASSUME NEW r \in TaskState, r.snap = task[t].snap,
             task'[t] \in Onward(r)
      PROVE  Lags(task'[t].snap[n], index'[t.peer][n])
  <2>1. task'[t].snap[n] = task[t].snap[n]
    BY <1>4 DEF Onward, IdleTask, EmptyIndex
  <2>. QED  BY <1>2, <2>1
<1>5. ASSUME NEW newer,
             task'[t] \in Onward([task[t] EXCEPT !.needed = Needed(t, newer)])
      PROVE  Lags(task'[t].snap[n], index'[t.peer][n])
  BY <1>4, <1>5, NeededState
<1>6. CASE task'[t] = [task[t] EXCEPT !.pc = "compare",
                                     !.snap = index[t.peer]]
  <2>1. task'[t].snap[n] = index[t.peer][n]
    BY <1>1, <1>6 DEF TaskState
  <2>. QED  BY <1>1, <2>1, IndexesMoveOn
<1>7. CASE \/ task'[t] = task[t]
           \/ \E data : task'[t] = [task[t] EXCEPT !.pc = "verify",
                                                  !.data = data]
           \/ task'[t] = [task[t] EXCEPT !.pc = "write"]
  BY <1>1, <1>2, <1>7 DEF TaskState
<1>. QED
  BY <1>1, <1>3, <1>4, <1>5, <1>6, <1>7, TaskSteps DEF TaskStep

\* While nothing fails and no file is deleted, whatever a cycle took from a
\* peer (PATH_INDEX) is a past of what the peer indexes now, however often
\* _scan_local_files ran since, and one version never names two contents.
THEOREM SnapshotsLag == Spec => []SnapshotsLagIndex
<1> DEFINE LagInv == failures = 0 /\ "delete" \notin Events
                        => Filed /\ Lagging
<1>1. Init => LagInv
  BY DEF Init, Filed, Lagging, IdleTask, EmptyIndex
<1>2. Inv /\ LagInv /\ [Next]_vars => LagInv'
  <2> SUFFICES ASSUME Inv, LagInv, [Next]_vars,
                      failures' = 0, "delete" \notin Events
               PROVE  Filed' /\ Lagging'
    OBVIOUS
  <2>. QED  BY FailuresStay, FiledInductive, LaggingInductive DEF Inv
<1>3. LagInv => SnapshotsLagIndex
  BY DEF Lagging, Lags, SnapshotsLagIndex
<1>. QED  BY <1>1, <1>2, <1>3, InvHolds, PTL DEF Spec

-----------------------------------------------------------------------------
(* The transfer counter.                                                   *)

Fetches == {"file", "verify", "write"}

\* The fetches under way on d.
Fetching(d) == {t \in Task : t.owner = d /\ task[t].pc \in Fetches}

LEMMA TasksFinite == IsFiniteSet(Task)
<1> DEFINE Triples == Devices \X (Devices \X (1 .. Slots))
           f == [t \in Task |-> <<t.owner, <<t.peer, t.slot>>>>]
<1>1. IsFiniteSet(1 .. Slots)
  BY SyncAssumption, FS_Interval
<1>2. IsFiniteSet(Devices \X (1 .. Slots))
  BY <1>1, SyncAssumption, FS_Product
<1>3. IsFiniteSet(Triples)
  BY <1>2, SyncAssumption, FS_Product
<1>4. f \in Injection(Task, Triples)
  <2>1. f \in [Task -> Triples]
    BY DEF Task
  <2>2. ASSUME NEW t \in Task, NEW u \in Task, f[t] = f[u]
        PROVE  t = u
    BY <2>2 DEF Task
  <2>. QED  BY <2>1, <2>2 DEF Injection, IsInjective
<1> HIDE DEF f, Triples
<1>. QED  BY <1>3, <1>4, FS_Injection

LEMMA FetchingFinite ==
    ASSUME NEW d
    PROVE  /\ IsFiniteSet(Fetching(d))
           /\ Cardinality(Fetching(d)) \in Nat
<1>1. Fetching(d) \in SUBSET Task
  BY DEF Fetching
<1>. QED  BY <1>1, TasksFinite, FS_Subset, FS_CardinalityType

\* The counter of d is right.
Counted(d) == transfers[d] = Cardinality(Fetching(d))

\* One cycle moves from a stage to another; the others stay where they are.
Moves(t, pc) ==
    /\ task'[t].pc = pc
    /\ \A u \in Task \ {t} : task'[u] = task[u]

LEMMA FetchBegins ==
    ASSUME NEW t \in Task, task[t].pc \notin Fetches,
           NEW pc \in Fetches, Moves(t, pc)
    PROVE  /\ Cardinality(Fetching(t.owner))' = Cardinality(Fetching(t.owner)) + 1
           /\ \A d \in Devices \ {t.owner} : Fetching(d)' = Fetching(d)
<1>1. Fetching(t.owner)' = Fetching(t.owner) \cup {t} /\ t \notin Fetching(t.owner)
  BY DEF Fetching, Moves
<1>2. \A d \in Devices \ {t.owner} : Fetching(d)' = Fetching(d)
  BY DEF Fetching, Moves
<1>. QED  BY <1>1, <1>2, FetchingFinite, FS_AddElement

LEMMA FetchEnds ==
    ASSUME NEW t \in Task, task[t].pc \in Fetches,
           NEW pc, pc \notin Fetches, Moves(t, pc)
    PROVE  /\ Cardinality(Fetching(t.owner))' = Cardinality(Fetching(t.owner)) - 1
           /\ \A d \in Devices \ {t.owner} : Fetching(d)' = Fetching(d)
<1>1. Fetching(t.owner)' = Fetching(t.owner) \ {t} /\ t \in Fetching(t.owner)
  BY DEF Fetching, Moves
<1>2. \A d \in Devices \ {t.owner} : Fetching(d)' = Fetching(d)
  BY DEF Fetching, Moves
<1>. QED  BY <1>1, <1>2, FetchingFinite, FS_RemoveElement

LEMMA FetchGoesOn ==
    ASSUME NEW t \in Task, NEW pc, Moves(t, pc),
           task[t].pc \in Fetches <=> pc \in Fetches
    PROVE  \A d \in Devices : Fetching(d)' = Fetching(d)
BY DEF Fetching, Moves

\* A device that fetches something counts something.
LEMMA FetchCounts ==
    ASSUME NEW t \in Task, task[t].pc \in Fetches, Counted(t.owner)
    PROVE  transfers[t.owner] > 0
<1>1. t \in Fetching(t.owner)
  BY DEF Fetching
<1>2. Cardinality(Fetching(t.owner)) # 0
  BY <1>1, FetchingFinite, FS_EmptySet
<1>. QED  BY <1>2, FetchingFinite DEF Counted

AllCounted == \A d \in Devices : Counted(d)

\* The finally clause counts down what the call counted up.
LEMMA EndFetchCounted ==
    ASSUME TypeOK, AllCounted, NEW t \in Task, task[t].pc \in Fetches,
           EndFetch(t)
    PROVE  AllCounted'
<1>0. task \in [Task -> TaskState] /\ transfers \in [Devices -> Nat]
  BY DEF TypeOK
<1>1. PICK r \in Onward(task[t]) :
         /\ task' = [task EXCEPT ![t] = r]
         /\ transfers' = [transfers EXCEPT ![t.owner] =
                             (IF @ > 0 THEN @ - 1 ELSE 0)
                               + (IF r.pc = "file" THEN 1 ELSE 0)]
  BY DEF EndFetch
<1>2. Moves(t, r.pc) /\ r.pc \in {"idle", "file"}
  <2>1. task[t] \in TaskState
    BY <1>0
  <2>2. r.pc \in {"idle", "file"}
    BY <2>1, OnwardType
  <2>. QED  BY <1>0, <1>1, <2>2 DEF Moves
<1>3. /\ t.owner \in Devices /\ transfers \in [Devices -> Nat]
      /\ transfers[t.owner] > 0
  BY <1>0, FetchCounts, TaskFields DEF AllCounted
<1>4. CASE r.pc = "file"
  <2>1. transfers' = transfers
    BY <1>1, <1>3, <1>4
  <2>2. \A d \in Devices : Fetching(d)' = Fetching(d)
    BY <1>2, <1>4, FetchGoesOn DEF Fetches
  <2>. QED  BY <2>1, <2>2 DEF AllCounted, Counted
<1>5. CASE r.pc = "idle"
  <2>1. transfers' = [transfers EXCEPT ![t.owner] = @ - 1]
    <3>1. (IF transfers[t.owner] > 0 THEN transfers[t.owner] - 1 ELSE 0)
             + (IF r.pc = "file" THEN 1 ELSE 0) = transfers[t.owner] - 1
      BY <1>3, <1>5
    <3>. QED  BY <1>1, <3>1
  <2>2. /\ Cardinality(Fetching(t.owner))' = Cardinality(Fetching(t.owner)) - 1
        /\ \A d \in Devices \ {t.owner} : Fetching(d)' = Fetching(d)
    BY <1>2, <1>5, FetchEnds DEF Fetches
  <2>3. Counted(t.owner)'
    BY <1>3, <2>1, <2>2 DEF AllCounted, Counted
  <2>4. \A d \in Devices \ {t.owner} : Counted(d)'
    BY <1>3, <2>1, <2>2 DEF AllCounted, Counted
  <2>. QED  BY <1>3, <2>3, <2>4 DEF AllCounted
<1>. QED  BY <1>2, <1>4, <1>5

LEMMA CountInductive ==
    ASSUME TypeOK, AllCounted, [Next]_vars
    PROVE  AllCounted'
<1>0. /\ task \in [Task -> TaskState]
      /\ transfers \in [Devices -> Nat]
  BY DEF TypeOK
<1>1. ASSUME NEW t \in Task, NEW pc, Moves(t, pc),
             task[t].pc \in Fetches <=> pc \in Fetches, UNCHANGED transfers
      PROVE  AllCounted'
  BY <1>1, FetchGoesOn DEF AllCounted, Counted
<1>2. ASSUME NEW t \in Task,
             ServeIndex(t) \/ ServeFile(t) \/ BeginWrite(t) \/ RenameFails(t)
      PROVE  AllCounted'
  <2>1. Moves(t, task'[t].pc)
    BY <1>0, <1>2 DEF ServeIndex, ProvideIndex, ServeFile, ProvideFile, BeginWrite, RenameFails, Moves
  <2>2. task[t].pc \in Fetches <=> task'[t].pc \in Fetches
    <3>1. CASE ServeIndex(t)
      <4>1. task[t].pc = "index" /\ task'[t].pc = "compare"
        BY <1>0, <3>1 DEF ServeIndex, ProvideIndex
      <4>. QED  BY <4>1 DEF Fetches
    <3>2. CASE ServeFile(t)
      <4>1. task[t].pc = "file" /\ task'[t].pc = "verify"
        BY <1>0, <3>2 DEF ServeFile, ProvideFile
      <4>. QED  BY <4>1 DEF Fetches
    <3>3. CASE BeginWrite(t)
      <4>1. task[t].pc = "verify" /\ task'[t].pc = "write"
        BY <1>0, <3>3 DEF BeginWrite
      <4>. QED  BY <4>1 DEF Fetches
    <3>4. CASE RenameFails(t)
      <4>1. task[t].pc = "verify" /\ task'[t].pc = "write"
        BY <1>0, <3>4 DEF RenameFails
      <4>. QED  BY <4>1 DEF Fetches
    <3>. QED  BY <1>2, <3>1, <3>2, <3>3, <3>4
  <2>3. UNCHANGED transfers
    BY <1>2 DEF ServeIndex, ProvideIndex, ServeFile, ProvideFile, BeginWrite, RenameFails
  <2>. QED  BY <1>1, <2>1, <2>2, <2>3
<1>3. ASSUME NEW t \in Task, Compare(t)
      PROVE  AllCounted'
  <2>1. PICK newer \in SUBSET Undated(t) :
         \E r \in Onward([task[t] EXCEPT !.needed = Needed(t, newer)]) :
            /\ task' = [task EXCEPT ![t] = r]
            /\ transfers' = [transfers EXCEPT ![t.owner] =
                                @ + (IF r.pc = "file" THEN 1 ELSE 0)]
    BY <1>3 DEF Compare
  <2>2. PICK r \in TaskState :
            /\ r.pc \in {"idle", "file"}
            /\ task' = [task EXCEPT ![t] = r]
            /\ transfers' = [transfers EXCEPT ![t.owner] =
                                @ + (IF r.pc = "file" THEN 1 ELSE 0)]
    BY <2>1, NeededState, OnwardType
  <2>3. Moves(t, r.pc) /\ t.owner \in Devices /\ task[t].pc \notin Fetches
    BY <1>0, <1>3, <2>2, TaskFields DEF Moves, Fetches, Compare
  <2>4. CASE r.pc = "idle"
    <3>1. UNCHANGED transfers
      BY <1>0, <2>2, <2>3, <2>4
    <3>. QED  BY <1>1, <2>3, <2>4, <3>1 DEF Fetches
  <2>5. CASE r.pc = "file"
    <3>1. /\ Cardinality(Fetching(t.owner))'
               = Cardinality(Fetching(t.owner)) + 1
          /\ \A d \in Devices \ {t.owner} : Fetching(d)' = Fetching(d)
      BY <2>3, <2>5, FetchBegins DEF Fetches
    <3>2. transfers' = [transfers EXCEPT ![t.owner] = @ + 1]
      BY <2>2, <2>5
    <3>. QED  BY <1>0, <2>3, <3>1, <3>2 DEF AllCounted, Counted
  <2>. QED  BY <2>2, <2>4, <2>5
<1>4. ASSUME NEW t \in Task, Reject(t) \/ FinishWrite(t)
      PROVE  AllCounted'
  BY <1>4, EndFetchCounted DEF Reject, FinishWrite, Fetches
<1>5. ASSUME NEW t \in Task, RequestFails(t)
      PROVE  AllCounted'
  <2>1. CASE /\ task[t].pc \in {"index", "compare"}
             /\ task' = [task EXCEPT ![t] = IdleTask]
             /\ UNCHANGED transfers
    <3>1. Moves(t, "idle")
      BY <1>0, <2>1 DEF Moves, IdleTask
    <3>. QED  BY <1>1, <2>1, <3>1 DEF Fetches
  <2>2. CASE task[t].pc \in {"file", "verify"} /\ EndFetch(t)
    BY <2>2, EndFetchCounted DEF Fetches
  <2>. QED  BY <1>5, <2>1, <2>2 DEF RequestFails
<1>6. ASSUME NEW t \in Task, WriteFails(t) \/ OpenFails(t)
      PROVE  AllCounted'
  <2>1. /\ Moves(t, "idle") /\ task[t].pc \in Fetches
        /\ t.owner \in Devices
    BY <1>0, <1>6, TaskFields DEF WriteFails, OpenFails, Moves, IdleTask, Fetches
  <2>2. transfers[t.owner] > 0
    BY <2>1, FetchCounts DEF AllCounted
  <2>3. transfers' = [transfers EXCEPT ![t.owner] = @ - 1]
    BY <1>6, <2>2 DEF WriteFails, OpenFails
  <2>4. /\ Cardinality(Fetching(t.owner))' = Cardinality(Fetching(t.owner)) - 1
        /\ \A d \in Devices \ {t.owner} : Fetching(d)' = Fetching(d)
    BY <2>1, FetchEnds DEF Fetches
  <2>. QED  BY <1>0, <2>1, <2>3, <2>4 DEF AllCounted, Counted
<1>7. ASSUME NEW d \in Devices, NEW known_, Spawn(d, known_),
             UNCHANGED transfers
      PROVE  AllCounted'
  <2>1. \A e \in Devices : Fetching(e)' = Fetching(e)
    BY <1>0, <1>7 DEF Spawn, FirstFree, Fetching, Fetches, IdleTask
  <2>. QED  BY <1>7, <2>1 DEF AllCounted, Counted
<1>8. ASSUME NEW d \in Devices, Crash(d)
      PROVE  AllCounted'
  <2>1. Fetching(d)' = {}
    BY <1>8 DEF Crash, Fetching, Fetches, IdleTask
  <2>2. \A e \in Devices \ {d} : Fetching(e)' = Fetching(e)
    BY <1>0, <1>8 DEF Crash, Fetching, Fetches, IdleTask
  <2>3. transfers' = [transfers EXCEPT ![d] = 0]
    BY <1>8 DEF Crash
  <2>. QED  BY <1>0, <2>1, <2>2, <2>3, FS_EmptySet DEF AllCounted, Counted
<1>9. ASSUME UNCHANGED <<task, transfers>>
      PROVE  AllCounted'
  BY <1>9 DEF AllCounted, Counted, Fetching
<1>10. ASSUME NEW d \in Devices, ScanTurn(d)
       PROVE  AllCounted'
  BY <1>7, <1>9, <1>10 DEF ScanTurn
<1>11. ASSUME NEW d \in Devices,
              \/ Boot(d) \/ Start(d) \/ Stop(d)
              \/ \E q \in Devices \ {d} : Discover(d, q) \/ Lose(d, q)
              \/ \E n \in UserNames : Save(d, n) \/ Delete(d, n)
       PROVE  AllCounted'
  BY <1>7, <1>9, <1>11 DEF Boot, Start, Stop, Discover, Lose, Save, Delete
<1>12. CASE UNCHANGED vars
  BY <1>9, <1>12 DEF vars
<1>. QED
  BY <1>2, <1>3, <1>4, <1>5, <1>6, <1>8, <1>10, <1>11, <1>12
     DEF Next, CycleStep

\* active_transfers is the number of fetches under way on the device, through
\* every branch of _request_file and whatever else happens: no path counts
\* down twice or not at all, and max(0, ...) never hides a slip.
THEOREM TransfersStayCounted == Spec => []TransfersCounted
<1>1. AllCounted <=> TransfersCounted
  BY DEF AllCounted, Counted, Fetching, Fetches, TransfersCounted
<1>2. Init => AllCounted
  <2> SUFFICES ASSUME Init, NEW d \in Devices PROVE Counted(d)
    BY DEF AllCounted
  <2>1. Fetching(d) = {}
    BY DEF Init, Fetching, Fetches, IdleTask
  <2>. QED  BY <2>1, FS_EmptySet DEF Init, Counted
<1>3. TypeOK /\ AllCounted /\ [Next]_vars => AllCounted'
  BY CountInductive
<1>. QED  BY <1>1, <1>2, <1>3, TypeCorrect, PTL DEF Spec
=============================================================================
