# Personal Cloud OS in TLA+

TLA+ models of the parts of Personal Cloud OS that are concurrent, with the TLC
configurations that check them on small instances and TLAPS proofs of the
properties that hold for every instance. Paths below are those of the
repository.

## 1. The system

Each device runs one process (`src/main.py`). An asyncio loop runs the sync
engine, the container manager, the socket API and every event callback; RNS
(vendored) calls back on threads of its own; the peer service adds two threads.

| Component | State | Operations | Talks to |
|---|---|---|---|
| Sync engine, `src/services/sync.py` | `_local_files` (the index: name to hash and version), `_links`, `_status`, the sync directory | `start`, `stop`, `_scan_loop`, `_scan_local_files`, `_sync_with_peer`, `_get_link`, `_request_file`, `_compute_needed`, `_provide_index`, `_provide_file`, `_on_peer_discovered`, `_on_peer_lost` | peer service (links, handlers, `get_peers`), event bus |
| Peer service, `src/services/reticulum_peer.py` | `_peers`, `_running`, announce and expiry threads, RNS | `start`, `stop`, `_on_announce`, `_expiry_loop`, `_announce_loop`, `create_link`, request handlers, `execute_command`, `verify_link` | RNS, event bus, the handlers of the sync engine |
| Event bus, `src/core/events.py` | subscribers, history | `publish`, `publish_sync`, `subscribe` | all services, by callback |
| Application, `src/main.py` | `_running` | `start`, `stop`, signal handler | starts and stops every service in a fixed order |
| Socket API, `src/services/socket_api.py` | server, clients | service start, stop, restart, queries | all services |
| Container manager, `src/container/manager.py` | state, shell server and its threads | `start`, `stop`, `execute` | event bus |
| I2P manager, `src/services/i2p_manager.py` | `i2pd` process, `available` | `start`, `stop`, wait-for-SAM thread | RNS configuration |
| Contact registry, `src/core/contact_registry.py` | contacts in memory and in one file | add, update, remove, merge, import, devices, references, `_save`, `_load` | identity (trust level) |
| Identity, circles, access control, `src/core/identity.py`, `access_control.py` | identity file, circle directories with members files | `get_personal_identity`, `create_circle`, `add_to_circle`, `remove_from_circle`, `get_trust_level`, `check_access` | - |
| Device inventory, `src/core/device_manager.py` | one file | `register_self` | - |
| Swarm, `src/transport/swarm.py` | files offered and wanted, chunks | `announce`, `want`, `handle_message`, `stop` | peer links |
| Bandwidth governor, `src/transport/bandwidth.py`, `detector.py` | a bucket of samples for each peer, warnings | `record_transfer`, `check_transfer`, `get_stats`, `remove_peer` | - |
| Prompt, `src/cli/interface.py`, `commands.py` | lines to draw, redraw event, input line, history | input loop, replaced `sys.stdout`, commands | every service |
| Tray, logger, configuration, `verify.py` | - | a menu, formatting, settings, checks | socket API |

What is hard here: coroutines of one device interleave at every `await`; a
device's answers are given by other threads, in the middle of what its loop is
doing; an index is compared, and a file written, long after it was read; the
index lives in memory and a process may die at any point; peer events are
handed to the loop after the lock that ordered them is released; a link becomes
active after the peer was lost; `start()` and `stop()` are called by the
application, by requests, by commands and by signals, on a process-wide RNS
that can be made only once; files that several processes load, change and save
have no lock. The list of hazards, each at its line and with the properties that
cover it, is in `PROJECT.json`.

What makes the components correct:

* versions: `dominates` is a partial order; a comparison of versions tells
  concurrent saves from successive ones;
* sync engine: a fetched file never destroys one the device knew; no half file
  spreads; what a cycle believes of its peer is true of the peer's past; counters
  balance; cycles end; files arrive; an open link has an owner;
* peer service: what subscribers are told adds up to the table; silent peers go;
* application: after an orderly stop nothing is left, there is one scan loop, the
  container's state is that of its shell server, a signal ends the process unless
  a client stays connected for ever;
* contacts and circles: what a command saved stays until a command removes it;
  access is granted only to members; a merge keeps every device, text, custom
  field and reference of both contacts;
* swarm: seeders and seekers do not miss one another, a want is answered at most
  once and with the file that was announced;
* governor: a link counts as saturated exactly when the window says so; prompt:
  no printed line is forgotten.

## 2. Modules

| Module | Models | State and steps |
|---|---|---|
| `FileVersions` | `FileRecord` and the comparisons of `_compute_needed` | Operators only. A version is a total function, 0 for an absent key, which is how every comparison of the code reads it. |
| `SyncEngine` | `sync.py` on several devices, the answering halves of `reticulum_peer.py` | `disk`: the sync directories; `index`: `_local_files`; `known`: the peer table; `task`: one entry for each `_sync_with_peer` coroutine; `transfers`: the transfer counter; `life`: the process. |
| `SyncHistory` | `SyncEngine` with a ghost: which saves a save was made on top of | Adds `basis`; the engine neither reads nor changes it. |
| `PeerService` | `_on_announce`, `_expiry_loop`, `_announce_loop`, `start`, `stop`, delivery by the loop | `peers`, `silent`: the table; `heard`, `added`: announce handlers before and after the lock; `expiry`, `expired`, `popped`: the expiry thread; `queue`, `balance`: events given to the loop and published. |
| `PeerLinks` | the users of `PeerService`: `_get_link`, the pool, cycles, `execute_command`, `verify_link`, the engine's event handlers, `start` and `stop` | `links`: every RNS link made and its status; `pool`: `_links`; `tasks`: cycles, commands and checks; `forgotten`: ghost. Composes `PeerService`: its `Publish` calls the handlers. |
| `I2PManager`, `ContainerShell` | the two managers and their threads | the managers' attributes, `i2pd` processes, sockets, accept threads |
| `AppLifecycle` | `run`, `start`, `stop`, signals, the socket API's service requests, the prompt's commands, the tray | Composes the two above. `jobs`: what was given to the event loop, each a list of steps; `mainAt`, `loopState`: the process; `scans`: the scan tasks. |
| `CLIInterface` | the screen and the input line of `interface.py` | `lines`, `drawn`, `redraw`, `printers`: the output; `inputBuf`, `history`, `historyIdx`: the input |
| `Commands` | processes that run commands on files nobody locks, and may die | `task`, `at`, `answer` of each actor |
| `TrustCircles` | `identity.py`, `access_control.py` on `Commands` | the files; what each actor has read; ghosts that watch a look-up |
| `DeviceInventory` | `device_manager.py` on `Commands` | the inventory file and what each start has loaded |
| `StartupFiles` | `_setup_rootfs` of `manager.py` and `_patch_rns_config` of `i2p_manager.py` on `Commands`, in the order of a start | the container's root file system, RNS's configuration; `spoilt`, `madeOver`: ghosts |
| `ContactRegistry` | `contact_registry.py` and the contact commands; composes the three above | `contacts`: the file; `registry`: the copy of each actor |
| `FileTransfer` | what the swarm promises: a request is answered at most once, with the genuine file | abstract specification |
| `SwarmTransfer` | `swarm.py` on several nodes, for one file | `_seeding`, `_peers_with`, `_wanting`, assemblies, files, messages under way |
| `BandwidthGovernor` | `bandwidth.py`, and the tiers of `detector.py`, for one peer | `buckets`: every bucket ever made; `bucket`: the one in the table; `calls`: what each thread is doing |
| `MC*` | instances for TLC. `MCSwarmTransfer` is the swarm *or* the governor, `MCAppLifecycle` the process *or* the screen: the two of a pair share no state, `part` says which is looked at | |
| `*Proofs` | theorems | |

### SyncEngine and the code

A step is what the loop does between two awaits. A cycle (`task[t]`) is at

    idle -> index -> compare -> (file -> verify -> (write))* -> idle

`index` and `file` await the peer (its link and the request), `compare` and
`verify` have the answer and wait for the loop, `write` is between `open()`,
which truncates, and `close()`. The write is the one place where a step of the
loop is cut in two, for an RNS thread may read the file there and the process
may die there; `LoopFree` keeps every other coroutine of that device out.

| Action | Code |
|---|---|
| `ServeIndex`, `ServeFile` | `_handle_index_request`, `_handle_file_request` calling `_provide_index`, `_provide_file` on an RNS thread of the peer; a peer whose engine has not registered its handlers yet answers with an empty index, or no file |
| `Compare` | `_sync_with_peer` from the index's arrival to the first `_request_file` (`Needed` is `_compute_needed`) |
| `Reject`, `BeginWrite`, `FinishWrite` | the branches of `_request_file`; each end runs `EndFetch`, the `finally` clause and the next turn of the `for` loop |
| `RenameFails`, `OpenFails`, `WriteFails` | `os.rename` raises, which is ignored; `makedirs()`, `open()` or `write()` raises, before or after the file was moved aside or truncated, which ends the whole cycle through the `finally` clause |
| `RequestFails` | `_get_link` or `_request` returning None |
| `Boot`, `Start`, `Stop`, `Crash` | the process, `SyncEngine.start` and `stop` |
| `ScanTurn` | one turn of `_scan_loop` with its `_scan_local_files` |
| `Discover`, `Lose` | the two peer events with their callbacks |
| `Save`, `Delete` | the user |

A file's bytes are the number of the save that made them, and a hash is the
bytes themselves (`NoHash` is the `""` of an unreadable file). Clocks are not
modelled: where modification times decide, both outcomes are possible. The
name of a conflict copy is a constant function of the file and the peer, as in
the code, so a second conflict with one peer overwrites the first copy; copies
of copies are not made (the domain of `ConflictName` bounds that).

Left out of `SyncEngine`: the links (a link torn down is a request that fails;
`PeerLinks` has them), access control (no access-control object is passed by `main.py`),
directories, symbolic links and file modes, and what `files_synced` and
`last_sync` show.

### PeerService and the code

RNS starts a thread per announce, so the handlers of two announces overlap
(`heard`). The critical section is `OnAnnounce`; `ReportDiscovered` is the
hand-over to the loop after it. The expiry thread wakes (`Collect`), pops one
peer after the other (`Expire`), reports each (`ReportLost`) and looks at
`_running` (`ExpiryTurn`). `RNS.Reticulum()` may exist once per process:
`FirstStart` is the one call that can succeed and `StartRaises` every other.
Time is one bit per peer: `silent` when `_peer_timeout` has passed.

### PeerLinks and the code

A task is a coroutine that uses a link. `OpenLink` is its part up to the first
await (`_get_link` takes an active link from the pool, else `create_link`),
`PoolLink`, `LookForCommand`, `LookForCheck` and `GiveUp` the look at the status
after it, `Send` and `Refused` the request, `Conclude` what follows `wait_for`.
RNS (its vendored `Link.py`) turns links active, stale or closed and answers, or
not, at any time (`RNSStep`). `OnLost` and `TearDownPool` are the places that tear links down;
the engine subscribes in its constructor, so its handlers run whether it was
started or not. `forgotten` collects the links the code lets go of: an open link
displaced in the pool, a link that turned stale under a command, one whose
request was refused, one that was verified.

### AppLifecycle and the code

A job is what was handed to the event loop: `start()`, a `stop()`, a request. Its
steps are the pieces of the services' `start()` and `stop()` whose effect other
threads can see; `Steps` names them in the order of the code. An exception is an
outcome of a step: the application logs it and goes on, a request gives up.
`stop()` of the sync engine awaits its scan task, that of the API its open
connections (`wait_closed()`, from Python 3.12 on; the repository is built with
3.13), and a connection (`read`) its client: those are the places where another
job runs. A client may connect and stay silent (`OtherConnects`, `LateRequest`,
`HangsUp`). An `i2pd`, the manager's own or anybody's, may answer or die at any
time. The
prompt's `start` command runs its steps on a temporary loop of the main thread,
and overlaps everything. `meddled` is a ghost: did a request or a command change
services after `stop()` had begun, or a command while a job was under way. The copy of
the root file system, the patch of the RNS configuration and the relaying of
shells are not steps: they change nothing that the others read.

### Commands on files

Every file is read whole and written whole. A file opened with `"w"`, the
identity's among them, is `Torn` until it is closed; `contacts.json` is replaced by `os.replace` and never torn.
`LoadContacts` may fail (the code then starts with no contacts), `Save` may fail
(the code logs that and reports success). A look-up of a trust level lists the
circles and opens one members file after the other (`ListCircles`,
`LookInCircle`). A contact's own keys are one partial function (`Texts`, which a
merge fills in, the avatar, and whatever keys an `update` adds, which neither a
merge nor an import takes over), its custom fields another; `Text` is a text
stored in a field that should hold a list or a dictionary, which the `update`
command allows. The inventory may list a device with this device's host name and
another MAC address (`Namesake`). A start of the application may fail or die
anywhere while it makes the root file system.

### SwarmTransfer and the code

`Want`, `Announce`, `Stop` are the public methods; `OnHave`, `OnRequest`,
`OnChunk` handle a message up to the release of `_lock`; `Request` and
`SendChunk` are what those threads do outside it; `Open`, `Write`, `Check` are
the three visible stages of `_assemble`. The file is read when a chunk is sent.
Chunks are `good` or `bad`: whether the file's hash matches is whether all are
good. Nothing in the repository constructs a `SwarmManager`: who sends its
messages is assumed to deliver each once, in any order, or to lose it.

### BandwidthGovernor and CLIInterface

Both are cut at their locks. A governor's thread looks the bucket up
(`GetBucket`), and uses it later (`Record`, `ReadRate`, `ReadStats`) even if
`RemovePeer` came between; samples are dropped from the left when somebody
looks (`Evict`). Rates are compared in whole numbers: the 70 % of the bulk
ceiling is `* 10 > 7 *`. On the screen, `WriteLine` and `SetRedraw` are the two
halves of `_write`; `TestRedraw`, `ClearRedraw`, `DrawOutput` those of the input
loop. Drawing may fail, which is logged and not repeated.

## 3. Runs

| Run | Bounds | Shows |
|---|---|---|
| `sync_own_ids` | 2 devices, 1 file, 2 cycles each, 2 saves, 1 crash or failed write or rename, time-outs | types; versions are never merged; the transfer counter is exact; truncated files never spread while nothing fails; replaced indexed files are kept |
| `sync_unreadable` | as above, 1 cycle, no crash or time-out; lost peers; scans may fail to read; save 2 writes no bytes | snapshots lag their peer's index; replaced files are kept |
| `sync_cycles` | one id for all, as shipped; 1 cycle per device, stop and start, deletes, no time-outs, versions up to 6, no symmetry, fair | cycles end; the very bytes that were indexed arrive; once the users rest the devices stop pulling from one another |
| `peers` | the service alone: 2 peers, two handlers of one peer at a time, 1 stop, any number of starts; or with links to one peer that is discovered again, or to which a scan, a command or a check wants a link too, or whose engine is stopped; 1 refusal, 2 requests of a cycle | events account for the table; open links are accounted for; silent peers go |
| `swarm` | 1 seeder, 1 node that asks twice, 2 chunks, 1 loss, edit, failure or `stop()`; or 2 threads with 2 calls each of the governor, 4 seconds, a window of 2 | seeders and seekers do not miss one another; a completed file is there; each want is answered at most once and with the genuine file (`AnswersAreGenuine`, the refinement of `FileTransfer`); without faults it is answered; one bucket, exact saturation |
| `lifecycle` | 3 modes; 1 or 2 requests on 3 kinds of service, 1 start command, 2 signals, 1 service that fails (`MCSetups`); or the screen with 2 printers, 4 lines, 6 keys | orderly exits leave no service, no socket and no i2pd of one start; one scan loop; shell and state agree; a signal ends the process unless a client stays silent for ever; no line is forgotten |
| `contacts` | 2 processes, 3 commands between them, 1 crash, 1 failed load or save, 2 contacts and 2 circles; or 4 starts by 2 processes (`MCMixes`) | what a command wrote stays; members are known; grants are earned; changes are counted; merges combine both contacts; devices stay in the inventory; the root file system is whole; RNS gets one I2P interface |
| `app_quit` | violation | the quit command waits for what only its own loop could do |
| `sync_concurrent_saves` | violation | as shipped, of two concurrent saves one is lost silently |
| `sync_propagation` | violation | a file indexed late never reaches a peer that knows the device |
| `peers_restart` | violation | after stop and start silent peers stay for ever |
| `app_signal` | violation; background, 1 client, 1 signal | a silent client keeps `stop()` from returning |

The bounds are enough for the cases the hazards name: two devices and two saves
give concurrent and successive saves of one file; two cycles give a second
fetch of a file that the first has just written; one failure separates versions
counted before and after it; `MaxVersion` lets a file be counted again after it
was fetched. Two announces of a peer, with the expiry in between, give a
discovery, a loss and a rediscovery whose links overlap. Two wants give a second
assembly beside the first. Two commands of two processes overlap at every access
to a file, a third one sees what they left. A window of two seconds within four
lets samples fall out of it. With more of each only longer repetitions of these
appear. The bounds are guards or start values named in their modules: `Slots`,
`MaxSaves`, `MaxFailures`, `MaxVersion`, the domain of `ConflictName`;
`MaxHeard`, `MaxQueue`, `MaxStops`, `MaxAsks`, `Setups` of `PeerLinks`;
`MaxWants`, `MaxNet`, `MaxFaults`; `MaxNow`, `MaxCalls`; `Setups` of
`AppLifecycle`; `MaxLines`, `MaxKeys`; `Mixes`, `MaxCrashes`.
Symmetry is used for devices and for actors, and only where no liveness is
checked. Deadlock is not checked: a system whose users have made their saves,
given their commands and used up the bounds may stop, and a process exits.

Each passing run's property is violated by a seeded fault of the code it is
about (`mutants` in `PROJECT.json`; the faults are the definitions marked
"Seeded fault").

Several properties name what the code does not guarantee, and hold otherwise.
`LinksAreAccountedFor` excepts the links in `forgotten`; `ReplacedFilesAreKept` a
file that no scan has indexed, and a renaming that fails; `IndexedFilesArrive`
files of no bytes, and files the device has too, if it counts more changes of
them or has not scanned the last;
`OrderlyExit` a `stop()` that was cut short by a second signal or overtaken by a
request or a command, and the i2pds a second start of their manager forgot;
`SignalsEndTheProcess` a client that is connected and silent for ever;
`OrderlyExit`, `OneScanLoop` and `ShellMatchesState` a start command of the prompt
that overlaps a request (its scan task takes the place of the loop's own in
`_scan_task`, `sync.py:162`, and a later `stop()` cancels the wrong one); `ContactsStay`,
`ChangesAreCounted` and `MergeCombines` the save of a registry that is
not what the file holds any more; `MergeCombines` the avatar and the keys an
update has added; `AddsAreKept` and `StandingMembersAreKnown` a
members file that is torn, or that two commands write at a time;
`InventoryKeepsDevices` a start that met the file while it was written or left
torn, and the device whose host name is this one's; `RootfsIsWhole` a start that
died or failed while it made it; `RnsGetsI2P` an RNS
that met its configuration empty, or made its own over it;
`CompletedFileIsThere` a second assembly or a user that wrote the file
meanwhile; `WantedFilesArrive` a message that is lost; `NoLineForgotten` a drawing
that failed. Where a document or a comment promises more, section 4 quotes
it; the hazards list says what happens at each line.

**Fairness.** `SyncEngine`: each cycle's next step, `Boot`, `Start`, `ScanTurn`
and `Discover` are weakly fair: asyncio runs what is ready, every request is
answered or ends in `wait_for`, the scan loop comes round, and an up peer
announces itself periodically. Saves, deletes, crashes, stops and losses are
not. `PeerLinks`: the expiry thread gets to run; nobody has to start, stop,
announce or fall silent, and neither links nor answers are fair.
`SwarmTransfer`: a message under way is handled, a thread that was started goes
on; nobody has to announce or want, and faults are not fair. `AppLifecycle`: the
event loop runs its next step and the main thread goes on; requests, signals and
commands are not fair, and neither is a client that has connected: it may ask
late, hang up, or do neither.

## 4. Findings

1. `sync_concurrent_saves`: `src/services/sync.py:133` falls back to the id
   `unknown` and nothing sets `device.id`; the versions of all devices share
   one counter, so "conflict detection" (`sync.py:17`) detects nothing.
2. `sync_propagation`: pull-only; a peer is asked when it is discovered or when
   the asking device changes (`sync.py:248`), against `sync.py:106`.
3. `peers_restart`: `_running` is set before the call that raises
   (`reticulum_peer.py:103`), so a restarted service reports that it runs
   without its threads, against `reticulum_peer.py:361`.
4. `app_quit`: `run_stop` waits on the event loop for a coroutine of that loop
   (`cli/commands.py:601`); the process ends ten seconds later with its services
   up, against `commands.py:588`.
5. `app_signal`: `wait_closed()` (`socket_api.py:61`) waits for clients that are
   read from without a time-out (line 72), so `stop()` may never return and the
   loop never be stopped, against `main.py:144`. This needs Python 3.12 or later
   (`BUILD.md:145` and `SPEC.md:784` name 3.13).

Five more disagreements between code and text are modelled as the code has them.
They have no run of their own; the properties named allow for them.

* A version is never merged with the peer's (`sync.py:486`, against line 17): as
  shipped, an edit counted as often as the file it was made on top of may be
  undone by the next cycle. The cause is that of finding 1.
* `I2PManager.start()` has no guard and forgets the i2pd it launched before
  (`i2p_manager.py:265`), which `stop()` does not end, against line 77
  (`OrderlyExit`).
* The end of the prompt stops the application whichever command ended it
  (`main.py:278`), `exit` too, against `cli/commands.py:86` and `582`
  (`OrderlyExit`).
* A new device is entered under its host name (`device_manager.py:133`), in the
  place of another one of that host name, against line 5
  (`InventoryKeepsDevices`).
* Of a device that two merged contacts know, the target's entry stays
  (`contact_registry.py:423`), against the comment at line 420 (`MergeCombines`).

## 5. Proofs

All theorems hold for every value of the constants that the modules'
assumptions allow. These say no more than that bounds are numbers, that
devices and peers are finitely many, that sentinels are not values (a torn or
missing members file is no set of people, for one), that a conflict copy does not
have the name of its file, and that the other devices of the inventory have ids
of their own; one of them may have this device's host name.

| Module | Theorems |
|---|---|
| `SyncEngineProofs` | on versions: `DominatesIsPartialOrder`, `OwnIdsAlwaysConflict`, `OneIdNeverInConflict`; `TypeCorrect`: `[]TypeOK`; `VersionsStayOwn`: `[]VersionsCountOwnScans`; `ReplacedFilesStay`: `ReplacedFilesAreKept`; `OneIdNoConflicts`: `[]OneIdNeverConflicts`, which no run checks: with one id the comparison of two versions is decided before anything happens |
| `SyncFilesProofs` | `TransfersStayCounted`: `[]TransfersCounted`; `PartialStaysHome`: `[]PartialOnlyWhileWriting`; `SnapshotsLag`: `[]SnapshotsLagIndex` |
| `PeerServiceProofs` | `PeerTypeCorrect`: `[]TypeOK`; `EventsAccount`: `[]EventsAccountForTable` |
| `PeerLinksProofs` | `LinksTypeCorrect`: `[]LinksTypeOK`; `LinksStayAccounted`: `[]LinksAreAccountedFor`; `EventsReachEngine`: `[]EventsAccountForTable` of the composition |
| `ContactRegistryProofs` | `TypesHold`: `[]TypeOK`; on contacts `ContactsAreKept`: `ContactsStay`, `ChangesCount`: `ChangesAreCounted`, `MergesCombine`: `MergeCombines`; on circles `AddsStay`: `[]AddsAreKept`, `MembersAreKnown`: `[]StandingMembersAreKnown`, `AccessIsEarned`: `[]GrantsAreEarned`; on starts `DevicesStay`: `[]InventoryKeepsDevices`, `RootfsStaysWhole`: `[]RootfsIsWhole`, `RnsHasI2P`: `RnsGetsI2P` |
| `SwarmTransferProofs` | `SwarmTypeCorrect`: `[]TypeOK`, with `TicketsDiffer`; `SeedersAreAsked`: `[]KnownSeedersAsked`; `CompletedIsThere`: `CompletedFileIsThere`; `SwarmImplementsTransfer`: `AnswersAreGenuine` |
| `BandwidthGovernorProofs` | `GovernorTypesHold`: `[]GovernorTypeOK`; `BucketIsShared`: `[]OneBucketPerPeer`; `SaturationExact`: `SaturationIsExact` |
| `AppLifecycleProofs` | `AppTypeCorrect`: `[]TypeOK`; `AppExitsOrderly`: `[]OrderlyExit`; `NeverTwoScanLoops`: `[]OneScanLoop`; `ShellServerFollows`: `[]ShellMatchesState`; of `CLIInterface`, `ScreenTypeCorrect`: `[]ScreenTypeOK`; `LinesReachScreen`: `[]NoLineForgotten` |

**Sync engine.** The invariant is
`Inv == TypeOK /\ FetchesListed /\ VersionsCountOwnScans`.
`TypeOK` alone is not inductive: a cycle that fetches `NoName` would index the
disk outside its domain, so `FetchesListed` says that a cycle which fetches does
so for a name its snapshot lists, and that what it still needs is listed too;
that in turn needs a cycle that awaits an index to need nothing yet. The proof
is one step per action for the type, and goes over what a step can make of one
cycle (`TaskSteps`) and of one index (`IndexSteps`) for the two other conjuncts.
`ReplacedFilesStay` combines the invariant with `OwnIdsAlwaysConflict`: the
snapshot's version counts only for the peer's id and the index's only for the
device's own, so they conflict, and the branch of `_request_file` that renames
is the one taken (`WritesBegin`, `FetchMeetsIndex`).
`OneIdNoConflicts` uses the other half of that argument: versions that count for
one id are ordered, so the branch that makes a copy is never taken. Its own
invariant is `CopyFree`: the names of copies are on no disk, in no index and in
no snapshot. `TransfersStayCounted` needs no more than `TypeOK`: `AllCounted` is
inductive, since a step lets at most one fetch of a device begin or end (or a
crash ends them all), and the set of a device's fetches is finite.
`PartialStaysHome` goes through `Whole`: one cycle of a device writes at a time
(`OneWriter`, from `LoopFree`), so a scan never meets a truncated file
(`ScansAlone`), so no index and no snapshot carries the hash of one, so what is
accepted is whole. `SnapshotsLag` rests on a file that is indexed staying on the
disk (`Filed`), so that a scan finds every record it has and moves it on
(`ScanFileLags`); being a past is transitive because `dominates` is an order.

**Peer service and links.** `EventsAccount` needs `PoppedToReport`, that the
expiry thread holds a peer exactly while it has it to report, and counts a
queue's events (`AppendCounts`, `TailCounts`). `LinksAreAccountedFor` is not
inductive: a cycle that ends takes its link from the tasks, and `stop()` empties
the pool. `LinkInv` adds what makes it so: a link that a cycle uses is safe, that
is closed, let go of, or in the pool, because the cycle put it there or found it
there; whoever takes a link from the pool closes it or notes it in `forgotten`;
and the pool's link of a peer leads to that peer. `OthersGoOn` and `TasksGoOn`
reduce a step to what it does to one task, or to the links. Since no user of the
service takes a step of its own on the table (`ServiceAlone`), the service's
invariant carries over to the composition.

**Commands on files.** A step is that of one actor, and changes what that actor
keeps and no other (`ActorsKeepTheirOwn`); what an actor may be doing at each
stage of a command is part of the invariants.
*Contacts:* `ContactInv` says that the file and every registry hold contacts, and
that a task has what its stage needs; `Savers` then reduces every change of the
file to "the registry of one actor, but for the contact its command is about",
and the three action properties are read off it.
*Circles:* `LookInv` says that a circle that has held a person all along a look-up
is still to be opened, so that a look-up cannot end with nothing found; and that
every answer has its reason in the past. `AddsAreKept` is not inductive: `KeptInv`
adds `WriterKnows`, that who is to empty a members file has read what it holds,
and who is to fill it puts back everyone an add answered for, unless another
command has written the file in between, which the property excepts.
*Starts:* `InventoryInv` says that what a start has loaded, and is to write, is as
complete as the file was; `ConfigInv` that a configuration has at most one I2P
interface, and that a start that makes one knows whether it makes it over
another. `RootfsIsWhole` is inductive.

**Swarm.** The refinement maps `pending` to the tickets in `_wanting` and in
assemblies, `delivered` to the calls of `on_complete`. It needs that tickets
under way on a node are distinct and were given out by `want()` (`TicketsDiffer`):
otherwise one answer would take another's ticket. `CompletedIsThere` needs `DisturbanceNoticed`: an assembly
that nobody disturbs finds on the disk what it wrote.

**Governor.** `GovernorInv` says of every bucket that it is in the order of time
and holds all that was recorded there within the window (`Kept`); then the sum
over the bucket, after what is old was dropped, is the sum over the whole history
of what is recent (`RecentIs`), and the rates agree. A sum over a sequence is a
recursive function on the naturals: that it exists (`SumsExist`) and that a prefix
of zeros does not change it (`TotalOfSuffix`) are proved by induction, from the
well-foundedness of `<` stated for sets of naturals (`Inductive`).

**Application.** What may be relied on between two steps depends on what is
still to be done, so the invariants speak of the lists of steps. `JobsInv` says of
every list, whatever requests, commands and `start()` or `stop()` it is made of,
what its steps leave true: the halves of a `start()` or `stop()` follow one another
(`Paired`), no other job runs between the halves named in `Tight`, and the
application's `stop()` has only steps that stop (`StopSteps`). It is proved of the
lists first (`ServiceLists`, `StopsAre`), then of what a step leaves of a list
(`RestPaired`, `RestHas`), then of the loop (`NextJobs`). On it rest the others.
`ShellInv`: while the second half of the container's start or stop is next, the
container is not running. `ScansInv`: a live scan task is the last one made, of an
engine that runs; while the second half of the engine's start is next, there is
none. For both, `OneActs` says that whoever does a step of a service is the only
one who is doing anything, and `OthersAct` that the other actions do not begin
anything. `DownInv`: once `stop()` has begun, whatever is still up is the object of
a step that a `stop()` under way has still to come to (`Due`); a step of `stop()`
takes away only what it has just put down (`ServiceLeavesDue`), and nobody else's
step takes anything away (`OthersLeaveDue`). A process that ends in order has
nothing due, hence nothing up. `I2PInv` adds that, unless
the I2P manager was started while it ran, the i2pd launched last is the only one
there may be.

**Screen.** `NoLineForgotten` is inductive together with the type invariant,
which says that no more lines were drawn than there are.

**Only model-checked.** All liveness (fairness and ENABLED are outside the
prover): `CyclesEnd`, `IndexedFilesArrive`, `SyncSettles`, `SilentPeersExpire`,
`WantedFilesArrive`, `SignalsEndTheProcess`. Every other property of a passing
run is a theorem.

## 6. Not modelled

* Queries: status, listings, searches, statistics, logs. They read what the
  modelled operations write, and change nothing.
* The container's mounts and host name, and the directories made at start.
  RNS's configuration can be opened whenever it is there; that a write runs out
  of room is modelled.
* Code nothing calls: `AccessControl.register_handler`, `publish_sync`,
  `set_contact_registry`, `container.restart`, everything under `src/shelf`.
* `TransportManager`, which holds swarm, governor and detector together and
  starts a WireGuard manager whose file is not in the repository.
* The text form of an identity (export and import), the contents of an inventory
  entry, the handshake and cryptography of RNS.
* The tray's menu, the logger, the configuration, `verify.py`: no protocol. The
  tray's Quit is a job of `AppLifecycle`.
* RNS itself (vendored), but for the states a link goes through, is assumed to deliver, fail or time out a request, to
  run one thread per announce and to allow one instance per process.

## 7. Plan

Done, in this order: `FileVersions`, `SyncEngine`, `PeerService`, their proofs;
then `SwarmTransfer` with its refinement, `AppLifecycle` with the two managers,
`ContactRegistry` with circles, inventory and starts, `PeerLinks` on `PeerService`,
`BandwidthGovernor` and `CLIInterface`, and the proofs of all of these.

Left, in the order of their worth:

1. `ReplicaStore`: an abstract store of files with conflict copies that
   `SyncEngine` implements between devices with ids of their own.
2. `SwarmTransfer` with several files on one node, where two downloads may share
   a destination.
