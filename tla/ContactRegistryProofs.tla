------------------------ MODULE ContactRegistryProofs ------------------------
(***************************************************************************)
(* Theorems about ContactRegistry and the modules it composes, for any     *)
(* number of actors, circles, identities, contacts and deaths.             *)
(***************************************************************************)
EXTENDS ContactRegistry, FiniteSetTheorems, TLAPS

\* What an actor may do in a step, but for what Watch records.
Acts(a) ==
    \/ BeginTask(a)
    \/ CircleStep(a) /\ UNCHANGED <<contactVars, inventoryVars, startVars>>
    \/ ContactStep(a) /\ UNCHANGED <<inventoryVars, startVars>>
    \/ InventoryStep(a) /\ UNCHANGED <<contactVars, startVars, diskVars, localVars, added>>
    \/ StartStep(a) /\ UNCHANGED <<contactVars, inventoryVars, diskVars, localVars, added>>

LEMMA StepIsOfOne == Next <=> (\E a \in Actors : Acts(a)) /\ Watch
BY Zenon DEF Next, Acts

-----------------------------------------------------------------------------
(* What an actor keeps is a function of the actors, and only the one that  *)
(* acts changes its own.                                                   *)

PerActor(f) == f = [a \in Actors |-> f[a]]

Shape ==
    /\ PerActor(at) /\ PerActor(answer) /\ PerActor(task) /\ PerActor(me)
    /\ PerActor(read) /\ PerActor(todo) /\ PerActor(registry)
    /\ PerActor(loaded) /\ PerActor(found)

\* Only what f holds for a changes.
OnlyFor(a, f, g) == PerActor(g) /\ \A b \in Actors : b # a => g[b] = f[b]

LEMMA PutIsFor ==
    ASSUME NEW f, PerActor(f), NEW a \in Actors
    PROVE  OnlyFor(a, f, f) /\ \A v : OnlyFor(a, f, Put(f, a, v))
BY DEF PerActor, OnlyFor, Put

\* Only what a keeps changes.
OnlyBy(a) ==
    /\ OnlyFor(a, at, at') /\ OnlyFor(a, answer, answer') /\ OnlyFor(a, task, task')
    /\ OnlyFor(a, me, me') /\ OnlyFor(a, read, read') /\ OnlyFor(a, todo, todo')
    /\ OnlyFor(a, registry, registry') /\ OnlyFor(a, loaded, loaded')
    /\ OnlyFor(a, found, found')

LEMMA ActorsKeepTheirOwn ==
    ASSUME Shape, NEW a \in Actors, Acts(a)
    PROVE  OnlyBy(a)
<1>1. /\ OnlyFor(a, at, at) /\ \A v : OnlyFor(a, at, Put(at, a, v))
      /\ OnlyFor(a, answer, answer) /\ \A v : OnlyFor(a, answer, Put(answer, a, v))
      /\ OnlyFor(a, task, task) /\ \A v : OnlyFor(a, task, Put(task, a, v))
      /\ OnlyFor(a, me, me) /\ \A v : OnlyFor(a, me, Put(me, a, v))
      /\ OnlyFor(a, read, read) /\ \A v : OnlyFor(a, read, Put(read, a, v))
      /\ OnlyFor(a, todo, todo) /\ \A v : OnlyFor(a, todo, Put(todo, a, v))
      /\ OnlyFor(a, registry, registry) /\ \A v : OnlyFor(a, registry, Put(registry, a, v))
      /\ OnlyFor(a, loaded, loaded) /\ \A v : OnlyFor(a, loaded, Put(loaded, a, v))
      /\ OnlyFor(a, found, found) /\ \A v : OnlyFor(a, found, Put(found, a, v))
  BY PutIsFor DEF Shape
<1>2. CASE BeginTask(a)
  BY <1>1, <1>2 DEF BeginTask, BeginCircleTask, Begin, Enter, GoTo, BeginRegister, BeginStart,
     OnlyBy, localVars, inventoryVars, startVars
<1>3. CASE CircleStep(a) /\ UNCHANGED <<contactVars, inventoryVars, startVars>>
  <2>0. UNCHANGED <<registry, loaded, found>>
    BY <1>3 DEF contactVars, inventoryVars, startVars
  <2> USE <1>1, <2>0 DEF GoTo, Return, Finish, OnlyBy, localVars
  <2>1. CASE LoadIdentity(a) \/ CreateIdentity(a) \/ WriteIdentity(a)
    BY <2>1 DEF LoadIdentity, CreateIdentity, WriteIdentity, Identified, StartLookup
  <2>2. CASE ListCircles(a) \/ LookInCircle(a) \/ NotFound(a) \/ CheckAccess(a)
    BY <2>2 DEF ListCircles, LookInCircle, NotFound, CheckAccess
  <2>3. CASE MakeDirectory(a) \/ WriteKey(a) \/ CheckMembers(a) \/ FindCircle(a)
    BY <2>3 DEF MakeDirectory, WriteKey, CheckMembers, FindCircle
  <2>4. CASE ReadMembers(a) \/ Truncate(a) \/ FillMembers(a) \/ Crash(a)
    BY <2>4 DEF ReadMembers, Truncate, FillMembers, Crash, Die
  <2>. QED  BY <1>3, <2>1, <2>2, <2>3, <2>4 DEF CircleStep
<1>4. CASE ContactStep(a) /\ UNCHANGED <<inventoryVars, startVars>>
  <2>0. UNCHANGED <<loaded, found>>
    BY <1>4 DEF inventoryVars, startVars
  <2> USE <1>1, <2>0 DEF GoTo, Return, Finish, OnlyBy, After, Save, GiveUp, Change
  <2>1. CASE LoadContacts(a)
    BY <2>1 DEF LoadContacts, StartLookup
  <2>2. CASE AddContact(a) \/ ImportContact(a)
    BY <2>2 DEF AddContact, ImportContact
  <2>3. CASE UpdateContact(a) \/ RemoveContact(a) \/ MergeContact(a)
    BY <2>3 DEF UpdateContact, RemoveContact, MergeContact
  <2>4. CASE RegisterDevice(a) \/ RemoveDevice(a) \/ AddCrossRef(a)
    BY <2>4 DEF RegisterDevice, RemoveDevice, AddCrossRef
  <2>. QED  BY <1>4, <2>1, <2>2, <2>3, <2>4 DEF ContactStep
<1>5. CASE InventoryStep(a) /\ UNCHANGED <<contactVars, startVars, diskVars, localVars, added>>
  BY <1>1, <1>5 DEF InventoryStep, LoadInventory, RegisterSelf, SaveInventory, Finish, GoTo,
     OnlyBy, contactVars, startVars, localVars
<1>6. CASE StartStep(a) /\ UNCHANGED <<contactVars, inventoryVars, diskVars, localVars, added>>
  <2>0. UNCHANGED <<registry, loaded, me, read, todo>>
    BY <1>6 DEF contactVars, inventoryVars, localVars
  <2> USE <1>1, <2>0 DEF GoTo, Finish, OnlyBy, startVars
  <2>1. CASE FindRootfs(a) \/ MakeRootfs(a) \/ CopyRootfs(a) \/ LinkRootfs(a)
    BY <2>1 DEF FindRootfs, MakeRootfs, CopyRootfs, LinkRootfs
  <2>2. CASE ReadConfig(a) \/ OpenConfig(a) \/ FillConfig(a)
    BY <2>2 DEF ReadConfig, OpenConfig, FillConfig, PatchEnds
  <2>3. CASE ReadByRNS(a) \/ CreateDefault(a) \/ FillDefault(a)
    BY <2>3 DEF ReadByRNS, CreateDefault, FillDefault
  <2>. QED  BY <1>6, <2>1, <2>2, <2>3 DEF StartStep
<1>. QED  BY <1>2, <1>3, <1>4, <1>5, <1>6 DEF Acts

LEMMA ShapeHolds == Spec => []Shape
<1>1. Init => Shape
  BY DEF Init, CirclesInit, CommandsInit, InventoryInit, StartInit, Shape, PerActor
<1>2. Shape /\ [Next]_vars => Shape'
  <2>1. ASSUME Shape, NEW a \in Actors, Acts(a)
        PROVE  Shape'
    BY <2>1, ActorsKeepTheirOwn DEF OnlyBy, OnlyFor, Shape, PerActor
  <2>2. ASSUME Shape, UNCHANGED vars
        PROVE  Shape'
    BY <2>2 DEF Shape, PerActor, vars, commandVars, circleVars, localVars, inventoryVars, startVars, contactVars
  <2>. QED  BY <2>1, <2>2, StepIsOfOne
<1>. QED  BY <1>1, <1>2, PTL DEF Spec

-----------------------------------------------------------------------------
(* Deaths are counted.                                                     *)

LEMMA CrashStep ==
    ASSUME NEW a \in Actors, Acts(a)
    PROVE  \/ crashes' = crashes
           \/ crashes' = crashes + 1 /\ CircleStep(a) /\ Crash(a)
<1>1. CASE BeginTask(a)
  BY <1>1 DEF BeginTask, BeginCircleTask, Begin, Enter, BeginRegister, BeginStart
<1>2. CASE CircleStep(a)
  <2>1. CASE Crash(a)
    BY <1>2, <2>1 DEF Crash, Die
  <2>2. CASE ~Crash(a)
    BY <1>2, <2>2 DEF CircleStep, LoadIdentity, CreateIdentity, WriteIdentity, ListCircles, LookInCircle, NotFound,
       CheckAccess, MakeDirectory, WriteKey, CheckMembers, FindCircle, ReadMembers, Truncate,
       FillMembers
  <2>. QED  BY <2>1, <2>2
<1>3. CASE ContactStep(a)
  BY <1>3 DEF ContactStep, After, LoadContacts, AddContact, UpdateContact, RemoveContact,
     RegisterDevice, RemoveDevice, AddCrossRef, MergeContact, ImportContact
<1>4. CASE InventoryStep(a)
  BY <1>4 DEF InventoryStep, LoadInventory, RegisterSelf, SaveInventory
<1>5. CASE StartStep(a)
  BY <1>5 DEF StartStep, FindRootfs, MakeRootfs, CopyRootfs, LinkRootfs, ReadConfig, OpenConfig,
     FillConfig, ReadByRNS, CreateDefault, FillDefault
<1>. QED  BY <1>1, <1>2, <1>3, <1>4, <1>5 DEF Acts

CrashesCounted == crashes \in 0 .. MaxCrashes

LEMMA CrashesAreCounted == Spec => []CrashesCounted
<1>1. Init => CrashesCounted
  BY CommandsAssumption DEF Init, CirclesInit, CommandsInit, CrashesCounted
<1>2. CrashesCounted /\ [Next]_vars => CrashesCounted'
  <2>1. ASSUME CrashesCounted, NEW a \in Actors, Acts(a)
        PROVE  CrashesCounted'
    BY <2>1, CrashStep, CommandsAssumption DEF CrashesCounted, Crash, Die
  <2>2. ASSUME CrashesCounted, UNCHANGED vars
        PROVE  CrashesCounted'
    BY <2>2 DEF CrashesCounted, vars, commandVars
  <2>. QED  BY <2>1, <2>2, StepIsOfOne
<1>. QED  BY <1>1, <1>2, PTL DEF Spec

-----------------------------------------------------------------------------
(* The files of a start.                                                   *)

LEMMA StartFilesStay ==
    ASSUME NEW a \in Actors, Acts(a), ~StartStep(a)
    PROVE  UNCHANGED <<rootfs, spoilt, config, madeOver>>
<1>1. CASE BeginTask(a)
  BY <1>1 DEF BeginTask, BeginStart, startVars
<1>2. CASE ~BeginTask(a)
  BY <1>2 DEF Acts, startVars
<1>. QED  BY <1>1, <1>2

\* A root file system that is not whole is never left behind but by a start that
\* died or failed (_setup_rootfs).
THEOREM RootfsStaysWhole == Spec => []RootfsIsWhole
<1>1. Init => RootfsIsWhole
  BY DEF Init, StartInit, RootfsIsWhole
<1>2. ASSUME Shape, CrashesCounted, RootfsIsWhole, NEW a \in Actors, Acts(a)
      PROVE  RootfsIsWhole'
  <2>0. OnlyFor(a, at, at') /\ crashes \in Nat
    BY <1>2, ActorsKeepTheirOwn, CommandsAssumption DEF OnlyBy, CrashesCounted
  <2>1. CASE ~StartStep(a)
    <3>1. UNCHANGED <<rootfs, spoilt>>
      BY <1>2, <2>1, StartFilesStay
    <3>2. CASE at[a] \notin {"copying", "link"} \/ at'[a] = at[a]
      BY <3>1, <3>2, <2>0, <1>2, CrashStep DEF OnlyFor, RootfsIsWhole
    <3>3. CASE at[a] \in {"copying", "link"} /\ at'[a] # at[a]
      <4>1. CircleStep(a) /\ Crash(a)
        BY <3>3, <2>1, <1>2 DEF Acts, BeginTask, BeginCircleTask, Begin, BeginRegister, BeginStart, Enter,
           InventoryStep, LoadInventory, RegisterSelf, SaveInventory, CircleStep,
           LoadIdentity, CreateIdentity, WriteIdentity, ListCircles, LookInCircle, NotFound,
           CheckAccess, MakeDirectory, WriteKey, CheckMembers, FindCircle, ReadMembers, Truncate,
           FillMembers, ContactStep, LoadContacts, AddContact, UpdateContact, RemoveContact, Ready,
           RegisterDevice, RemoveDevice, AddCrossRef, MergeContact, ImportContact
      <4>2. crashes' > 0
        BY <4>1, <2>0 DEF Crash, Die
      <4>. QED  BY <4>2 DEF RootfsIsWhole
    <3>. QED  BY <3>2, <3>3
  <2>2. CASE FindRootfs(a) \/ MakeRootfs(a) \/ CopyRootfs(a) \/ LinkRootfs(a)
    BY <2>0, <2>2, <1>2 DEF FindRootfs, MakeRootfs, CopyRootfs, LinkRootfs, GoTo, Put, Finish,
       OnlyFor, RootfsIsWhole, startVars, Shape, PerActor
  <2>3. CASE \/ ReadConfig(a) \/ OpenConfig(a) \/ FillConfig(a)
             \/ ReadByRNS(a) \/ CreateDefault(a) \/ FillDefault(a)
    <3>1. UNCHANGED <<rootfs, spoilt, crashes>> /\ at[a] \notin {"copying", "link"}
      BY <2>3 DEF ReadConfig, OpenConfig, FillConfig, ReadByRNS, CreateDefault, FillDefault, startVars
    <3>. QED  BY <3>1, <2>0, <1>2 DEF OnlyFor, RootfsIsWhole
  <2>. QED  BY <2>1, <2>2, <2>3 DEF StartStep
<1>3. ASSUME RootfsIsWhole, UNCHANGED vars
      PROVE  RootfsIsWhole'
  BY <1>3 DEF RootfsIsWhole, vars, commandVars, startVars
<1>4. Shape /\ CrashesCounted /\ RootfsIsWhole /\ [Next]_vars => RootfsIsWhole'
  BY <1>2, <1>3, StepIsOfOne
<1>. QED  BY <1>1, <1>4, ShapeHolds, CrashesAreCounted, PTL DEF Spec

\* The configuration of RNS, from when it is there: it has at most one I2P
\* interface; a start that found no configuration and makes one notices whether
\* it makes it over another, or is the first of all to do anything with it.
ConfigInv ==
    /\ StartTypeOK
    /\ config \notin {NoFile, Torn} => config.i2p \in {0, 1}
    /\ config = NoFile =>
         \A a \in Actors : found[a] \subseteq {NoFile} /\ at[a] \notin {"append", "patching", "default"}
    /\ \A a \in Actors :
          /\ at[a] \in {"rootfs", "copy", "copying", "link", "patch"} => found[a] = {}
          /\ at[a] \in {"append", "patching"} => \A c \in found[a] : Patchable(c)
          /\ \/ at[a] = "patching"
             \/ at[a] = "rns" /\ \E c \in found[a] : HasPlace(c)
             => config = Torn \/ config.i2p = 1 \/ madeOver
          /\ at[a] = "default" /\ ~madeOver =>
                /\ config = Torn
                /\ \A b \in Actors : /\ found[b] \subseteq {NoFile, Torn}
                                     /\ at[b] \notin {"append", "patching"}
                                     /\ at[b] = "default" => b = a

StartStages == {"rootfs", "copy", "copying", "link", "patch", "append", "patching",
                "rns", "create", "default"}

\* Steps of other commands lead to no stage of a start but the first.
LEMMA OtherStages ==
    ASSUME Shape, NEW a \in Actors, Acts(a), ~StartStep(a)
    PROVE  /\ UNCHANGED found \/ found' = Put(found, a, {})
           /\ at'[a] \in StartStages => at'[a] \in {"rootfs", "patch"} /\ found'[a] = {}
<1>0. \A v : Put(at, a, v)[a] = v /\ Put(found, a, v)[a] = v
  BY DEF Put, Shape, PerActor
<1>1. CASE BeginTask(a)
  BY <1>1, <1>0 DEF BeginTask, BeginCircleTask, Begin, EntryStage, Enter, GoTo, BeginRegister, BeginStart,
     startVars, StartStages
<1>2. CASE CircleStep(a) /\ UNCHANGED <<contactVars, inventoryVars, startVars>>
  <2> USE <1>0 DEF StartStages, GoTo, Return, Finish
  <2>1. UNCHANGED found
    BY <1>2 DEF startVars
  <2>2. CASE LoadIdentity(a) \/ CreateIdentity(a) \/ WriteIdentity(a)
    <3>1. ASSUME NEW k, Identified(a, k)
          PROVE  at'[a] \notin StartStages
      BY <3>1 DEF Identified, StartLookup
    <3>. QED  BY <2>1, <2>2, <3>1 DEF LoadIdentity, CreateIdentity, WriteIdentity
  <2>3. CASE ListCircles(a) \/ LookInCircle(a) \/ NotFound(a) \/ CheckAccess(a)
    BY <2>1, <2>3 DEF ListCircles, LookInCircle, NotFound, CheckAccess
  <2>4. CASE MakeDirectory(a) \/ WriteKey(a)
    BY <2>1, <2>4 DEF MakeDirectory, WriteKey
  <2>6. CASE CheckMembers(a) \/ FindCircle(a)
    BY <2>1, <2>6 DEF CheckMembers, FindCircle
  <2>5. CASE ReadMembers(a) \/ Truncate(a) \/ FillMembers(a) \/ Crash(a)
    BY <2>1, <2>5 DEF ReadMembers, Truncate, FillMembers, Crash, Die
  <2>. QED  BY <1>2, <2>2, <2>3, <2>4, <2>5, <2>6 DEF CircleStep
<1>3. CASE ContactStep(a) /\ UNCHANGED <<inventoryVars, startVars>>
  BY <1>3, <1>0 DEF startVars, StartStages, GoTo, Return, Finish, Save, GiveUp, Change,
     ContactStep, LoadContacts, StartLookup, AddContact, UpdateContact, RemoveContact,
     RegisterDevice, RemoveDevice, AddCrossRef, MergeContact, ImportContact
<1>4. CASE InventoryStep(a) /\ UNCHANGED <<contactVars, startVars, diskVars, localVars, added>>
  BY <1>4, <1>0 DEF startVars, StartStages, GoTo, Finish,
     InventoryStep, LoadInventory, RegisterSelf, SaveInventory
<1>. QED  BY <1>1, <1>2, <1>3, <1>4 DEF Acts

LEMMA ConfigStep ==
    ASSUME Shape, ConfigInv, NEW a \in Actors, Acts(a)
    PROVE  ConfigInv'
<1>0. /\ OnlyFor(a, at, at') /\ OnlyFor(a, found, found')
      /\ \A v : Put(at, a, v)[a] = v /\ Put(found, a, v)[a] = v
  BY ActorsKeepTheirOwn DEF OnlyBy, Put, Shape, PerActor
<1> USE DEF ConfigInv, StartTypeOK
<1>1. CASE ~StartStep(a)
  <2>1. UNCHANGED <<rootfs, spoilt, config, madeOver>> /\ found'[a] \in {found[a], {}}
    BY <1>0, <1>1, StartFilesStay, OtherStages
  <2>2. at'[a] \in StartStages => at'[a] \in {"rootfs", "patch"} /\ found'[a] = {}
    BY <1>1, OtherStages
  <2>. QED  BY <1>0, <2>1, <2>2 DEF OnlyFor, StartStages
<1>2. CASE FindRootfs(a) \/ MakeRootfs(a) \/ CopyRootfs(a) \/ LinkRootfs(a)
  <2>1. UNCHANGED <<config, found, madeOver>>
    BY <1>2 DEF FindRootfs, MakeRootfs, CopyRootfs, LinkRootfs, startVars
  <2>2. /\ at[a] \in {"rootfs", "copy", "copying", "link"}
        /\ at'[a] \in {"copy", "copying", "link", "patch", "idle"}
        /\ rootfs' \in {NoFile, "part", "copied", "whole"} /\ spoilt' \in BOOLEAN
    <3>1. CASE FindRootfs(a)
      BY <1>0, <3>1 DEF FindRootfs, GoTo, Finish, startVars
    <3>2. CASE MakeRootfs(a)
      BY <1>0, <3>2 DEF MakeRootfs, GoTo, Finish
    <3>3. CASE CopyRootfs(a)
      BY <1>0, <3>3 DEF CopyRootfs, GoTo, Finish
    <3>4. CASE LinkRootfs(a)
      BY <1>0, <3>4 DEF LinkRootfs, GoTo, Finish
    <3>. QED  BY <1>2, <3>1, <3>2, <3>3, <3>4
  <2>. QED  BY <1>0, <2>1, <2>2 DEF OnlyFor
<1>3. CASE ReadConfig(a)
  <2>1. UNCHANGED <<config, madeOver, rootfs, spoilt>> /\ at[a] = "patch"
    BY <1>3 DEF ReadConfig
  <2>2. \/ found'[a] = {config} /\ Patchable(config) /\ at'[a] = "append"
        \/ found'[a] = {config} /\ ~Patchable(config) /\ at'[a] \in {"rns", "idle"}
        \/ found'[a] = {} /\ at'[a] \in {"rns", "idle"}
    BY <1>0, <1>3 DEF ReadConfig, PatchEnds, GoTo, Finish
  <2>. QED  BY <1>0, <2>1, <2>2 DEF OnlyFor, Patchable, HasPlace
<1>4. CASE OpenConfig(a)
  <2>1. /\ UNCHANGED <<found, madeOver, rootfs, spoilt>> /\ config' = Torn
        /\ at[a] = "append" /\ at'[a] = "patching"
    BY <1>0, <1>4 DEF OpenConfig, GoTo
  <2>2. config # NoFile
    BY <2>1
  <2>. QED  BY <1>0, <2>1, <2>2, CommandsAssumption DEF OnlyFor
<1>5. CASE FillConfig(a)
  <2>1. /\ UNCHANGED <<found, madeOver, rootfs, spoilt>>
        /\ at[a] = "patching" /\ at'[a] \in {"rns", "idle"}
    BY <1>0, <1>5 DEF FillConfig, PatchEnds, GoTo, Finish
  <2>2. CASE UNCHANGED config
    BY <1>0, <2>1, <2>2 DEF OnlyFor
  <2>3. CASE \E c \in found[a] : config' = [c EXCEPT !.i2p = @ + 1]
    <3>1. PICK c \in found[a] : config' = [c EXCEPT !.i2p = @ + 1]
      BY <2>3
    <3>2. c \in Config /\ c.i2p = 0
      BY <2>1 DEF Patchable, HasPlace
    <3>3. config' \in Config /\ config'.i2p = 1
      BY <3>1, <3>2 DEF Config
    <3>4. config' \notin {NoFile, Torn}
      BY <3>3, StartAssumption
    <3>5. \A b \in Actors : at[b] = "default" => madeOver
      BY <2>1
    <3>. QED  BY <1>0, <2>1, <3>3, <3>4, <3>5 DEF OnlyFor
  <2>. QED  BY <1>5, <2>2, <2>3 DEF FillConfig
<1>6. CASE ReadByRNS(a)
  <2>1. /\ UNCHANGED <<found, madeOver, rootfs, spoilt, config>>
        /\ at[a] = "rns" /\ at'[a] \in {"create", "idle"}
    BY <1>0, <1>6 DEF ReadByRNS, GoTo, Finish, startVars
  <2>. QED  BY <1>0, <2>1 DEF OnlyFor
<1>7. CASE CreateDefault(a)
  <2>1. /\ UNCHANGED <<found, rootfs, spoilt>> /\ config' = Torn
        /\ madeOver' = (madeOver \/ config # NoFile)
        /\ at[a] = "create" /\ at'[a] = "default"
    BY <1>0, <1>7 DEF CreateDefault, GoTo
  <2>2. /\ madeOver' \in BOOLEAN
        /\ ~madeOver' => \A b \in Actors : /\ found[b] \subseteq {NoFile}
                                         /\ at[b] \notin {"append", "patching", "default"}
    BY <2>1
  <2>3. \A b \in Actors \ {a} : at'[b] = at[b] /\ found'[b] = found[b]
    BY <1>0 DEF OnlyFor
  <2>. QED  BY <2>1, <2>2, <2>3, CommandsAssumption
<1>8. CASE FillDefault(a)
  <2>1. /\ UNCHANGED <<found, rootfs, spoilt, madeOver>> /\ config' = Default
        /\ at[a] = "default" /\ at'[a] = "idle"
    BY <1>0, <1>8 DEF FillDefault, Finish, GoTo
  <2>2. Default \in Config /\ Default.i2p = 0
    BY DEF Default, Config
  <2>3. config' \notin {NoFile, Torn}
    BY <2>1, <2>2, StartAssumption
  <2>4. ~madeOver => \A b \in Actors : ~\E c \in found[b] : HasPlace(c)
    BY <2>1 DEF HasPlace
  <2>. QED  BY <1>0, <2>1, <2>2, <2>3, <2>4 DEF OnlyFor
<1>. QED  BY <1>1, <1>2, <1>3, <1>4, <1>5, <1>6, <1>7, <1>8 DEF StartStep

LEMMA ConfigHolds == Spec => []ConfigInv
<1>1. Init => ConfigInv
  <2> SUFFICES ASSUME Init PROVE ConfigInv
    OBVIOUS
  <2>1. /\ rootfs \in {NoFile, "whole"} /\ spoilt = FALSE /\ madeOver = FALSE
        /\ config \in {NoFile, Default, [Default EXCEPT !.interfaces = FALSE]}
        /\ \A a \in Actors : at[a] = "idle" /\ found[a] = {}
    BY DEF Init, CirclesInit, CommandsInit, StartInit
  <2>2. config # NoFile => config \in Config /\ config.i2p = 0
    <3>1. Default \in Config /\ Default.i2p = 0
      BY DEF Default, Config
    <3>2. /\ [Default EXCEPT !.interfaces = FALSE] \in Config
          /\ [Default EXCEPT !.interfaces = FALSE].i2p = 0
      BY <3>1 DEF Config
    <3>. QED  BY <2>1, <3>1, <3>2
  <2>3. config = NoFile \/ (config # NoFile /\ config.i2p \in {0, 1})
    BY <2>2
  <2>4. StartTypeOK
    BY <2>1, <2>2 DEF StartTypeOK
  <2>. QED  BY <2>1, <2>3, <2>4 DEF ConfigInv
<1>2. ConfigInv /\ UNCHANGED vars => ConfigInv'
  BY DEF ConfigInv, StartTypeOK, vars, commandVars, startVars
<1>3. Shape /\ ConfigInv /\ [Next]_vars => ConfigInv'
  BY <1>2, ConfigStep, StepIsOfOne
<1>. QED  BY <1>1, <1>3, ShapeHolds, PTL DEF Spec

\* RNS gets exactly one I2P interface in a start that found its configuration in
\* order, but for the ways the property names (I2PManager.start, main.start).
THEOREM RnsHasI2P == Spec => RnsGetsI2P
<1>1. ConfigInv =>
        [\A a \in Actors :
            /\ at[a] = "rns" /\ answer'[a] = "done"
            /\ \E c \in found[a] : HasPlace(c)
            => \/ config = Torn
               \/ config.i2p = 1
               \/ madeOver]_<<commandVars, startVars>>
  BY DEF ConfigInv
<1>. QED  BY <1>1, ConfigHolds, PTL DEF RnsGetsI2P

-----------------------------------------------------------------------------
(* The device inventory.                                                   *)

OwnOnce(d) == \A k, l \in DOMAIN d : d[k].id = Own /\ d[l].id = Own => k = l

\* Every other device is there, or is the one by this host name, whose entry this
\* device's has replaced.  Nobody else's is found under that name.
OthersKept(d) ==
    /\ \A n \in Neighbours :
          \/ n \in IdsOf(d)
          \/ n = Namesake /\ Host \in DOMAIN d /\ d[Host].id = Own
    /\ Host \in DOMAIN d => d[Host].id \notin Neighbours \ {Namesake}

Complete(d) == OwnOnce(d) /\ (OthersKept(d) \/ wiped)

\* What a start has loaded, and writes, is as good as the file was.
InventoryInv ==
    /\ wiped \in BOOLEAN
    /\ inventory # Torn => Complete(inventory)
    /\ \A a \in Actors : at[a] \in {"register", "fill"} => Complete(loaded[a])

\* register_self adds or completes the entry of this device, and no other.
LEMMA OwnEntryOnly ==
    ASSUME NEW d, NEW k \in OwnKeys(d), OwnOnce(d)
    PROVE  /\ OwnOnce(With(d, k, Entry(Host, Own)))
           /\ OthersKept(d) => OthersKept(With(d, k, Entry(Host, Own)))
<1> DEFINE w == With(d, k, Entry(Host, Own))
<1>1. /\ DOMAIN w = DOMAIN d \cup {k}
      /\ w[k].id = Own
      /\ \A l \in DOMAIN d \ {k} : w[l] = d[l]
  BY DEF With, Entry
<1>2. \A l \in DOMAIN d \ {k} : d[l].id # Own
  BY DEF OwnKeys, OwnOnce
<1>3. ASSUME k \in DOMAIN d, d[k].id \in Neighbours
      PROVE  k = Host /\ OwnKeys(d) = {Host}
  BY <1>3, InventoryAssumption DEF OwnKeys
<1>4. OwnOnce(w)
  BY <1>1, <1>2 DEF OwnOnce
<1>5. ASSUME OthersKept(d)
      PROVE  OthersKept(w)
  <2>1. Host \in DOMAIN w => w[Host].id \notin Neighbours \ {Namesake}
    BY <1>1, <1>5, InventoryAssumption DEF OthersKept
  <2>2. ASSUME NEW n \in Neighbours, n \in IdsOf(d), n \notin IdsOf(w)
        PROVE  n = Namesake /\ Host \in DOMAIN w /\ w[Host].id = Own
    <3>1. PICK l \in DOMAIN d : d[l].id = n
      BY <2>2 DEF IdsOf
    <3>2. l = k
      BY <1>1, <2>2, <3>1 DEF IdsOf
    <3>. QED  BY <1>1, <1>3, <1>5, <2>2, <3>1, <3>2 DEF OthersKept
  <2>3. ASSUME Host \in DOMAIN d, d[Host].id = Own
        PROVE  Host \in DOMAIN w /\ w[Host].id = Own
    BY <1>1, <2>3
  <2>. QED  BY <1>5, <2>1, <2>2, <2>3 DEF OthersKept
<1>. QED  BY <1>4, <1>5

LEMMA InventoryFrame ==
    ASSUME Shape, NEW a \in Actors, Acts(a), ~InventoryStep(a)
    PROVE  UNCHANGED <<inventory, loaded, wiped>> /\ at'[a] \notin {"register", "fill"}
<1>0. \A v : Put(at, a, v)[a] = v
  BY DEF Put, Shape, PerActor
<1>1. CASE BeginTask(a)
  BY <1>1, <1>0 DEF BeginTask, BeginCircleTask, Begin, EntryStage, Enter, GoTo, BeginRegister, BeginStart,
     inventoryVars
<1>2. CASE CircleStep(a) /\ UNCHANGED <<contactVars, inventoryVars, startVars>>
  BY <1>2, <1>0 DEF inventoryVars, GoTo, Return, Finish,
     CircleStep, LoadIdentity, CreateIdentity, WriteIdentity, Identified, StartLookup, ListCircles, LookInCircle,
     NotFound, CheckAccess, MakeDirectory, WriteKey, CheckMembers, FindCircle, ReadMembers,
     Truncate, FillMembers, Crash, Die
<1>3. CASE ContactStep(a) /\ UNCHANGED <<inventoryVars, startVars>>
  BY <1>3, <1>0 DEF inventoryVars, GoTo, Return, Finish, Save, GiveUp, Change,
     ContactStep, LoadContacts, StartLookup, AddContact, UpdateContact, RemoveContact,
     RegisterDevice, RemoveDevice, AddCrossRef, MergeContact, ImportContact
<1>4. CASE StartStep(a) /\ UNCHANGED <<contactVars, inventoryVars, diskVars, localVars, added>>
  BY <1>4, <1>0 DEF inventoryVars, GoTo, Finish, StartStep, FindRootfs, MakeRootfs, CopyRootfs,
     LinkRootfs, ReadConfig, OpenConfig, FillConfig, PatchEnds, ReadByRNS, CreateDefault, FillDefault
<1>. QED  BY <1>1, <1>2, <1>3, <1>4 DEF Acts

LEMMA InventoryHolds == Spec => []InventoryInv
<1>1. Init => InventoryInv
  <2> SUFFICES ASSUME Init PROVE InventoryInv
    OBVIOUS
  <2>1. /\ wiped = FALSE /\ \A a \in Actors : at[a] = "idle"
        /\ \E alike \in BOOLEAN :
             LET hosts == IF alike THEN (Neighbours \ {Namesake}) \cup {Host} ELSE Neighbours
                 others == [h \in hosts |-> Entry(h, IF h = Host THEN Namesake ELSE h)]
             IN  \/ inventory = others
                 \/ \E id \in {Own, NoId} : inventory = With(others, "mine", Entry(Host, id))
    BY DEF Init, InventoryInit, CirclesInit, CommandsInit
  <2>2. PICK hosts \in {Neighbours, (Neighbours \ {Namesake}) \cup {Host}} :
          LET others == [h \in hosts |-> Entry(h, IF h = Host THEN Namesake ELSE h)]
          IN  \/ inventory = others
              \/ \E id \in {Own, NoId} : inventory = With(others, "mine", Entry(Host, id))
    BY <2>1
  <2> DEFINE others == [h \in hosts |-> Entry(h, IF h = Host THEN Namesake ELSE h)]
  <2>3. /\ DOMAIN others = hosts
        /\ \A h \in hosts : others[h].id = IF h = Host THEN Namesake ELSE h
    BY DEF Entry
  <2>4. /\ \A h \in hosts : others[h].id \in Neighbours
        /\ \A n \in Neighbours : \E h \in hosts : others[h].id = n
        /\ "mine" \notin hosts
    BY <2>3, InventoryAssumption
  <2>5. ASSUME NEW d, hosts \subseteq DOMAIN d, \A h \in hosts : d[h].id = others[h].id,
               \A h \in DOMAIN d \ hosts : h = "mine"
        PROVE  OwnOnce(d) /\ OthersKept(d)
    <3>1. OwnOnce(d)
      BY <2>4, <2>5, InventoryAssumption DEF OwnOnce
    <3>2. \A n \in Neighbours : n \in IdsOf(d)
      BY <2>4, <2>5 DEF IdsOf
    <3>3. Host \in DOMAIN d => d[Host].id \notin Neighbours \ {Namesake}
      BY <2>3, <2>5, InventoryAssumption
    <3>. QED  BY <3>1, <3>2, <3>3 DEF OthersKept
  <2>6. CASE inventory = others
    BY <2>1, <2>3, <2>5, <2>6 DEF InventoryInv, Complete
  <2>7. ASSUME NEW id \in {Own, NoId}, inventory = With(others, "mine", Entry(Host, id))
        PROVE  InventoryInv
    <3>1. /\ DOMAIN inventory = hosts \cup {"mine"}
          /\ \A h \in hosts : inventory[h] = others[h]
      BY <2>3, <2>4, <2>7 DEF With
    <3> HIDE DEF others
    <3>2. OwnOnce(inventory) /\ OthersKept(inventory)
      BY <2>5, <3>1
    <3>. QED  BY <2>1, <3>2 DEF InventoryInv, Complete
  <2>. QED  BY <2>2, <2>6, <2>7
<1>2. ASSUME Shape, InventoryInv, NEW a \in Actors, Acts(a)
      PROVE  InventoryInv'
  <2>0. /\ OnlyFor(a, at, at') /\ OnlyFor(a, loaded, loaded')
        /\ \A v : Put(at, a, v)[a] = v /\ Put(loaded, a, v)[a] = v
    BY <1>2, ActorsKeepTheirOwn DEF OnlyBy, Put, Shape, PerActor
  <2>1. CASE ~InventoryStep(a)
    BY <1>2, <2>0, <2>1, InventoryFrame DEF OnlyFor, InventoryInv, Complete
  <2>2. CASE LoadInventory(a)
    <3>1. /\ UNCHANGED inventory
          /\ at'[a] = "register"
          /\ loaded'[a] = IF inventory \in {Torn, NoFile} THEN <<>> ELSE inventory
          /\ wiped' = (wiped \/ inventory \in {Torn, NoFile})
      BY <2>0, <2>2 DEF LoadInventory, GoTo
    <3>2. OwnOnce(<<>>)
      BY DEF OwnOnce
    <3>3. Complete(loaded[a])'
      BY <1>2, <3>1, <3>2 DEF InventoryInv, Complete
    <3>. QED  BY <1>2, <2>0, <3>1, <3>3 DEF OnlyFor, InventoryInv, Complete
  <2>3. CASE RegisterSelf(a)
    <3>1. /\ UNCHANGED wiped /\ inventory' = Torn
          /\ at[a] = "register" /\ at'[a] = "fill"
      BY <2>0, <2>3 DEF RegisterSelf, GoTo
    <3>2. PICK k \in OwnKeys(loaded[a]) : loaded'[a] = With(loaded[a], k, Entry(Host, Own))
      BY <2>0, <2>3 DEF RegisterSelf
    <3>3. Complete(loaded[a])'
      BY <1>2, <3>1, <3>2, OwnEntryOnly DEF InventoryInv, Complete
    <3>. QED  BY <1>2, <2>0, <3>1, <3>3 DEF OnlyFor, InventoryInv, Complete
  <2>4. CASE SaveInventory(a)
    <3>1. /\ UNCHANGED <<loaded, wiped>> /\ inventory' = loaded[a]
          /\ at[a] = "fill" /\ at'[a] = "idle"
      BY <2>0, <2>4 DEF SaveInventory, Finish, GoTo
    <3>. QED  BY <1>2, <2>0, <3>1 DEF OnlyFor, InventoryInv, Complete
  <2>. QED  BY <2>1, <2>2, <2>3, <2>4 DEF InventoryStep
<1>3. InventoryInv /\ UNCHANGED vars => InventoryInv'
  BY DEF InventoryInv, Complete, vars, commandVars, inventoryVars
<1>4. Shape /\ InventoryInv /\ [Next]_vars => InventoryInv'
  BY <1>2, <1>3, StepIsOfOne
<1>. QED  BY <1>1, <1>4, ShapeHolds, PTL DEF Spec

\* However many processes register this device at a time, and whichever of them
\* dies, it has at most one entry, and the other devices keep theirs, unless a
\* start met a torn file, or the device has this one's host name, whose entry
\* replaced its own (DeviceManager.register_self).
THEOREM DevicesStay == Spec => []InventoryKeepsDevices
<1>1. ASSUME InventoryInv, inventory # Torn
      PROVE  /\ Cardinality({k \in DOMAIN inventory : inventory[k].id = Own}) <= 1
             /\ \A n \in Neighbours \ IdsOf(inventory) :
                  \/ wiped
                  \/ n = Namesake /\ Host \in DOMAIN inventory /\ inventory[Host].id = Own
  <2> DEFINE S == {k \in DOMAIN inventory : inventory[k].id = Own}
  <2>1. OwnOnce(inventory) /\ (OthersKept(inventory) \/ wiped)
    BY <1>1 DEF InventoryInv, Complete
  <2>2. S = {} \/ \E k : S = {k}
    BY <2>1 DEF OwnOnce
  <2>3. Cardinality(S) \in {0, 1}
    BY <2>2, FS_EmptySet, FS_Singleton
  <2>. QED  BY <2>1, <2>3 DEF OthersKept
<1>2. InventoryInv => InventoryKeepsDevices
  BY <1>1 DEF InventoryKeepsDevices
<1>. QED  BY <1>2, InventoryHolds, PTL

-----------------------------------------------------------------------------
(* What the operations make of a contact is a contact.                     *)

LEMMA PartialIs ==
    ASSUME NEW S, NEW T, NEW f
    PROVE  f \in Partial(S, T) <=> \E D \in SUBSET S : f \in [D -> T]
BY DEF Partial

LEMMA PartialFunctions ==
    ASSUME NEW S, NEW T, NEW f \in Partial(S, T)
    PROVE  /\ \A x \in S, v \in T : With(f, x, v) \in Partial(S, T)
           /\ \A x : Without(f, x) \in Partial(S, T)
           /\ \A R : Only(f, R) \in Partial(S, T)
           /\ \A g \in Partial(S, T) : Over(f, g) \in Partial(S, T)
<1>1. DOMAIN f \in SUBSET S /\ f \in [DOMAIN f -> T]
  BY PartialIs
<1>2. ASSUME NEW x \in S, NEW v \in T
      PROVE  With(f, x, v) \in Partial(S, T)
  <2>1. With(f, x, v) \in [DOMAIN f \cup {x} -> T]
    BY <1>1, <1>2 DEF With
  <2>. QED  BY <1>1, <1>2, <2>1, PartialIs
<1>3. ASSUME NEW x
      PROVE  Without(f, x) \in Partial(S, T)
  <2>1. Without(f, x) \in [DOMAIN f \ {x} -> T]
    BY <1>1 DEF Without
  <2>. QED  BY <1>1, <2>1, PartialIs
<1>4. ASSUME NEW g \in Partial(S, T)
      PROVE  Over(f, g) \in Partial(S, T)
  <2>1. DOMAIN g \in SUBSET S /\ g \in [DOMAIN g -> T]
    BY <1>4, PartialIs
  <2>2. Over(f, g) \in [DOMAIN f \cup DOMAIN g -> T]
    BY <1>1, <2>1 DEF Over
  <2>. QED  BY <1>1, <2>1, <2>2, PartialIs
<1>5. ASSUME NEW R
      PROVE  Only(f, R) \in Partial(S, T)
  <2>1. Only(f, R) \in [DOMAIN f \cap R -> T]
    BY <1>1 DEF Only
  <2>. QED  BY <1>1, <2>1, PartialIs
<1>. QED  BY <1>2, <1>3, <1>4, <1>5

LEMMA ContactFields ==
    ASSUME NEW c \in Contact
    PROVE  /\ c.who \in People
           /\ c.trust \in {"personal", "circle", "unknown", "set"}
           /\ c.fields \in Partial(Fields, Values)
           /\ c.custom \in Partial(Customs, Values) \cup {Text}
           /\ c.devices \in Partial(Devs, Values) \cup {Text}
           /\ c.refs \in (SUBSET Refs) \cup {Text}
           /\ c.clock \in Nat
BY DEF Contact

LEMMA ContactMade ==
    ASSUME NEW who \in People, NEW trust \in {"personal", "circle", "unknown", "set"}
    PROVE  NewContact(who, trust) \in Contact
<1>1. ASSUME NEW S, NEW T
      PROVE  [k \in {} |-> {}] \in Partial(S, T)
  <2>1. [k \in {} |-> {}] \in [{} -> T]
    OBVIOUS
  <2>. QED  BY <2>1, PartialIs
<1>. QED  BY <1>1 DEF NewContact, Contact

LEMMA ContactBumped ==
    ASSUME NEW c \in Contact
    PROVE  Bumped(c) \in Contact /\ Bumped(c).clock = c.clock + 1
BY DEF Bumped, Contact

\* What a task says of what it is for.
TaskFits(t) ==
    /\ t.op \in {"create", "join", "leave"} => t.circle \in Circles
    /\ t.op \in {"join", "leave", "access", "add"} => t.who \in People
    /\ t.op \in {"update", "remove", "ref", "merge", "import", "device", "undevice"} => t.id \in Ids
    /\ t.op = "merge" => t.into \in Ids
    /\ t.op = "import" => t.from \in Contact
    /\ t.op = "update" => \/ t.key \in {"trust", "custom", "devices", "refs"}
                          \/ t.key \in Fields /\ t.value \in Values \cup {NoText}
    /\ t.op = "ref" => t.ref \in Refs
    /\ t.op \in {"device", "undevice"} => t.dev \in Devs
    /\ t.op = "device" => t.value \in Values

LEMMA ContactUpdated ==
    ASSUME NEW c \in Contact, NEW t, t.op = "update", TaskFits(t)
    PROVE  Updated(c, t) \in Contact /\ Updated(c, t).clock = c.clock
<1>1. CASE t.key = "trust"
  BY <1>1 DEF Updated, Contact
<1>2. CASE t.key = "devices"
  BY <1>2 DEF Updated, Contact
<1>3. CASE t.key = "refs"
  BY <1>3 DEF Updated, Contact
<1>4. CASE t.key = "custom"
  BY <1>4 DEF Updated, Contact
<1>5. CASE t.key \notin {"trust", "custom", "devices", "refs"} /\ t.value = NoText
  <2>1. Without(c.fields, t.key) \in Partial(Fields, Values)
    BY ContactFields, PartialFunctions
  <2>2. Updated(c, t) = [c EXCEPT !.fields = Without(@, t.key)]
    BY <1>5 DEF Updated
  <2>. QED  BY <2>1, <2>2 DEF Contact
<1>6. CASE t.key \notin {"trust", "custom", "devices", "refs"} /\ t.value # NoText
  <2>1. With(c.fields, t.key, t.value) \in Partial(Fields, Values)
    BY <1>6, ContactFields, PartialFunctions DEF TaskFits
  <2>2. Updated(c, t) = [c EXCEPT !.fields = With(@, t.key, t.value)]
    BY <1>6 DEF Updated
  <2>. QED  BY <2>1, <2>2 DEF Contact
<1>. QED  BY <1>1, <1>2, <1>3, <1>4, <1>5, <1>6

LEMMA ContactMerged ==
    ASSUME NEW s \in Contact, NEW t \in Contact, Mergeable(s, t)
    PROVE  /\ Merged(s, t) \in Contact
           /\ Merged(s, t).clock = t.clock
           /\ Merged(s, t).devices = Over(t.devices, s.devices)
           /\ Merged(s, t).fields = Over(t.fields, Only(s.fields, Texts))
           /\ t.custom # Text => Merged(s, t).custom = Over(t.custom, s.custom)
           /\ t.refs # Text => Merged(s, t).refs = t.refs \cup s.refs
<1>1. /\ s.devices \in Partial(Devs, Values) /\ t.devices \in Partial(Devs, Values)
      /\ s.custom \in Partial(Customs, Values)
      /\ s.refs \in SUBSET Refs
  BY ContactFields DEF Mergeable
<1>2. /\ Over(t.devices, s.devices) \in Partial(Devs, Values)
      /\ Over(t.fields, Only(s.fields, Texts)) \in Partial(Fields, Values)
      /\ t.custom # Text => Over(t.custom, s.custom) \in Partial(Customs, Values)
  BY <1>1, ContactFields, PartialFunctions
<1>3. (IF t.refs = Text THEN Text ELSE t.refs \cup s.refs) \in (SUBSET Refs) \cup {Text}
  BY <1>1, ContactFields
<1>4. (IF t.custom = Text THEN Text ELSE Over(t.custom, s.custom)) \in Partial(Customs, Values) \cup {Text}
  BY <1>2
<1>. QED  BY <1>2, <1>3, <1>4 DEF Merged, Contact

LEMMA ContactImported ==
    ASSUME NEW c \in Contact
    PROVE  Imported(c) \in Contact
<1>1. Only(c.fields, Texts \cup {"avatar"}) \in Partial(Fields, Values)
  BY ContactFields, PartialFunctions
<1>. QED  BY <1>1 DEF Imported, Contact

LEMMA ContactsWith ==
    ASSUME NEW f, AreContacts(f)
    PROVE  /\ \A id \in Ids, c \in Contact : AreContacts(With(f, id, c))
           /\ \A id : AreContacts(Without(f, id))
BY DEF AreContacts, With, Without

-----------------------------------------------------------------------------
(* Tasks, stages and answers fit one another, and contacts are contacts.   *)

ContactOps == {"add", "update", "remove", "ref", "merge", "import", "device", "undevice"}

\* The commands that may be at a stage.
StageFits(stage, op) ==
    /\ stage \in {"mkdir", "key", "fresh"} => op = "create"
    /\ stage = "dir" => op = "join"
    /\ stage = "read" => op \in {"join", "leave"}
    /\ stage \in Writing => op \in {"create", "join", "leave"}
    /\ stage \in {"identity", "generate", "keyfile"} => op \in {"access", "identity"} \cup ContactOps
    /\ stage \in Looking => op \in {"access", "add"}
    /\ stage = "load" => op \in ContactOps
    /\ stage = "apply" => op \in ContactOps \ {"add"}

ActorFits(a) ==
    /\ TaskFits(task[a])
    /\ StageFits(at[a], task[a].op)
    /\ at[a] = "answered" => answer[a] \in {"personal", "circle", "unknown", "error"}

BookFits(f) == AreContacts(f) /\ DOMAIN f \subseteq used

ContactInv ==
    /\ used \subseteq Ids
    /\ BookFits(contacts)
    /\ \A a \in Actors : BookFits(registry[a]) /\ ActorFits(a)

LEMMA CircleTasksFit ==
    ASSUME NEW t \in CircleTasks, t.op # "idle"
    PROVE  TaskFits(t) /\ t.op \in CircleOps
<1>1. Friends \subseteq People
  BY DEF People
<1>2. CASE t \in [op : {"create"}, circle : Circles]
  BY <1>2 DEF TaskFits, CircleOps
<1>3. CASE t \in [op : {"join", "leave"}, circle : Circles, who : Friends]
  BY <1>1, <1>3 DEF TaskFits, CircleOps
<1>4. CASE t \in [op : {"access"}, who : People]
  BY <1>4 DEF TaskFits, CircleOps
<1>5. CASE t \in [op : {"idle", "identity"}]
  BY <1>5 DEF TaskFits, CircleOps
<1>. QED  BY <1>2, <1>3, <1>4, <1>5 DEF CircleTasks

LEMMA ContactTasksFit ==
    ASSUME used \subseteq Ids, BookFits(contacts), NEW t \in ContactTasks
    PROVE  TaskFits(t) /\ t.op \in ContactOps
<1> USE DEF TaskFits, ContactOps
<1>1. CASE t \in AddTasks
  BY <1>1 DEF AddTasks
<1>2. CASE t \in UpdateTasks
  BY <1>2 DEF UpdateTasks
<1>3. CASE t \in RemoveTasks \/ t \in RefTasks \/ t \in MergeTasks
  BY <1>3 DEF RemoveTasks, RefTasks, MergeTasks
<1>4. CASE t \in ImportTasks
  BY <1>4 DEF ImportTasks, BookFits, AreContacts
<1>5. CASE t \in DeviceTasks
  BY <1>5 DEF DeviceTasks
<1>. QED  BY <1>1, <1>2, <1>3, <1>4, <1>5 DEF ContactTasks

LEMMA EntryFits ==
    ASSUME NEW t, t.op \in CircleOps \cup ContactOps
    PROVE  StageFits(EntryStage(t), t.op) /\ EntryStage(t) \in {"mkdir", "dir", "read", "identity"}
BY DEF StageFits, EntryStage, CircleOps, ContactOps, Looking, Writing

LEMMA OutsideFits ==
    ASSUME NEW op
    PROVE  /\ TaskFits(Idle)
           /\ TaskFits([op |-> "register"]) /\ TaskFits([op |-> "start"]) /\ TaskFits([op |-> "i2p"])
           /\ \A s \in {"idle", "inventory", "register", "fill"} \cup StartStages : StageFits(s, op)
BY DEF TaskFits, Idle, StageFits, StartStages, Looking, Writing

LEMMA ActorStep ==
    ASSUME Shape, ContactInv, NEW a \in Actors, Acts(a)
    PROVE  ActorFits(a)'
<1>0. /\ \A v : Put(at, a, v)[a] = v /\ Put(task, a, v)[a] = v /\ Put(answer, a, v)[a] = v
      /\ ActorFits(a)
  BY DEF Put, Shape, PerActor, ContactInv
<1>1. ASSUME at'[a] = "idle", task'[a] = Idle
      PROVE  ActorFits(a)'
  BY <1>1, OutsideFits DEF ActorFits
<1>2. CASE BeginTask(a)
  <2>1. ASSUME NEW t, Begin(a, t), TaskFits(t), t.op \in CircleOps \cup ContactOps
        PROVE  ActorFits(a)'
    <3>1. at'[a] = EntryStage(t) /\ task'[a] = t
      BY <1>0, <2>1 DEF Begin, Enter, GoTo
    <3>. QED  BY <2>1, <3>1, EntryFits DEF ActorFits
  <2>2. CASE BeginCircleTask(a, left.ops)
    BY <2>1, <2>2, CircleTasksFit DEF BeginCircleTask
  <2>3. CASE \E t \in ContactTasks : t.op \in left.ops /\ Begin(a, t)
    BY <2>1, <2>3, ContactTasksFit DEF ContactInv
  <2>4. CASE BeginRegister(a)
    <3>1. at'[a] = "inventory" /\ task'[a] = [op |-> "register"]
      BY <1>0, <2>4 DEF BeginRegister, Enter, GoTo
    <3>. QED  BY <3>1, OutsideFits DEF ActorFits
  <2>5. CASE BeginStart(a)
    <3>1. /\ at'[a] \in {"rootfs", "patch"}
          /\ task'[a] \in {[op |-> "start"], [op |-> "i2p"]}
      BY <1>0, <2>5 DEF BeginStart, Enter, GoTo
    <3>2. at'[a] \in StartStages /\ at'[a] # "answered"
      BY <3>1 DEF StartStages
    <3>. QED  BY <3>1, <3>2, OutsideFits DEF ActorFits
  <2>. QED  BY <1>2, <2>2, <2>3, <2>4, <2>5 DEF BeginTask
<1>3. ASSUME NEW k, StartLookup(a, k), UNCHANGED task, task[a].op \in {"access", "add"}
      PROVE  ActorFits(a)'
  <2>1. \/ at'[a] = "answered" /\ answer'[a] = "personal"
        \/ at'[a] = "list"
    BY <1>0, <1>3 DEF StartLookup, GoTo
  <2>2. StageFits(at'[a], task[a].op)
    BY <1>3, <2>1 DEF StageFits, Looking, Writing
  <2>. QED  BY <1>0, <1>3, <2>1, <2>2 DEF ActorFits
<1>4. ASSUME NEW k, Identified(a, k), at[a] \in {"identity", "generate", "keyfile"}
      PROVE  ActorFits(a)'
  <2>1. CASE task[a].op = "identity"
    BY <1>0, <1>1, <1>4, <2>1 DEF Identified, Return, Finish, GoTo
  <2>2. CASE task[a].op = "access"
    BY <1>3, <1>4, <2>2 DEF Identified
  <2>3. CASE task[a].op \notin {"identity", "access"}
    <3>1. UNCHANGED task /\ at'[a] = "load"
      BY <1>0, <1>4, <2>3 DEF Identified, GoTo
    <3>2. task[a].op \in ContactOps
      BY <1>0, <1>4, <2>3 DEF ActorFits, StageFits
    <3>3. StageFits("load", task[a].op)
      BY <3>2 DEF StageFits, Looking, Writing
    <3>. QED  BY <1>0, <3>1, <3>3 DEF ActorFits
  <2>. QED  BY <2>1, <2>2, <2>3
<1>5. CASE CircleStep(a)
  <2>1. CASE LoadIdentity(a) /\ identity = NoFile
    <3>1. UNCHANGED task /\ at[a] = "identity" /\ at'[a] = "generate"
      BY <1>0, <2>1, CommandsAssumption DEF LoadIdentity, GoTo
    <3>. QED  BY <1>0, <3>1 DEF ActorFits, StageFits, Looking, Writing
  <2>2. CASE LoadIdentity(a) /\ identity # NoFile
    <3>1. CASE identity = Torn
      BY <1>0, <1>1, <2>2, <3>1, CommandsAssumption DEF LoadIdentity, Return, Finish, GoTo
    <3>2. CASE identity # Torn
      BY <1>4, <2>2, <3>2 DEF LoadIdentity
    <3>. QED  BY <3>1, <3>2
  <2>3. CASE CreateIdentity(a)
    <3>1. UNCHANGED task /\ at[a] = "generate" /\ at'[a] = "keyfile"
      BY <1>0, <2>3 DEF CreateIdentity, GoTo
    <3>. QED  BY <1>0, <3>1 DEF ActorFits, StageFits, Looking, Writing
  <2>12. CASE WriteIdentity(a)
    BY <1>4, <2>12 DEF WriteIdentity
  <2>4. CASE ListCircles(a) \/ LookInCircle(a) \/ NotFound(a)
    <3>1. /\ UNCHANGED task /\ at[a] \in {"list", "look"} /\ at'[a] \in {"look", "answered"}
          /\ at'[a] = "answered" => answer'[a] \in {"circle", "error", "unknown"}
      BY <1>0, <2>4 DEF ListCircles, LookInCircle, NotFound, GoTo
    <3>. QED  BY <1>0, <3>1 DEF ActorFits, StageFits, Looking, Writing
  <2>5. CASE CheckAccess(a) \/ Crash(a)
    BY <1>0, <1>1, <2>5 DEF CheckAccess, Crash, Die, Return, Finish, GoTo
  <2>6. CASE MakeDirectory(a) \/ WriteKey(a)
    <3>1. /\ UNCHANGED task /\ at[a] \in {"mkdir", "key"} /\ at'[a] \in {"key", "fresh"}
      BY <1>0, <2>6 DEF MakeDirectory, WriteKey, GoTo
    <3>. QED  BY <1>0, <3>1 DEF ActorFits, StageFits, Looking, Writing
  <2>7. CASE CheckMembers(a)
    <3>1. \/ UNCHANGED task /\ at[a] = "fresh" /\ at'[a] = "truncate"
          \/ at'[a] = "idle" /\ task'[a] = Idle
      BY <1>0, <2>7 DEF CheckMembers, GoTo, Return, Finish
    <3>. QED  BY <1>0, <1>1, <3>1 DEF ActorFits, StageFits, Looking, Writing
  <2>8. CASE FindCircle(a) \/ ReadMembers(a) \/ Truncate(a)
    <3>1. \/ UNCHANGED task /\ at[a] = "dir" /\ at'[a] = "read"
          \/ UNCHANGED task /\ at[a] = "read" /\ at'[a] = "truncate"
          \/ UNCHANGED task /\ at[a] = "truncate" /\ at'[a] = "write"
          \/ at'[a] = "idle" /\ task'[a] = Idle
      BY <1>0, <2>8 DEF FindCircle, ReadMembers, Truncate, GoTo, Return, Finish
    <3>. QED  BY <1>0, <1>1, <3>1 DEF ActorFits, StageFits, Looking, Writing
  <2>9. CASE FillMembers(a)
    BY <1>0, <1>1, <2>9 DEF FillMembers, Return, Finish, GoTo
  <2>. QED  BY <1>5, <2>1, <2>2, <2>3, <2>4, <2>5, <2>6, <2>7, <2>8, <2>9, <2>12 DEF CircleStep
<1>6. CASE LoadContacts(a)
  <2>1. CASE task[a].op = "add"
    BY <1>3, <1>6, <2>1 DEF LoadContacts
  <2>2. CASE task[a].op # "add"
    <3>1. UNCHANGED task /\ at[a] = "load" /\ at'[a] = "apply"
      BY <1>0, <1>6, <2>2 DEF LoadContacts, GoTo
    <3>. QED  BY <1>0, <2>2, <3>1 DEF ActorFits, StageFits, Looking, Writing
  <2>. QED  BY <2>1, <2>2
<1>7. CASE ContactStep(a) /\ ~LoadContacts(a)
  <2>1. at'[a] = "idle" /\ task'[a] = Idle
    BY <1>0, <1>7 DEF ContactStep, AddContact, UpdateContact, RemoveContact, RegisterDevice, RemoveDevice,
       AddCrossRef, MergeContact, ImportContact, Change, Save, GiveUp, Return, Finish, GoTo
  <2>. QED  BY <1>1, <2>1
<1>8. CASE InventoryStep(a)
  <2>1. /\ at'[a] \in {"idle", "register", "fill"}
        /\ UNCHANGED task \/ task'[a] = Idle
    BY <1>0, <1>8 DEF InventoryStep, LoadInventory, RegisterSelf, SaveInventory, Finish, GoTo
  <2>. QED  BY <1>0, <2>1, OutsideFits DEF ActorFits
<1>9. CASE StartStep(a)
  <2>1. /\ at'[a] = "idle" \/ at'[a] \in StartStages
        /\ UNCHANGED task \/ task'[a] = Idle
    BY <1>0, <1>9 DEF StartStep, FindRootfs, MakeRootfs, CopyRootfs, LinkRootfs, ReadConfig, OpenConfig,
       FillConfig, PatchEnds, ReadByRNS, CreateDefault, FillDefault, Finish, GoTo, StartStages
  <2>2. at'[a] # "answered"
    BY <2>1 DEF StartStages
  <2>. QED  BY <1>0, <2>1, <2>2, OutsideFits DEF ActorFits
<1>. QED  BY <1>2, <1>5, <1>6, <1>7, <1>8, <1>9 DEF Acts

\* Commands on contacts that change them have a contact of the actor's registry
\* or of the one they bring.
LEMMA OwnContact ==
    ASSUME ContactInv, NEW a \in Actors, NEW id \in DOMAIN registry[a]
    PROVE  id \in Ids /\ id \in used /\ registry[a][id] \in Contact
BY DEF ContactInv, BookFits, AreContacts

LEMMA BookWith ==
    ASSUME NEW f, BookFits(f), NEW id, NEW c
    PROVE  /\ id \in Ids /\ id \in used' /\ c \in Contact /\ used \subseteq used'
                => AreContacts(With(f, id, c)) /\ DOMAIN With(f, id, c) \subseteq used'
           /\ used \subseteq used' => AreContacts(Without(f, id)) /\ DOMAIN Without(f, id) \subseteq used'
           /\ used \subseteq used' => AreContacts(f) /\ DOMAIN f \subseteq used'
BY DEF BookFits, AreContacts, With, Without

\* What the command of a leaves in the file if its save does not fail.
Saves(a, new) == contacts' \in {contacts, new} /\ AreContacts(new) /\ DOMAIN new \subseteq used'

LEMMA ContactStepSaves ==
    ASSUME ContactInv, NEW a \in Actors, ContactStep(a)
    PROVE  /\ used \subseteq used' /\ used' \subseteq Ids
           /\ \E new : Saves(a, new)
<1>0. /\ BookFits(registry[a]) /\ TaskFits(task[a]) /\ used \subseteq Ids /\ BookFits(contacts)
      /\ StageFits(at[a], task[a].op)
      /\ at[a] = "answered" => answer[a] \in {"personal", "circle", "unknown", "error"}
  BY DEF ContactInv, ActorFits
<1>1. ASSUME UNCHANGED <<contacts, used>>
      PROVE  used \subseteq used' /\ used' \subseteq Ids /\ \E new : Saves(a, new)
  BY <1>0, <1>1 DEF Saves, BookFits
<1>2. ASSUME NEW c \in Contact, NEW id \in Ids, Save(a, With(registry[a], id, c)), used' = used \cup {id}
      PROVE  used \subseteq used' /\ used' \subseteq Ids /\ \E new : Saves(a, new)
  <2>1. Saves(a, With(registry[a], id, c))
    BY <1>0, <1>2, BookWith DEF Save, Saves
  <2>. QED  BY <1>0, <1>2, <2>1
<1>3. ASSUME NEW c \in Contact, Found(a), Change(a, c)
      PROVE  used \subseteq used' /\ used' \subseteq Ids /\ \E new : Saves(a, new)
  <2>1. Bumped(c) \in Contact /\ task[a].id \in Ids /\ task[a].id \in used
    BY <1>3, ContactBumped, OwnContact DEF Found
  <2>2. UNCHANGED used
    BY <1>3 DEF Change
  <2>3. Saves(a, With(registry[a], task[a].id, Bumped(c)))
    BY <1>0, <1>3, <2>1, <2>2, BookWith DEF Change, Save, Saves
  <2>. QED  BY <1>0, <2>2, <2>3
<1>4. CASE LoadContacts(a)
  BY <1>1, <1>4 DEF LoadContacts
<1>5. ASSUME GiveUp(a)
      PROVE  used \subseteq used' /\ used' \subseteq Ids /\ \E new : Saves(a, new)
  BY <1>1, <1>5 DEF GiveUp
<1>6. CASE AddContact(a)
  <2>1. CASE answer[a] = "error"
    BY <1>5, <1>6, <2>1 DEF AddContact
  <2>2. CASE answer[a] # "error"
    <3>1. NewContact(task[a].who, answer[a]) \in Contact
      BY <1>0, <1>6, <2>2, ContactMade DEF AddContact, TaskFits
    <3>2. PICK id \in Ids \ used : /\ Save(a, With(registry[a], id, NewContact(task[a].who, answer[a])))
                                   /\ used' = used \cup {id}
      BY <1>6, <2>2 DEF AddContact
    <3>. QED  BY <1>2, <3>1, <3>2
  <2>. QED  BY <2>1, <2>2
<1>7. CASE UpdateContact(a)
  BY <1>0, <1>3, <1>5, <1>7, OwnContact, ContactUpdated DEF UpdateContact, Ready, Found, Mine
<1>8. CASE RemoveContact(a)
  <2>1. CASE Found(a)
    <3>1. UNCHANGED used /\ Save(a, Without(registry[a], task[a].id))
      BY <1>8, <2>1 DEF RemoveContact
    <3>2. Saves(a, Without(registry[a], task[a].id))
      BY <1>0, <3>1, BookWith DEF Save, Saves
    <3>. QED  BY <1>0, <3>1, <3>2
  <2>. QED  BY <1>5, <1>8, <2>1 DEF RemoveContact
<1>9. CASE RegisterDevice(a)
  <2>1. ASSUME Found(a), Mine(a).devices # Text
        PROVE  [Mine(a) EXCEPT !.devices = With(@, task[a].dev, task[a].value)] \in Contact
    <3>1. Mine(a) \in Contact
      BY <2>1, OwnContact DEF Found, Mine
    <3>2. With(Mine(a).devices, task[a].dev, task[a].value) \in Partial(Devs, Values)
      BY <1>0, <1>9, <2>1, <3>1, ContactFields, PartialFunctions DEF RegisterDevice, Ready, TaskFits
    <3>. QED  BY <3>1, <3>2 DEF Contact
  <2>. QED  BY <1>3, <1>5, <1>9, <2>1 DEF RegisterDevice
<1>10. CASE RemoveDevice(a)
  <2>1. ASSUME Found(a), Mine(a).devices # Text
        PROVE  [Mine(a) EXCEPT !.devices = Without(@, task[a].dev)] \in Contact
    <3>1. Mine(a) \in Contact
      BY <2>1, OwnContact DEF Found, Mine
    <3>2. Without(Mine(a).devices, task[a].dev) \in Partial(Devs, Values)
      BY <2>1, <3>1, ContactFields, PartialFunctions
    <3>. QED  BY <3>1, <3>2 DEF Contact
  <2>. QED  BY <1>3, <1>5, <1>10, <2>1 DEF RemoveDevice
<1>11. CASE AddCrossRef(a)
  <2>1. ASSUME Found(a), Mine(a).refs # Text
        PROVE  [Mine(a) EXCEPT !.refs = @ \cup {task[a].ref}] \in Contact
    <3>1. Mine(a) \in Contact
      BY <2>1, OwnContact DEF Found, Mine
    <3>2. Mine(a).refs \cup {task[a].ref} \in SUBSET Refs
      BY <1>0, <1>11, <2>1, <3>1, ContactFields DEF AddCrossRef, Ready, TaskFits
    <3>. QED  BY <3>1, <3>2 DEF Contact
  <2>. QED  BY <1>3, <1>5, <1>11, <2>1 DEF AddCrossRef
<1>12. CASE MergeContact(a)
  <2> DEFINE s == task[a].id
             t == task[a].into
             m == Bumped(Merged(registry[a][s], registry[a][t]))
  <2>1. CASE {s, t} \subseteq DOMAIN registry[a] /\ Mergeable(registry[a][s], registry[a][t])
    <3>1. Save(a, Without(With(registry[a], t, m), s)) /\ UNCHANGED used
      BY <1>12, <2>1 DEF MergeContact
    <3>2. m \in Contact /\ t \in Ids /\ t \in used
      BY <2>1, OwnContact, ContactMerged, ContactBumped
    <3>3. BookFits(With(registry[a], t, m))
      BY <1>0, <3>1, <3>2, BookWith DEF BookFits
    <3>4. Saves(a, Without(With(registry[a], t, m), s))
      BY <3>1, <3>3, BookWith DEF Save, Saves
    <3>. QED  BY <1>0, <3>1, <3>4
  <2>2. CASE ~({s, t} \subseteq DOMAIN registry[a] /\ Mergeable(registry[a][s], registry[a][t]))
    BY <1>5, <1>12, <2>2 DEF MergeContact
  <2>. QED  BY <2>1, <2>2
<1>13. CASE ImportContact(a)
  <2>1. PICK id \in IF Found(a) THEN Ids \ used ELSE {task[a].id} :
            /\ Save(a, With(registry[a], id, Imported(task[a].from)))
            /\ used' = used \cup {id}
    BY <1>13 DEF ImportContact
  <2>2. task[a].id \in Ids /\ task[a].from \in Contact
    BY <1>0, <1>13 DEF ImportContact, Ready, TaskFits
  <2>3. Imported(task[a].from) \in Contact
    BY <2>2, ContactImported
  <2>. QED  BY <1>2, <2>1, <2>2, <2>3
<1>. QED  BY <1>4, <1>6, <1>7, <1>8, <1>9, <1>10, <1>11, <1>12, <1>13 DEF ContactStep

LEMMA BookFrame ==
    ASSUME NEW a \in Actors, Acts(a), ~ContactStep(a)
    PROVE  UNCHANGED <<contacts, registry, used>>
BY DEF Acts, BeginTask, contactVars

LEMMA ContactHolds == Spec => []ContactInv
<1>1. Init => ContactInv
  <2> SUFFICES ASSUME Init PROVE ContactInv
    OBVIOUS
  <2>1. PICK m \in Mixes : contacts = m.contacts
    BY DEF Init
  <2>2. AreContacts(contacts) /\ used = DOMAIN contacts /\ \A a \in Actors : registry[a] = NoContacts
    BY <2>1, ContactsAssumption DEF Init
  <2>3. BookFits(contacts) /\ BookFits(NoContacts) /\ used \subseteq Ids
    BY <2>2 DEF BookFits, AreContacts, NoContacts
  <2>4. \A a \in Actors : at[a] = "idle" /\ task[a] = Idle
    BY DEF Init, CirclesInit, CommandsInit
  <2>. QED  BY <2>2, <2>3, <2>4, OutsideFits DEF ContactInv, ActorFits
<1>2. ASSUME Shape, ContactInv, NEW a \in Actors, Acts(a)
      PROVE  ContactInv'
  <2>0. \A b \in Actors \ {a} : UNCHANGED <<at[b], answer[b], task[b], registry[b]>>
    BY <1>2, ActorsKeepTheirOwn DEF OnlyBy, OnlyFor
  <2>1. \A b \in Actors : ActorFits(b)'
    BY <1>2, <2>0, ActorStep DEF ContactInv, ActorFits
  <2>2. /\ used \subseteq used' /\ used' \subseteq Ids
        /\ AreContacts(contacts') /\ DOMAIN contacts' \subseteq used'
    <3>1. CASE ContactStep(a)
      BY <1>2, <3>1, ContactStepSaves DEF Saves, ContactInv, BookFits
    <3>2. CASE ~ContactStep(a)
      BY <1>2, <3>2, BookFrame DEF ContactInv, BookFits
    <3>. QED  BY <3>1, <3>2
  <2>3. registry'[a] \in {registry[a], contacts, NoContacts}
    <3>1. CASE LoadContacts(a)
      BY <1>2, <3>1 DEF LoadContacts, Put, Shape, PerActor
    <3>2. CASE ContactStep(a) /\ ~LoadContacts(a)
      BY <3>2 DEF ContactStep, After, AddContact, UpdateContact, RemoveContact, RegisterDevice,
         RemoveDevice, AddCrossRef, MergeContact, ImportContact
    <3>3. CASE ~ContactStep(a)
      BY <1>2, <3>3, BookFrame
    <3>. QED  BY <3>1, <3>2, <3>3
  <2>4. BookFits(NoContacts)
    BY DEF BookFits, AreContacts, NoContacts
  <2>5. \A b \in Actors : BookFits(registry[b])'
    BY <1>2, <2>0, <2>2, <2>3, <2>4 DEF ContactInv, BookFits
  <2>. QED  BY <2>1, <2>2, <2>5 DEF ContactInv, BookFits
<1>3. ContactInv /\ UNCHANGED vars => ContactInv'
  BY DEF ContactInv, BookFits, ActorFits, vars, commandVars, contactVars
<1>4. Shape /\ ContactInv /\ [Next]_vars => ContactInv'
  BY <1>2, <1>3, StepIsOfOne
<1>. QED  BY <1>1, <1>4, ShapeHolds, PTL DEF Spec

-----------------------------------------------------------------------------
(* What a command does to the contacts of others.                          *)

\* A step that changes the contacts is the save of a command that has loaded
\* them: what it saves is its registry but for the contact it is about.
LEMMA Savers ==
    ASSUME ContactInv, NEW a \in Actors, Acts(a), contacts' # contacts
    PROVE  /\ at[a] \in {"apply", "answered"}
           /\ \/ \E id \in Ids \ used : \E c : contacts' = With(registry[a], id, c)
              \/ \E c : /\ task[a].op = "import" /\ ~Found(a)
                        /\ contacts' = With(registry[a], task[a].id, c)
              \/ \E c \in Contact : /\ Found(a) /\ c.clock = Mine(a).clock
                                    /\ contacts' = With(registry[a], task[a].id, Bumped(c))
              \/ /\ task[a].op = "remove"
                 /\ contacts' = Without(registry[a], task[a].id)
              \/ LET s == task[a].id
                     t == task[a].into
                 IN  /\ task[a].op = "merge" /\ {s, t} \subseteq DOMAIN registry[a]
                     /\ Mergeable(registry[a][s], registry[a][t])
                     /\ contacts' = Without(With(registry[a], t,
                                        Bumped(Merged(registry[a][s], registry[a][t]))), s)
<1>1. ContactStep(a) /\ ~LoadContacts(a)
  BY BookFrame DEF LoadContacts
<1>2. at[a] \in {"apply", "answered"}
  BY <1>1 DEF ContactStep, AddContact, UpdateContact, RemoveContact, RegisterDevice, RemoveDevice,
     AddCrossRef, MergeContact, ImportContact, Ready
<1>3. ASSUME NEW c \in Contact, c.clock = Mine(a).clock, Found(a), Change(a, c)
      PROVE  \E d \in Contact : /\ Found(a) /\ d.clock = Mine(a).clock
                                /\ contacts' = With(registry[a], task[a].id, Bumped(d))
  BY <1>3 DEF Change, Save
<1>4. ~GiveUp(a)
  BY DEF GiveUp
<1>5. Found(a) => Mine(a) \in Contact
  BY OwnContact DEF Found, Mine
<1>6. TaskFits(task[a])
  BY DEF ContactInv, ActorFits
<1>7. CASE AddContact(a)
  BY <1>2, <1>4, <1>7 DEF AddContact, Save
<1>8. CASE UpdateContact(a)
  <2>1. Found(a) /\ Change(a, Updated(Mine(a), task[a])) /\ task[a].op = "update"
    BY <1>4, <1>8 DEF UpdateContact, Ready
  <2>. QED  BY <1>2, <1>3, <1>5, <1>6, <2>1, ContactUpdated
<1>9. CASE RemoveContact(a)
  BY <1>2, <1>4, <1>9 DEF RemoveContact, Save, Ready
<1>10. CASE RegisterDevice(a)
  <2> DEFINE c == [Mine(a) EXCEPT !.devices = With(@, task[a].dev, task[a].value)]
  <2>1. Found(a) /\ Change(a, c) /\ Mine(a).devices # Text /\ task[a].op = "device"
    BY <1>4, <1>10 DEF RegisterDevice, Ready
  <2>2. With(Mine(a).devices, task[a].dev, task[a].value) \in Partial(Devs, Values)
    BY <1>5, <1>6, <2>1, ContactFields, PartialFunctions DEF TaskFits
  <2>3. c \in Contact /\ c.clock = Mine(a).clock
    BY <1>5, <2>1, <2>2 DEF Contact
  <2>. QED  BY <1>2, <1>3, <2>1, <2>3
<1>11. CASE RemoveDevice(a)
  <2> DEFINE c == [Mine(a) EXCEPT !.devices = Without(@, task[a].dev)]
  <2>1. Found(a) /\ Change(a, c) /\ Mine(a).devices # Text
    BY <1>4, <1>11 DEF RemoveDevice
  <2>2. Without(Mine(a).devices, task[a].dev) \in Partial(Devs, Values)
    BY <1>5, <2>1, ContactFields, PartialFunctions
  <2>3. c \in Contact /\ c.clock = Mine(a).clock
    BY <1>5, <2>1, <2>2 DEF Contact
  <2>. QED  BY <1>2, <1>3, <2>1, <2>3
<1>12. CASE AddCrossRef(a)
  <2> DEFINE c == [Mine(a) EXCEPT !.refs = @ \cup {task[a].ref}]
  <2>1. Found(a) /\ Change(a, c) /\ Mine(a).refs # Text /\ task[a].op = "ref"
    BY <1>4, <1>12 DEF AddCrossRef, Ready
  <2>2. Mine(a).refs \cup {task[a].ref} \in SUBSET Refs
    BY <1>5, <1>6, <2>1, ContactFields DEF TaskFits
  <2>3. c \in Contact /\ c.clock = Mine(a).clock
    BY <1>5, <2>1, <2>2 DEF Contact
  <2>. QED  BY <1>2, <1>3, <2>1, <2>3
<1>13. CASE MergeContact(a)
  BY <1>2, <1>4, <1>13 DEF MergeContact, Save, Ready
<1>14. CASE ImportContact(a)
  <2>1. PICK id \in IF Found(a) THEN Ids \ used ELSE {task[a].id} :
            contacts' = With(registry[a], id, Imported(task[a].from))
    BY <1>14 DEF ImportContact, Save
  <2>2. task[a].op = "import"
    BY <1>14 DEF ImportContact, Ready
  <2>. QED  BY <1>2, <2>1, <2>2
<1>. QED  BY <1>1, <1>7, <1>8, <1>9, <1>10, <1>11, <1>12, <1>13, <1>14 DEF ContactStep

\* No contact is lost but to a command that removes it or merges it into
\* another, or to one that saves what it has loaded before another's change
\* (ContactRegistry._load, _save).
THEOREM ContactsAreKept == Spec => ContactsStay
<1>1. ASSUME ContactInv, NEW a \in Actors, Acts(a), NEW id \in DOMAIN contacts \ DOMAIN contacts'
      PROVE  \/ task[a].op \in {"remove", "merge"} /\ task[a].id = id
             \/ at[a] \in {"apply", "answered"} /\ ~UpToDate(a)
  <2>1. contacts' # contacts
    BY <1>1
  <2>2. CASE UpToDate(a)
    <3>1. \A x, c : id \in DOMAIN With(contacts, x, c)
      BY DEF With
    <3>2. \A f, x : id \in DOMAIN f /\ x # id => id \in DOMAIN Without(f, x)
      BY DEF Without
    <3>3. registry[a] = contacts
      BY <2>2 DEF UpToDate
    <3>4. \/ task[a].op = "remove" /\ contacts' = Without(contacts, task[a].id)
          \/ task[a].op = "merge" /\ \E c : contacts' = Without(With(contacts, task[a].into, c), task[a].id)
      BY <1>1, <2>1, <3>1, <3>3, Savers
    <3>. QED  BY <3>1, <3>2, <3>4
  <2>3. CASE ~UpToDate(a)
    BY <1>1, <2>1, <2>3, Savers
  <2>. QED  BY <2>2, <2>3
<1>2. ContactInv /\ [Next]_vars =>
        [\A id \in DOMAIN contacts \ DOMAIN contacts' :
            \E a \in Actors :
               \/ task[a].op \in {"remove", "merge"} /\ task[a].id = id
               \/ at[a] \in {"apply", "answered"} /\ ~UpToDate(a)]_vars
  BY <1>1, StepIsOfOne
<1>. QED  BY <1>2, ContactHolds, PTL DEF Spec, ContactsStay

\* No contact changes under an unchanged clock but by a command that saves what
\* it has loaded before another's change (ContactRegistry._bump_vector_clock).
THEOREM ChangesCount == Spec => ChangesAreCounted
<1>1. ASSUME ContactInv, NEW a \in Actors, Acts(a), NEW id \in DOMAIN contacts \cap DOMAIN contacts'
      PROVE  \/ contacts'[id] = contacts[id]
             \/ contacts'[id].clock > contacts[id].clock
             \/ at[a] \in {"apply", "answered"} /\ ~UpToDate(a)
  <2> SUFFICES ASSUME contacts' # contacts, UpToDate(a)
               PROVE  contacts'[id] = contacts[id] \/ contacts'[id].clock > contacts[id].clock
    BY <1>1, Savers
  <2>0. registry[a] = contacts /\ id \in used /\ contacts[id].clock \in Nat
    BY <1>1, ContactFields DEF UpToDate, ContactInv, BookFits, AreContacts
  <2>1. CASE \E new \in Ids \ used : \E c : contacts' = With(registry[a], new, c)
    BY <2>0, <2>1 DEF With
  <2>2. CASE ~Found(a) /\ \E c : contacts' = With(registry[a], task[a].id, c)
    BY <1>1, <2>0, <2>2 DEF With, Found
  <2>3. CASE \E c \in Contact : /\ Found(a) /\ c.clock = Mine(a).clock
                                /\ contacts' = With(registry[a], task[a].id, Bumped(c))
    <3>1. PICK c \in Contact : /\ Found(a) /\ c.clock = Mine(a).clock
                               /\ contacts' = With(registry[a], task[a].id, Bumped(c))
      BY <2>3
    <3>2. Bumped(c).clock = Mine(a).clock + 1
      BY <3>1, ContactBumped
    <3>. QED  BY <1>1, <2>0, <3>1, <3>2 DEF With, Mine
  <2>4. CASE contacts' = Without(registry[a], task[a].id)
    BY <1>1, <2>0, <2>4 DEF Without
  <2>5. CASE LET s == task[a].id
                 t == task[a].into
             IN  /\ {s, t} \subseteq DOMAIN registry[a]
                 /\ Mergeable(registry[a][s], registry[a][t])
                 /\ contacts' = Without(With(registry[a], t,
                                    Bumped(Merged(registry[a][s], registry[a][t]))), s)
    <3> DEFINE s == task[a].id
               t == task[a].into
               m == Merged(registry[a][s], registry[a][t])
    <3>1. m \in Contact /\ m.clock = contacts[t].clock
      BY <1>1, <2>0, <2>5, OwnContact, ContactMerged
    <3>2. Bumped(m).clock = contacts[t].clock + 1
      BY <3>1, ContactBumped
    <3>3. contacts' = Without(With(contacts, t, Bumped(m)), s)
      BY <2>0, <2>5
    <3>4. contacts'[id] = IF id = t THEN Bumped(m) ELSE contacts[id]
      BY <1>1, <3>3 DEF With, Without
    <3>. QED  BY <2>0, <3>2, <3>4
  <2>. QED  BY <1>1, <2>1, <2>2, <2>3, <2>4, <2>5, Savers
<1>2. ContactInv /\ [Next]_vars =>
        [\A id \in DOMAIN contacts \cap DOMAIN contacts' :
            \/ contacts'[id] = contacts[id]
            \/ contacts'[id].clock > contacts[id].clock
            \/ \E a \in Actors : at[a] \in {"apply", "answered"} /\ ~UpToDate(a)]_vars
  BY <1>1, StepIsOfOne
<1>. QED  BY <1>2, ContactHolds, PTL DEF Spec, ChangesAreCounted

\* A merge of two contacts that no other save overlaps keeps the devices, texts,
\* custom fields and references of both, and what the one that stays said itself
\* (ContactRegistry.merge_contact).
THEOREM MergesCombine == Spec => MergeCombines
<1> DEFINE S(a) == contacts[task[a].id]
           T(a) == contacts[task[a].into]
           M(a) == contacts'[task[a].into]
<1>1. ASSUME Shape, ContactInv, NEW b \in Actors, Acts(b), NEW a \in Actors, Merges(a)
      PROVE  /\ MadeOf(M(a).devices, S(a).devices, T(a).devices)
             /\ T(a).custom # Text => MadeOf(M(a).custom, S(a).custom, T(a).custom)
             /\ T(a).refs # Text => M(a).refs = S(a).refs \cup T(a).refs
             /\ DOMAIN S(a).fields \cap Texts \subseteq DOMAIN M(a).fields
             /\ \A k \in DOMAIN T(a).fields :
                   k \in DOMAIN M(a).fields /\ M(a).fields[k] = T(a).fields[k]
  <2>0. /\ Ready(a, "merge") /\ UpToDate(a) /\ task[a].id # task[a].into
        /\ contacts' # contacts /\ at'[a] = "idle"
    BY <1>1 DEF Merges
  <2>1. b = a
    BY <1>1, <2>0, ActorsKeepTheirOwn DEF OnlyBy, OnlyFor, Ready
  <2>2. /\ {task[a].id, task[a].into} \subseteq DOMAIN contacts
        /\ Mergeable(S(a), T(a))
        /\ contacts' = Without(With(contacts, task[a].into, Bumped(Merged(S(a), T(a)))), task[a].id)
    <3>1. MergeContact(a) /\ ~GiveUp(a)
      <4>1. ContactStep(a)
        BY <1>1, <2>0, <2>1, BookFrame
      <4>2. ~GiveUp(a)
        BY <2>0 DEF GiveUp
      <4>. QED  BY <2>0, <4>1, <4>2 DEF ContactStep, Ready, LoadContacts, AddContact, UpdateContact,
             RemoveContact, RegisterDevice, RemoveDevice, AddCrossRef, ImportContact
    <3>. QED  BY <2>0, <3>1 DEF MergeContact, Save, UpToDate
  <2>3. S(a) \in Contact /\ T(a) \in Contact
    BY <1>1, <2>2 DEF ContactInv, BookFits, AreContacts
  <2> DEFINE m == Merged(S(a), T(a))
  <2>4. /\ m \in Contact
        /\ m.devices = Over(T(a).devices, S(a).devices)
        /\ m.fields = Over(T(a).fields, Only(S(a).fields, Texts))
        /\ T(a).custom # Text => m.custom = Over(T(a).custom, S(a).custom)
        /\ T(a).refs # Text => m.refs = T(a).refs \cup S(a).refs
    BY <2>2, <2>3, ContactMerged
  <2>5. M(a) = Bumped(m)
    BY <2>0, <2>2 DEF With, Without
  <2>6. /\ M(a).devices = m.devices /\ M(a).fields = m.fields
        /\ M(a).custom = m.custom /\ M(a).refs = m.refs
    BY <2>4, <2>5 DEF Bumped, Contact
  <2> HIDE DEF m, M, S, T
  <2>7. ASSUME NEW f, NEW g
        PROVE  MadeOf(Over(f, g), g, f)
    BY DEF MadeOf, Over
  <2>8. /\ DOMAIN m.fields = DOMAIN T(a).fields \cup (DOMAIN S(a).fields \cap Texts)
        /\ \A k \in DOMAIN T(a).fields : m.fields[k] = T(a).fields[k]
    BY <2>4 DEF Over, Only
  <2>. QED  BY <2>4, <2>6, <2>7, <2>8
<1>2. Shape /\ ContactInv /\ [Next]_vars =>
        [\A a \in Actors :
            LET s == contacts[task[a].id]
                t == contacts[task[a].into]
                m == contacts'[task[a].into]
            IN  Merges(a) =>
                   /\ MadeOf(m.devices, s.devices, t.devices)
                   /\ t.custom # Text => MadeOf(m.custom, s.custom, t.custom)
                   /\ t.refs # Text => m.refs = s.refs \cup t.refs
                   /\ DOMAIN s.fields \cap Texts \subseteq DOMAIN m.fields
                   /\ \A k \in DOMAIN t.fields : k \in DOMAIN m.fields /\ m.fields[k] = t.fields[k]]_vars
  BY <1>1, StepIsOfOne
<1>. QED  BY <1>2, ContactHolds, ShapeHolds, PTL DEF Spec, MergeCombines

-----------------------------------------------------------------------------
(* The circles' files, and what actors know of them.                       *)

\* Only a command on circles has a members file read, and it was whole.
CircleInv ==
    /\ identity \in Actors \cup {NoFile, Torn}
    /\ dirs \subseteq Circles
    /\ keyed \subseteq dirs
    /\ members \in [Circles -> (SUBSET People) \cup {Torn, NoFile}]
    /\ added \subseteq Circles \X People
    /\ \A a \in Actors :
          /\ me[a] \in Actors \cup {NoFile}
          /\ read[a] \in (SUBSET People) \cup {NoFile}
          /\ at[a] \notin Writing => read[a] = NoFile
          /\ todo[a] \subseteq Circles
          /\ answer[a] \in Answers
          /\ at[a] = "key" => task[a].circle \in dirs

\* What is recorded with every step has its type by itself.
WatchTypes ==
    /\ \A a \in Actors : held[a] \subseteq Circles
    /\ met \in [Actors -> BOOLEAN]
    /\ overtaken \subseteq Actors

LEMMA OtherCommands ==
    ASSUME Shape, NEW a \in Actors, Acts(a), ~CircleStep(a)
    PROVE  /\ UNCHANGED <<identity, dirs, keyed, members, added>>
           /\ at[a] \notin Writing /\ at'[a] \notin Writing \cup {"key"}
           /\ me'[a] \in {me[a], NoFile}
           /\ read'[a] \in {read[a], NoFile}
           /\ todo'[a] \in {todo[a], {}}
           /\ answer'[a] \in {answer[a], "none", "done", "error", "personal"}
<1>0. \A v : /\ Put(at, a, v)[a] = v /\ Put(answer, a, v)[a] = v /\ Put(me, a, v)[a] = v
             /\ Put(read, a, v)[a] = v /\ Put(todo, a, v)[a] = v
  BY DEF Put, Shape, PerActor
<1> USE <1>0 DEF Writing, diskVars, localVars, GoTo, Finish, Return
<1>1. CASE BeginTask(a)
  BY <1>1 DEF BeginTask, BeginCircleTask, Begin, EntryStage, Enter, BeginRegister, BeginStart
<1>2. CASE ContactStep(a)
  <2>1. CASE LoadContacts(a)
    BY <2>1 DEF LoadContacts, StartLookup
  <2>2. CASE ~LoadContacts(a)
    BY <1>2, <2>2 DEF ContactStep, AddContact, UpdateContact, RemoveContact, RegisterDevice,
       RemoveDevice, AddCrossRef, MergeContact, ImportContact, Change, Save, GiveUp, After, Ready
  <2>. QED  BY <2>1, <2>2
<1>3. CASE InventoryStep(a) /\ UNCHANGED <<contactVars, startVars, diskVars, localVars, added>>
  BY <1>3 DEF InventoryStep, LoadInventory, RegisterSelf, SaveInventory
<1>4. CASE StartStep(a) /\ UNCHANGED <<contactVars, inventoryVars, diskVars, localVars, added>>
  BY <1>4 DEF StartStep, FindRootfs, MakeRootfs, CopyRootfs, LinkRootfs, ReadConfig, OpenConfig,
     FillConfig, PatchEnds, ReadByRNS, CreateDefault, FillDefault
<1>. QED  BY <1>1, <1>2, <1>3, <1>4 DEF Acts

LEMMA ContentsArePeople ==
    ASSUME ContactInv, CircleInv, NEW a \in Actors, at[a] \in Writing
    PROVE  /\ Contents(a) \in SUBSET People
           /\ task[a].circle \in Circles
           /\ task[a].op = "join" => task[a].who \in People
<1>1. /\ task[a].op \in {"create", "join", "leave"} /\ TaskFits(task[a])
      /\ read[a] \in (SUBSET People) \cup {NoFile}
  BY DEF ContactInv, CircleInv, ActorFits, StageFits
<1>. QED  BY <1>1 DEF Contents, TaskFits

LEMMA CircleInvStep ==
    ASSUME Shape, ContactInv, CircleInv, NEW a \in Actors, Acts(a)
    PROVE  CircleInv'
<1>0. /\ \A b \in Actors \ {a} : /\ UNCHANGED <<at[b], answer[b], task[b], me[b], read[b], todo[b]>>
      /\ \A v : /\ Put(at, a, v)[a] = v /\ Put(answer, a, v)[a] = v /\ Put(me, a, v)[a] = v
                /\ Put(read, a, v)[a] = v /\ Put(todo, a, v)[a] = v
  BY ActorsKeepTheirOwn DEF OnlyBy, OnlyFor, Put, Shape, PerActor
<1>1. ASSUME /\ UNCHANGED <<identity, dirs, keyed, members, added>>
             /\ at[a] \notin Writing /\ at'[a] \notin Writing \cup {"key"}
             /\ me'[a] \in {me[a], NoFile} \cup Actors
             /\ read'[a] \in {read[a], NoFile}
             /\ todo'[a] \in SUBSET Circles
             /\ answer'[a] \in Answers
      PROVE  CircleInv'
  BY <1>0, <1>1 DEF CircleInv
<1>2. CASE ~CircleStep(a)
  <2>1. answer'[a] \in Answers /\ todo'[a] \in SUBSET Circles
    BY <1>2, OtherCommands DEF Answers, CircleInv
  <2>. QED  BY <1>1, <1>2, <2>1, OtherCommands
<1>3. CASE LoadIdentity(a) \/ CreateIdentity(a) \/ WriteIdentity(a)
  <2>1. /\ UNCHANGED <<dirs, keyed, members, added>> /\ identity' \in {identity, a, Torn}
        /\ at[a] \notin Writing /\ at'[a] \notin Writing \cup {"key"}
        /\ me'[a] \in {me[a], a} \cup Actors
        /\ read'[a] \in {read[a], NoFile}
        /\ todo'[a] \in {todo[a], {}}
        /\ answer'[a] \in {answer[a], "done", "personal", "error"}
    <3> USE <1>0 DEF Identified, StartLookup, GoTo, Return, Finish, diskVars, localVars, Writing
    <3>1. CASE LoadIdentity(a)
      <4>1. CASE identity = NoFile
        BY <3>1, <4>1, CommandsAssumption DEF LoadIdentity
      <4>2. CASE identity = Torn
        BY <3>1, <4>2, CommandsAssumption DEF LoadIdentity
      <4>3. CASE identity \notin {NoFile, Torn}
        BY <3>1, <4>3 DEF LoadIdentity, CircleInv
      <4>. QED  BY <4>1, <4>2, <4>3
    <3>2. CASE CreateIdentity(a)
      BY <3>2 DEF CreateIdentity
    <3>3. CASE WriteIdentity(a)
      BY <3>3 DEF WriteIdentity
    <3>. QED  BY <1>3, <3>1, <3>2, <3>3
  <2>. QED  BY <1>0, <2>1 DEF CircleInv, Answers
<1>4. CASE ListCircles(a) \/ LookInCircle(a) \/ NotFound(a) \/ CheckAccess(a)
  <2>1. /\ UNCHANGED <<identity, dirs, keyed, members, added>>
        /\ at[a] \notin Writing /\ at'[a] \notin Writing \cup {"key"}
        /\ me'[a] = me[a]
        /\ read'[a] \in {read[a], NoFile}
        /\ todo'[a] \subseteq todo[a] \cup keyed
        /\ answer'[a] \in {answer[a], "circle", "error", "unknown", "granted", "refused"}
    <3> USE <1>0 DEF GoTo, Return, Finish, diskVars, Writing
    <3>1. CASE ListCircles(a)
      BY <3>1 DEF ListCircles
    <3>2. CASE LookInCircle(a)
      BY <3>2 DEF LookInCircle
    <3>3. CASE NotFound(a)
      BY <3>3 DEF NotFound
    <3>4. CASE CheckAccess(a)
      BY <3>4 DEF CheckAccess
    <3>. QED  BY <1>4, <3>1, <3>2, <3>3, <3>4
  <2>. QED  BY <1>0, <2>1 DEF CircleInv, Answers
<1>5. CASE MakeDirectory(a)
  <2>1. /\ UNCHANGED <<identity, keyed, members, added, me, read, todo, answer, task>>
        /\ dirs' = dirs \cup {task[a].circle} /\ at[a] = "mkdir" /\ at'[a] = "key"
    BY <1>0, <1>5 DEF MakeDirectory, GoTo, localVars
  <2>2. task[a].circle \in Circles
    BY <2>1 DEF ContactInv, ActorFits, StageFits, TaskFits
  <2>. QED  BY <1>0, <2>1, <2>2 DEF CircleInv, Writing
<1>6. CASE WriteKey(a)
  <2>1. /\ UNCHANGED <<identity, dirs, members, added, me, read, todo, answer, task>>
        /\ keyed' = keyed \cup {task[a].circle} /\ at[a] = "key" /\ at'[a] = "fresh"
    BY <1>0, <1>6 DEF WriteKey, GoTo, localVars
  <2>. QED  BY <1>0, <2>1 DEF CircleInv, Writing
<1>7. CASE CheckMembers(a) \/ FindCircle(a) \/ Crash(a)
  <2>1. /\ UNCHANGED <<identity, dirs, keyed, members, added, me>>
        /\ \/ at'[a] = "truncate" /\ UNCHANGED <<read, todo, answer>>
           \/ at[a] = "dir" /\ at'[a] = "read" /\ UNCHANGED <<read, todo, answer>>
           \/ /\ at'[a] = "idle" /\ read'[a] = NoFile /\ todo'[a] = {}
              /\ answer'[a] \in {"done", "refused", "none"}
    BY <1>0, <1>7 DEF CheckMembers, FindCircle, Crash, Die, GoTo, Return, Finish, diskVars
  <2>. QED  BY <1>0, <2>1 DEF CircleInv, Writing, Answers
<1>8. CASE ReadMembers(a)
  <2> DEFINE c == task[a].circle
  <2>1. c \in Circles /\ task[a].who \in People
    BY <1>8 DEF ReadMembers, ContactInv, ActorFits, StageFits, TaskFits
  <2>2. /\ UNCHANGED <<identity, dirs, keyed, members, me>> /\ at[a] = "read"
        /\ \/ /\ at'[a] = "idle" /\ read'[a] = NoFile /\ todo'[a] = {}
              /\ answer'[a] \in {"error", "done", "refused"}
              /\ added' \in {added, added \cup {<<c, task[a].who>>}}
           \/ /\ at'[a] = "truncate" /\ members[c] # Torn /\ read'[a] = members[c]
              /\ UNCHANGED <<todo, answer, added>>
    <3> DEFINE known == Contains(members[c], task[a].who)
               joins == task[a].op = "join"
    <3>1. UNCHANGED <<identity, dirs, keyed, members, me>> /\ at[a] = "read"
      BY <1>8 DEF ReadMembers, diskVars
    <3>2. CASE members[c] = Torn
      BY <1>0, <1>8, <3>1, <3>2 DEF ReadMembers, GoTo, Return, Finish
    <3>3. CASE members[c] # Torn /\ joins /\ known
      BY <1>0, <1>8, <3>1, <3>3 DEF ReadMembers, GoTo, Return, Finish, Contains
    <3>4. CASE members[c] # Torn /\ ~joins /\ ~known
      BY <1>0, <1>8, <3>1, <3>4 DEF ReadMembers, GoTo, Return, Finish, Contains
    <3>5. CASE members[c] # Torn /\ joins /\ ~known
      BY <1>0, <1>8, <3>1, <3>5 DEF ReadMembers, GoTo, Contains
    <3>6. CASE members[c] # Torn /\ ~joins /\ known
      BY <1>0, <1>8, <3>1, <3>6 DEF ReadMembers, GoTo, Contains
    <3>. QED  BY <3>2, <3>3, <3>4, <3>5, <3>6
  <2>3. added' \subseteq Circles \X People
    BY <2>1, <2>2 DEF CircleInv
  <2>4. members[c] \in (SUBSET People) \cup {Torn, NoFile}
    BY <2>1 DEF CircleInv
  <2>. QED  BY <1>0, <2>2, <2>3, <2>4 DEF CircleInv, Writing, Answers
<1>9. CASE Truncate(a)
  <2>1. /\ UNCHANGED <<identity, dirs, keyed, me, read, todo, answer>> /\ added' \subseteq added
        /\ members' = Put(members, task[a].circle, Torn) /\ at[a] = "truncate" /\ at'[a] = "write"
    BY <1>0, <1>9 DEF Truncate, GoTo, localVars
  <2>2. members' \in [Circles -> (SUBSET People) \cup {Torn, NoFile}]
    BY <2>1 DEF Put, CircleInv
  <2>. QED  BY <1>0, <2>1, <2>2 DEF CircleInv, Writing
<1>10. CASE FillMembers(a)
  <2>1. /\ UNCHANGED <<identity, dirs, keyed, me>>
        /\ members' = Put(members, task[a].circle, Contents(a)) /\ at[a] = "write" /\ at'[a] = "idle"
        /\ read'[a] = NoFile /\ todo'[a] = {} /\ answer'[a] = "done"
        /\ added' \subseteq added \cup IF task[a].op = "join" THEN {<<task[a].circle, task[a].who>>} ELSE {}
    BY <1>0, <1>10 DEF FillMembers, Return, Finish, GoTo
  <2>2. /\ Contents(a) \in SUBSET People
        /\ task[a].circle \in Circles
        /\ task[a].op = "join" => task[a].who \in People
    BY <2>1, ContentsArePeople DEF Writing
  <2>3. members' \in [Circles -> (SUBSET People) \cup {Torn, NoFile}]
    BY <2>1, <2>2 DEF Put, CircleInv
  <2>4. added' \subseteq Circles \X People
    BY <2>1, <2>2 DEF CircleInv
  <2>. QED  BY <1>0, <2>1, <2>3, <2>4 DEF CircleInv, Writing, Answers
<1>. QED  BY <1>2, <1>3, <1>4, <1>5, <1>6, <1>7, <1>8, <1>9, <1>10 DEF CircleStep

LEMMA CirclesHold == Spec => []CircleInv
<1>1. Init => CircleInv
  <2> SUFFICES ASSUME Init PROVE CircleInv
    OBVIOUS
  <2> USE DEF Init, CirclesInit
  <2>1. members \in [Circles -> (SUBSET People) \cup {Torn, NoFile}]
    <3>1. (SUBSET Friends) \cup {NoFile} \subseteq (SUBSET People) \cup {Torn, NoFile}
      BY DEF People
    <3>. QED  BY <3>1
  <2>2. added \subseteq Circles \X People
    BY DEF People
  <2>3. \A a \in Actors : at[a] = "idle" /\ answer[a] = "none"
    BY DEF CommandsInit
  <2>. QED  BY <2>1, <2>2, <2>3 DEF CircleInv, Writing, Answers
<1>2. Shape /\ ContactInv /\ CircleInv /\ [Next]_vars => CircleInv'
  <2>1. ASSUME CircleInv, UNCHANGED vars
        PROVE  CircleInv'
    BY <2>1 DEF vars, commandVars, circleVars, diskVars, localVars, CircleInv
  <2>. QED  BY <2>1, CircleInvStep, StepIsOfOne
<1>. QED  BY <1>1, <1>2, ShapeHolds, ContactHolds, PTL DEF Spec

LEMMA WatchHolds == Spec => []WatchTypes
<1>1. Init => WatchTypes
  BY DEF Init, CirclesInit, WatchTypes
<1>2. CircleInv' /\ Watch => WatchTypes'
  BY DEF CircleInv, Watch, WatchTypes
<1>3. WatchTypes /\ UNCHANGED vars => WatchTypes'
  BY DEF vars, circleVars, watchVars, WatchTypes
<1>4. CircleInv' /\ WatchTypes /\ [Next]_vars => WatchTypes'
  BY <1>2, <1>3, StepIsOfOne
<1>. QED  BY <1>1, <1>4, CirclesHold, PTL DEF Spec

\* The bounds are counted down by the command that begins and by a load or a
\* save that fails.
Counted == left = [ops |-> left.ops, tasks |-> left.tasks, faults |-> left.faults]
           /\ left.tasks \in Nat /\ left.faults \in Nat

LEMMA CountedHolds == Spec => []Counted
<1>1. Init => Counted
  BY ContactsAssumption DEF Init, Counted
<1>2. ASSUME Counted, NEW a \in Actors, Acts(a)
      PROVE  Counted'
  <2>1. CASE BeginTask(a)
    BY <1>2, <2>1 DEF BeginTask, Counted
  <2>2. CASE ContactStep(a)
    <3>1. UNCHANGED left \/ Fault
      BY <2>2 DEF ContactStep, LoadContacts, AddContact, UpdateContact, RemoveContact, RegisterDevice,
         RemoveDevice, AddCrossRef, MergeContact, ImportContact, Change, Save, GiveUp
    <3>. QED  BY <1>2, <3>1 DEF Fault, Counted
  <2>3. CASE UNCHANGED contactVars
    BY <1>2, <2>3 DEF contactVars, Counted
  <2>. QED  BY <1>2, <2>1, <2>2, <2>3 DEF Acts
<1>3. Counted /\ [Next]_vars => Counted'
  BY <1>2, StepIsOfOne DEF vars, contactVars, Counted
<1>. QED  BY <1>1, <1>3, PTL DEF Spec

\* Every variable of the commands, the circles, the contacts and a start has its
\* type: no command brings the files or an actor's view of them out of shape.
THEOREM TypesHold == Spec => []TypeOK
<1>1. /\ Shape /\ CircleInv /\ WatchTypes /\ ContactInv /\ ConfigInv /\ Counted /\ CrashesCounted
      => TypeOK
  <2> SUFFICES ASSUME Shape, CircleInv, WatchTypes, ContactInv, ConfigInv, Counted, CrashesCounted
               PROVE  TypeOK
    OBVIOUS
  <2>1. CirclesTypeOK
    <3>1. answer \in [Actors -> Answers]
      BY DEF Shape, PerActor, CircleInv
    <3>. QED  BY <3>1 DEF CircleInv, WatchTypes, CrashesCounted, CirclesTypeOK
  <2>2. StartTypeOK
    BY DEF ConfigInv, StartTypeOK
  <2>. QED  BY <2>1, <2>2 DEF TypeOK, ContactInv, BookFits, Counted
<1>. QED  BY <1>1, ShapeHolds, CirclesHold, WatchHolds, ContactHolds, ConfigHolds, CountedHolds,
          CrashesAreCounted, PTL

-----------------------------------------------------------------------------
(* Look-ups.                                                               *)

\* A look-up has still to open every circle that has held who it looks for all
\* along; what it answers is so for a reason.
LookInv ==
    \A a \in Actors :
       /\ at[a] = "look" => held[a] \subseteq todo[a]
       /\ at[a] = "answered" =>
             /\ answer[a] = "unknown" => held[a] = {}
             /\ answer[a] = "circle" => met[a]
             /\ answer[a] = "personal" => task[a].who = me[a]

LEMMA LookSteps ==
    ASSUME Shape, NEW a \in Actors, Acts(a), at'[a] \in {"look", "answered"}
    PROVE  \/ ListCircles(a) \/ LookInCircle(a) \/ NotFound(a)
           \/ /\ at'[a] = "answered" /\ answer'[a] = "personal"
              /\ task'[a].who = me'[a]
<1>0. \A v : /\ Put(at, a, v)[a] = v /\ Put(answer, a, v)[a] = v /\ Put(me, a, v)[a] = v
  BY DEF Put, Shape, PerActor
<1> USE <1>0 DEF GoTo, Finish, Return
<1>1. CASE BeginTask(a)
  BY <1>1 DEF BeginTask, BeginCircleTask, Begin, EntryStage, Enter, BeginRegister, BeginStart
<1>2. CASE CircleStep(a)
  <2>1. CASE LoadIdentity(a) \/ CreateIdentity(a) \/ WriteIdentity(a)
    BY <2>1 DEF LoadIdentity, CreateIdentity, WriteIdentity, Identified, StartLookup
  <2>2. CASE CheckAccess(a) \/ MakeDirectory(a) \/ WriteKey(a) \/ CheckMembers(a) \/ FindCircle(a)
    BY <2>2 DEF CheckAccess, MakeDirectory, WriteKey, CheckMembers, FindCircle
  <2>3. CASE ReadMembers(a) \/ Truncate(a) \/ FillMembers(a) \/ Crash(a)
    BY <2>3 DEF ReadMembers, Truncate, FillMembers, Crash, Die
  <2>. QED  BY <1>2, <2>1, <2>2, <2>3 DEF CircleStep
<1>3. CASE ContactStep(a)
  <2>1. CASE LoadContacts(a)
    BY <2>1 DEF LoadContacts, StartLookup
  <2>2. CASE ~LoadContacts(a)
    BY <1>3, <2>2 DEF ContactStep, AddContact, UpdateContact, RemoveContact, RegisterDevice,
       RemoveDevice, AddCrossRef, MergeContact, ImportContact, Change, Save, GiveUp, After, Ready
  <2>. QED  BY <2>1, <2>2
<1>4. CASE InventoryStep(a)
  BY <1>4 DEF InventoryStep, LoadInventory, RegisterSelf, SaveInventory
<1>5. CASE StartStep(a)
  BY <1>5 DEF StartStep, FindRootfs, MakeRootfs, CopyRootfs, LinkRootfs, ReadConfig, OpenConfig,
     FillConfig, PatchEnds, ReadByRNS, CreateDefault, FillDefault
<1>. QED  BY <1>1, <1>2, <1>3, <1>4, <1>5 DEF Acts

LEMMA LookInvStep ==
    ASSUME Shape, ContactInv, CircleInv, LookInv, NEW a \in Actors, Acts(a), Watch
    PROVE  LookInv'
<1>0. /\ \A b \in Actors \ {a} : UNCHANGED <<at[b], answer[b], task[b], me[b], todo[b]>>
      /\ \A v : Put(at, a, v)[a] = v /\ Put(answer, a, v)[a] = v /\ Put(todo, a, v)[a] = v
  BY ActorsKeepTheirOwn DEF OnlyBy, OnlyFor, Put, Shape, PerActor
<1>1. \A b \in Actors :
         /\ held'[b] = IF at'[b] \notin Looking THEN {}
                       ELSE {c \in keyed' : /\ members'[c] = Torn \/ Contains(members'[c], task'[b].who)
                                            /\ at[b] \in Looking => c \in held[b]}
         /\ met'[b] = (/\ at'[b] \in Looking
                       /\ \/ at[b] \in Looking /\ met[b]
                          \/ \E c \in Circles : Contains(members'[c], task'[b].who))
  BY DEF Watch
<1>2. \A b \in Actors : at[b] \in Looking /\ at'[b] \in Looking =>
         /\ held'[b] \subseteq held[b]
         /\ met[b] => met'[b]
  BY <1>1
<1>3. ASSUME NEW b \in Actors \ {a}
      PROVE  /\ at'[b] = "look" => held'[b] \subseteq todo'[b]
             /\ at'[b] = "answered" =>
                   /\ answer'[b] = "unknown" => held'[b] = {}
                   /\ answer'[b] = "circle" => met'[b]
                   /\ answer'[b] = "personal" => task'[b].who = me'[b]
  <2>1. UNCHANGED <<at[b], answer[b], task[b], me[b], todo[b]>>
    BY <1>0
  <2>. QED  BY <1>2, <2>1 DEF LookInv, Looking
<1>4. /\ at'[a] = "look" => held'[a] \subseteq todo'[a]
      /\ at'[a] = "answered" =>
            /\ answer'[a] = "unknown" => held'[a] = {}
            /\ answer'[a] = "circle" => met'[a]
            /\ answer'[a] = "personal" => task'[a].who = me'[a]
  <2>1. CASE ListCircles(a)
    <3>1. at'[a] = "look" /\ todo'[a] = keyed /\ keyed' = keyed
      BY <1>0, <2>1 DEF ListCircles, GoTo, diskVars
    <3>. QED  BY <1>1, <3>1
  <2>2. CASE LookInCircle(a)
    <3>1. PICK c \in todo[a] :
             \/ /\ members[c] = Torn \/ Contains(members[c], task[a].who)
                /\ GoTo(a, "answered")
                /\ answer' = Put(answer, a, IF Contains(members[c], task[a].who)
                                              THEN "circle" ELSE "error")
                /\ UNCHANGED todo
             \/ /\ members[c] # Torn /\ ~Contains(members[c], task[a].who)
                /\ todo' = Put(todo, a, todo[a] \ {c})
                /\ UNCHANGED <<at, answer>>
      BY <2>2 DEF LookInCircle
    <3>2. /\ at[a] = "look" /\ at'[a] \in {"look", "answered"}
          /\ members' = members /\ task' = task /\ c \in Circles
      BY <1>0, <2>2, <3>1 DEF LookInCircle, diskVars, GoTo, CircleInv
    <3>3. held'[a] \subseteq held[a] /\ held[a] \subseteq todo[a]
      BY <1>2, <3>2 DEF LookInv, Looking
    <3>4. CASE /\ members[c] = Torn \/ Contains(members[c], task[a].who)
               /\ GoTo(a, "answered")
               /\ answer' = Put(answer, a, IF Contains(members[c], task[a].who)
                                             THEN "circle" ELSE "error")
      <4>1. /\ at'[a] = "answered" /\ answer'[a] \in {"circle", "error"}
            /\ answer'[a] = "circle" => Contains(members[c], task[a].who)
        BY <1>0, <3>4 DEF GoTo
      <4>2. answer'[a] = "circle" => met'[a]
        BY <1>1, <3>2, <4>1 DEF Looking
      <4>. QED  BY <4>1, <4>2
    <3>5. CASE /\ members[c] # Torn /\ ~Contains(members[c], task[a].who)
               /\ todo' = Put(todo, a, todo[a] \ {c})
               /\ UNCHANGED <<at, answer>>
      <4>1. c \notin held'[a] /\ at'[a] = "look" /\ todo'[a] = todo[a] \ {c}
        BY <1>0, <1>1, <3>2, <3>5
      <4>. QED  BY <3>3, <4>1
    <3>. QED  BY <3>1, <3>4, <3>5
  <2>3. CASE NotFound(a)
    <3>1. /\ at[a] = "look" /\ todo[a] = {} /\ at'[a] = "answered" /\ answer'[a] = "unknown"
      BY <1>0, <2>3 DEF NotFound, GoTo
    <3>2. held'[a] \subseteq held[a] /\ held[a] \subseteq todo[a]
      BY <1>2, <3>1 DEF LookInv, Looking
    <3>. QED  BY <3>1, <3>2
  <2>. QED  BY <2>1, <2>2, <2>3, LookSteps
<1>. QED  BY <1>3, <1>4 DEF LookInv

LEMMA LookHolds == Spec => []LookInv
<1>1. Init => LookInv
  BY DEF Init, CirclesInit, CommandsInit, LookInv
<1>2. Shape /\ ContactInv /\ CircleInv /\ LookInv /\ [Next]_vars => LookInv'
  <2>1. ASSUME LookInv, UNCHANGED vars
        PROVE  LookInv'
    BY <2>1 DEF vars, commandVars, circleVars, localVars, watchVars, LookInv
  <2>. QED  BY <2>1, LookInvStep, StepIsOfOne
<1>. QED  BY <1>1, <1>2, ShapeHolds, ContactHolds, CirclesHold, PTL DEF Spec

\* Nobody who is in a listed circle all the time it is looked up is taken for
\* unknown, however many commands create circles, add and remove members and die
\* in the middle of a file meanwhile (get_trust_level).
THEOREM MembersAreKnown == Spec => []StandingMembersAreKnown
<1>1. LookInv => StandingMembersAreKnown
  BY DEF LookInv, StandingMembersAreKnown
<1>. QED  BY <1>1, LookHolds, PTL

\* Access is granted only to the personal identity that the look-up compared
\* with, and to who was in a circle at some time during it (check_access).
THEOREM AccessIsEarned == Spec => []GrantsAreEarned
<1>1. LookInv => GrantsAreEarned
  BY DEF LookInv, GrantsAreEarned, Allowed
<1>. QED  BY <1>1, LookHolds, PTL

-----------------------------------------------------------------------------
(* Adds.                                                                   *)

\* Who is about to empty a members file has read what it holds; who is about to
\* fill it puts back everyone an add has answered for; unless it was overtaken.
WriterKnows(a) ==
    LET c == task[a].circle
    IN  /\ at[a] \in Writing /\ task[a].op = "create" => read[a] = NoFile
        /\ at[a] = "truncate" /\ a \notin overtaken => members[c] = read[a]
        /\ at[a] = "write" /\ a \notin overtaken =>
              /\ members[c] = Torn
              /\ \A x \in People : <<c, x>> \in added => x \in Contents(a)

KeptInv == AddsAreKept /\ \A a \in Actors : WriterKnows(a)

\* What matters of a step to the other writers: nobody answers for an add to a
\* circle whose members file is torn before and after.
NoAddToTorn ==
    \A c \in Circles : members[c] = Torn /\ members'[c] = Torn =>
        \A x \in People : <<c, x>> \in added' => <<c, x>> \in added

LEMMA OtherWriters ==
    ASSUME Shape, ContactInv, CircleInv, KeptInv, NEW a \in Actors, Acts(a), Watch, NoAddToTorn,
           NEW b \in Actors, b # a
    PROVE  WriterKnows(b)'
<1> DEFINE c == task[b].circle
<1>0. UNCHANGED <<at[b], task[b], read[b]>>
  BY ActorsKeepTheirOwn DEF OnlyBy, OnlyFor
<1>1. CASE at[b] \notin Writing
  BY <1>0, <1>1 DEF WriterKnows, Writing
<1>2. CASE at[b] \in Writing
  <2>1. b \notin overtaken' => b \notin overtaken /\ members'[c] = members[c]
    BY <1>0, <1>2 DEF Watch
  <2>2. c \in Circles
    BY <1>2, ContentsArePeople
  <2>3. WriterKnows(b)
    BY DEF KeptInv
  <2>4. Contents(b)' = Contents(b)
    BY <1>0 DEF Contents
  <2>5. at'[b] = "write" /\ b \notin overtaken' =>
           /\ members'[c] = Torn
           /\ \A x \in People : <<c, x>> \in added' => x \in Contents(b)
    BY <1>0, <2>1, <2>2, <2>3 DEF WriterKnows, NoAddToTorn
  <2>. QED  BY <1>0, <2>1, <2>3, <2>4, <2>5 DEF WriterKnows
<1>. QED  BY <1>1, <1>2

\* What a command makes of a circle's members: those it has read, and whom it
\* adds, without whom it removes.
LEMMA ContentsAre ==
    ASSUME NEW a \in Actors, task[a].op \in {"create", "join", "leave"}
    PROVE  /\ task[a].op = "create" => Contents(a) = {}
           /\ task[a].op = "join" =>
                 Contents(a) = (IF read[a] = NoFile THEN {} ELSE read[a]) \cup {task[a].who}
           /\ task[a].op = "leave" =>
                 Contents(a) = (IF read[a] = NoFile THEN {} ELSE read[a]) \ {task[a].who}
BY DEF Contents

\* A step that writes no members file leaves the adds where they are.
LEMMA MembersStay ==
    ASSUME Shape, ContactInv, CircleInv, KeptInv, NEW a \in Actors, Acts(a), Watch,
           UNCHANGED <<members, added>>, at'[a] \notin Writing
    PROVE  KeptInv'
<1>1. AddsAreKept'
  BY DEF KeptInv, AddsAreKept
<1>2. \A b \in Actors : b # a => WriterKnows(b)'
  BY OtherWriters DEF NoAddToTorn
<1>3. WriterKnows(a)'
  BY DEF WriterKnows, Writing
<1>. QED  BY <1>1, <1>2, <1>3 DEF KeptInv

LEMMA KeptInvStep ==
    ASSUME Shape, ContactInv, CircleInv, KeptInv, NEW a \in Actors, Acts(a), Watch
    PROVE  KeptInv'
<1> DEFINE c == task[a].circle
<1>0. \A v : /\ Put(at, a, v)[a] = v /\ Put(read, a, v)[a] = v
  BY DEF Put, Shape, PerActor
<1>1. CASE ~CircleStep(a)
  <2>1. UNCHANGED <<members, added>> /\ at'[a] \notin Writing
    BY <1>1, OtherCommands
  <2>. QED  BY <2>1, MembersStay
<1>2. CASE \/ LoadIdentity(a) \/ CreateIdentity(a) \/ WriteIdentity(a) \/ ListCircles(a) \/ LookInCircle(a)
           \/ NotFound(a) \/ CheckAccess(a)
  <2>1. UNCHANGED <<members, added>> /\ at'[a] \notin Writing
    <3> USE <1>0 DEF GoTo, Return, Finish, diskVars, Writing
    <3>1. CASE LoadIdentity(a) \/ CreateIdentity(a) \/ WriteIdentity(a)
      BY <3>1 DEF LoadIdentity, CreateIdentity, WriteIdentity, Identified, StartLookup
    <3>2. CASE ListCircles(a) \/ LookInCircle(a) \/ NotFound(a) \/ CheckAccess(a)
      BY <3>2 DEF ListCircles, LookInCircle, NotFound, CheckAccess
    <3>. QED  BY <1>2, <3>1, <3>2
  <2>. QED  BY <2>1, MembersStay
<1>3. CASE MakeDirectory(a) \/ WriteKey(a) \/ FindCircle(a) \/ Crash(a)
  <2>1. UNCHANGED <<members, added>> /\ at'[a] \notin Writing
    BY <1>0, <1>3 DEF MakeDirectory, WriteKey, FindCircle, Crash, Die, GoTo, Return, Finish,
       diskVars, Writing
  <2>. QED  BY <2>1, MembersStay
<1>4. CASE CheckMembers(a)
  <2>1. UNCHANGED <<members, added>> /\ at[a] = "fresh"
    BY <1>4 DEF CheckMembers, diskVars
  <2>2. CASE members[c] = NoFile
    <3>1. at'[a] = "truncate" /\ UNCHANGED <<task, read>>
      BY <1>0, <1>4, <2>2 DEF CheckMembers, GoTo
    <3>2. read[a] = NoFile
      BY <2>1 DEF CircleInv, Writing
    <3>3. WriterKnows(a)'
      BY <2>1, <2>2, <3>1, <3>2 DEF WriterKnows
    <3>4. NoAddToTorn /\ AddsAreKept'
      BY <2>1 DEF NoAddToTorn, KeptInv, AddsAreKept
    <3>. QED  BY <3>3, <3>4, OtherWriters DEF KeptInv
  <2>3. CASE members[c] # NoFile
    <3>1. at'[a] = "idle"
      BY <1>0, <1>4, <2>3 DEF CheckMembers, Return, Finish, GoTo
    <3>. QED  BY <2>1, <3>1, MembersStay DEF Writing
  <2>. QED  BY <2>2, <2>3
<1>5. CASE ReadMembers(a)
  <2> DEFINE known == Contains(members[c], task[a].who)
             joins == task[a].op = "join"
  <2>0. /\ UNCHANGED members /\ at[a] = "read"
        /\ c \in Circles /\ task[a].who \in People /\ task[a].op \in {"join", "leave"}
    BY <1>5 DEF ReadMembers, ContactInv, ActorFits, StageFits, TaskFits, diskVars
  <2>1. CASE members[c] = Torn
    <3>1. UNCHANGED added /\ at'[a] = "idle"
      BY <1>0, <1>5, <2>1 DEF ReadMembers, GoTo, Return, Finish
    <3>. QED  BY <2>0, <3>1, MembersStay DEF Writing
  <2>2. CASE members[c] # Torn /\ (joins <=> known)
    <3>1. /\ at'[a] = "idle"
          /\ added' = IF joins THEN added \cup {<<c, task[a].who>>} ELSE added
      BY <1>0, <1>5, <2>2 DEF ReadMembers, GoTo, Return, Finish
    <3>2. AddsAreKept'
      BY <2>0, <2>2, <3>1 DEF KeptInv, AddsAreKept
    <3>3. NoAddToTorn
      BY <2>2, <3>1 DEF NoAddToTorn
    <3>4. WriterKnows(a)'
      BY <3>1 DEF WriterKnows, Writing
    <3>. QED  BY <3>2, <3>3, <3>4, OtherWriters DEF KeptInv
  <2>3. CASE members[c] # Torn /\ (joins <=> ~known)
    <3>1. /\ at'[a] = "truncate" /\ read'[a] = members[c]
          /\ UNCHANGED <<task, added>>
      BY <1>0, <1>5, <2>3 DEF ReadMembers, GoTo
    <3>2. WriterKnows(a)'
      BY <2>0, <3>1 DEF WriterKnows
    <3>3. NoAddToTorn /\ AddsAreKept'
      BY <2>0, <3>1 DEF NoAddToTorn, KeptInv, AddsAreKept
    <3>. QED  BY <3>2, <3>3, OtherWriters DEF KeptInv
  <2>. QED  BY <2>1, <2>2, <2>3
<1>6. CASE Truncate(a)
  <2>1. /\ at[a] = "truncate" /\ at'[a] = "write" /\ UNCHANGED <<task, read>>
        /\ members' = Put(members, c, Torn) /\ added' = added \ Forgone(a)
    BY <1>0, <1>6 DEF Truncate, GoTo, localVars
  <2>2. c \in Circles /\ task[a].op \in {"create", "join", "leave"}
    BY <2>1, ContentsArePeople DEF Writing, ContactInv, ActorFits, StageFits
  <2>3. \A d \in Circles : members'[d] = IF d = c THEN Torn ELSE members[d]
    BY <2>1, <2>2 DEF Put, CircleInv
  <2>4. AddsAreKept'
    BY <2>1, <2>3 DEF KeptInv, AddsAreKept, CircleInv
  <2>5. NoAddToTorn
    BY <2>1 DEF NoAddToTorn
  <2>6. ASSUME a \notin overtaken', NEW x \in People, <<c, x>> \in added'
        PROVE  x \in Contents(a)
    <3>1. a \notin overtaken
      BY <2>1, <2>6 DEF Watch, Writing
    <3>2. /\ members[c] = read[a] /\ members[c] # Torn
          /\ task[a].op = "create" => read[a] = NoFile
      BY <2>1, <3>1, CirclesAssumption, CommandsAssumption
      DEF KeptInv, WriterKnows, CircleInv, Writing
    <3>3. <<c, x>> \in added /\ Contains(members[c], x)
      BY <2>1, <2>6, <3>2 DEF KeptInv, AddsAreKept
    <3>4. read[a] # NoFile /\ x \in read[a] /\ task[a].op # "create"
      BY <3>2, <3>3 DEF Contains
    <3>5. task[a].op = "leave" => x # task[a].who
      BY <2>1, <2>6, <3>1 DEF Forgone
    <3>. QED  BY <2>2, <3>4, <3>5, ContentsAre
  <2>7. Contents(a)' = Contents(a)
    BY <2>1 DEF Contents
  <2>8. WriterKnows(a)
    BY DEF KeptInv
  <2>9. WriterKnows(a)'
    BY <2>1, <2>2, <2>3, <2>6, <2>7, <2>8 DEF WriterKnows, Writing
  <2>. QED  BY <2>4, <2>5, <2>9, OtherWriters DEF KeptInv
<1>7. CASE FillMembers(a)
  <2>1. /\ at[a] = "write" /\ at'[a] = "idle" /\ members' = Put(members, c, Contents(a))
        /\ added' = (added \ Forgone(a)) \cup
                      IF task[a].op = "join" THEN {<<c, task[a].who>>} ELSE {}
    BY <1>0, <1>7 DEF FillMembers, Return, Finish, GoTo
  <2>2. /\ c \in Circles /\ task[a].op \in {"create", "join", "leave"}
        /\ Contents(a) \in SUBSET People
        /\ task[a].op = "join" => task[a].who \in People
    BY <2>1, ContentsArePeople DEF Writing, ContactInv, ActorFits, StageFits
  <2>3. \A d \in Circles : members'[d] = IF d = c THEN Contents(a) ELSE members[d]
    BY <2>1, <2>2 DEF Put, CircleInv
  <2>4. Contents(a) # Torn /\ Contents(a) # NoFile
    BY <2>2, CirclesAssumption
  <2>5. ASSUME NEW x \in People, <<c, x>> \in added'
        PROVE  x \in Contents(a)
    <3>1. CASE task[a].op = "join" /\ x = task[a].who
      BY <3>1, ContentsAre
    <3>2. CASE <<c, x>> \in added \ Forgone(a)
      <4>1. CASE a \in overtaken
        BY <3>2, <4>1 DEF Forgone
      <4>2. CASE a \notin overtaken
        BY <2>1, <3>2, <4>2 DEF KeptInv, WriterKnows
      <4>. QED  BY <4>1, <4>2
    <3>. QED  BY <2>1, <2>5, <3>1, <3>2
  <2>6. \A d \in Circles, x \in People : d # c /\ <<d, x>> \in added' => <<d, x>> \in added
    BY <2>1
  <2>7. added' \subseteq Circles \X People
    BY <2>1, <2>2 DEF CircleInv
  <2>8. AddsAreKept'
    <3> SUFFICES ASSUME NEW p \in added'
                 PROVE  members'[p[1]] = Torn \/ Contains(members'[p[1]], p[2])
      BY DEF AddsAreKept, Contains
    <3>1. p[1] \in Circles /\ p[2] \in People /\ p = <<p[1], p[2]>>
      BY <2>7
    <3>2. CASE p[1] = c
      BY <2>3, <2>4, <2>5, <3>1, <3>2 DEF Contains
    <3>3. CASE p[1] # c
      <4>1. p \in added
        BY <2>6, <3>1, <3>3
      <4>. QED  BY <2>3, <3>1, <3>3, <4>1 DEF KeptInv, AddsAreKept
    <3>. QED  BY <3>2, <3>3
  <2>9. NoAddToTorn
    BY <2>3, <2>4, <2>6 DEF NoAddToTorn
  <2>10. WriterKnows(a)'
    BY <2>1 DEF WriterKnows, Writing
  <2>. QED  BY <2>8, <2>9, <2>10, OtherWriters DEF KeptInv
<1>. QED  BY <1>1, <1>2, <1>3, <1>4, <1>5, <1>6, <1>7 DEF CircleStep

\* Whoever an add has answered for stays in the circle's file, or the file is
\* being written or was left torn, until it is removed or a command that was
\* overtaken writes: for any number of processes that add, remove, create and die
\* (add_to_circle, create_circle).
THEOREM AddsStay == Spec => []AddsAreKept
<1>1. Init => KeptInv
  BY DEF Init, CirclesInit, CommandsInit, KeptInv, AddsAreKept, WriterKnows, Writing
<1>2. Shape /\ ContactInv /\ CircleInv /\ KeptInv /\ [Next]_vars => KeptInv'
  <2>1. ASSUME KeptInv, UNCHANGED vars
        PROVE  KeptInv'
    BY <2>1 DEF vars, commandVars, circleVars, diskVars, localVars, watchVars, KeptInv,
       AddsAreKept, WriterKnows, Contents
  <2>. QED  BY <2>1, KeptInvStep, StepIsOfOne
<1>3. KeptInv => AddsAreKept
  BY DEF KeptInv
<1>. QED  BY <1>1, <1>2, <1>3, ShapeHolds, ContactHolds, CirclesHold, PTL DEF Spec
===============================================================================
