---------------------------- MODULE ContactRegistry ----------------------------
(***************************************************************************)
(* The contacts of src/core/contact_registry.py, as the contact commands   *)
(* of src/cli/commands.py use them: each command loads contacts.json into  *)
(* a registry of its own, changes that, and replaces the file by what it   *)
(* then has.  Several processes do so at the same time, beside the         *)
(* commands on circles and the look-ups of TrustCircles, and starts of the *)
(* application.                                                            *)
(*                                                                         *)
(* A contact is abstracted to what the operations tell apart: what it says *)
(* under its keys, its custom fields and its devices are partial           *)
(* functions, its references a set.  An empty text is as none.             *)
(***************************************************************************)
EXTENDS TrustCircles, DeviceInventory, StartupFiles

CONSTANTS
    Ids,            \* contact ids
    Texts,          \* display name, phone number, notes
    Keys,           \* keys of no meaning to the program that users may store
    Customs,        \* keys of custom fields
    Values,         \* what any of them holds
    NoText,         \* the empty text
    Devs,           \* ids of devices
    Refs,           \* references: a type and an id
    Text,           \* a text stored where a list or a dictionary belongs
    Mixes           \* what there is at first, and which commands meet

Partial(S, T) == UNION {[D -> T] : D \in SUBSET S}

Fields == Texts \cup Keys \cup {"avatar"}

Contact == [who : People,
            trust : {"personal", "circle", "unknown", "set"},
            fields : Partial(Fields, Values),
            custom : Partial(Customs, Values) \cup {Text},
            devices : Partial(Devs, Values) \cup {Text},
            refs : (SUBSET Refs) \cup {Text},
            clock : Nat]

AreContacts(f) == DOMAIN f \subseteq Ids /\ \A id \in DOMAIN f : f[id] \in Contact

ASSUME ContactsAssumption ==
    /\ \A m \in Mixes : m.tasks \in Nat /\ m.faults \in Nat /\ AreContacts(m.contacts)
    /\ {Text, NoText} \cap Values = {}

VARIABLES
    contacts,       \* contacts.json, which is always whole
    registry,       \* ContactRegistry.contacts of each actor
    used,           \* the ids ever given to a contact
    left            \* the bounds, counted down: commands and look-ups that may
                    \* begin, loads and saves that may fail

contactVars == <<contacts, registry, used, left>>
vars == <<commandVars, circleVars, inventoryVars, startVars, contactVars>>

NoContacts == [id \in {} |-> {}]

\* A command names a contact by an id that it has or had.  An import brings
\* what was exported of a contact.
AddTasks == [op : {"add"}, who : People]

UpdateTasks ==
    [op : {"update"}, id : used, key : Fields, value : Values \cup {NoText}]
    \cup [op : {"update"}, id : used, key : {"trust", "custom", "devices", "refs"}]

RemoveTasks == [op : {"remove"}, id : used]

RefTasks == [op : {"ref"}, id : used, ref : Refs]

MergeTasks == [op : {"merge"}, id : used, into : used]

ImportTasks == {[op |-> "import", id |-> id, from |-> contacts[id]] : id \in DOMAIN contacts}

\* No command registers or removes a device of a contact; other code may.
DeviceTasks ==
    [op : {"device"}, id : used, dev : Devs, value : Values]
    \cup [op : {"undevice"}, id : used, dev : Devs]

ContactTasks ==
    AddTasks \cup UpdateTasks \cup RemoveTasks \cup RefTasks \cup MergeTasks
    \cup ImportTasks \cup DeviceTasks

TypeOK ==
    /\ CirclesTypeOK
    /\ StartTypeOK
    /\ AreContacts(contacts)
    /\ \A a \in Actors : AreContacts(registry[a])
    /\ used \subseteq Ids
    /\ left.tasks \in Nat /\ left.faults \in Nat

Init ==
    /\ CirclesInit
    /\ InventoryInit
    /\ StartInit
    /\ \E m \in Mixes :
          /\ (identity # NoFile) = m.owned
          /\ members = m.members
          /\ contacts = m.contacts
          /\ "register" \in m.ops \/ DOMAIN inventory = Neighbours
          /\ "start" \in m.ops \/ (rootfs = NoFile /\ config = NoFile)
          /\ left = [ops |-> m.ops, tasks |-> m.tasks, faults |-> m.faults]
    /\ registry = [a \in Actors |-> NoContacts]
    /\ used = DOMAIN contacts

-----------------------------------------------------------------------------
(* What the operations make of a contact.                                  *)

\* f, and g where f says nothing.
Over(f, g) == [x \in DOMAIN f \cup DOMAIN g |-> IF x \in DOMAIN f THEN f[x] ELSE g[x]]

\* _bump_vector_clock: the device's own entry, the only one there is.
Bumped(c) == [c EXCEPT !.clock = @ + 1]

NewContact(who, trust) ==
    [who |-> who, trust |-> trust, fields |-> [k \in {} |-> {}],
     custom |-> [k \in {} |-> {}], devices |-> [d \in {} |-> {}], refs |-> {}, clock |-> 0]

\* The command line stores whatever key and text it is given.
Updated(c, t) ==
    CASE t.key = "trust"   -> [c EXCEPT !.trust = "set"]
      [] t.key = "custom"  -> [c EXCEPT !.custom = Text]
      [] t.key = "devices" -> [c EXCEPT !.devices = Text]
      [] t.key = "refs"    -> [c EXCEPT !.refs = Text]
      [] OTHER             -> [c EXCEPT !.fields = IF t.value = NoText THEN Without(@, t.key)
                                                   ELSE With(@, t.key, t.value)]

\* A merge raises on a text where it expects a list or a dictionary, unless it
\* has nothing to put there.
Mergeable(s, t) ==
    /\ Text \notin {s.devices, t.devices, s.custom, s.refs}
    /\ t.custom # Text \/ DOMAIN s.custom = {}
    /\ t.refs # Text \/ s.refs = {}

Only(f, S) == [x \in DOMAIN f \cap S |-> f[x]]

\* Seeded fault: the source's custom fields take the place of the target's.
MergedCustoms(s, t) ==
    [t EXCEPT !.devices = Over(@, s.devices),
              !.fields = Over(@, Only(s.fields, Texts)),
              !.custom = IF @ = Text THEN Text ELSE s.custom,
              !.refs = IF @ = Text THEN Text ELSE @ \cup s.refs]

\* What the target has stays; the source adds the devices, texts, custom fields
\* and references that the target has not, but neither its avatar nor any other
\* key.
Merged(s, t) ==
    [t EXCEPT !.devices = Over(@, s.devices),
              !.fields = Over(@, Only(s.fields, Texts)),
              !.custom = IF @ = Text THEN Text ELSE Over(@, s.custom),
              !.refs = IF @ = Text THEN Text ELSE @ \cup s.refs]

\* What an import makes of an exported contact: the keys it knows, and an empty
\* clock.
Imported(c) ==
    [c EXCEPT !.fields = Only(@, Texts \cup {"avatar"}), !.clock = 0]

-----------------------------------------------------------------------------
(* The commands.                                                           *)

BeginTask(a) ==
    /\ left.tasks > 0
    /\ left' = [left EXCEPT !.tasks = @ - 1]
    /\ \/ /\ \/ BeginCircleTask(a, left.ops)
             \/ \E t \in ContactTasks : t.op \in left.ops /\ Begin(a, t)
          /\ UNCHANGED <<inventoryVars, startVars>>
       \/ /\ \/ "register" \in left.ops /\ BeginRegister(a) /\ UNCHANGED startVars
             \/ "start" \in left.ops /\ BeginStart(a) /\ UNCHANGED inventoryVars
          /\ UNCHANGED <<diskVars, localVars, added>>
    /\ UNCHANGED <<contacts, registry, used>>

Fault ==
    /\ left.faults > 0
    /\ left' = [left EXCEPT !.faults = @ - 1]

\* A file that cannot be read counts as no contacts.
LoadContacts(a) ==
    /\ at[a] = "load"
    /\ \/ registry' = Put(registry, a, contacts) /\ UNCHANGED left
       \/ registry' = Put(registry, a, NoContacts) /\ Fault
    /\ IF task[a].op = "add"
         THEN StartLookup(a, me[a])
         ELSE GoTo(a, "apply") /\ UNCHANGED answer
    /\ UNCHANGED <<diskVars, task, me, read, todo, added, crashes, contacts, used>>

\* The file is replaced at once.  A save that fails is logged, and the command
\* reports success.
Save(a, new) ==
    /\ \/ contacts' = new /\ UNCHANGED left
       \/ UNCHANGED contacts /\ Fault
    /\ Return(a, "done")

\* A command whose contact is missing, or that raises, saves nothing.
GiveUp(a) ==
    /\ Return(a, "error")
    /\ UNCHANGED <<contacts, used, left>>

After(a) == UNCHANGED <<diskVars, me, added, crashes, registry>>

\* The trust level is the one of this moment; nothing ever looks it up again.
AddContact(a) ==
    /\ at[a] = "answered"
    /\ task[a].op = "add"
    /\ \/ answer[a] = "error" /\ GiveUp(a)
       \/ /\ answer[a] # "error"
          /\ \E id \in Ids \ used :
                /\ Save(a, With(registry[a], id, NewContact(task[a].who, answer[a])))
                /\ used' = used \cup {id}
    /\ After(a)

\* The actor is about to do op, which changes a contact, on the contact it loaded.
Ready(a, op) == at[a] = "apply" /\ task[a].op = op

Found(a) == task[a].id \in DOMAIN registry[a]

Mine(a) == registry[a][task[a].id]

\* The contact becomes c, counted by its clock.
Change(a, c) ==
    /\ Save(a, With(registry[a], task[a].id, Bumped(c)))
    /\ UNCHANGED used

UpdateContact(a) ==
    /\ Ready(a, "update")
    /\ IF Found(a) THEN Change(a, Updated(Mine(a), task[a])) ELSE GiveUp(a)
    /\ After(a)

RemoveContact(a) ==
    /\ Ready(a, "remove")
    /\ IF Found(a)
         THEN Save(a, Without(registry[a], task[a].id)) /\ UNCHANGED used
         ELSE GiveUp(a)
    /\ After(a)

RegisterDevice(a) ==
    /\ Ready(a, "device")
    /\ IF Found(a) /\ Mine(a).devices # Text
         THEN Change(a, [Mine(a) EXCEPT !.devices = With(@, task[a].dev, task[a].value)])
         ELSE GiveUp(a)
    /\ After(a)

RemoveDevice(a) ==
    /\ Ready(a, "undevice")
    /\ IF Found(a) /\ Mine(a).devices # Text /\ task[a].dev \in DOMAIN Mine(a).devices
         THEN Change(a, [Mine(a) EXCEPT !.devices = Without(@, task[a].dev)])
         ELSE GiveUp(a)
    /\ After(a)

AddCrossRef(a) ==
    /\ Ready(a, "ref")
    /\ IF Found(a) /\ Mine(a).refs # Text /\ task[a].ref \notin Mine(a).refs
         THEN Change(a, [Mine(a) EXCEPT !.refs = @ \cup {task[a].ref}])
         ELSE GiveUp(a)
    /\ After(a)

\* Seeded fault: the contact that is merged into is the one removed.
MergeOther(a) ==
    /\ Ready(a, "merge")
    /\ LET s == task[a].id
           t == task[a].into
       IN  IF {s, t} \subseteq DOMAIN registry[a] /\ Mergeable(registry[a][s], registry[a][t])
             THEN /\ Save(a, Without(With(registry[a], s,
                                 Bumped(Merged(registry[a][t], registry[a][s]))), t))
                  /\ UNCHANGED used
             ELSE GiveUp(a)
    /\ After(a)

\* The source is removed last: a contact merged into itself is gone.
MergeContact(a) ==
    /\ Ready(a, "merge")
    /\ LET s == task[a].id
           t == task[a].into
       IN  IF {s, t} \subseteq DOMAIN registry[a] /\ Mergeable(registry[a][s], registry[a][t])
             THEN /\ Save(a, Without(With(registry[a], t,
                                 Bumped(Merged(registry[a][s], registry[a][t]))), s))
                  /\ UNCHANGED used
             ELSE GiveUp(a)
    /\ After(a)

\* Seeded fault: the imported contact takes its id, whoever has it.
ImportOver(a) ==
    /\ Ready(a, "import")
    /\ Save(a, With(registry[a], task[a].id, Imported(task[a].from)))
    /\ After(a) /\ UNCHANGED used

\* The contact gets a new id if its own is taken.
ImportContact(a) ==
    /\ Ready(a, "import")
    /\ \E id \in IF Found(a) THEN Ids \ used ELSE {task[a].id} :
          /\ Save(a, With(registry[a], id, Imported(task[a].from)))
          /\ used' = used \cup {id}
    /\ After(a)

ContactStep(a) ==
    \/ LoadContacts(a)
    \/ AddContact(a) \/ UpdateContact(a) \/ RemoveContact(a)
    \/ RegisterDevice(a) \/ RemoveDevice(a) \/ AddCrossRef(a)
    \/ MergeContact(a) \/ ImportContact(a)

Next ==
    /\ \E a \in Actors :
          \/ BeginTask(a)
          \/ CircleStep(a) /\ UNCHANGED <<contactVars, inventoryVars, startVars>>
          \/ ContactStep(a) /\ UNCHANGED <<inventoryVars, startVars>>
          \/ InventoryStep(a) /\ UNCHANGED <<contactVars, startVars, diskVars, localVars, added>>
          \/ StartStep(a) /\ UNCHANGED <<contactVars, inventoryVars, diskVars, localVars, added>>
    /\ Watch

Spec == Init /\ [][Next]_vars

-----------------------------------------------------------------------------

\* Does a save what it makes of the contacts as they are in the file?  Not if
\* another has saved since it loaded them, or it could not load them.
UpToDate(a) == registry[a] = contacts

\* A contact stays until a command removes it or merges it into another,
\* whatever dies or fails, unless a command saves over it what it has loaded
\* before (_load, _save).
ContactsStay ==
    [][\A id \in DOMAIN contacts \ DOMAIN contacts' :
          \E a \in Actors :
             \/ task[a].op \in {"remove", "merge"} /\ task[a].id = id
             \/ at[a] \in {"apply", "answered"} /\ ~UpToDate(a)]_vars

\* No contact changes under an unchanged clock, unless a command saves what it
\* has loaded before another one's change (_bump_vector_clock).
ChangesAreCounted ==
    [][\A id \in DOMAIN contacts \cap DOMAIN contacts' :
          \/ contacts'[id] = contacts[id]
          \/ contacts'[id].clock > contacts[id].clock
          \/ \E a \in Actors : at[a] \in {"apply", "answered"} /\ ~UpToDate(a)]_vars

\* The merge of two different contacts, s into t, to m, is saved, over the
\* contacts as it has loaded them.
Merges(a) ==
    /\ Ready(a, "merge") /\ UpToDate(a) /\ task[a].id # task[a].into
    /\ contacts' # contacts /\ at'[a] = "idle"

\* f has what g and h have, and nothing else.
MadeOf(f, g, h) ==
    /\ DOMAIN f = DOMAIN g \cup DOMAIN h
    /\ \A x \in DOMAIN f :
          (x \in DOMAIN g /\ f[x] = g[x]) \/ (x \in DOMAIN h /\ f[x] = h[x])

\* A merge that no other save overlaps leaves in the target every device, custom
\* field, text and reference either contact had, as one of them had it, and what
\* the target said itself.  It does not say whose entry of a device stays that both
\* had (the source's, says a comment in merge_contact; the code keeps the target's).
\* The avatar and other keys of the source go with it (merge_contact).
MergeCombines ==
    [][\A a \in Actors :
          LET s == contacts[task[a].id]
              t == contacts[task[a].into]
              m == contacts'[task[a].into]
          IN  Merges(a) =>
                 /\ MadeOf(m.devices, s.devices, t.devices)
                 /\ t.custom # Text => MadeOf(m.custom, s.custom, t.custom)
                 /\ t.refs # Text => m.refs = s.refs \cup t.refs
                 /\ DOMAIN s.fields \cap Texts \subseteq DOMAIN m.fields
                 /\ \A k \in DOMAIN t.fields : k \in DOMAIN m.fields /\ m.fields[k] = t.fields[k]]_vars
=============================================================================
