---------------------------- MODULE DeviceInventory ----------------------------
(***************************************************************************)
(* device_inventory.json of src/core/device_manager.py: each start of the  *)
(* application loads it, looks for its own device, adds or completes that  *)
(* entry and writes the file anew.  An entry is abstracted to the host     *)
(* name and the device id it gives; hardware, addresses and times are      *)
(* refreshed with it and nothing depends on them.                          *)
(***************************************************************************)
EXTENDS Commands

CONSTANTS
    Host,           \* this device's host name
    Own,            \* the device id derived from its host name and MAC address
    NoId,           \* an old entry has no device id
    Neighbours,     \* ids of the other devices in the inventory, each of which
                    \* stands for that device's host name as well
    Namesake        \* the one of them that may go by this device's host name

ASSUME InventoryAssumption ==
    /\ {Own, NoId, Host, "mine"} \cap Neighbours = {}
    /\ Own # NoId
    /\ Host # "mine"
    /\ Namesake \in Neighbours

VARIABLES
    inventory,      \* the file
    loaded,         \* DeviceManager.inventory of each actor
    wiped           \* has an actor taken an inventory it could not read for empty?

inventoryVars == <<inventory, loaded, wiped>>

Entry(host, id) == [host |-> host, id |-> id]

IdsOf(d) == {d[k].id : k \in DOMAIN d}

\* The other devices, each under its host name, one of them perhaps under this
\* one's; this one not at all, under a name the user gave it, or only by host
\* name.
InventoryInit ==
    /\ \E alike \in BOOLEAN :
          LET hosts == IF alike THEN (Neighbours \ {Namesake}) \cup {Host} ELSE Neighbours
              others == [h \in hosts |-> Entry(h, IF h = Host THEN Namesake ELSE h)]
          IN  \/ inventory = others
              \/ \E id \in {Own, NoId} : inventory = With(others, "mine", Entry(Host, id))
    /\ loaded = [a \in Actors |-> <<>>]
    /\ wiped = FALSE

BeginRegister(a) == Enter(a, [op |-> "register"], "inventory") /\ UNCHANGED inventoryVars

\* _load_inventory, when the DeviceManager is made.
LoadInventory(a) ==
    LET readable == inventory \notin {Torn, NoFile}
    IN  /\ at[a] = "inventory"
        /\ loaded' = Put(loaded, a, IF readable THEN inventory ELSE <<>>)
        /\ wiped' = (wiped \/ ~readable)
        /\ GoTo(a, "register")
        /\ UNCHANGED <<task, answer, crashes, inventory>>

\* Seeded fault: only the key is compared.
OwnKeysByName(d) == {Host}

\* The entry with this device's id, else an old one with its host name, else a
\* new one under its host name.
OwnKeys(d) ==
    LET byId == {k \in DOMAIN d : d[k].id = Own}
        byHost == {k \in DOMAIN d : d[k].host = Host /\ d[k].id = NoId}
    IN  IF byId # {} THEN byId ELSE IF byHost # {} THEN byHost ELSE {Host}

\* register_self, up to where _save_inventory has opened the file.
RegisterSelf(a) ==
    /\ at[a] = "register"
    /\ \E k \in OwnKeys(loaded[a]) :
          loaded' = Put(loaded, a, With(loaded[a], k, Entry(Host, Own)))
    /\ inventory' = Torn
    /\ GoTo(a, "fill")
    /\ UNCHANGED <<task, answer, crashes, wiped>>

SaveInventory(a) ==
    /\ at[a] = "fill"
    /\ inventory' = loaded[a]
    /\ Finish(a, "done")
    /\ UNCHANGED <<crashes, loaded, wiped>>

InventoryStep(a) == LoadInventory(a) \/ RegisterSelf(a) \/ SaveInventory(a)

\* However many processes start at a time, and whichever of them dies, this
\* device has at most one entry, and every other device keeps its own, unless a
\* start met the file while it was being written, or left torn, or that device
\* goes by the same host name and this one's entry took its place
\* (register_self, _load_inventory).
InventoryKeepsDevices ==
    inventory # Torn =>
        /\ Cardinality({k \in DOMAIN inventory : inventory[k].id = Own}) <= 1
        /\ \A n \in Neighbours \ IdsOf(inventory) :
              \/ wiped
              \/ n = Namesake /\ Host \in DOMAIN inventory /\ inventory[Host].id = Own
=============================================================================
