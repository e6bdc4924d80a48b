----------------------------- MODULE StartupFiles -----------------------------
(***************************************************************************)
(* What a start of the application does to files that other starts use     *)
(* too: it makes the container's root file system unless there is one      *)
(* (src/container/manager.py), adds an I2P interface to the configuration  *)
(* of RNS (src/services/i2p_manager.py), and has RNS read that.  The I2P   *)
(* manager of a running application may be started again by a request.     *)
(***************************************************************************)
EXTENDS Commands

VARIABLES
    rootfs,     \* the root file system: NoFile, "part", "copied" (which lacks
                \* its directories and links) or "whole"
    spoilt,     \* has a start failed while it made the root file system?
    config,     \* RNS's configuration: NoFile, Torn, or what is in it
    found,      \* what the patch of each start found there, if it looked: a set
    madeOver    \* has RNS made its own configuration over one that was there?

startVars == <<rootfs, spoilt, config, found, madeOver>>

\* A configuration with the section of interfaces or without, and with so many
\* I2P interfaces.
Config == [interfaces : BOOLEAN, i2p : Nat]

ASSUME StartAssumption == Torn \notin Config /\ NoFile \notin Config

Default == [interfaces |-> TRUE, i2p |-> 0]

StartTypeOK ==
    /\ rootfs \in {NoFile, "part", "copied", "whole"}
    /\ spoilt \in BOOLEAN
    /\ config \in Config \cup {NoFile, Torn}
    /\ \A a \in Actors : found[a] \subseteq Config \cup {NoFile, Torn}
    /\ madeOver \in BOOLEAN

StartInit ==
    /\ rootfs \in {NoFile, "whole"}
    /\ config \in {NoFile, Default, [Default EXCEPT !.interfaces = FALSE]}
    /\ spoilt = FALSE
    /\ found = [a \in Actors |-> {}]
    /\ madeOver = FALSE

BeginStart(a) ==
    /\ \/ Enter(a, [op |-> "start"], "rootfs")
       \/ Enter(a, [op |-> "i2p"], "patch")
    /\ found' = Put(found, a, {})
    /\ UNCHANGED <<rootfs, spoilt, config, madeOver>>

-----------------------------------------------------------------------------
(* _setup_rootfs, when the ContainerManager is made.                       *)

FindRootfs(a) ==
    /\ at[a] = "rootfs"
    /\ GoTo(a, IF rootfs = NoFile THEN "copy" ELSE "patch")
    /\ UNCHANGED <<task, answer, crashes, startVars>>

\* copytree makes the directory, which must not be there by now.
MakeRootfs(a) ==
    /\ at[a] = "copy"
    /\ \/ /\ rootfs = NoFile
          /\ rootfs' = "part"
          /\ GoTo(a, "copying")
          /\ UNCHANGED <<task, answer>>
       \/ /\ rootfs # NoFile
          /\ Finish(a, "error")
          /\ UNCHANGED rootfs
    /\ UNCHANGED <<crashes, spoilt, config, found, madeOver>>

\* Seeded fault: the start goes on when the files are there.
CopyOnly(a) ==
    /\ at[a] = "copying"
    /\ rootfs' = "copied"
    /\ GoTo(a, "patch")
    /\ UNCHANGED <<task, answer, crashes, spoilt, config, found, madeOver>>

\* A copy that fails ends the start, and leaves what was copied.
CopyRootfs(a) ==
    /\ at[a] = "copying"
    /\ \/ /\ rootfs' = "copied"
          /\ GoTo(a, "link")
          /\ UNCHANGED <<task, answer, spoilt>>
       \/ /\ spoilt' = TRUE
          /\ Finish(a, "error")
          /\ UNCHANGED rootfs
    /\ UNCHANGED <<crashes, config, found, madeOver>>

\* The directories and the links, or the first of them that fails.
LinkRootfs(a) ==
    /\ at[a] = "link"
    /\ \/ /\ rootfs' = "whole"
          /\ GoTo(a, "patch")
          /\ UNCHANGED <<task, answer, spoilt>>
       \/ /\ spoilt' = TRUE
          /\ Finish(a, "error")
          /\ UNCHANGED rootfs
    /\ UNCHANGED <<crashes, config, found, madeOver>>

-----------------------------------------------------------------------------
(* _patch_rns_config, in I2PManager.start().  Without i2pd it is left out. *)

\* The start goes on whether it failed or not, a request reports it.
PatchEnds(a, result) ==
    IF task[a].op = "start" THEN GoTo(a, "rns") /\ UNCHANGED <<task, answer>>
                            ELSE Finish(a, result)

HasPlace(c) == c \notin {NoFile, Torn} /\ c.interfaces

\* Seeded fault: nobody looks whether the interface is there.
PatchableAgain(c) == HasPlace(c)

Patchable(c) == HasPlace(c) /\ c.i2p = 0

ReadConfig(a) ==
    /\ at[a] = "patch"
    /\ \/ /\ found' = Put(found, a, {config})
          /\ IF Patchable(config)
               THEN GoTo(a, "append") /\ UNCHANGED <<task, answer>>
               ELSE PatchEnds(a, "done")
       \/ PatchEnds(a, "done") /\ UNCHANGED found
    /\ UNCHANGED <<crashes, rootfs, spoilt, config, madeOver>>

\* write_text: the file is opened, which empties it, then filled with what was
\* read and the new interface, unless there is no room.
OpenConfig(a) ==
    /\ at[a] = "append"
    /\ config' = Torn
    /\ GoTo(a, "patching")
    /\ UNCHANGED <<task, answer, crashes, rootfs, spoilt, found, madeOver>>

FillConfig(a) ==
    /\ at[a] = "patching"
    /\ \/ /\ \E c \in found[a] : config' = [c EXCEPT !.i2p = @ + 1]
          /\ PatchEnds(a, "done")
       \/ UNCHANGED config /\ PatchEnds(a, "error")
    /\ UNCHANGED <<crashes, rootfs, spoilt, found, madeOver>>

-----------------------------------------------------------------------------
(* RNS, which the peer service starts next, reads its configuration.  If   *)
(* there is none it makes one of its own.                                  *)

ReadByRNS(a) ==
    /\ at[a] = "rns"
    /\ IF config = NoFile
         THEN GoTo(a, "create") /\ UNCHANGED <<task, answer>>
         ELSE Finish(a, "done")
    /\ UNCHANGED <<crashes, startVars>>

CreateDefault(a) ==
    /\ at[a] = "create"
    /\ config' = Torn
    /\ madeOver' = (madeOver \/ config # NoFile)
    /\ GoTo(a, "default")
    /\ UNCHANGED <<task, answer, crashes, rootfs, spoilt, found>>

FillDefault(a) ==
    /\ at[a] = "default"
    /\ config' = Default
    /\ Finish(a, "done")
    /\ UNCHANGED <<crashes, rootfs, spoilt, found, madeOver>>

StartStep(a) ==
    \/ FindRootfs(a) \/ MakeRootfs(a) \/ CopyRootfs(a) \/ LinkRootfs(a)
    \/ ReadConfig(a) \/ OpenConfig(a) \/ FillConfig(a)
    \/ ReadByRNS(a) \/ CreateDefault(a) \/ FillDefault(a)

-----------------------------------------------------------------------------

\* A root file system that is there and not whole is just being made, or the
\* start that made it died or failed: nothing completes it ever again
\* (_setup_rootfs).
RootfsIsWhole ==
    \/ rootfs \in {NoFile, "whole"}
    \/ \E a \in Actors : at[a] \in {"copying", "link"}
    \/ spoilt \/ crashes > 0

\* RNS of a start that found its configuration in order gets exactly one I2P
\* interface, however many starts have patched it; unless RNS meets it while it
\* is written, or left empty, or another start's RNS, which had found none, has
\* made its own over it (main.start: "Start I2P first so Reticulum config is patched before RNS reads
\* it").
RnsGetsI2P ==
    [][\A a \in Actors :
          /\ at[a] = "rns" /\ answer'[a] = "done"
          /\ \E c \in found[a] : HasPlace(c)
          => \/ config = Torn
             \/ config.i2p = 1
             \/ madeOver]_<<commandVars, startVars>>
=============================================================================
