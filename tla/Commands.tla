------------------------------- MODULE Commands -------------------------------
(***************************************************************************)
(* Processes that run commands on files nobody locks: the prompt, the      *)
(* socket API, a start of the application, a thread that answers a peer.   *)
(* A command is a sequence of stages, each up to the next access to a file.*)
(* A file that is opened for writing is empty, Torn, until it is closed,   *)
(* and a process that dies in between leaves it so.                        *)
(***************************************************************************)
EXTENDS Integers, Sequences, FiniteSets

CONSTANTS
    Actors,         \* processes and threads that run a command
    Torn,           \* contents of a file that is not JSON
    NoFile,         \* the file is not there
    MaxCrashes      \* bound: processes that die within a command

ASSUME CommandsAssumption == Torn # NoFile /\ MaxCrashes \in Nat

VARIABLES
    task,           \* the command of each actor
    at,             \* where the actor is in it
    answer,         \* what its last command or look-up returned
    crashes         \* processes that died within a command

commandVars == <<task, at, answer, crashes>>

Idle == [op |-> "idle"]

Put(f, a, v) == [f EXCEPT ![a] = v]
With(f, x, v) == [y \in DOMAIN f \cup {x} |-> IF y = x THEN v ELSE f[y]]
Without(f, x) == [y \in DOMAIN f \ {x} |-> f[y]]

CommandsInit ==
    /\ task = [a \in Actors |-> Idle]
    /\ at = [a \in Actors |-> "idle"]
    /\ answer = [a \in Actors |-> "none"]
    /\ crashes = 0

\* The actor goes on at another stage of its command.
GoTo(a, stage) == at' = Put(at, a, stage)

Enter(a, t, stage) ==
    /\ at[a] = "idle"
    /\ task' = Put(task, a, t)
    /\ GoTo(a, stage)
    /\ answer' = Put(answer, a, "none")
    /\ UNCHANGED crashes

Finish(a, result) ==
    /\ GoTo(a, "idle")
    /\ task' = Put(task, a, Idle)
    /\ answer' = Put(answer, a, result)

\* A process that dies leaves the files as they are at that moment.
Die(a) ==
    /\ at[a] # "idle"
    /\ crashes < MaxCrashes
    /\ crashes' = crashes + 1
    /\ Finish(a, "none")
=============================================================================
