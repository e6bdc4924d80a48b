---------------------------- MODULE ContainerShell ----------------------------
(***************************************************************************)
(* The state machine of src/container/manager.py and its shell server: a   *)
(* Unix socket and the threads that accept connections on it.              *)
(*                                                                         *)
(* As with the I2P manager, a step is what other threads can see of        *)
(* start() and stop(), which never give way to other coroutines.           *)
(***************************************************************************)
EXTENDS Naturals

VARIABLES
    containerState, \* _state
    shellRunning,   \* _shell_running
    shells,         \* shell sockets made so far
    shellSocket,    \* _shell_socket, 0: None
    shellPath,      \* the socket the path in the file system leads to, 0: none
    acceptors       \* accept threads: [made for, at, socket waited on]

shellVars == <<containerState, shellRunning, shells, shellSocket, shellPath, acceptors>>

ContainerStates == {"stopped", "starting", "running", "stopping", "error"}

\* test: about to look at _shell_running; busy: in accept() on the socket, or
\* relaying between a client it accepted there and the client's shell.
Acceptor == [made : Nat, at : {"test", "busy"}, on : Nat]

ShellInit ==
    /\ containerState = "stopped"
    /\ shellRunning = FALSE
    /\ shells = 0
    /\ shellSocket = 0
    /\ shellPath = 0
    /\ acceptors = {}

ShellType ==
    /\ containerState \in ContainerStates
    /\ shellRunning \in BOOLEAN
    /\ shells \in Nat
    /\ shellSocket \in 0 .. shells
    /\ shellPath \in 0 .. shells
    /\ acceptors \subseteq Acceptor
    /\ \A a \in acceptors : a.at = "busy" => a.on \in 1 .. shells

-----------------------------------------------------------------------------
(* start() and stop()                                                      *)

SetState(state) == containerState' = state

\* start() of a container that is not running: mounts and host name follow.
Starting ==
    /\ SetState("starting")
    /\ UNCHANGED <<shellRunning, shells, shellSocket, shellPath, acceptors>>

\* The end of start(): _start_shell_server takes over the path and starts an
\* accept thread, or raises while it does.
Serving ==
    /\ SetState("running")
    /\ shells' = shells + 1
    /\ shellSocket' = shells + 1
    /\ shellPath' = shells + 1
    /\ shellRunning' = TRUE
    /\ acceptors' = acceptors \cup {[made |-> shells + 1, at |-> "test", on |-> 0]}

ServingFails ==
    /\ SetState("error")
    /\ shells' = shells + 1
    /\ shellSocket' = shells + 1
    /\ shellPath' = 0
    /\ UNCHANGED <<shellRunning, acceptors>>

\* Seeded fault: the server's path is left in the file system.
ClosingLeavesPath ==
    /\ SetState("stopping")
    /\ shellRunning' = FALSE
    /\ shellSocket' = 0
    /\ UNCHANGED <<shells, shellPath, acceptors>>

\* stop() of a container that is not stopped, with _stop_shell_server.
Closing ==
    /\ SetState("stopping")
    /\ shellRunning' = FALSE
    /\ shellSocket' = 0
    /\ shellPath' = 0
    /\ UNCHANGED <<shells, acceptors>>

\* The end of stop(), after the file systems were unmounted.
Closed ==
    /\ SetState("stopped")
    /\ UNCHANGED <<shellRunning, shells, shellSocket, shellPath, acceptors>>

-----------------------------------------------------------------------------
(* _shell_accept_loop.  It looks at the attributes, not at the socket it   *)
(* was started for: after a quick stop and start it waits on the new one.  *)

Turn(a, next) ==
    /\ acceptors' = (acceptors \ {a}) \cup next
    /\ UNCHANGED <<containerState, shellRunning, shells, shellSocket, shellPath>>

\* Seeded fault: the thread does not look at _shell_running.
AcceptorGoesOn(a) ==
    /\ a.at = "test"
    /\ Turn(a, {[a EXCEPT !.at = "busy", !.on = shellSocket]})

AcceptorTests(a) ==
    /\ a.at = "test"
    /\ Turn(a, IF shellRunning THEN {[a EXCEPT !.at = "busy", !.on = shellSocket]} ELSE {})

\* One second without a client; or a client that has left, was idle or whose
\* shell has ended; or _shell_running was cleared meanwhile.
AcceptorReturns(a) ==
    /\ a.at = "busy"
    /\ Turn(a, {[a EXCEPT !.at = "test"]})

\* The socket was closed under it, or never bound: accept() may raise.
AcceptorBreaks(a) ==
    /\ a.at = "busy"
    /\ a.on # shellPath
    /\ Turn(a, {})

AcceptorStep(a) == AcceptorTests(a) \/ AcceptorReturns(a) \/ AcceptorBreaks(a)

ShellStep == \E a \in acceptors : AcceptorStep(a)
=============================================================================
