------------------------------ MODULE I2PManager ------------------------------
(***************************************************************************)
(* src/services/i2p_manager.py: the manager launches an i2pd of its own    *)
(* unless one answers on the SAM port, and leaves a thread behind that     *)
(* waits for it to answer.                                                 *)
(*                                                                         *)
(* An i2pd answers on the port once it has built its tunnels, and ends when *)
(* it likes; somebody else may run one: whoever looks may find either.      *)
(*                                                                         *)
(* start() and stop() run on whatever thread their caller runs on and      *)
(* never give way to other coroutines; their steps here are what the other *)
(* threads can see.  Module AppLifecycle says who calls them.              *)
(***************************************************************************)
EXTENDS Naturals

VARIABLES
    installed,      \* is there an i2pd to launch?
    i2pRunning,     \* _running
    available,      \* _available
    process,        \* _process: the i2pd launched last, 0: none
    launches,       \* i2pds launched so far
    daemons,        \* those still alive
    startedTwice,   \* ghost: was start() called again before stop()?
    monitors        \* the i2p-monitor threads, by the i2pd they were made for

i2pVars == <<installed, i2pRunning, available, process, launches, daemons, startedTwice,
             monitors>>

I2PInit ==
    /\ installed \in BOOLEAN
    /\ i2pRunning = FALSE
    /\ available = FALSE
    /\ process = 0
    /\ launches = 0
    /\ daemons = {}
    /\ startedTwice = FALSE
    /\ monitors = [poll |-> {}, seen |-> {}]

I2PType ==
    /\ installed \in BOOLEAN
    /\ i2pRunning \in BOOLEAN
    /\ available \in BOOLEAN
    /\ launches \in Nat
    /\ process \in 0 .. launches
    /\ daemons \subseteq 1 .. launches
    /\ startedTwice \in BOOLEAN
    /\ monitors \in [poll : SUBSET (1 .. launches), seen : SUBSET (1 .. launches)]

-----------------------------------------------------------------------------
(* start() and stop()                                                      *)

\* start() needs no i2pd of its own: there is none to launch, or one answers on
\* the SAM port already.
NothingToLaunch(samReachable) == ~installed \/ samReachable

\* The first half of start(), up to the look at the SAM port.  There is no
\* guard: a second start() goes the same way.
Probe(samReachable) ==
    /\ i2pRunning' = TRUE
    /\ startedTwice' = (startedTwice \/ i2pRunning)
    /\ available' = (available \/ (installed /\ samReachable))
    /\ UNCHANGED <<installed, process, launches, daemons, monitors>>

\* _launch_i2pd_background; a failure of Popen is logged and forgotten.
Launch ==
    /\ launches' = launches + 1
    /\ process' = launches + 1
    /\ daemons' = daemons \cup {launches + 1}
    /\ monitors' = [monitors EXCEPT !.poll = @ \cup {launches + 1}]
    /\ UNCHANGED <<installed, i2pRunning, available, startedTwice>>

\* Seeded fault: _process is not terminated, but taken to end by itself.
TerminateNone ==
    /\ i2pRunning' = FALSE
    /\ UNCHANGED <<installed, available, process, launches, daemons, startedTwice, monitors>>

\* stop() up to the end of the i2pd: the last one launched, no other.
Terminate ==
    /\ i2pRunning' = FALSE
    /\ daemons' = daemons \ {process}
    /\ UNCHANGED <<installed, available, process, launches, startedTwice, monitors>>

\* The end of stop().
MarkGone ==
    /\ available' = FALSE
    /\ UNCHANGED <<installed, i2pRunning, process, launches, daemons, startedTwice, monitors>>

-----------------------------------------------------------------------------
(* _wait_for_sam, on a thread of its own for each launch.                  *)

MonitorSees(d) ==
    /\ d \in monitors.poll
    /\ i2pRunning
    /\ monitors' = [poll |-> monitors.poll \ {d}, seen |-> monitors.seen \cup {d}]
    /\ UNCHANGED <<installed, i2pRunning, available, process, launches, daemons, startedTwice>>

\* The flag is set after the connection was closed, whatever stop() did since.
MonitorReports(d) ==
    /\ d \in monitors.seen
    /\ available' = TRUE
    /\ monitors' = [monitors EXCEPT !.seen = @ \ {d}]
    /\ UNCHANGED <<installed, i2pRunning, process, launches, daemons, startedTwice>>

\* stop() is noticed within five seconds; besides, the thread waits for at
\* most SAM_STARTUP_TIMEOUT seconds.
MonitorEnds(d) ==
    /\ d \in monitors.poll
    /\ monitors' = [monitors EXCEPT !.poll = @ \ {d}]
    /\ UNCHANGED <<installed, i2pRunning, available, process, launches, daemons, startedTwice>>

MonitorStep(d) == MonitorSees(d) \/ MonitorReports(d) \/ MonitorEnds(d)

\* An i2pd ends by itself; nobody is told.
DaemonDies(d) ==
    /\ d \in daemons
    /\ daemons' = daemons \ {d}
    /\ UNCHANGED <<installed, i2pRunning, available, process, launches, startedTwice, monitors>>

I2PStep ==
    \/ \E d \in daemons : DaemonDies(d)
    \/ \E d \in 1 .. launches : MonitorStep(d)
=============================================================================
