----------------------------- MODULE PeerService -----------------------------
(***************************************************************************)
(* The peer table of src/services/reticulum_peer.py on one device, the     *)
(* threads that change it and the events that tell the rest of the program.*)
(*                                                                         *)
(* RNS runs a thread of its own for every announce it hears; the expiry    *)
(* loop is another thread; both hold _lock while they change the table and *)
(* hand the event to the asyncio loop after they released it, so the loop  *)
(* may see the events in another order than the table saw the changes.     *)
(* start() and stop() run on the loop, from main.py or the socket API.     *)
(*                                                                         *)
(* A step is what a thread does between two points where another thread's  *)
(* step would matter: an acquisition of _lock, a hand-over to the loop, a  *)
(* look at _running.                                                       *)
(***************************************************************************)
EXTENDS Integers, Sequences, FiniteSets

CONSTANTS
    Peers,     \* the other devices' RNS destinations
    NoPeer,    \* no peer popped
    MaxHeard,  \* bound: handlers of each peer's announces at a time
    MaxQueue,  \* bound: events waiting in the loop when one more announce comes
    MaxStops   \* bound: calls of stop()

ASSUME PeerAssumption ==
    /\ NoPeer \notin Peers
    /\ MaxHeard \in [Peers -> Nat]
    /\ MaxQueue \in Nat
    /\ MaxStops \in Nat

Event == [type : {"discovered", "lost"}, peer : Peers]

VARIABLES
    running,    \* _running
    rns,        \* the process-wide RNS.Reticulum object: see RnsStates
    announcer,  \* is the announce thread alive?
    expiry,     \* where the expiry thread is: see ExpiryStages
    expired,    \* its local list of peers to remove
    popped,     \* the peer it removed and has not reported yet
    peers,      \* the keys of _peers
    silent,     \* those whose last_seen is older than _peer_timeout
    heard,      \* announces of each peer whose handler has not locked yet
    added,      \* handlers that added the peer and have not reported it yet
    queue,      \* events handed to the asyncio loop
    balance,    \* ghost: discoveries less losses the loop has published
    stops       \* ghost: calls of stop() so far

vars == <<running, rns, announcer, expiry, expired, popped, peers, silent,
          heard, added, queue, balance, stops>>

threads == <<announcer, expiry, expired, popped>>
table   == <<peers, silent, heard, added>>
events  == <<queue, balance>>

\* "failed": RNS.Reticulum() raised, but only after it had recorded itself as
\* the one instance the process may have.
RnsStates == {"none", "up", "failed"}

\* sleep: in time.sleep; sweep: over the expired peers; report: one is popped.
ExpiryStages == {"none", "sleep", "sweep", "report", "ended"}

Init ==
    /\ running = FALSE
    /\ rns = "none"
    /\ announcer = FALSE
    /\ expiry = "none"
    /\ expired = {}
    /\ popped = NoPeer
    /\ peers = {}
    /\ silent = {}
    /\ heard = [p \in Peers |-> 0]
    /\ added = [p \in Peers |-> 0]
    /\ queue = <<>>
    /\ balance = [p \in Peers |-> 0]
    /\ stops = 0

-----------------------------------------------------------------------------
(* start() and stop()                                                      *)

\* The first start() of the process creates RNS and the two threads.
FirstStart ==
    /\ ~running
    /\ rns = "none"
    /\ running' = TRUE
    /\ rns' = "up"
    /\ announcer' = TRUE
    /\ expiry' = "sleep"
    /\ UNCHANGED <<expired, popped, table, events, stops>>

\* _init_rns() raises: always once RNS exists, and perhaps the first time.
\* _running was set before and stays set, and no thread is started.
StartRaises ==
    /\ ~running
    /\ running' = TRUE
    /\ rns' = IF rns = "none" THEN "failed" ELSE rns
    /\ UNCHANGED <<threads, table, events, stops>>

\* The announce handler stays registered with RNS.
Stop ==
    /\ stops < MaxStops
    /\ stops' = stops + 1
    /\ running' = FALSE
    /\ UNCHANGED <<rns, threads, table, events>>

\* The announce thread looks at _running ten times a second.
AnnouncerEnds ==
    /\ announcer
    /\ ~running
    /\ announcer' = FALSE
    /\ UNCHANGED <<running, rns, expiry, expired, popped, table, events, stops>>

-----------------------------------------------------------------------------
(* Announces                                                               *)

\* RNS hears an announce of p and starts a thread for the handler.
Announce(p) ==
    /\ rns = "up"
    /\ heard[p] + added[p] < MaxHeard[p]
    /\ Len(queue) < MaxQueue
    /\ heard' = [heard EXCEPT ![p] = @ + 1]
    /\ UNCHANGED <<running, rns, threads, peers, silent, added, events, stops>>

\* Seeded fault: the handler reports the peer whether it is new or not.
OnAnnounceAlwaysNew(p) ==
    /\ heard[p] > 0
    /\ heard' = [heard EXCEPT ![p] = @ - 1]
    /\ peers' = peers \cup {p}
    /\ silent' = silent \ {p}
    /\ added' = [added EXCEPT ![p] = @ + 1]
    /\ UNCHANGED <<running, rns, threads, events, stops>>

\* The critical section of _on_announce.
OnAnnounce(p) ==
    /\ heard[p] > 0
    /\ heard' = [heard EXCEPT ![p] = @ - 1]
    /\ peers' = peers \cup {p}
    /\ silent' = silent \ {p}
    /\ added' = [added EXCEPT ![p] = IF p \in peers THEN @ ELSE @ + 1]
    /\ UNCHANGED <<running, rns, threads, events, stops>>

ReportDiscovered(p) ==
    /\ added[p] > 0
    /\ added' = [added EXCEPT ![p] = @ - 1]
    /\ queue' = Append(queue, [type |-> "discovered", peer |-> p])
    /\ UNCHANGED <<running, rns, threads, peers, silent, heard, balance, stops>>

\* _peer_timeout passes without an announce of p.
FallSilent(p) ==
    /\ p \in peers \ silent
    /\ silent' = silent \cup {p}
    /\ UNCHANGED <<running, rns, threads, peers, heard, added, events, stops>>

-----------------------------------------------------------------------------
(* The expiry loop                                                         *)

\* The thread wakes and, whatever _running says by now, lists the silent.
Collect ==
    /\ expiry = "sleep"
    /\ expiry' = "sweep"
    /\ expired' = peers \cap silent
    /\ UNCHANGED <<running, rns, announcer, popped, table, events, stops>>

\* _peers.pop(pid, None): the peer goes even if it announced itself since.
Expire(p) ==
    /\ expiry = "sweep"
    /\ p \in expired
    /\ expired' = expired \ {p}
    /\ peers' = peers \ {p}
    /\ silent' = silent \ {p}
    /\ expiry' = IF p \in peers THEN "report" ELSE "sweep"
    /\ popped' = IF p \in peers THEN p ELSE NoPeer
    /\ UNCHANGED <<running, rns, announcer, heard, added, events, stops>>

\* Seeded fault: the event is made after the thread let go of the peer.
ReportLostCleared ==
    /\ expiry = "report"
    /\ expiry' = "sweep"
    /\ popped' = NoPeer
    /\ queue' = Append(queue, [type |-> "lost", peer |-> popped'])
    /\ UNCHANGED <<running, rns, announcer, expired, table, balance, stops>>

ReportLost ==
    /\ expiry = "report"
    /\ expiry' = "sweep"
    /\ popped' = NoPeer
    /\ queue' = Append(queue, [type |-> "lost", peer |-> popped])
    /\ UNCHANGED <<running, rns, announcer, expired, table, balance, stops>>

\* Seeded fault: the thread sweeps once.
ExpiryTurnOnce ==
    /\ expiry = "sweep"
    /\ expired = {}
    /\ expiry' = "ended"
    /\ UNCHANGED <<running, rns, announcer, expired, popped, table, events,
                   stops>>

\* while self._running
ExpiryTurn ==
    /\ expiry = "sweep"
    /\ expired = {}
    /\ expiry' = IF running THEN "sleep" ELSE "ended"
    /\ UNCHANGED <<running, rns, announcer, expired, popped, table, events,
                   stops>>

-----------------------------------------------------------------------------
(* The asyncio loop publishes the events in the order it was given them.   *)

Publish ==
    /\ queue # <<>>
    /\ queue' = Tail(queue)
    /\ balance' = [balance EXCEPT ![Head(queue).peer] =
                      IF Head(queue).type = "discovered" THEN @ + 1 ELSE @ - 1]
    /\ UNCHANGED <<running, rns, threads, table, stops>>

-----------------------------------------------------------------------------
\* What the threads and the passing of time do.
ThreadStep ==
    \/ AnnouncerEnds \/ Collect \/ ReportLost \/ ExpiryTurn
    \/ \E p \in Peers : OnAnnounce(p) \/ ReportDiscovered(p) \/ FallSilent(p) \/ Expire(p)

Next ==
    \/ FirstStart \/ StartRaises \/ Stop
    \/ \E p \in Peers : Announce(p)
    \/ ThreadStep
    \/ Publish

Spec == Init /\ [][Next]_vars

(***************************************************************************)
(* Every thread that is alive gets to run and the loop runs what it was    *)
(* given.  Nobody need call start() or stop(), and no peer need announce   *)
(* itself or fall silent.                                                  *)
(***************************************************************************)
Fairness ==
    /\ WF_vars(AnnouncerEnds)
    /\ WF_vars(Collect) /\ WF_vars(ReportLost) /\ WF_vars(ExpiryTurn)
    /\ WF_vars(Publish)
    /\ \A p \in Peers :
         WF_vars(OnAnnounce(p)) /\ WF_vars(ReportDiscovered(p))
                                /\ WF_vars(Expire(p))

FairSpec == Spec /\ Fairness

-----------------------------------------------------------------------------
TypeOK ==
    /\ running \in BOOLEAN
    /\ rns \in RnsStates
    /\ announcer \in BOOLEAN
    /\ expiry \in ExpiryStages
    /\ expired \in SUBSET Peers
    /\ popped \in Peers \cup {NoPeer}
    /\ peers \in SUBSET Peers
    /\ silent \in SUBSET peers
    /\ heard \in [Peers -> Nat]
    /\ added \in [Peers -> Nat]
    /\ queue \in Seq(Event)
    /\ balance \in [Peers -> Int]
    /\ stops \in 0 .. MaxStops

-----------------------------------------------------------------------------
InQueue(type, p) ==
    Cardinality({i \in DOMAIN queue : queue[i] = [type |-> type, peer |-> p]})

\* Although the events leave in any order, none is lost and none is made up:
\* the discoveries of a peer, published or still on their way, are as many as
\* its losses, and one more exactly while it is in the table.
EventsAccountForTable ==
    \A p \in Peers :
        balance[p] + added[p] + InQueue("discovered", p)
            = InQueue("lost", p) + (IF popped = p THEN 1 ELSE 0)
                                 + (IF p \in peers THEN 1 ELSE 0)


\* In a process that never stops the service a silent peer is removed.
SilentPeersExpire ==
    \A p \in Peers : p \in silent ~> p \notin silent \/ stops > 0

\* "Remove peers that haven't announced recently" (reticulum_peer.py:361):
\* as long as is_running() says that the service runs, a silent peer does not
\* stay in the table for ever.
SilentPeersExpireWhileRunning ==
    \A p \in Peers : p \in silent /\ running ~> p \notin silent \/ ~running
=============================================================================
