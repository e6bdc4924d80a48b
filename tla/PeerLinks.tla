------------------------------ MODULE PeerLinks ------------------------------
(***************************************************************************)
(* The RNS links this device opens to its peers, over the peer table of    *)
(* PeerService: those of sync cycles, which src/services/sync.py keeps in  *)
(* a pool, and those of remote commands and of link checks.                *)
(*                                                                         *)
(* Cycles are tasks of the event loop.  A command asked for through the    *)
(* socket API is one too; commands and checks of the prompt run on a loop  *)
(* of their own, but share nothing with the others except the peer table.  *)
(* RNS threads change the status of a link and deliver answers at any time.*)
(* A step is what a task does from one await to the next; where it looks   *)
(* at the link twice, an RNS thread may come between.                      *)
(***************************************************************************)
EXTENDS PeerService

CONSTANTS
    Setups,     \* what may happen: see Setup
    MaxAsks     \* bound: requests of a cycle, for the index and for files

\* alone: the service without its users.  The others are bounds: announces of
\* each peer, scans that find a change, commands, checks, calls of stop() of the
\* engine, links and requests that RNS refuses.
Setup == [alone : BOOLEAN, heard : [Peers -> Nat], rescans : Nat, commands : Nat,
          checks : Nat, stops : Nat, refusals : Nat]

ASSUME LinksAssumption ==
    /\ IsFiniteSet(Peers)
    /\ Setups \subseteq Setup
    /\ MaxAsks \in Nat \ {0}

VARIABLES
    left,       \* the setup, its bounds counted down
    links,      \* the links made so far
    pool,       \* SyncEngine._links: the number of the peer's link, 0: none
    tasks,      \* the cycles, commands and checks begun so far
    engine,     \* SyncEngine._running
    stopping,   \* does stop() wait for the scan task?
    forgotten   \* ghost: links that were let go of without being torn down

linkVars == <<left, links, pool, tasks, engine, stopping, forgotten>>
allVars == <<vars, linkVars>>

\* pending: until the handshake is over; stale: nothing was heard for long.
Link == [peer : Peers, status : {"pending", "active", "stale", "closed"}]

\* open: about to look for a link; poll: waits for it to become active; ask:
\* has an active one; await: has sent a request.
Task == [op : {"cycle", "command", "check"}, peer : Peers,
         at : {"open", "poll", "ask", "await", "ended"}, link : Nat,
         asks : Nat, reply : {"none", "answer", "failure"}]

LinksTypeOK ==
    /\ TypeOK
    /\ left \in Setup
    /\ links \in Seq(Link)
    /\ pool \in [Peers -> 0 .. Len(links)]
    /\ tasks \in Seq(Task)
    /\ \A k \in DOMAIN tasks :
          /\ tasks[k].link \in 0 .. Len(links)
          /\ tasks[k].at \in {"poll", "ask", "await"} => tasks[k].link # 0
    /\ {engine, stopping} \subseteq BOOLEAN
    /\ forgotten \subseteq DOMAIN links

LinksInit ==
    /\ Init
    /\ left \in Setups
    /\ links = <<>>
    /\ pool = [p \in Peers |-> 0]
    /\ tasks = <<>>
    /\ engine = FALSE
    /\ stopping = FALSE
    /\ forgotten = {}

-----------------------------------------------------------------------------
Used == ~left.alone

Spend(bound) ==
    /\ Used
    /\ left[bound] > 0
    /\ left' = [left EXCEPT ![bound] = @ - 1]

Refusal == Spend("refusals")

NewTask(op, p) ==
    [op |-> op, peer |-> p, at |-> "open", link |-> 0, asks |-> 0, reply |-> "none"]

Status(l) == IF l = 0 THEN "closed" ELSE links[l].status

Open(l) == Status(l) # "closed"

\* Task k is r from now on; it may be a new one.
Becomes(k, r) == tasks' = IF k \in DOMAIN tasks THEN [tasks EXCEPT ![k] = r] ELSE Append(tasks, r)

GoesOn(k, stage) == tasks' = [tasks EXCEPT ![k].at = stage]

End(k) == Becomes(k, [NewTask(tasks[k].op, tasks[k].peer) EXCEPT !.at = "ended"])

Close(l) == links' = [links EXCEPT ![l].status = "closed"]

-----------------------------------------------------------------------------
(* Getting a link.                                                         *)

\* Seeded fault: the caller does not look whether it got a link.
CreateLinkUnchecked(k, r) ==
    \/ /\ r.peer \in peers
       /\ links' = Append(links, [peer |-> r.peer, status |-> "pending"])
       /\ Becomes(k, [r EXCEPT !.at = "poll", !.link = Len(links) + 1])
       /\ UNCHANGED left
    \/ /\ IF r.peer \in peers THEN Refusal ELSE UNCHANGED left
       /\ Becomes(k, [r EXCEPT !.at = "poll"])
       /\ UNCHANGED links

\* create_link: None for a peer that is no longer in the table, or if RNS
\* raises.
CreateLink(k, r) ==
    \/ /\ r.peer \in peers
       /\ links' = Append(links, [peer |-> r.peer, status |-> "pending"])
       /\ Becomes(k, [r EXCEPT !.at = "poll", !.link = Len(links) + 1])
       /\ UNCHANGED left
    \/ /\ IF r.peer \in peers THEN Refusal ELSE UNCHANGED left
       /\ Becomes(k, [r EXCEPT !.at = "ended"])
       /\ UNCHANGED links

\* The first lines of _get_link.
GetLink(k, r) ==
    IF Status(pool[r.peer]) = "active"
      THEN /\ Becomes(k, [r EXCEPT !.at = "ask", !.link = pool[r.peer]])
           /\ UNCHANGED <<links, left>>
      ELSE CreateLink(k, r)

OpenLink(k) ==
    /\ tasks[k].at = "open"
    /\ IF tasks[k].op = "cycle" THEN GetLink(k, tasks[k]) ELSE CreateLink(k, tasks[k])
    /\ UNCHANGED <<pool, engine, stopping, forgotten>>

Mine(k) == Status(tasks[k].link)

\* A cycle sees its link active: it goes into the pool, whatever is there and
\* whatever happened since the link was asked for.
PoolLink(k) ==
    LET p == tasks[k].peer IN
    /\ tasks[k].op = "cycle" /\ tasks[k].at = "poll"
    /\ Mine(k) = "active"
    /\ pool' = [pool EXCEPT ![p] = tasks[k].link]
    /\ forgotten' = IF Open(pool[p]) THEN forgotten \cup {pool[p]} ELSE forgotten
    /\ GoesOn(k, "ask")
    /\ UNCHANGED <<left, links, engine, stopping>>

\* The look of execute_command.  A link that turned stale is left as it is.
LookForCommand(k) ==
    /\ tasks[k].op = "command" /\ tasks[k].at = "poll"
    /\ \/ Mine(k) = "active" /\ GoesOn(k, "ask") /\ UNCHANGED forgotten
       \/ Mine(k) = "closed" /\ End(k) /\ UNCHANGED forgotten
       \/ Mine(k) = "stale" /\ End(k) /\ forgotten' = forgotten \cup {tasks[k].link}
    /\ UNCHANGED <<left, links, pool, engine, stopping>>

\* The look of verify_link, which leaves the link it has verified open.
LookForCheck(k) ==
    /\ tasks[k].op = "check" /\ tasks[k].at = "poll"
    /\ \/ Mine(k) = "active" /\ forgotten' = forgotten \cup {tasks[k].link}
       \/ Mine(k) = "closed" /\ UNCHANGED forgotten
    /\ End(k)
    /\ UNCHANGED <<left, links, pool, engine, stopping>>

\* The link is still not active at the last look, after ten or fifteen seconds.
GiveUp(k) ==
    /\ tasks[k].at = "poll"
    /\ IF tasks[k].op = "command" THEN Mine(k) = "pending" ELSE Mine(k) # "active"
    /\ Close(tasks[k].link)
    /\ End(k)
    /\ UNCHANGED <<left, pool, engine, stopping, forgotten>>

-----------------------------------------------------------------------------
(* Using it.                                                               *)

\* A cycle is over if the index did not come; it asks for one file after the
\* other, come or not.
Onward(k, came) ==
    \/ End(k)
    \/ /\ came \/ tasks[k].asks > 1
       /\ tasks[k].asks < MaxAsks
       /\ tasks' = [tasks EXCEPT ![k].at = "ask", ![k].reply = "none"]

Send(k) ==
    /\ tasks[k].at = "ask"
    /\ Mine(k) # "closed"
    /\ tasks' = [tasks EXCEPT ![k].at = "await", ![k].asks = @ + 1]
    /\ UNCHANGED <<left, links, pool, engine, stopping, forgotten>>

\* request() returns False: the link was closed, or no interface takes the
\* packet.  execute_command then returns without tearing the link down.
Refused(k) ==
    /\ tasks[k].at = "ask"
    /\ IF Mine(k) = "closed" THEN UNCHANGED left ELSE Refusal
    /\ IF tasks[k].op = "cycle"
         THEN /\ \/ End(k)
                 \/ /\ tasks[k].asks \in 1 .. MaxAsks - 1
                    /\ tasks' = [tasks EXCEPT ![k].asks = @ + 1]
              /\ UNCHANGED forgotten
         ELSE /\ End(k)
              /\ forgotten' = IF Open(tasks[k].link) THEN forgotten \cup {tasks[k].link}
                                                     ELSE forgotten
    /\ UNCHANGED <<links, pool, engine, stopping>>

\* wait_for returns the answer, or raises because the request failed or the
\* answer took too long.  A command tears its link down, whichever it is.
Conclude(k) ==
    /\ tasks[k].at = "await"
    /\ IF tasks[k].op = "cycle"
         THEN Onward(k, tasks[k].reply = "answer") /\ UNCHANGED links
         ELSE Close(tasks[k].link) /\ End(k)
    /\ UNCHANGED <<left, pool, engine, stopping, forgotten>>

TaskStep(k) ==
    \/ OpenLink(k) \/ PoolLink(k) \/ LookForCommand(k) \/ LookForCheck(k) \/ GiveUp(k)
    \/ Send(k) \/ Refused(k) \/ Conclude(k)

LoopStep == \E k \in DOMAIN tasks : TaskStep(k)

-----------------------------------------------------------------------------
(* RNS threads.  An answer or a failure that comes when wait_for has given *)
(* up finds the future done.                                               *)

Awaited(k) == tasks[k].at = "await" /\ tasks[k].reply = "none" /\ Open(tasks[k].link)

Reply(k, reply) ==
    /\ tasks' = [tasks EXCEPT ![k].reply = reply]
    /\ UNCHANGED <<left, links, pool, engine, stopping, forgotten>>

\* The peer answers a request for its index or a file.
Answer(k) == tasks[k].op = "cycle" /\ Awaited(k) /\ Reply(k, "answer")

\* The peer runs the command, which takes it thirty seconds at the most, or
\* refuses to; an exception before that is no answer at all.
ServeCommand(k) == tasks[k].op = "command" /\ Awaited(k) /\ Reply(k, "answer")

\* _on_failed.  That of a command takes no argument, RNS passes one: nothing
\* comes of it.
Fail(k) == tasks[k].op = "cycle" /\ Awaited(k) /\ Reply(k, "failure")

Turns(l, from, to) ==
    /\ Status(l) \in from
    /\ links' = [links EXCEPT ![l].status = to]
    /\ UNCHANGED <<left, pool, tasks, engine, stopping, forgotten>>

LinkStep(l) ==
    \/ Turns(l, {"pending", "stale"}, "active")
    \/ Turns(l, {"active"}, "stale")
    \/ Turns(l, {"pending", "active", "stale"}, "closed")

RNSStep ==
    \/ \E k \in DOMAIN tasks : Answer(k) \/ ServeCommand(k) \/ Fail(k)
    \/ \E l \in DOMAIN links : LinkStep(l)

-----------------------------------------------------------------------------
(* The sync engine, the prompt and the socket API.                         *)

\* stop(): the scan task is cancelled; cycles are not.
StopEngine ==
    /\ Spend("stops")
    /\ engine
    /\ engine' = FALSE
    /\ stopping' = TRUE
    /\ UNCHANGED <<links, pool, tasks, forgotten>>

\* Seeded fault: the pool is cleared, its links are left open.
ClearPool ==
    /\ stopping
    /\ stopping' = FALSE
    /\ pool' = [p \in Peers |-> 0]
    /\ UNCHANGED <<left, links, tasks, engine, forgotten>>

\* The end of stop().
TearDownPool ==
    /\ stopping
    /\ stopping' = FALSE
    /\ links' = [l \in DOMAIN links |->
                    IF l = pool[links[l].peer] THEN [links[l] EXCEPT !.status = "closed"]
                                               ELSE links[l]]
    /\ pool' = [p \in Peers |-> 0]
    /\ UNCHANGED <<left, tasks, engine, forgotten>>

StartEngine ==
    /\ Used
    /\ ~engine
    /\ engine' = TRUE
    /\ UNCHANGED <<left, links, pool, tasks, stopping, forgotten>>

\* A scan finds a change: a cycle with every peer in the table.
Rescan ==
    /\ engine
    /\ Spend("rescans")
    /\ \E order \in [1 .. Cardinality(peers) -> peers] :
          /\ \A p \in peers : \E i \in DOMAIN order : order[i] = p
          /\ tasks' = tasks \o [i \in DOMAIN order |-> NewTask("cycle", order[i])]
    /\ UNCHANGED <<links, pool, engine, stopping, forgotten>>

\* A command or a check names a peer that is in the table.
Begin(op, bound) ==
    /\ Spend(bound)
    /\ \E p \in peers : tasks' = Append(tasks, NewTask(op, p))
    /\ UNCHANGED <<links, pool, engine, stopping, forgotten>>

ExecuteCommand == Begin("command", "commands")

VerifyLink == Begin("check", "checks")

-----------------------------------------------------------------------------
(* The events of the peer table.  The engine subscribes when it is made    *)
(* and handles them whether it runs or not.                                *)

\* _on_peer_discovered: a cycle, up to its first await.
OnDiscovered(p) ==
    /\ GetLink(Len(tasks) + 1, NewTask("cycle", p))
    /\ UNCHANGED <<pool, engine, stopping, forgotten>>

OnLost(p) ==
    /\ pool' = [pool EXCEPT ![p] = 0]
    /\ IF pool[p] = 0 THEN UNCHANGED links ELSE Close(pool[p])
    /\ UNCHANGED <<left, tasks, engine, stopping, forgotten>>

PublishToEngine ==
    /\ Publish
    /\ \/ ~Used /\ UNCHANGED linkVars
       \/ Used /\ Head(queue).type = "discovered" /\ OnDiscovered(Head(queue).peer)
       \/ Used /\ Head(queue).type = "lost" /\ OnLost(Head(queue).peer)

\* The service is stopped and restarted, and announces itself without end, only
\* where it is alone.
ServiceStep ==
    \/ (ThreadStep \/ FirstStart) /\ UNCHANGED linkVars
    \/ ~Used /\ (StartRaises \/ Stop) /\ UNCHANGED linkVars
    \/ \E p \in Peers :
          /\ Announce(p)
          /\ \/ ~Used /\ UNCHANGED left
             \/ Used /\ left.heard[p] > 0 /\ left' = [left EXCEPT !.heard[p] = @ - 1]
          /\ UNCHANGED <<links, pool, tasks, engine, stopping, forgotten>>

LinksNext ==
    \/ ServiceStep
    \/ PublishToEngine
    \/ /\ \/ LoopStep \/ RNSStep
          \/ StartEngine \/ StopEngine \/ TearDownPool \/ Rescan
          \/ ExecuteCommand \/ VerifyLink
       /\ UNCHANGED vars

\* Of the fairness of PeerService what the property below needs: the expiry
\* thread gets to run.
LinksFairness ==
    /\ WF_allVars(Collect /\ UNCHANGED linkVars)
    /\ WF_allVars(ReportLost /\ UNCHANGED linkVars)
    /\ WF_allVars(ExpiryTurn /\ UNCHANGED linkVars)
    /\ \A p \in Peers : WF_allVars(Expire(p) /\ UNCHANGED linkVars)

LinksSpec == LinksInit /\ [][LinksNext]_allVars /\ LinksFairness

-----------------------------------------------------------------------------

\* Whatever is lost, discovered, stopped or started while links are being made,
\* a link that is open is in the pool, or a task that is not over has it; but
\* for those the code lets go of: a cycle puts its link in the place of an
\* open one, a command finds its link stale or its request refused, a check
\* has succeeded (_get_link, stop, _on_peer_lost, execute_command).
LinksAreAccountedFor ==
    \A l \in DOMAIN links :
        Open(l) => \/ l \in forgotten
                   \/ pool[links[l].peer] = l
                   \/ \E k \in DOMAIN tasks : tasks[k].link = l
=============================================================================
