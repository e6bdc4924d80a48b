--------------------------- MODULE PeerLinksProofs ---------------------------
(***************************************************************************)
(* The type invariant of PeerLinks, that no open link is lost but in the   *)
(* ways LinksAreAccountedFor names, and that the users of the peer service *)
(* leave alone what PeerServiceProofs shows of it.                         *)
(*                                                                         *)
(* A link is safe if it is closed, was let go of, or is in the pool.  What *)
(* LinksAreAccountedFor says is not inductive: a cycle that ends takes its *)
(* link from the tasks, and stop() empties the pool.  It becomes so with   *)
(* what a cycle knows of the link it uses: it is safe, because the cycle   *)
(* put it into the pool, or found it there, and all who take a link from   *)
(* the pool close it, or let go of it.                                     *)
(***************************************************************************)
EXTENDS PeerLinks, PeerServiceProofs

Safe(l) ==
    \/ links[l].status = "closed"
    \/ l \in forgotten
    \/ pool[links[l].peer] = l

PoolInv ==
    /\ links \in Seq(Link)
    /\ pool \in [Peers -> 0 .. Len(links)]
    /\ forgotten \subseteq DOMAIN links
    /\ \A p \in Peers : pool[p] # 0 => links[pool[p]].peer = p

TaskInv(k) ==
    /\ tasks[k].link \in 0 .. Len(links)
    /\ tasks[k].link = 0 <=> tasks[k].at \in {"open", "ended"}
    /\ tasks[k].link # 0 => links[tasks[k].link].peer = tasks[k].peer
    /\ tasks[k].op = "cycle" /\ tasks[k].at \in {"ask", "await"} => Safe(tasks[k].link)

Covered(l) == Safe(l) \/ \E k \in DOMAIN tasks : tasks[k].link = l

LinkInv ==
    /\ PoolInv
    /\ tasks \in Seq(Task)
    /\ \A k \in DOMAIN tasks : TaskInv(k)
    /\ \A l \in DOMAIN links : Covered(l)

-----------------------------------------------------------------------------
(* How sequences change.                                                   *)

\* The links there were keep their peers, those closed stay closed.
Keeps ==
    /\ DOMAIN links \subseteq DOMAIN links'
    /\ \A l \in DOMAIN links :
          /\ links'[l].peer = links[l].peer
          /\ links[l].status = "closed" => links'[l].status = "closed"

LEMMA SetStatus ==
    ASSUME links \in Seq(Link), NEW l \in DOMAIN links,
           NEW s \in {"pending", "active", "stale", "closed"},
           links' = [links EXCEPT ![l].status = s]
    PROVE  /\ links' \in Seq(Link)
           /\ Len(links') = Len(links)
           /\ DOMAIN links' = DOMAIN links
           /\ \A i \in DOMAIN links :
                 /\ links'[i].peer = links[i].peer
                 /\ links'[i].status = IF i = l THEN s ELSE links[i].status
<1>1. /\ Len(links) \in Nat /\ DOMAIN links = 1 .. Len(links)
      /\ \A i \in 1 .. Len(links) : links[i] \in Link
  BY LenProperties, ElementOfSeq
<1>2. [links[l] EXCEPT !.status = s] \in Link
  BY <1>1 DEF Link
<1>3. links' = [links EXCEPT ![l] = [links[l] EXCEPT !.status = s]]
  OBVIOUS
<1>4. /\ links' \in Seq(Link) /\ Len(links') = Len(links)
      /\ \A j \in 1 .. Len(links) :
            links'[j] = IF j = l THEN [links[l] EXCEPT !.status = s] ELSE links[j]
  BY <1>1, <1>2, <1>3, ExceptSeq
<1>5. DOMAIN links' = 1 .. Len(links')
  BY <1>4, LenProperties
<1>. QED  BY <1>1, <1>4, <1>5 DEF Link

LEMMA NewLink ==
    ASSUME links \in Seq(Link), NEW p \in Peers,
           links' = Append(links, [peer |-> p, status |-> "pending"])
    PROVE  /\ links' \in Seq(Link)
           /\ Len(links') = Len(links) + 1
           /\ DOMAIN links' = DOMAIN links \cup {Len(links) + 1}
           /\ Len(links) + 1 \notin DOMAIN links
           /\ \A i \in DOMAIN links : links'[i] = links[i]
           /\ links'[Len(links) + 1] = [peer |-> p, status |-> "pending"]
<1>1. Len(links) \in Nat /\ DOMAIN links = 1 .. Len(links)
  BY LenProperties
<1>2. [peer |-> p, status |-> "pending"] \in Link
  BY DEF Link
<1>3. links' \in Seq(Link) /\ Len(links') = Len(links) + 1
  BY <1>2
<1>4. DOMAIN links' = 1 .. Len(links')
  BY <1>3, LenProperties
<1>. QED  BY <1>1, <1>3, <1>4

\* The task k becomes r; if there is no such task yet it is the next one.
LEMMA TaskBecomes ==
    ASSUME tasks \in Seq(Task), NEW r \in Task, NEW k,
           k \in DOMAIN tasks \/ k = Len(tasks) + 1, Becomes(k, r)
    PROVE  /\ tasks' \in Seq(Task)
           /\ DOMAIN tasks' = DOMAIN tasks \cup {k}
           /\ tasks'[k] = r
           /\ \A j \in DOMAIN tasks : j # k => tasks'[j] = tasks[j]
<1>1. Len(tasks) \in Nat /\ DOMAIN tasks = 1 .. Len(tasks)
  BY LenProperties
<1>2. CASE k \in DOMAIN tasks
  <2>1. tasks' = [tasks EXCEPT ![k] = r]
    BY <1>2 DEF Becomes
  <2>2. /\ tasks' \in Seq(Task) /\ Len(tasks') = Len(tasks)
        /\ \A j \in 1 .. Len(tasks) : tasks'[j] = IF j = k THEN r ELSE tasks[j]
    BY <1>1, <1>2, <2>1, ExceptSeq
  <2>3. DOMAIN tasks' = 1 .. Len(tasks')
    BY <2>2, LenProperties
  <2>. QED  BY <1>1, <1>2, <2>2, <2>3
<1>3. CASE k \notin DOMAIN tasks
  <2>1. tasks' = Append(tasks, r)
    BY <1>3 DEF Becomes
  <2>2. tasks' \in Seq(Task) /\ Len(tasks') = Len(tasks) + 1
    BY <2>1
  <2>3. DOMAIN tasks' = 1 .. Len(tasks')
    BY <2>2, LenProperties
  <2>. QED  BY <1>1, <1>3, <2>1, <2>2, <2>3
<1>. QED  BY <1>2, <1>3

-----------------------------------------------------------------------------
(* One task k at a time: what a step has to show of the links and of k.    *)

LEMMA OthersGoOn ==
    ASSUME LinkInv, PoolInv', Keeps,
           \A l \in DOMAIN links : Safe(l) => Safe(l)',
           tasks' \in Seq(Task),
           NEW k,
           DOMAIN tasks' = DOMAIN tasks \cup {k},
           \A j \in DOMAIN tasks : j # k => tasks'[j] = tasks[j],
           TaskInv(k)',
           \A l \in DOMAIN links :
               k \in DOMAIN tasks /\ tasks[k].link = l => tasks'[k].link = l \/ Safe(l)',
           \A l \in DOMAIN links' \ DOMAIN links : tasks'[k].link = l
    PROVE  LinkInv'
<1>0. /\ DOMAIN links = 1 .. Len(links) /\ Len(links) \in Nat
      /\ DOMAIN links' = 1 .. Len(links') /\ Len(links') \in Nat
  BY LenProperties DEF LinkInv, PoolInv
<1>1. ASSUME NEW j \in DOMAIN tasks', j # k
      PROVE  TaskInv(j)'
  <2>1. j \in DOMAIN tasks /\ tasks'[j] = tasks[j] /\ TaskInv(j)
    BY <1>1 DEF LinkInv
  <2>2. tasks[j].link # 0 => tasks[j].link \in DOMAIN links
    BY <1>0, <2>1 DEF TaskInv
  <2>3. tasks'[j].link \in 0 .. Len(links')
    BY <1>0, <2>1, <2>2 DEF TaskInv, Keeps
  <2>4. tasks'[j].link = 0 <=> tasks'[j].at \in {"open", "ended"}
    BY <2>1 DEF TaskInv
  <2>5. tasks'[j].link # 0 => links'[tasks'[j].link].peer = tasks'[j].peer
    BY <2>1, <2>2 DEF TaskInv, Keeps
  <2>6. tasks'[j].op = "cycle" /\ tasks'[j].at \in {"ask", "await"} => Safe(tasks[j].link)'
    <3>1. SUFFICES ASSUME tasks[j].op = "cycle", tasks[j].at \in {"ask", "await"}
                   PROVE  Safe(tasks[j].link)'
      BY <2>1
    <3>2. tasks[j].link # 0 /\ Safe(tasks[j].link)
      BY <2>1, <3>1 DEF TaskInv
    <3>. QED  BY <2>1, <2>2, <3>2
  <2>. QED  BY <2>1, <2>3, <2>4, <2>5, <2>6 DEF TaskInv, Safe
<1>2. ASSUME NEW l \in DOMAIN links'
      PROVE  Covered(l)'
  <2>1. CASE l \notin DOMAIN links
    BY <2>1 DEF Covered
  <2>2. CASE l \in DOMAIN links /\ Safe(l)
    BY <2>2 DEF Covered
  <2>3. ASSUME l \in DOMAIN links, NEW j \in DOMAIN tasks, tasks[j].link = l
        PROVE  Covered(l)'
    <3>1. CASE j = k
      BY <2>3, <3>1 DEF Covered
    <3>2. CASE j # k
      BY <2>3, <3>2 DEF Covered
    <3>. QED  BY <3>1, <3>2
  <2>. QED  BY <2>1, <2>2, <2>3 DEF LinkInv, Covered
<1>. QED  BY <1>1, <1>2 DEF LinkInv

\* The tasks keep their stages and links.
LEMMA TasksGoOn ==
    ASSUME LinkInv, PoolInv', Keeps,
           \A l \in DOMAIN links : Safe(l) => Safe(l)',
           DOMAIN links' = DOMAIN links,
           UNCHANGED tasks
    PROVE  LinkInv'
<1>0. /\ DOMAIN links = 1 .. Len(links) /\ Len(links) \in Nat
      /\ DOMAIN links' = 1 .. Len(links') /\ Len(links') \in Nat
  BY LenProperties DEF LinkInv, PoolInv
<1>1. ASSUME NEW j \in DOMAIN tasks
      PROVE  TaskInv(j)'
  <2>1. TaskInv(j)
    BY DEF LinkInv
  <2>2. tasks[j].link # 0 => tasks[j].link \in DOMAIN links
    BY <1>0, <2>1 DEF TaskInv
  <2>3. tasks[j].op = "cycle" /\ tasks[j].at \in {"ask", "await"} => Safe(tasks[j].link)'
    <3>1. SUFFICES ASSUME tasks[j].op = "cycle", tasks[j].at \in {"ask", "await"}
                   PROVE  Safe(tasks[j].link)'
      OBVIOUS
    <3>2. tasks[j].link # 0 /\ Safe(tasks[j].link)
      BY <2>1, <3>1 DEF TaskInv
    <3>. QED  BY <2>2, <3>2
  <2>. QED  BY <1>0, <2>1, <2>2, <2>3 DEF TaskInv, Keeps, Safe
<1>2. ASSUME NEW l \in DOMAIN links
      PROVE  Covered(l)'
  BY DEF LinkInv, Covered
<1>. QED  BY <1>1, <1>2 DEF LinkInv

-----------------------------------------------------------------------------
(* The steps of a task.                                                    *)

\* Where neither a link nor the pool changes.
LEMMA SameLinks ==
    ASSUME LinkInv, UNCHANGED <<links, pool>>,
           forgotten' = forgotten \/ \E l \in DOMAIN links : forgotten' = forgotten \cup {l}
    PROVE  PoolInv' /\ Keeps /\ \A l \in DOMAIN links : Safe(l) => Safe(l)'
BY DEF LinkInv, PoolInv, Keeps, Safe

\* The same links, whose peers are the same, and no link put into the pool.
LEMMA PoolHolds ==
    ASSUME PoolInv, links' \in Seq(Link), Len(links') = Len(links),
           DOMAIN links' = DOMAIN links,
           \A i \in DOMAIN links : links'[i].peer = links[i].peer,
           pool' \in [Peers -> 0 .. Len(links)],
           \A p \in Peers : pool'[p] \in {0, pool[p]},
           forgotten' \subseteq DOMAIN links
    PROVE  PoolInv'
<1>1. DOMAIN links = 1 .. Len(links) /\ Len(links) \in Nat
  BY LenProperties DEF PoolInv
<1>2. ASSUME NEW p \in Peers, pool'[p] # 0
      PROVE  links'[pool'[p]].peer = p
  <2>1. pool'[p] = pool[p] /\ pool[p] # 0
    BY <1>2
  <2>2. pool[p] \in DOMAIN links /\ links[pool[p]].peer = p
    BY <1>1, <2>1 DEF PoolInv
  <2>. QED  BY <2>1, <2>2
<1>. QED  BY <1>2 DEF PoolInv

\* A task that is over has no link.
LEMMA EndedTask ==
    ASSUME NEW k, tasks' \in Seq(Task), links' \in Seq(Link),
           NEW o, NEW p, tasks'[k] = [NewTask(o, p) EXCEPT !.at = "ended"]
    PROVE  TaskInv(k)'
<1>1. Len(links') \in Nat
  BY LenProperties
<1>2. tasks'[k].link = 0 /\ tasks'[k].at = "ended"
  BY DEF NewTask
<1>. QED  BY <1>1, <1>2 DEF TaskInv

\* Where a link turns from one status to another.
LEMMA OneLinkTurns ==
    ASSUME LinkInv, NEW l \in DOMAIN links,
           NEW s \in {"pending", "active", "stale", "closed"},
           links[l].status = "closed" => s = "closed",
           links' = [links EXCEPT ![l].status = s],
           UNCHANGED <<pool, forgotten>>
    PROVE  /\ PoolInv' /\ Keeps /\ DOMAIN links' = DOMAIN links
           /\ \A i \in DOMAIN links : Safe(i) => Safe(i)'
           /\ s = "closed" => Safe(l)'
<1>. links \in Seq(Link)
  BY DEF LinkInv, PoolInv
<1>1. /\ links' \in Seq(Link) /\ Len(links') = Len(links)
      /\ DOMAIN links' = DOMAIN links
      /\ \A i \in DOMAIN links :
            /\ links'[i].peer = links[i].peer
            /\ links'[i].status = IF i = l THEN s ELSE links[i].status
  <2>. HIDE DEF LinkInv
  <2>. QED  BY SetStatus, ZenonT(60)
<1>3. PoolInv'
  <2>1. PoolInv /\ pool' \in [Peers -> 0 .. Len(links)] /\ forgotten' \subseteq DOMAIN links
    BY DEF LinkInv, PoolInv
  <2>. QED  BY <1>1, <2>1, PoolHolds
<1>. QED  BY <1>1, <1>3 DEF Keeps, Safe

\* The task's link is closed and the task over.
LEMMA ClosesAndEnds ==
    ASSUME LinkInv, NEW k \in DOMAIN tasks, tasks[k].link # 0,
           Close(tasks[k].link), End(k), UNCHANGED <<pool, forgotten>>
    PROVE  LinkInv'
<1>1. /\ tasks[k] \in Task /\ tasks \in Seq(Task)
      /\ tasks[k].link \in DOMAIN links
  BY LenProperties, ElementOfSeq DEF LinkInv, PoolInv, TaskInv
<1>2. PICK l \in DOMAIN links : l = tasks[k].link
  BY <1>1
<1>3. /\ PoolInv' /\ Keeps /\ DOMAIN links' = DOMAIN links
      /\ \A i \in DOMAIN links : Safe(i) => Safe(i)'
      /\ Safe(l)'
  BY <1>2, OneLinkTurns DEF Close
<1>4. [NewTask(tasks[k].op, tasks[k].peer) EXCEPT !.at = "ended"] \in Task
  BY <1>1 DEF Task, NewTask
<1>5. /\ tasks' \in Seq(Task) /\ DOMAIN tasks' = DOMAIN tasks \cup {k}
      /\ tasks'[k] = [NewTask(tasks[k].op, tasks[k].peer) EXCEPT !.at = "ended"]
      /\ \A j \in DOMAIN tasks : j # k => tasks'[j] = tasks[j]
  BY <1>1, <1>4, TaskBecomes, ZenonT(60) DEF End
<1>6. TaskInv(k)'
  BY <1>3, <1>5, EndedTask DEF PoolInv
<1>. QED  BY <1>2, <1>3, <1>5, <1>6, OthersGoOn

\* The task is over, and its link safe.
LEMMA Ends ==
    ASSUME LinkInv, NEW k \in DOMAIN tasks, End(k), UNCHANGED <<links, pool>>,
           forgotten' = forgotten \/ \E l \in DOMAIN links : forgotten' = forgotten \cup {l},
           \A l \in DOMAIN links : tasks[k].link = l => Safe(l)'
    PROVE  LinkInv'
<1>1. tasks[k] \in Task /\ tasks \in Seq(Task)
  BY LenProperties, ElementOfSeq DEF LinkInv
<1>2. PoolInv' /\ Keeps /\ \A l \in DOMAIN links : Safe(l) => Safe(l)'
  BY SameLinks
<1>3. [NewTask(tasks[k].op, tasks[k].peer) EXCEPT !.at = "ended"] \in Task
  BY <1>1 DEF Task, NewTask
<1>4. /\ tasks' \in Seq(Task) /\ DOMAIN tasks' = DOMAIN tasks \cup {k}
      /\ tasks'[k] = [NewTask(tasks[k].op, tasks[k].peer) EXCEPT !.at = "ended"]
      /\ \A j \in DOMAIN tasks : j # k => tasks'[j] = tasks[j]
  BY <1>1, <1>3, TaskBecomes, ZenonT(60) DEF End
<1>5. TaskInv(k)'
  BY <1>2, <1>4, EndedTask DEF PoolInv
<1>. QED  BY <1>2, <1>4, <1>5, OthersGoOn

\* The task goes on with its link, which is safe if it is a cycle's.
LEMMA GoesOnWithLink ==
    ASSUME LinkInv, NEW k \in DOMAIN tasks, NEW r \in Task,
           tasks' = [tasks EXCEPT ![k] = r],
           r.op = tasks[k].op, r.peer = tasks[k].peer, r.link = tasks[k].link,
           tasks[k].at \notin {"open", "ended"}, r.at \notin {"open", "ended"},
           PoolInv', UNCHANGED links,
           \A l \in DOMAIN links : Safe(l) => Safe(l)',
           r.op = "cycle" /\ r.at \in {"ask", "await"} =>
               \A l \in DOMAIN links : l = r.link => Safe(l)'
    PROVE  LinkInv'
<1>1. /\ tasks[k] \in Task /\ tasks \in Seq(Task)
      /\ tasks[k].link \in DOMAIN links /\ tasks[k].link # 0 /\ TaskInv(k)
  BY LenProperties, ElementOfSeq DEF LinkInv, PoolInv, TaskInv
<1>2. /\ tasks' \in Seq(Task) /\ DOMAIN tasks' = DOMAIN tasks \cup {k}
      /\ tasks'[k] = r
      /\ \A j \in DOMAIN tasks : j # k => tasks'[j] = tasks[j]
  BY <1>1, TaskBecomes, ZenonT(60) DEF Becomes
<1>3. TaskInv(k)'
  BY <1>1, <1>2 DEF TaskInv, Safe
<1>4. Keeps
  BY DEF Keeps
<1>. QED  BY <1>2, <1>3, <1>4, OthersGoOn

\* r is a task that has no link yet: k is a new task, or r is what it was.
LEMMA CreateLinkKeeps ==
    ASSUME LinkInv, NEW r \in Task, r.at = "open", r.link = 0,
           NEW k, k = Len(tasks) + 1 \/ (k \in DOMAIN tasks /\ r = tasks[k]),
           CreateLink(k, r), UNCHANGED <<pool, forgotten>>
    PROVE  LinkInv'
<1>0. /\ tasks \in Seq(Task) /\ Len(tasks) \in Nat /\ DOMAIN tasks = 1 .. Len(tasks)
      /\ links \in Seq(Link) /\ Len(links) \in Nat /\ DOMAIN links = 1 .. Len(links)
      /\ r.peer \in Peers
  BY LenProperties DEF LinkInv, PoolInv, Task
<1>1. \A l \in DOMAIN links : ~(k \in DOMAIN tasks /\ tasks[k].link = l)
  BY <1>0
<1>2. CASE /\ links' = Append(links, [peer |-> r.peer, status |-> "pending"])
           /\ Becomes(k, [r EXCEPT !.at = "poll", !.link = Len(links) + 1])
  <2>0. PICK n, q : n = Len(links) + 1 /\ q = [r EXCEPT !.at = "poll", !.link = n]
    OBVIOUS
  <2>a. n \in Nat \ {0}
    BY <1>0, <2>0
  <2>1. /\ links' \in Seq(Link) /\ Len(links') = n
        /\ DOMAIN links' = DOMAIN links \cup {n} /\ n \notin DOMAIN links
        /\ \A i \in DOMAIN links : links'[i] = links[i]
        /\ links'[n] = [peer |-> r.peer, status |-> "pending"]
    BY <1>0, <1>2, <2>0, NewLink
  <2>2. q \in Task /\ q.op = r.op /\ q.at = "poll" /\ q.link = n /\ q.peer = r.peer
    BY <2>0, <2>a DEF Task
  <2>3. Becomes(k, q)
    BY <1>2, <2>0
  <2>4. /\ tasks' \in Seq(Task) /\ DOMAIN tasks' = DOMAIN tasks \cup {k}
        /\ tasks'[k] = q
        /\ \A j \in DOMAIN tasks : j # k => tasks'[j] = tasks[j]
    BY <1>0, <2>2, <2>3, TaskBecomes, ZenonT(60)
  <2>5. PoolInv'
    BY <1>0, <2>0, <2>1 DEF LinkInv, PoolInv
  <2>6. Keeps /\ \A l \in DOMAIN links : Safe(l) => Safe(l)'
    BY <2>1 DEF Keeps, Safe
  <2>7. TaskInv(k)'
    BY <1>0, <2>a, <2>1, <2>2, <2>4 DEF TaskInv
  <2>8. \A l \in DOMAIN links' \ DOMAIN links : tasks'[k].link = l
    BY <2>1, <2>2, <2>4
  <2>. QED  BY <1>1, <2>4, <2>5, <2>6, <2>7, <2>8, OthersGoOn
<1>3. CASE Becomes(k, [r EXCEPT !.at = "ended"]) /\ UNCHANGED links
  <2>1. [r EXCEPT !.at = "ended"] \in Task
    BY DEF Task
  <2>2. /\ tasks' \in Seq(Task) /\ DOMAIN tasks' = DOMAIN tasks \cup {k}
        /\ tasks'[k] = [r EXCEPT !.at = "ended"]
        /\ \A j \in DOMAIN tasks : j # k => tasks'[j] = tasks[j]
    BY <1>0, <1>3, <2>1, TaskBecomes, ZenonT(60)
  <2>3. PoolInv' /\ Keeps /\ \A l \in DOMAIN links : Safe(l) => Safe(l)'
    BY <1>3, SameLinks
  <2>4. TaskInv(k)'
    BY <1>0, <1>3, <2>2 DEF TaskInv, Task, PoolInv
  <2>. QED  BY <1>1, <1>3, <2>2, <2>3, <2>4, OthersGoOn
<1>. QED  BY <1>2, <1>3 DEF CreateLink

LEMMA GetLinkKeeps ==
    ASSUME LinkInv, NEW r \in Task, r.at = "open", r.link = 0,
           NEW k, k = Len(tasks) + 1 \/ (k \in DOMAIN tasks /\ r = tasks[k]),
           GetLink(k, r), UNCHANGED <<pool, forgotten>>
    PROVE  LinkInv'
<1>0. /\ tasks \in Seq(Task) /\ Len(tasks) \in Nat /\ DOMAIN tasks = 1 .. Len(tasks)
      /\ links \in Seq(Link) /\ Len(links) \in Nat /\ DOMAIN links = 1 .. Len(links)
      /\ r.peer \in Peers
  BY LenProperties DEF LinkInv, PoolInv, Task
<1>1. \A l \in DOMAIN links : ~(k \in DOMAIN tasks /\ tasks[k].link = l)
  BY <1>0
<1>2. CASE Status(pool[r.peer]) = "active"
  <2>0. PICK n, q : n = pool[r.peer] /\ q = [r EXCEPT !.at = "ask", !.link = n]
    OBVIOUS
  <2>1. n \in DOMAIN links /\ n # 0 /\ links[n].peer = r.peer
    BY <1>0, <1>2, <2>0 DEF Status, LinkInv, PoolInv
  <2>2. q \in Task /\ q.op = r.op /\ q.at = "ask" /\ q.link = n /\ q.peer = r.peer
    <3>1. n \in Nat
      BY <1>0, <2>1
    <3>. QED  BY <2>0, <3>1 DEF Task
  <2>3. Becomes(k, q) /\ UNCHANGED links
    BY <1>2, <2>0 DEF GetLink
  <2>4. /\ tasks' \in Seq(Task) /\ DOMAIN tasks' = DOMAIN tasks \cup {k}
        /\ tasks'[k] = q
        /\ \A j \in DOMAIN tasks : j # k => tasks'[j] = tasks[j]
    BY <1>0, <2>2, <2>3, TaskBecomes, ZenonT(60)
  <2>5. PoolInv' /\ Keeps /\ \A l \in DOMAIN links : Safe(l) => Safe(l)'
    BY <2>3, SameLinks
  <2>6. TaskInv(k)'
    BY <1>0, <2>0, <2>1, <2>2, <2>3, <2>4 DEF TaskInv, Safe
  <2>. QED  BY <1>1, <2>3, <2>4, <2>5, <2>6, OthersGoOn
<1>3. CASE Status(pool[r.peer]) # "active"
  BY <1>3, CreateLinkKeeps DEF GetLink
<1>. QED  BY <1>2, <1>3

LEMMA TaskFacts ==
    ASSUME LinkInv, NEW k \in DOMAIN tasks
    PROVE  /\ tasks \in Seq(Task) /\ tasks[k] \in Task /\ TaskInv(k)
           /\ links \in Seq(Link) /\ Len(links) \in Nat /\ DOMAIN links = 1 .. Len(links)
           /\ tasks[k].link # 0 => tasks[k].link \in DOMAIN links
BY LenProperties, ElementOfSeq DEF LinkInv, PoolInv, TaskInv

LEMMA TaskStepKeeps ==
    ASSUME LinkInv, NEW k \in DOMAIN tasks, TaskStep(k)
    PROVE  LinkInv'
<1>0. /\ tasks \in Seq(Task) /\ tasks[k] \in Task /\ TaskInv(k)
      /\ links \in Seq(Link) /\ Len(links) \in Nat /\ DOMAIN links = 1 .. Len(links)
      /\ tasks[k].link # 0 => tasks[k].link \in DOMAIN links
  BY TaskFacts
<1>1. CASE OpenLink(k)
  <2>1. tasks[k].at = "open" /\ tasks[k].link = 0 /\ UNCHANGED <<pool, forgotten>>
    BY <1>0, <1>1 DEF OpenLink, TaskInv
  <2>2. PICK r \in Task : r = tasks[k]
    BY <1>0
  <2>3. GetLink(k, r) \/ CreateLink(k, r)
    BY <1>1, <2>2 DEF OpenLink
  <2>. QED  BY <2>1, <2>2, <2>3, GetLinkKeeps, CreateLinkKeeps
<1>2. CASE PoolLink(k)
  <2>1. /\ tasks[k].op = "cycle" /\ tasks[k].at = "poll" /\ UNCHANGED links
        /\ tasks[k].link \in DOMAIN links
        /\ pool' = [pool EXCEPT ![tasks[k].peer] = tasks[k].link]
        /\ forgotten' = IF Open(pool[tasks[k].peer])
                         THEN forgotten \cup {pool[tasks[k].peer]} ELSE forgotten
    BY <1>0, <1>2 DEF PoolLink, TaskInv
  <2>2. PICK p \in Peers, n \in DOMAIN links : p = tasks[k].peer /\ n = tasks[k].link
    BY <1>0, <2>1 DEF Task
  <2>3. n # 0 /\ links[n].peer = p
    BY <1>0, <2>2 DEF TaskInv
  <2>4. pool \in [Peers -> 0 .. Len(links)] /\ forgotten \subseteq DOMAIN links
    BY DEF LinkInv, PoolInv
  <2>5. forgotten' \subseteq DOMAIN links /\ forgotten \subseteq forgotten'
    BY <1>0, <2>1, <2>2, <2>4 DEF Open, Status
  <2>6. PoolInv'
    BY <1>0, <2>1, <2>2, <2>3, <2>4, <2>5 DEF LinkInv, PoolInv
  <2>7. ASSUME NEW l \in DOMAIN links, Safe(l)
        PROVE  Safe(l)'
    <3>1. CASE pool[links[l].peer] = l /\ links[l].peer = p /\ links[l].status # "closed"
      BY <1>0, <2>1, <2>2, <3>1 DEF Safe, Open, Status
    <3>2. CASE pool[links[l].peer] = l /\ links[l].peer # p
      BY <2>1, <2>2, <2>4, <3>2 DEF Safe
    <3>. QED  BY <2>1, <2>5, <2>7, <3>1, <3>2 DEF Safe
  <2>8. Safe(n)'
    BY <2>1, <2>2, <2>3, <2>4 DEF Safe
  <2>9. PICK r \in Task : r = [tasks[k] EXCEPT !.at = "ask"]
    BY <1>0 DEF Task
  <2>10. tasks' = [tasks EXCEPT ![k] = r]
    BY <1>2, <2>9 DEF PoolLink, GoesOn
  <2>11. /\ r.op = tasks[k].op /\ r.peer = tasks[k].peer /\ r.link = tasks[k].link
         /\ r.at = "ask"
    BY <1>0, <2>9 DEF Task
  <2>. QED  BY <2>1, <2>2, <2>6, <2>7, <2>8, <2>10, <2>11, GoesOnWithLink
<1>3. CASE LookForCommand(k)
  <2>1. /\ tasks[k].op = "command" /\ tasks[k].at = "poll" /\ UNCHANGED <<links, pool>>
        /\ tasks[k].link \in DOMAIN links
    BY <1>0, <1>3 DEF LookForCommand, TaskInv
  <2>2. CASE GoesOn(k, "ask") /\ UNCHANGED forgotten
    <3>1. PICK r \in Task : r = [tasks[k] EXCEPT !.at = "ask"]
      BY <1>0 DEF Task
    <3>2. tasks' = [tasks EXCEPT ![k] = r]
      BY <2>2, <3>1 DEF GoesOn
    <3>3. /\ r.op = "command" /\ r.peer = tasks[k].peer /\ r.link = tasks[k].link
          /\ r.at = "ask"
      BY <1>0, <2>1, <3>1 DEF Task
    <3>4. PoolInv' /\ \A l \in DOMAIN links : Safe(l) => Safe(l)'
      BY <2>1, <2>2, SameLinks
    <3>. QED  BY <2>1, <3>2, <3>3, <3>4, GoesOnWithLink
  <2>3. CASE Mine(k) = "closed" /\ End(k) /\ UNCHANGED forgotten
    <3>1. \A l \in DOMAIN links : tasks[k].link = l => Safe(l)'
      BY <1>0, <2>1, <2>3 DEF Mine, Status, Safe
    <3>. QED  BY <2>1, <2>3, <3>1, Ends
  <2>4. CASE Mine(k) = "stale" /\ End(k) /\ forgotten' = forgotten \cup {tasks[k].link}
    <3>1. \A l \in DOMAIN links : tasks[k].link = l => Safe(l)'
      BY <2>4 DEF Safe
    <3>2. \E l \in DOMAIN links : forgotten' = forgotten \cup {l}
      BY <2>1, <2>4
    <3>. QED  BY <2>1, <2>4, <3>1, <3>2, Ends
  <2>. QED  BY <1>3, <2>2, <2>3, <2>4 DEF LookForCommand
<1>4. CASE LookForCheck(k)
  <2>1. /\ tasks[k].at = "poll" /\ UNCHANGED <<links, pool>> /\ End(k)
        /\ tasks[k].link \in DOMAIN links
    BY <1>0, <1>4 DEF LookForCheck, TaskInv
  <2>2. CASE forgotten' = forgotten \cup {tasks[k].link}
    <3>1. \A l \in DOMAIN links : tasks[k].link = l => Safe(l)'
      BY <2>2 DEF Safe
    <3>2. \E l \in DOMAIN links : forgotten' = forgotten \cup {l}
      BY <2>1, <2>2
    <3>. QED  BY <2>1, <3>1, <3>2, Ends
  <2>3. CASE Mine(k) = "closed" /\ UNCHANGED forgotten
    <3>1. \A l \in DOMAIN links : tasks[k].link = l => Safe(l)'
      BY <1>0, <2>1, <2>3 DEF Mine, Status, Safe
    <3>. QED  BY <2>1, <2>3, <3>1, Ends
  <2>. QED  BY <1>4, <2>2, <2>3 DEF LookForCheck
<1>5. CASE GiveUp(k)
  BY <1>0, <1>5, ClosesAndEnds DEF GiveUp, TaskInv
<1>6. CASE Send(k)
  <2>1. /\ tasks[k].at = "ask" /\ UNCHANGED <<links, pool, forgotten>>
        /\ tasks[k].link \in DOMAIN links
    BY <1>0, <1>6 DEF Send, TaskInv
  <2>a. PICK n \in Nat : n = tasks[k].asks + 1
    BY <1>0 DEF Task
  <2>2. PICK r \in Task : r = [tasks[k] EXCEPT !.at = "await", !.asks = n]
    BY <1>0 DEF Task
  <2>3. tasks' = [tasks EXCEPT ![k] = r]
    BY <1>6, <2>a, <2>2 DEF Send
  <2>4. /\ r.op = tasks[k].op /\ r.peer = tasks[k].peer /\ r.link = tasks[k].link
        /\ r.at = "await"
    BY <1>0, <2>2 DEF Task
  <2>5. PoolInv' /\ \A l \in DOMAIN links : Safe(l) => Safe(l)'
    BY <2>1, SameLinks
  <2>6. r.op = "cycle" => Safe(tasks[k].link)
    BY <1>0, <2>1, <2>4 DEF TaskInv
  <2>. QED  BY <2>1, <2>3, <2>4, <2>5, <2>6, GoesOnWithLink
<1>7. CASE Refused(k)
  <2>1. /\ tasks[k].at = "ask" /\ UNCHANGED <<links, pool>>
        /\ tasks[k].link \in DOMAIN links
    BY <1>0, <1>7 DEF Refused, TaskInv
  <2>2. CASE tasks[k].op = "cycle" /\ End(k) /\ UNCHANGED forgotten
    <3>1. PoolInv' /\ \A l \in DOMAIN links : Safe(l) => Safe(l)'
      BY <2>1, <2>2, SameLinks
    <3>2. Safe(tasks[k].link)
      BY <1>0, <2>1, <2>2 DEF TaskInv
    <3>. QED  BY <2>1, <2>2, <3>1, <3>2, Ends
  <2>3. CASE /\ tasks[k].op = "cycle" /\ UNCHANGED forgotten
             /\ tasks' = [tasks EXCEPT ![k].asks = @ + 1]
    <3>a. PICK n \in Nat : n = tasks[k].asks + 1
      BY <1>0 DEF Task
    <3>1. PICK r \in Task : r = [tasks[k] EXCEPT !.asks = n]
      BY <1>0 DEF Task
    <3>2. tasks' = [tasks EXCEPT ![k] = r]
      BY <2>3, <3>a, <3>1
    <3>3. /\ r.op = tasks[k].op /\ r.peer = tasks[k].peer /\ r.link = tasks[k].link
          /\ r.at = "ask"
      BY <1>0, <2>1, <3>1 DEF Task
    <3>4. PoolInv' /\ \A l \in DOMAIN links : Safe(l) => Safe(l)'
      BY <2>1, <2>3, SameLinks
    <3>5. Safe(tasks[k].link)
      BY <1>0, <2>1, <2>3 DEF TaskInv
    <3>. QED  BY <2>1, <3>2, <3>3, <3>4, <3>5, GoesOnWithLink
  <2>4. CASE /\ End(k)
             /\ forgotten' = IF Open(tasks[k].link) THEN forgotten \cup {tasks[k].link}
                                                   ELSE forgotten
    <3>1. \A l \in DOMAIN links : tasks[k].link = l => Safe(l)'
      BY <1>0, <2>1, <2>4 DEF Open, Status, Safe
    <3>2. forgotten' = forgotten \/ \E l \in DOMAIN links : forgotten' = forgotten \cup {l}
      BY <2>1, <2>4
    <3>. QED  BY <2>1, <2>4, <3>1, <3>2, Ends
  <2>. QED  BY <1>7, <2>2, <2>3, <2>4 DEF Refused
<1>8. CASE Conclude(k)
  <2>1. /\ tasks[k].at = "await" /\ UNCHANGED <<pool, forgotten>>
        /\ tasks[k].link \in DOMAIN links /\ tasks[k].link # 0
    BY <1>0, <1>8 DEF Conclude, TaskInv
  <2>2. CASE tasks[k].op = "cycle" /\ End(k) /\ UNCHANGED links
    <3>1. PoolInv' /\ \A l \in DOMAIN links : Safe(l) => Safe(l)'
      BY <2>1, <2>2, SameLinks
    <3>2. Safe(tasks[k].link)
      BY <1>0, <2>1, <2>2 DEF TaskInv
    <3>. QED  BY <2>1, <2>2, <3>1, <3>2, Ends
  <2>3. CASE /\ tasks[k].op = "cycle" /\ UNCHANGED links
             /\ tasks' = [tasks EXCEPT ![k].at = "ask", ![k].reply = "none"]
    <3>1. PICK r \in Task : r = [tasks[k] EXCEPT !.at = "ask", !.reply = "none"]
      BY <1>0 DEF Task
    <3>2. tasks' = [tasks EXCEPT ![k] = r]
      BY <2>3, <3>1
    <3>3. /\ r.op = tasks[k].op /\ r.peer = tasks[k].peer /\ r.link = tasks[k].link
          /\ r.at = "ask"
      BY <1>0, <2>1, <3>1 DEF Task
    <3>4. PoolInv' /\ \A l \in DOMAIN links : Safe(l) => Safe(l)'
      BY <2>1, <2>3, SameLinks
    <3>5. Safe(tasks[k].link)
      BY <1>0, <2>1, <2>3 DEF TaskInv
    <3>6. \A l \in DOMAIN links : l = r.link => Safe(l)'
      BY <3>3, <3>4, <3>5
    <3>. QED  BY <2>1, <2>3, <3>2, <3>3, <3>4, <3>6, GoesOnWithLink
  <2>4. CASE Close(tasks[k].link) /\ End(k)
    BY <2>1, <2>4, ClosesAndEnds
  <2>. QED  BY <1>8, <2>2, <2>3, <2>4 DEF Conclude, Onward
<1>. QED  BY <1>1, <1>2, <1>3, <1>4, <1>5, <1>6, <1>7, <1>8 DEF TaskStep

-----------------------------------------------------------------------------
(* The other steps.                                                        *)

LEMMA RNSStepKeeps ==
    ASSUME LinkInv, RNSStep
    PROVE  LinkInv'
<1>1. ASSUME NEW k \in DOMAIN tasks, NEW reply \in {"answer", "failure"},
             tasks[k].at = "await", Reply(k, reply)
      PROVE  LinkInv'
  <2>0. /\ tasks[k] \in Task /\ TaskInv(k)
        /\ tasks[k].link \in DOMAIN links
    BY <1>1, TaskFacts DEF TaskInv
  <2>1. PICK r \in Task : r = [tasks[k] EXCEPT !.reply = reply]
    BY <2>0 DEF Task
  <2>2. tasks' = [tasks EXCEPT ![k] = r] /\ UNCHANGED <<links, pool, forgotten>>
    BY <1>1, <2>1 DEF Reply
  <2>3. /\ r.op = tasks[k].op /\ r.peer = tasks[k].peer /\ r.link = tasks[k].link
        /\ r.at = "await"
    BY <1>1, <2>0, <2>1 DEF Task
  <2>4. PoolInv' /\ \A l \in DOMAIN links : Safe(l) => Safe(l)'
    BY <2>2, SameLinks
  <2>5. r.op = "cycle" => \A l \in DOMAIN links : l = r.link => Safe(l)'
    BY <1>1, <2>0, <2>3, <2>4 DEF TaskInv
  <2>. QED  BY <1>1, <2>2, <2>3, <2>4, <2>5, GoesOnWithLink
<1>2. ASSUME NEW l \in DOMAIN links, LinkStep(l)
      PROVE  LinkInv'
  <2>0. l # 0 /\ links[l] \in Link
    BY LenProperties, ElementOfSeq DEF LinkInv, PoolInv
  <2>1. PICK s \in {"pending", "active", "stale", "closed"} :
            /\ links' = [links EXCEPT ![l].status = s]
            /\ links[l].status # "closed"
            /\ UNCHANGED <<pool, forgotten, tasks>>
    BY <1>2, <2>0 DEF LinkStep, Turns, Status
  <2>2. /\ PoolInv' /\ Keeps /\ DOMAIN links' = DOMAIN links
        /\ \A i \in DOMAIN links : Safe(i) => Safe(i)'
    BY <2>1, OneLinkTurns
  <2>. QED  BY <2>1, <2>2, TasksGoOn
<1>. QED  BY <1>1, <1>2 DEF RNSStep, Answer, ServeCommand, Fail, Awaited

LEMMA TearDownKeeps ==
    ASSUME LinkInv, TearDownPool
    PROVE  LinkInv'
<1>0. /\ links \in Seq(Link) /\ Len(links) \in Nat /\ DOMAIN links = 1 .. Len(links)
      /\ \A l \in DOMAIN links : links[l] \in Link
  BY LenProperties, ElementOfSeq DEF LinkInv, PoolInv
<1>1. /\ links' = [l \in 1 .. Len(links) |->
                      IF l = pool[links[l].peer] THEN [links[l] EXCEPT !.status = "closed"]
                                                 ELSE links[l]]
      /\ pool' = [p \in Peers |-> 0]
      /\ UNCHANGED <<tasks, forgotten>>
  BY <1>0 DEF TearDownPool
<1>2. \A l \in 1 .. Len(links) : [links[l] EXCEPT !.status = "closed"] \in Link
  BY <1>0 DEF Link
<1>3. links' \in Seq(Link) /\ DOMAIN links' = DOMAIN links /\ Len(links') = Len(links)
  BY <1>0, <1>1, <1>2
<1>4. ASSUME NEW l \in DOMAIN links
      PROVE  /\ links'[l].peer = links[l].peer
             /\ links[l].status = "closed" => links'[l].status = "closed"
             /\ Safe(l) => Safe(l)'
  <2>1. CASE l = pool[links[l].peer]
    <3>1. links'[l] = [links[l] EXCEPT !.status = "closed"]
      BY <1>0, <1>1, <2>1
    <3>. QED  BY <1>0, <3>1 DEF Link, Safe
  <2>2. CASE l # pool[links[l].peer]
    <3>1. links'[l] = links[l]
      BY <1>0, <1>1, <2>2
    <3>. QED  BY <1>1, <2>2, <3>1 DEF Safe
  <2>. QED  BY <2>1, <2>2
<1>5. PoolInv'
  BY <1>0, <1>1, <1>3 DEF LinkInv, PoolInv
<1>. QED  BY <1>1, <1>3, <1>4, <1>5, TasksGoOn DEF Keeps

LEMMA LostKeeps ==
    ASSUME LinkInv, NEW p \in Peers, OnLost(p)
    PROVE  LinkInv'
<1>0. /\ links \in Seq(Link) /\ Len(links) \in Nat /\ DOMAIN links = 1 .. Len(links)
      /\ pool \in [Peers -> 0 .. Len(links)]
  BY LenProperties DEF LinkInv, PoolInv
<1>1. /\ pool' = [pool EXCEPT ![p] = 0] /\ UNCHANGED <<tasks, forgotten>>
  BY DEF OnLost
<1>2. CASE pool[p] = 0
  <2>1. UNCHANGED links
    BY <1>2 DEF OnLost
  <2>2. PoolInv' /\ Keeps
    BY <1>0, <1>1, <2>1 DEF LinkInv, PoolInv, Keeps
  <2>3. \A l \in DOMAIN links : Safe(l) => Safe(l)'
    BY <1>0, <1>1, <1>2, <2>1 DEF Safe
  <2>. QED  BY <1>1, <2>1, <2>2, <2>3, TasksGoOn
<1>3. CASE pool[p] # 0
  <2>1. PICK n \in DOMAIN links : n = pool[p]
    BY <1>0, <1>3
  <2>2. links' = [links EXCEPT ![n].status = "closed"]
    BY <1>3, <2>1 DEF OnLost, Close
  <2>3. /\ links' \in Seq(Link) /\ Len(links') = Len(links)
        /\ DOMAIN links' = DOMAIN links
        /\ \A i \in DOMAIN links :
              /\ links'[i].peer = links[i].peer
              /\ links'[i].status = IF i = n THEN "closed" ELSE links[i].status
    BY <1>0, <2>2, SetStatus
  <2>4. PoolInv'
    <3>1. /\ PoolInv /\ forgotten' \subseteq DOMAIN links
          /\ pool' \in [Peers -> 0 .. Len(links)]
          /\ \A x \in Peers : pool'[x] \in {0, pool[x]}
      BY <1>0, <1>1 DEF LinkInv, PoolInv
    <3>. QED  BY <2>3, <3>1, PoolHolds
  <2>5. ASSUME NEW l \in DOMAIN links, Safe(l)
        PROVE  Safe(l)'
    <3>1. CASE l = n
      BY <2>3, <3>1 DEF Safe
    <3>2. CASE l # n
      BY <1>0, <1>1, <2>1, <2>3, <2>5, <3>2 DEF Safe
    <3>. QED  BY <3>1, <3>2
  <2>6. Keeps
    BY <2>3 DEF Keeps
  <2>. QED  BY <1>1, <2>3, <2>4, <2>5, <2>6, TasksGoOn
<1>. QED  BY <1>2, <1>3

\* Tasks are added that have no link yet.
LEMMA NewTasksKeep ==
    ASSUME LinkInv, UNCHANGED <<links, pool, forgotten>>,
           tasks' \in Seq(Task), DOMAIN tasks \subseteq DOMAIN tasks',
           \A j \in DOMAIN tasks : tasks'[j] = tasks[j],
           \A j \in DOMAIN tasks' \ DOMAIN tasks :
               tasks'[j].link = 0 /\ tasks'[j].at = "open"
    PROVE  LinkInv'
<1>0. Len(links) \in Nat
  BY LenProperties DEF LinkInv, PoolInv
<1>1. ASSUME NEW j \in DOMAIN tasks'
      PROVE  TaskInv(j)'
  <2>1. CASE j \in DOMAIN tasks
    BY <2>1 DEF LinkInv, TaskInv, Safe
  <2>2. CASE j \notin DOMAIN tasks
    BY <1>0, <2>2 DEF TaskInv
  <2>. QED  BY <2>1, <2>2
<1>2. ASSUME NEW l \in DOMAIN links
      PROVE  Covered(l)'
  BY DEF LinkInv, Covered, Safe
<1>. QED  BY <1>1, <1>2 DEF LinkInv, PoolInv

LEMMA BeginKeeps ==
    ASSUME LinkInv, peers \subseteq Peers, ExecuteCommand \/ VerifyLink
    PROVE  LinkInv'
<1>1. PICK op \in {"command", "check"}, p \in peers :
          /\ tasks' = Append(tasks, NewTask(op, p))
          /\ UNCHANGED <<links, pool, forgotten>>
  BY DEF ExecuteCommand, VerifyLink, Begin
<1>2. NewTask(op, p) \in Task /\ NewTask(op, p).link = 0 /\ NewTask(op, p).at = "open"
  BY DEF NewTask, Task
<1>3. tasks \in Seq(Task) /\ Len(tasks) \in Nat /\ DOMAIN tasks = 1 .. Len(tasks)
  BY LenProperties DEF LinkInv
<1>4. tasks' \in Seq(Task) /\ Len(tasks') = Len(tasks) + 1
  BY <1>1, <1>2, <1>3
<1>5. DOMAIN tasks' = 1 .. Len(tasks')
  BY <1>4, LenProperties
<1>. QED  BY <1>1, <1>2, <1>3, <1>4, <1>5, NewTasksKeep

LEMMA RescanKeeps ==
    ASSUME LinkInv, peers \subseteq Peers, Rescan
    PROVE  LinkInv'
<1> DEFINE n == Cardinality(peers)
<1>1. n \in Nat
  BY LinksAssumption, FS_Subset, FS_CardinalityType
<1>2. PICK order \in [1 .. n -> peers] :
          tasks' = tasks \o [i \in DOMAIN order |-> NewTask("cycle", order[i])]
  BY DEF Rescan
<1>3. PICK new : new = [i \in 1 .. n |-> NewTask("cycle", order[i])]
  OBVIOUS
<1>4. /\ UNCHANGED <<links, pool, forgotten>>
      /\ tasks' = tasks \o new
  BY <1>2, <1>3 DEF Rescan
<1>5. \A i \in 1 .. n : /\ new[i] \in Task /\ new[i].link = 0 /\ new[i].at = "open"
  BY <1>2, <1>3 DEF NewTask, Task
<1>. HIDE DEF n
<1>6. new \in Seq(Task) /\ Len(new) = n
  BY <1>1, <1>3, <1>5
<1>7. tasks \in Seq(Task) /\ Len(tasks) \in Nat /\ DOMAIN tasks = 1 .. Len(tasks)
  BY LenProperties DEF LinkInv
<1>8. /\ tasks' \in Seq(Task) /\ Len(tasks') = Len(tasks) + n
      /\ \A i \in 1 .. Len(tasks) + n :
            tasks'[i] = IF i <= Len(tasks) THEN tasks[i] ELSE new[i - Len(tasks)]
  BY <1>4, <1>6, <1>7, ConcatProperties
<1>9. DOMAIN tasks' = 1 .. Len(tasks) + n
  BY <1>8, LenProperties
<1>10. \A j \in DOMAIN tasks : tasks'[j] = tasks[j]
  BY <1>1, <1>7, <1>8
<1>11. ASSUME NEW j \in DOMAIN tasks' \ DOMAIN tasks
       PROVE  tasks'[j].link = 0 /\ tasks'[j].at = "open"
  <2>1. j - Len(tasks) \in 1 .. n /\ tasks'[j] = new[j - Len(tasks)]
    BY <1>1, <1>7, <1>8, <1>9
  <2>. QED  BY <1>5, <2>1
<1>. QED  BY <1>1, <1>4, <1>7, <1>8, <1>9, <1>10, <1>11, NewTasksKeep

LEMMA PublishKeeps ==
    ASSUME TypeOK, LinkInv, PublishToEngine
    PROVE  LinkInv'
<1>0. PICK e \in Event : e = Head(queue)
  BY HeadTailProperties DEF TypeOK, PublishToEngine, Publish
<1>1. CASE UNCHANGED linkVars
  BY <1>1, NewTasksKeep DEF linkVars, LinkInv
<1>2. CASE OnDiscovered(e.peer)
  <2>0. PICK p \in Peers : p = e.peer
    BY <1>0 DEF Event
  <2>a. /\ NewTask("cycle", p) \in Task
        /\ NewTask("cycle", p).at = "open" /\ NewTask("cycle", p).link = 0
    BY DEF NewTask, Task
  <2>1. PICK r \in Task : r = NewTask("cycle", p) /\ r.at = "open" /\ r.link = 0
    BY <2>a
  <2>2. OnDiscovered(p)
    BY <1>2, <2>0
  <2>3. GetLink(Len(tasks) + 1, r) /\ UNCHANGED <<pool, forgotten>>
    BY <2>1, <2>2 DEF OnDiscovered
  <2>. QED  BY <2>1, <2>3, GetLinkKeeps
<1>3. CASE OnLost(e.peer)
  <2>1. e.peer \in Peers
    BY <1>0 DEF Event
  <2>. QED  BY <1>3, <2>1, LostKeeps
<1>. QED  BY <1>0, <1>1, <1>2, <1>3 DEF PublishToEngine

-----------------------------------------------------------------------------
(* The invariant of it all.                                                *)

SetupOK == left \in Setup /\ {engine, stopping} \subseteq BOOLEAN

LinksInv == TableInv /\ LinkInv /\ SetupOK

\* The users of the service take no step of its own.
LEMMA ServiceAlone == LinksNext => [Next]_vars
BY DEF LinksNext, ServiceStep, PublishToEngine, Next

LEMMA SetupKeeps ==
    ASSUME SetupOK, LinksNext
    PROVE  SetupOK'
<1>1. ASSUME NEW b \in {"rescans", "commands", "checks", "stops", "refusals"}, Spend(b)
      PROVE  left' \in Setup
  BY <1>1 DEF SetupOK, Setup, Spend
<1>2. ASSUME NEW p \in Peers, left.heard[p] > 0,
             left' = [left EXCEPT !.heard[p] = @ - 1]
      PROVE  left' \in Setup
  BY <1>2 DEF SetupOK, Setup
<1>3. CASE UNCHANGED linkVars
  BY <1>3 DEF SetupOK, linkVars
<1>4. CASE ServiceStep
  BY <1>2, <1>3, <1>4 DEF ServiceStep, SetupOK
<1>5. ASSUME NEW k, NEW r, CreateLink(k, r)
      PROVE  left' \in Setup
  BY <1>1, <1>5 DEF CreateLink, Refusal, SetupOK
<1>6. ASSUME NEW k, NEW r, GetLink(k, r)
      PROVE  left' \in Setup
  BY <1>5, <1>6 DEF GetLink, SetupOK
<1>7. CASE PublishToEngine
  BY <1>3, <1>6, <1>7 DEF PublishToEngine, OnDiscovered, OnLost, SetupOK
<1>8. CASE LoopStep
  <2>1. PICK k \in DOMAIN tasks : TaskStep(k)
    BY <1>8 DEF LoopStep
  <2>2. CASE OpenLink(k)
    BY <1>5, <1>6, <2>2 DEF OpenLink, SetupOK
  <2>3. CASE Refused(k)
    BY <1>1, <2>3 DEF Refused, Refusal, SetupOK
  <2>4. CASE PoolLink(k) \/ LookForCommand(k) \/ LookForCheck(k) \/ GiveUp(k)
    BY <2>4 DEF PoolLink, LookForCommand, LookForCheck, GiveUp, SetupOK
  <2>5. CASE Send(k) \/ Conclude(k)
    BY <2>5 DEF Send, Conclude, SetupOK
  <2>. QED  BY <2>1, <2>2, <2>3, <2>4, <2>5 DEF TaskStep
<1>9. CASE RNSStep
  BY <1>9 DEF RNSStep, Answer, ServeCommand, Fail, Reply, LinkStep, Turns, SetupOK
<1>10. CASE StartEngine \/ StopEngine \/ TearDownPool
  BY <1>1, <1>10 DEF StartEngine, StopEngine, TearDownPool, SetupOK
<1>11. CASE Rescan \/ ExecuteCommand \/ VerifyLink
  BY <1>1, <1>11 DEF Rescan, ExecuteCommand, VerifyLink, Begin, SetupOK
<1>. QED  BY <1>4, <1>7, <1>8, <1>9, <1>10, <1>11 DEF LinksNext

LEMMA InitLinks == LinksInit => LinksInv
<1> SUFFICES ASSUME LinksInit PROVE LinksInv
  OBVIOUS
<1>1. TableInv
  BY InitTable DEF LinksInit
<1>2. SetupOK
  BY LinksAssumption DEF LinksInit, SetupOK
<1>3. links \in Seq(Link) /\ tasks \in Seq(Task) /\ DOMAIN links = {} /\ DOMAIN tasks = {}
  BY EmptySeq DEF LinksInit
<1>4. PoolInv
  BY <1>3 DEF LinksInit, PoolInv
<1>. QED  BY <1>1, <1>2, <1>3, <1>4 DEF LinksInv, LinkInv

LEMMA NextLinks == LinksInv /\ [LinksNext]_allVars => LinksInv'
<1> SUFFICES ASSUME LinksInv, [LinksNext]_allVars PROVE LinksInv'
  OBVIOUS
<1>1. TableInv'
  BY ServiceAlone, NextTable DEF LinksInv, allVars
<1>2. CASE UNCHANGED linkVars
  <2>1. LinkInv'
    BY <1>2, NewTasksKeep DEF linkVars, LinksInv, LinkInv
  <2>2. SetupOK'
    BY <1>2 DEF linkVars, LinksInv, SetupOK
  <2>. QED  BY <1>1, <2>1, <2>2 DEF LinksInv
<1>3. CASE LinksNext
  <2>. SUFFICES LinkInv'
    BY <1>1, <1>3, SetupKeeps DEF LinksInv
  <2>0. peers \subseteq Peers /\ TypeOK
    BY DEF LinksInv, TableInv, TypeOK
  <2>1. CASE ServiceStep
    <3>1. UNCHANGED <<links, pool, tasks, forgotten>>
      BY <2>1 DEF ServiceStep, linkVars
    <3>. QED  BY <3>1, NewTasksKeep DEF LinksInv, LinkInv
  <2>2. CASE PublishToEngine
    BY <2>0, <2>2, PublishKeeps DEF LinksInv
  <2>3. CASE LoopStep
    BY <2>3, TaskStepKeeps DEF LinksInv, LoopStep
  <2>4. CASE RNSStep
    BY <2>4, RNSStepKeeps DEF LinksInv
  <2>5. CASE StartEngine \/ StopEngine
    <3>1. UNCHANGED <<links, pool, tasks, forgotten>>
      BY <2>5 DEF StartEngine, StopEngine
    <3>. QED  BY <3>1, NewTasksKeep DEF LinksInv, LinkInv
  <2>6. CASE TearDownPool
    BY <2>6, TearDownKeeps DEF LinksInv
  <2>7. CASE Rescan
    BY <2>0, <2>7, RescanKeeps DEF LinksInv
  <2>8. CASE ExecuteCommand \/ VerifyLink
    BY <2>0, <2>8, BeginKeeps DEF LinksInv
  <2>. QED  BY <1>3, <2>1, <2>2, <2>3, <2>4, <2>5, <2>6, <2>7, <2>8 DEF LinksNext
<1>. QED  BY <1>2, <1>3 DEF allVars

-----------------------------------------------------------------------------
(* The theorems.                                                           *)

\* Whatever cycles, commands, checks, RNS and the engine's start and stop do,
\* links, pool and tasks are well typed, and who uses a link has one.
THEOREM LinksTypeCorrect == LinksSpec => []LinksTypeOK
<1>1. LinksInv => LinksTypeOK
  <2> SUFFICES ASSUME LinksInv PROVE LinksTypeOK
    OBVIOUS
  <2>1. \A k \in DOMAIN tasks : TaskInv(k)
    BY DEF LinksInv, LinkInv
  <2>. QED  BY <2>1 DEF LinksInv, TableInv, LinkInv, PoolInv, TaskInv, SetupOK, LinksTypeOK
<1>. QED  BY <1>1, InitLinks, NextLinks, PTL DEF LinksSpec

\* For any peers, cycles, commands, refusals and answers: an open link is in the
\* pool, or a task has it, or it is one of those _get_link, execute_command and
\* verify_link let go of.
THEOREM LinksStayAccounted == LinksSpec => []LinksAreAccountedFor
<1>1. LinksInv => LinksAreAccountedFor
  <2> SUFFICES ASSUME LinksInv, NEW l \in DOMAIN links, Open(l)
               PROVE  \/ l \in forgotten
                      \/ pool[links[l].peer] = l
                      \/ \E k \in DOMAIN tasks : tasks[k].link = l
    BY DEF LinksAreAccountedFor
  <2>1. links[l].status # "closed"
    BY DEF Open, Status
  <2>2. Covered(l)
    BY DEF LinksInv, LinkInv
  <2>. QED  BY <2>1, <2>2 DEF Covered, Safe
<1>. QED  BY <1>1, InitLinks, NextLinks, PTL DEF LinksSpec

\* What EventsAccount says of the peer service alone still holds when the sync
\* engine handles its events and opens links: no discovery or loss is dropped.
THEOREM EventsReachEngine == LinksSpec => []EventsAccountForTable
<1>1. LinksInv => EventsAccountForTable
  BY DEF LinksInv, TableInv
<1>. QED  BY <1>1, InitLinks, NextLinks, PTL DEF LinksSpec
=============================================================================
