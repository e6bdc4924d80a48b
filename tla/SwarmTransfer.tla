----------------------------- MODULE SwarmTransfer -----------------------------
(***************************************************************************)
(* The chunk exchange of src/transport/swarm.py, for one file and one path *)
(* on each node.  Every HAVE, REQUEST and CHUNK is handled on an RNS       *)
(* thread of its own; _lock covers the look-ups and updates of the three   *)
(* tables, never a message sent or a file read or written.                 *)
(*                                                                         *)
(* Who sends the messages (PeerLinkService) and who calls announce() and   *)
(* want() is not part of the repository: a message is delivered once, in   *)
(* any order, or lost; the caller announces a file whose hash it has just  *)
(* computed and may want the file as often as it likes.                    *)
(***************************************************************************)
EXTENDS Naturals, FiniteSets

CONSTANTS
    Nodes,
    Holders,    \* nodes that have the file from the start
    Chunks,     \* the indices of the file's chunks: range(total_chunks)
    Rates,      \* what RNS may report as a link's speed; 0: nothing
    MaxWants,   \* bound: calls of want() on each node
    MaxNet,     \* bound: messages under way when a node announces
    MaxFaults   \* bound: messages lost, edits, failures and calls of stop()

ASSUME SwarmAssumption ==
    /\ Holders \subseteq Nodes
    /\ Chunks # {}
    /\ Rates \subseteq Nat
    /\ MaxWants \in [Nodes -> Nat]
    /\ MaxNet \in Nat
    /\ MaxFaults \in Nat

\* A chunk's bytes are those the file's hash was computed from, or others.
Data == {"good", "bad"}

Genuine == [c \in Chunks |-> "good"]

\* A file just opened for writing: whoever reads a chunk of it gets no bytes.
Truncated == [c \in Chunks |-> "bad"]

Gone == [c \in {} |-> "bad"]

Empty == [c \in Chunks |-> "none"]

Message ==
    [type : {"have"}, from : Nodes, to : Nodes]
        \union [type : {"request"}, from : Nodes, to : Nodes, chunk : Chunks]
        \union [type : {"chunk"}, from : Nodes, to : Nodes, chunk : Chunks, datum : Data]

\* open: the file is about to be opened; write: it is open; check: written.
Assembly == [ticket : Nat, stage : {"open", "write", "check"}, chunks : [Chunks -> Data]]

Answer == [ticket : Nat, chunks : [Chunks -> Data]]

VARIABLES
    file,       \* the file at the path the node seeds from and downloads to
    seeding,    \* is the file in _seeding?
    peersWith,  \* _peers_with of the file
    wants,      \* calls of want() that were taken up; the last one's ticket
    wanting,    \* the ticket of the entry in _wanting, 0: there is none
    have,       \* chunks_have of that entry; Empty if there is none
    asking,     \* peers that _request_chunks_from is about to be called for
    asked,      \* ghost: <<peer, chunk>> requested since the entry was made
    sending,    \* <<peer, chunk>> of the threads running _send_chunk
    assembling, \* the calls of _assemble under way
    completed,  \* ghost: the calls of on_complete, with the chunks assembled
    disturbed,  \* ghost: has somebody else written the file during assembly?
    net,        \* messages under way
    faults      \* ghost: faults so far

swarmVars == <<file, seeding, peersWith, wants, wanting, have, asking, asked,
               sending, assembling, completed, disturbed, net, faults>>

\* Groups of variables that most steps leave alone.
tables == <<seeding, peersWith, wants, wanting, have>>
disk   == <<file, assembling, completed, disturbed>>

Init ==
    /\ file = [n \in Nodes |-> IF n \in Holders THEN Genuine ELSE Gone]
    /\ seeding = [n \in Nodes |-> FALSE]
    /\ peersWith = [n \in Nodes |-> {}]
    /\ wants = [n \in Nodes |-> 0]
    /\ wanting = [n \in Nodes |-> 0]
    /\ have = [n \in Nodes |-> Empty]
    /\ asking = [n \in Nodes |-> {}]
    /\ asked = [n \in Nodes |-> {}]
    /\ sending = [n \in Nodes |-> {}]
    /\ assembling = [n \in Nodes |-> {}]
    /\ completed = [n \in Nodes |-> {}]
    /\ disturbed = [n \in Nodes |-> FALSE]
    /\ net = {}
    /\ faults = 0

\* Seeded fault: range() starts at 1.
MissingButFirst(n) ==
    {c \in Chunks : have[n][c] = "none"} \ {CHOOSE c \in Chunks : TRUE}

Missing(n) == {c \in Chunks : have[n][c] = "none"}

Fault ==
    /\ faults < MaxFaults
    /\ faults' = faults + 1

Receive(m, type) ==
    /\ m \in net
    /\ m.type = type

-----------------------------------------------------------------------------
(* announce() and want()                                                   *)

\* announce(): the caller has hashed the file; HAVE goes to the peers that
\* are connected now.
Announce(n) ==
    /\ file[n] = Genuine
    /\ Cardinality(net) <= MaxNet
    /\ seeding' = [seeding EXCEPT ![n] = TRUE]
    /\ \E connected \in SUBSET (Nodes \ {n}) :
          net' = net \union {[type |-> "have", from |-> n, to |-> p] : p \in connected}
    /\ UNCHANGED <<peersWith, wants, wanting, have, asking, asked, sending, disk, faults>>

\* Seeded fault: want() only asks the peers it hears of from now on.
WantUnasked(n) ==
    /\ wants[n] < MaxWants[n]
    /\ file[n] # Genuine
    /\ wanting[n] = 0
    /\ wants' = [wants EXCEPT ![n] = @ + 1]
    /\ wanting' = [wanting EXCEPT ![n] = wants[n] + 1]
    /\ UNCHANGED <<seeding, peersWith, have, asking, asked, sending, disk, net, faults>>

\* want(), under the lock: a second want() of the file returns at once.  The
\* caller does not have the file, or not whole.
Want(n) ==
    /\ wants[n] < MaxWants[n]
    /\ file[n] # Genuine
    /\ wanting[n] = 0
    /\ wants' = [wants EXCEPT ![n] = @ + 1]
    /\ wanting' = [wanting EXCEPT ![n] = wants[n] + 1]
    /\ asking' = [asking EXCEPT ![n] = @ \union peersWith[n]]
    /\ UNCHANGED <<seeding, peersWith, have, asked, sending, disk, net, faults>>

\* _request_chunks_from: the missing chunks are read under the lock and asked
\* for after it is released.
Request(n, p) ==
    LET needed == IF wanting[n] = 0 THEN {} ELSE Missing(n)
    IN  /\ p \in asking[n]
        /\ asking' = [asking EXCEPT ![n] = @ \ {p}]
        /\ asked' = [asked EXCEPT ![n] = @ \union ({p} \X needed)]
        /\ net' = net \union {[type |-> "request", from |-> n, to |-> p, chunk |-> c] :
                                 c \in needed}
        /\ UNCHANGED <<tables, sending, disk, faults>>

\* stop() clears the tables.  Threads go on, and so do the handlers.
Stop(n) ==
    /\ Fault
    /\ seeding' = [seeding EXCEPT ![n] = FALSE]
    /\ peersWith' = [peersWith EXCEPT ![n] = {}]
    /\ wanting' = [wanting EXCEPT ![n] = 0]
    /\ have' = [have EXCEPT ![n] = Empty]
    /\ asked' = [asked EXCEPT ![n] = {}]
    /\ UNCHANGED <<wants, asking, sending, disk, net>>

-----------------------------------------------------------------------------
(* Handlers of the messages.                                               *)

\* _on_have: under one lock the peer is added and the entry looked up.
OnHave(m) ==
    LET n == m.to
    IN  /\ Receive(m, "have")
        /\ net' = net \ {m}
        /\ peersWith' = [peersWith EXCEPT ![n] = @ \union {m.from}]
        /\ asking' = [asking EXCEPT ![n] =
                         IF wanting[n] # 0 THEN @ \union {m.from} ELSE @]
        /\ UNCHANGED <<seeding, wants, wanting, have, asked, sending, disk, faults>>

\* _on_request: a thread of its own will read the chunk and send it.
OnRequest(m) ==
    LET n == m.to
    IN  /\ Receive(m, "request")
        /\ net' = net \ {m}
        /\ sending' = [sending EXCEPT ![n] =
                          IF seeding[n] THEN @ \union {<<m.from, m.chunk>>} ELSE @]
        /\ UNCHANGED <<tables, asking, asked, disk, faults>>

\* Seeded fault: the entry stays in _wanting when it is complete.
OnChunkKeepsEntry(m) ==
    LET n == m.to
        new == [have[n] EXCEPT ![m.chunk] = m.datum]
    IN  /\ Receive(m, "chunk")
        /\ net' = net \ {m}
        /\ wanting[n] # 0
        /\ have' = [have EXCEPT ![n] = new]
        /\ assembling' = [assembling EXCEPT ![n] =
               IF \E c \in Chunks : new[c] = "none" THEN @
               ELSE @ \union {[ticket |-> wanting[n], stage |-> "open", chunks |-> new]}]
        /\ UNCHANGED <<file, seeding, peersWith, wants, wanting, asking, asked,
                       sending, completed, disturbed, faults>>

\* _on_chunk: whatever arrives for a wanted file is kept, the last one wins;
\* the one that completes it removes the entry and goes on to assemble.
OnChunk(m) ==
    LET n == m.to
        new == [have[n] EXCEPT ![m.chunk] = m.datum]
        complete == \A c \in Chunks : new[c] # "none"
    IN  /\ Receive(m, "chunk")
        /\ net' = net \ {m}
        /\ \/ /\ wanting[n] = 0
              /\ UNCHANGED <<wanting, have, asked, assembling, disturbed>>
           \/ /\ wanting[n] # 0
              /\ ~complete
              /\ have' = [have EXCEPT ![n] = new]
              /\ UNCHANGED <<wanting, asked, assembling, disturbed>>
           \/ /\ wanting[n] # 0
              /\ complete
              /\ wanting' = [wanting EXCEPT ![n] = 0]
              /\ have' = [have EXCEPT ![n] = Empty]
              /\ asked' = [asked EXCEPT ![n] = {}]
              /\ assembling' = [assembling EXCEPT ![n] = @ \union
                     {[ticket |-> wanting[n], stage |-> "open", chunks |-> new]}]
              /\ disturbed' = [disturbed EXCEPT ![n] = assembling[n] # {}]
        /\ UNCHANGED <<file, seeding, peersWith, wants, asking, sending,
                       completed, faults>>

-----------------------------------------------------------------------------
(* _send_chunk, on a thread of its own.                                    *)

\* classify_link: the link is OFFLINE if neither RNS nor the interface tells
\* a speed.  The other tiers only choose a warning.
Offline(expected, interface) == {expected, interface} \ {0} = {}

\* check_transfer only ever blocks a link that is OFFLINE; a saturated or slow
\* one earns a warning and is used all the same.
MayTransfer(expected, interface) == ~Offline(expected, interface)

\* The file is read now, whatever it has become since it was announced.
SendChunk(n, p, c) ==
    /\ <<p, c>> \in sending[n]
    /\ sending' = [sending EXCEPT ![n] = @ \ {<<p, c>>}]
    /\ \/ /\ file[n] # Gone
          /\ \E expected, interface \in Rates : MayTransfer(expected, interface)
          /\ net' = net \union {[type |-> "chunk", from |-> n, to |-> p,
                                 chunk |-> c, datum |-> file[n][c]]}
          /\ UNCHANGED faults
       \/ /\ file[n] = Gone
          /\ UNCHANGED <<net, faults>>
       \/ /\ \E expected, interface \in Rates : ~MayTransfer(expected, interface)
          /\ Fault
          /\ UNCHANGED net
    /\ UNCHANGED <<tables, asking, asked, disk>>

-----------------------------------------------------------------------------
(* _assemble, on the thread of the last chunk and without the lock.        *)

Replace(n, a, b) == assembling' = [assembling EXCEPT ![n] = (@ \ {a}) \union {b}]

Open(n, a) ==
    /\ a \in assembling[n]
    /\ a.stage = "open"
    /\ file' = [file EXCEPT ![n] = Truncated]
    /\ Replace(n, a, [a EXCEPT !.stage = "write"])
    /\ UNCHANGED <<tables, asking, asked, sending, completed, disturbed, net, faults>>

\* Seeded fault: the last chunk is not written.
WriteButLast(n, a) ==
    /\ a \in assembling[n]
    /\ a.stage = "write"
    /\ file' = [file EXCEPT ![n] = [a.chunks EXCEPT ![CHOOSE c \in Chunks : TRUE] = "bad"]]
    /\ Replace(n, a, [a EXCEPT !.stage = "check"])
    /\ UNCHANGED <<tables, asking, asked, sending, completed, disturbed, net, faults>>

Write(n, a) ==
    /\ a \in assembling[n]
    /\ a.stage = "write"
    /\ file' = [file EXCEPT ![n] = a.chunks]
    /\ Replace(n, a, [a EXCEPT !.stage = "check"])
    /\ UNCHANGED <<tables, asking, asked, sending, completed, disturbed, net, faults>>

\* The disk is full, say: what was written stays and nobody is told.
AssembleFails(n, a) ==
    /\ a \in assembling[n]
    /\ a.stage \in {"open", "write"}
    /\ Fault
    /\ assembling' = [assembling EXCEPT ![n] = @ \ {a}]
    /\ UNCHANGED <<tables, asking, asked, sending, file, completed, disturbed, net>>

\* The hash is that of the chunks, not of the file.  If it is wrong the file
\* is removed, and nobody is told either.
Check(n, a) ==
    /\ a \in assembling[n]
    /\ a.stage = "check"
    /\ assembling' = [assembling EXCEPT ![n] = @ \ {a}]
    /\ \/ /\ a.chunks = Genuine
          /\ completed' = [completed EXCEPT ![n] = @ \union
                              {[ticket |-> a.ticket, chunks |-> a.chunks]}]
          /\ UNCHANGED file
       \/ /\ a.chunks # Genuine
          /\ file' = [file EXCEPT ![n] = Gone]
          /\ UNCHANGED completed
    /\ UNCHANGED <<tables, asking, asked, sending, disturbed, net, faults>>

-----------------------------------------------------------------------------
(* The world around.                                                       *)

Lose(m) ==
    /\ m \in net
    /\ Fault
    /\ net' = net \ {m}
    /\ UNCHANGED <<tables, asking, asked, sending, disk>>

\* The user edits or removes the file; _seeding is not told.
Edit(n) ==
    /\ Fault
    /\ file[n] # Gone
    /\ \/ \E c \in Chunks : file' = [file EXCEPT ![n][c] = "bad"]
       \/ file' = [file EXCEPT ![n] = Gone]
    /\ disturbed' = [disturbed EXCEPT ![n] = @ \/ assembling[n] # {}]
    /\ UNCHANGED <<tables, asking, asked, sending, assembling, completed, net>>

Next ==
    \/ \E n \in Nodes :
          \/ Announce(n)
          \/ Want(n)
          \/ Stop(n)
          \/ Edit(n)
          \/ \E p \in asking[n] : Request(n, p)
          \/ \E s \in sending[n] : SendChunk(n, s[1], s[2])
          \/ \E a \in assembling[n] :
                Open(n, a) \/ Write(n, a) \/ AssembleFails(n, a) \/ Check(n, a)
    \/ \E m \in net : OnHave(m) \/ OnRequest(m) \/ OnChunk(m) \/ Lose(m)

Spec == Init /\ [][Next]_swarmVars

\* Threads run on, and a message that is not lost arrives.
Fairness ==
    /\ \A n, p \in Nodes : WF_swarmVars(Request(n, p))
    /\ \A n, p \in Nodes : \A c \in Chunks : WF_swarmVars(SendChunk(n, p, c))
    /\ \A n \in Nodes : WF_swarmVars(\E a \in assembling[n] :
                            Open(n, a) \/ Write(n, a) \/ Check(n, a))
    /\ \A m \in Message : WF_swarmVars(OnHave(m) \/ OnRequest(m) \/ OnChunk(m))

FairSpec == Spec /\ Fairness

-----------------------------------------------------------------------------
(* Properties.                                                             *)

SwarmTypes ==
    /\ file \in [Nodes -> [Chunks -> Data] \union {Gone}]
    /\ seeding \in [Nodes -> BOOLEAN]
    /\ peersWith \in [Nodes -> SUBSET Nodes]
    /\ wants \in [Nodes -> Nat]
    /\ wanting \in [Nodes -> Nat]
    /\ have \in [Nodes -> [Chunks -> Data \union {"none"}]]
    /\ asking \in [Nodes -> SUBSET Nodes]
    /\ asked \in [Nodes -> SUBSET (Nodes \X Chunks)]
    /\ sending \in [Nodes -> SUBSET (Nodes \X Chunks)]
    /\ assembling \in [Nodes -> SUBSET Assembly]
    /\ completed \in [Nodes -> SUBSET Answer]
    /\ disturbed \in [Nodes -> BOOLEAN]
    /\ net \subseteq Message
    /\ faults \in Nat

\* The transfers under way on a node have tickets that its want() gave out,
\* and no two the same: one entry, wanted once, is never assembled twice.
TicketsDiffer ==
    \A n \in Nodes :
        /\ wanting[n] <= wants[n]
        /\ \A a \in assembling[n] : a.ticket \in 1 .. wants[n] /\ a.ticket # wanting[n]
        /\ \A a, b \in assembling[n] : a.ticket = b.ticket => a = b

\* Every variable has its type, and _on_chunk, which removes an entry under
\* the lock and assembles it after, hands each want() to one assembly only,
\* however many chunks arrive at once or twice.
TypeOK == SwarmTypes /\ TicketsDiffer

\* want() and _on_have cannot miss one another: as long as a file is wanted,
\* every chunk that is missing has been asked of every peer known to have the
\* file, or is about to be.
KnownSeedersAsked ==
    \A n \in Nodes : wanting[n] # 0 =>
        \A p \in peersWith[n] : \A c \in Missing(n) :
            p \in asking[n] \/ <<p, c>> \in asked[n]

\* When on_complete is called, the file is at its destination and whole, unless
\* another assembly or the user wrote it during this one: the hash is taken
\* of the chunks in memory, not of what is on the disk.
CompletedFileIsThere ==
    [][\A n \in Nodes : completed'[n] # completed[n] =>
          file'[n] = Genuine \/ disturbed[n]]_swarmVars

\* Requests that may still be answered: the entry's and those being assembled.
Pending(n) ==
    {a.ticket : a \in assembling[n]} \union ({wanting[n]} \ {0})

Transfer == INSTANCE FileTransfer WITH
    pending <- [n \in Nodes |-> Pending(n)], delivered <- completed

\* Each want() is answered at most once, never after it was given up, and only
\* with the chunks the hash stands for, whatever was lost, late or changed.
AnswersAreGenuine == Transfer!Spec

\* A wanted file of which a seeder is known is delivered, if nothing fails and
\* nobody fetches the file twice.
WantedFilesArrive ==
    \A n \in Nodes :
        (wanting[n] # 0 /\ peersWith[n] # {}) ~>
            \/ completed[n] # {}
            \/ faults > 0
            \/ \E q \in Nodes : wants[q] > 1
=============================================================================
