------------------------- MODULE SwarmTransferProofs -------------------------
(***************************************************************************)
(* Theorems about SwarmTransfer, for any nodes, chunks and number of wants *)
(* and faults.                                                             *)
(***************************************************************************)
EXTENDS SwarmTransfer, TLAPS

\* Two assemblies at a time disturb each other; one alone finds on the disk
\* what it wrote there.
DisturbanceNoticed ==
    \A n \in Nodes : \A a \in assembling[n] :
        \/ disturbed[n]
        \/ /\ assembling[n] = {a}
           /\ a.stage = "check" => file[n] = a.chunks

SwarmInv ==
    /\ SwarmTypes
    /\ TicketsDiffer
    /\ DisturbanceNoticed
    /\ KnownSeedersAsked

\* The steps of the threads that write the file.
AssemblyStep(n) == \E a \in assembling[n] :
    Open(n, a) \/ Write(n, a) \/ AssembleFails(n, a) \/ Check(n, a)

LEMMA Contents ==
    /\ Genuine \in [Chunks -> Data]
    /\ Truncated \in [Chunks -> Data]
    /\ Gone \notin [Chunks -> Data]
    /\ Empty \in [Chunks -> Data \union {"none"}]
<1>1. Gone \notin [Chunks -> Data]
  <2>1. DOMAIN Gone = {}
    BY DEF Gone
  <2>. QED  BY <2>1, SwarmAssumption
<1>. QED  BY <1>1 DEF Genuine, Truncated, Empty, Data

LEMMA AddedTo ==
    ASSUME NEW S, NEW f \in [Nodes -> SUBSET S], NEW n \in Nodes, NEW x \in S, NEW g,
           g = f \/ g = [f EXCEPT ![n] = @ \union {x}]
    PROVE  g \in [Nodes -> SUBSET S]
OBVIOUS

LEMMA Cleared ==
    ASSUME NEW S, NEW f \in [Nodes -> SUBSET S], NEW n \in Nodes, NEW g,
           g = f \/ g = [f EXCEPT ![n] = {}]
    PROVE  g \in [Nodes -> SUBSET S]
OBVIOUS

-----------------------------------------------------------------------------
(* Types.                                                                  *)

LEMMA InitType == Init => SwarmTypes
BY Contents DEF Init, SwarmTypes

LEMMA NextType == SwarmTypes /\ [Next]_swarmVars => SwarmTypes'
<1> SUFFICES ASSUME SwarmTypes, [Next]_swarmVars PROVE SwarmTypes'
  OBVIOUS
<1> USE DEF SwarmTypes, tables, disk
<1>1. ASSUME NEW n \in Nodes, Announce(n) PROVE SwarmTypes'
  <2>1. net' \subseteq Message
    BY <1>1 DEF Announce, Message
  <2>. QED  BY <1>1, <2>1 DEF Announce
<1>2. ASSUME NEW n \in Nodes, Want(n) PROVE SwarmTypes'
  BY <1>2 DEF Want
<1>3. ASSUME NEW n \in Nodes, Stop(n) PROVE SwarmTypes'
  BY <1>3, Contents DEF Stop, Fault
<1>4. ASSUME NEW n \in Nodes, Edit(n) PROVE SwarmTypes'
  <2>1. file[n] \in [Chunks -> Data]
    BY <1>4 DEF Edit
  <2>2. \A c \in Chunks : [file[n] EXCEPT ![c] = "bad"] \in [Chunks -> Data]
    BY <2>1 DEF Data
  <2>3. \/ \E c \in Chunks : file' = [file EXCEPT ![n] = [file[n] EXCEPT ![c] = "bad"]]
        \/ file' = [file EXCEPT ![n] = Gone]
    BY <1>4 DEF Edit
  <2>4. file' \in [Nodes -> [Chunks -> Data] \union {Gone}]
    BY <2>2, <2>3, ZenonT(60)
  <2>. QED  BY <1>4, <2>4 DEF Edit, Fault
<1>5. ASSUME NEW n \in Nodes, NEW p \in asking[n], Request(n, p) PROVE SwarmTypes'
  BY <1>5 DEF Request, Message, Missing
<1>6. ASSUME NEW n \in Nodes, NEW s \in sending[n], SendChunk(n, s[1], s[2])
      PROVE  SwarmTypes'
  <2>1. s[1] \in Nodes /\ s[2] \in Chunks /\ s = <<s[1], s[2]>>
    OBVIOUS
  <2>2. file[n] # Gone => file[n][s[2]] \in Data
    BY <2>1
  <2>3. net' \subseteq Message /\ faults' \in Nat
    <3>1. CASE file[n] # Gone
      <4> DEFINE reply == [type |-> "chunk", from |-> n, to |-> s[1],
                           chunk |-> s[2], datum |-> file[n][s[2]]]
      <4>1. reply \in Message
        BY <2>1, <2>2, <3>1 DEF Message
      <4> HIDE DEF reply
      <4>2. net' = net \/ net' = net \union {reply}
        BY <1>6, <3>1 DEF SendChunk, reply
      <4>. QED  BY <1>6, <4>1, <4>2 DEF SendChunk, Fault
    <3>2. CASE file[n] = Gone
      BY <1>6, <3>2 DEF SendChunk, Fault
    <3>. QED  BY <3>1, <3>2
  <2>. QED  BY <1>6, <2>1, <2>3 DEF SendChunk
<1>7. ASSUME NEW n \in Nodes, AssemblyStep(n) PROVE SwarmTypes'
  <2> PICK a \in assembling[n] :
         Open(n, a) \/ Write(n, a) \/ AssembleFails(n, a) \/ Check(n, a)
    BY <1>7 DEF AssemblyStep
  <2>1. a \in Assembly
    OBVIOUS
  <2>2. CASE Open(n, a)
    <3>1. [a EXCEPT !.stage = "write"] \in Assembly
      BY <2>1 DEF Assembly
    <3>. QED  BY <2>2, <3>1, Contents DEF Open, Replace
  <2>3. CASE Write(n, a)
    <3>1. [a EXCEPT !.stage = "check"] \in Assembly /\ a.chunks \in [Chunks -> Data]
      BY <2>1 DEF Assembly
    <3>. QED  BY <2>3, <3>1 DEF Write, Replace
  <2>4. CASE AssembleFails(n, a)
    BY <2>4 DEF AssembleFails, Fault
  <2>5. CASE Check(n, a)
    <3> DEFINE answer == [ticket |-> a.ticket, chunks |-> a.chunks]
    <3>1. answer \in Answer
      BY <2>1 DEF Assembly, Answer
    <3>2. \/ completed' = completed
          \/ completed' = [completed EXCEPT ![n] = @ \union {answer}]
      BY <2>5 DEF Check
    <3> HIDE DEF answer
    <3>3. completed' \in [Nodes -> SUBSET Answer]
      BY <3>1, <3>2, AddedTo
    <3>4. file' \in [Nodes -> [Chunks -> Data] \union {Gone}]
      BY <2>5 DEF Check
    <3>5. assembling' \in [Nodes -> SUBSET Assembly]
      BY <2>5 DEF Check
    <3>6. UNCHANGED <<seeding, peersWith, wants, wanting, have, asking, asked, sending,
                      disturbed, net, faults>>
      BY <2>5 DEF Check
    <3>. QED  BY <3>3, <3>4, <3>5, <3>6
  <2>. QED  BY <2>2, <2>3, <2>4, <2>5
<1>8. ASSUME NEW m \in net, OnHave(m) PROVE SwarmTypes'
  BY <1>8 DEF OnHave, Receive, Message
<1>9. ASSUME NEW m \in net, OnRequest(m) PROVE SwarmTypes'
  BY <1>9 DEF OnRequest, Receive, Message
<1>10. ASSUME NEW m \in net, OnChunk(m) PROVE SwarmTypes'
  <2> DEFINE new == [have[m.to] EXCEPT ![m.chunk] = m.datum]
  <2>1. m.to \in Nodes /\ m.chunk \in Chunks /\ m.datum \in Data
    BY <1>10 DEF OnChunk, Receive, Message
  <2>2. new \in [Chunks -> Data \union {"none"}]
    BY <2>1
  <2>3. (\A c \in Chunks : new[c] # "none") => new \in [Chunks -> Data]
    BY <2>2
  <2> HIDE DEF new
  <2>4. \/ assembling' = assembling
        \/ /\ \A c \in Chunks : new[c] # "none"
           /\ assembling' = [assembling EXCEPT ![m.to] = @ \union
                  {[ticket |-> wanting[m.to], stage |-> "open", chunks |-> new]}]
    BY <1>10 DEF OnChunk, new
  <2>5. assembling' \in [Nodes -> SUBSET Assembly]
    <3>1. CASE \A c \in Chunks : new[c] # "none"
      <4>1. [ticket |-> wanting[m.to], stage |-> "open", chunks |-> new] \in Assembly
        BY <2>1, <2>3, <3>1 DEF Assembly
      <4> DEFINE b == [ticket |-> wanting[m.to], stage |-> "open", chunks |-> new]
      <4> HIDE DEF b
      <4>2. \/ assembling' = assembling
            \/ assembling' = [assembling EXCEPT ![m.to] = @ \union {b}]
        BY <2>4 DEF b
      <4>3. b \in Assembly
        BY <4>1 DEF b
      <4>. QED  BY <2>1, <4>2, <4>3, AddedTo
    <3>. QED  BY <2>4, <3>1
  <2>6. have' \in [Nodes -> [Chunks -> Data \union {"none"}]]
    <3>1. Empty \in [Chunks -> Data \union {"none"}]
      BY Contents
    <3>2. \/ have' = have
          \/ have' = [have EXCEPT ![m.to] = Empty]
          \/ have' = [have EXCEPT ![m.to] = new]
      BY <1>10 DEF OnChunk, new
    <3>. QED  BY <2>1, <2>2, <3>1, <3>2
  <2>7. wanting' \in [Nodes -> Nat] /\ asked' \in [Nodes -> SUBSET (Nodes \X Chunks)]
    <3>1. \/ wanting' = wanting /\ asked' = asked
          \/ /\ wanting' = [wanting EXCEPT ![m.to] = 0]
             /\ asked' = [asked EXCEPT ![m.to] = {}]
      BY <1>10 DEF OnChunk
    <3>2. wanting' \in [Nodes -> Nat]
      <4>1. wanting' = wanting \/ wanting' = [wanting EXCEPT ![m.to] = 0]
        BY <3>1
      <4>. QED  BY <2>1, <4>1, SMTT(30)
    <3>3. asked' \in [Nodes -> SUBSET (Nodes \X Chunks)]
      <4> DEFINE S == Nodes \X Chunks
      <4>1. asked \in [Nodes -> SUBSET S]
        OBVIOUS
      <4> HIDE DEF S
      <4>2. asked' \in [Nodes -> SUBSET S]
        BY <2>1, <3>1, <4>1, Cleared
      <4>. QED  BY <4>2 DEF S
    <3>. QED  BY <3>2, <3>3
  <2>8. /\ net' = net \ {m}
        /\ disturbed' = disturbed
           \/ disturbed' = [disturbed EXCEPT ![m.to] = assembling[m.to] # {}]
        /\ UNCHANGED <<file, seeding, peersWith, wants, asking, sending, completed, faults>>
    BY <1>10 DEF OnChunk
  <2>9. disturbed' \in [Nodes -> BOOLEAN]
    BY <2>8
  <2>10. net' \subseteq Message
    BY <2>8
  <2>11. UNCHANGED <<file, seeding, peersWith, wants, asking, sending, completed, faults>>
    BY <2>8
  <2>. QED  BY <2>5, <2>6, <2>7, <2>9, <2>10, <2>11
<1>11. ASSUME NEW m \in net, Lose(m) PROVE SwarmTypes'
  BY <1>11 DEF Lose, Fault
<1>12. CASE UNCHANGED swarmVars
  BY <1>12 DEF swarmVars
<1>. QED
  BY <1>1, <1>2, <1>3, <1>4, <1>5, <1>6, <1>7, <1>8, <1>9, <1>10, <1>11, <1>12
     DEF Next, AssemblyStep

-----------------------------------------------------------------------------
(* Tickets.                                                                *)

LEMMA InitTickets == Init => TicketsDiffer
BY DEF Init, TicketsDiffer

\* A step that opens, writes or ends an assembly keeps the others' tickets.
LEMMA AssemblyTickets ==
    ASSUME SwarmTypes, TicketsDiffer, NEW n \in Nodes, NEW a \in assembling[n],
           UNCHANGED <<wants, wanting>>,
           \/ assembling' = [assembling EXCEPT ![n] = @ \ {a}]
           \/ \E b : /\ b.ticket = a.ticket
                    /\ assembling' = [assembling EXCEPT ![n] = (@ \ {a}) \union {b}]
    PROVE  TicketsDiffer'
<1>1. PICK b : /\ b.ticket = a.ticket
               /\ assembling'[n] \subseteq (assembling[n] \ {a}) \union {b}
  BY DEF SwarmTypes
<1>2. \A k \in Nodes : k # n => assembling'[k] = assembling[k]
  BY DEF SwarmTypes
<1>. QED  BY <1>1, <1>2 DEF TicketsDiffer

LEMMA NextTickets == SwarmTypes /\ TicketsDiffer /\ [Next]_swarmVars => TicketsDiffer'
<1> SUFFICES ASSUME SwarmTypes, TicketsDiffer, [Next]_swarmVars PROVE TicketsDiffer'
  OBVIOUS
<1>1. CASE UNCHANGED <<wants, wanting, assembling>>
  BY <1>1 DEF TicketsDiffer
<1>2. ASSUME NEW n \in Nodes, Want(n) PROVE TicketsDiffer'
  BY <1>2 DEF Want, disk, SwarmTypes, TicketsDiffer
<1>3. ASSUME NEW n \in Nodes, Stop(n) PROVE TicketsDiffer'
  BY <1>3 DEF Stop, disk, SwarmTypes, TicketsDiffer
<1>4. ASSUME NEW n \in Nodes, AssemblyStep(n) PROVE TicketsDiffer'
  <2> PICK a \in assembling[n] :
         Open(n, a) \/ Write(n, a) \/ AssembleFails(n, a) \/ Check(n, a)
    BY <1>4 DEF AssemblyStep
  <2>1. UNCHANGED <<wants, wanting>>
    BY DEF Open, Write, AssembleFails, Check, tables
  <2>2. \/ assembling' = [assembling EXCEPT ![n] = @ \ {a}]
        \/ \E b : /\ b.ticket = a.ticket
                 /\ assembling' = [assembling EXCEPT ![n] = (@ \ {a}) \union {b}]
    <3>1. [a EXCEPT !.stage = "write"].ticket = a.ticket
          /\ [a EXCEPT !.stage = "check"].ticket = a.ticket
      BY DEF SwarmTypes, Assembly
    <3>. QED  BY <3>1 DEF Open, Write, AssembleFails, Check, Replace
  <2>. QED  BY <2>1, <2>2, AssemblyTickets
<1>5. ASSUME NEW m \in net, OnChunk(m) PROVE TicketsDiffer'
  <2> DEFINE new == [have[m.to] EXCEPT ![m.chunk] = m.datum]
             n == m.to
             b == [ticket |-> wanting[n], stage |-> "open", chunks |-> new]
  <2>1. n \in Nodes
    BY <1>5 DEF OnChunk, Receive, SwarmTypes, Message
  <2>2. UNCHANGED wants
    BY <1>5 DEF OnChunk
  <2>3. CASE UNCHANGED <<wanting, assembling>>
    BY <2>2, <2>3 DEF TicketsDiffer
  <2>4. CASE /\ wanting[n] # 0
             /\ wanting' = [wanting EXCEPT ![n] = 0]
             /\ assembling' = [assembling EXCEPT ![n] = @ \union {b}]
    <3>1. b.ticket = wanting[n]
      OBVIOUS
    <3> HIDE DEF b
    <3>. QED  BY <2>1, <2>2, <2>4, <3>1 DEF SwarmTypes, TicketsDiffer
  <2>. QED  BY <1>5, <2>3, <2>4 DEF OnChunk
<1>. QED
  BY <1>1, <1>2, <1>3, <1>4, <1>5
     DEF Next, swarmVars, AssemblyStep, Announce, Edit, Request, SendChunk, OnHave,
         OnRequest, Lose, tables, disk

-----------------------------------------------------------------------------
(* The file and its assemblies.                                            *)

LEMMA InitDisturbance == Init => DisturbanceNoticed
BY DEF Init, DisturbanceNoticed

LEMMA NextDisturbance ==
    SwarmTypes /\ DisturbanceNoticed /\ [Next]_swarmVars => DisturbanceNoticed'
<1> SUFFICES ASSUME SwarmTypes, DisturbanceNoticed, [Next]_swarmVars
             PROVE  DisturbanceNoticed'
  OBVIOUS
<1>1. CASE UNCHANGED <<file, assembling, disturbed>>
  BY <1>1 DEF DisturbanceNoticed
<1>2. ASSUME NEW n \in Nodes, Edit(n) PROVE DisturbanceNoticed'
  <2>1. /\ disturbed' = [disturbed EXCEPT ![n] = @ \/ assembling[n] # {}]
        /\ UNCHANGED assembling
        /\ \A k \in Nodes : k # n => file'[k] = file[k]
    BY <1>2 DEF Edit, SwarmTypes
  <2>2. assembling[n] # {} => disturbed'[n]
    BY <2>1 DEF SwarmTypes
  <2>3. \A k \in Nodes : k # n => disturbed'[k] = disturbed[k]
    BY <2>1 DEF SwarmTypes
  <2>. QED  BY <2>1, <2>2, <2>3 DEF DisturbanceNoticed
<1>3. ASSUME NEW n \in Nodes, AssemblyStep(n) PROVE DisturbanceNoticed'
  <2> PICK a \in assembling[n] :
         Open(n, a) \/ Write(n, a) \/ AssembleFails(n, a) \/ Check(n, a)
    BY <1>3 DEF AssemblyStep
  <2>1. /\ UNCHANGED disturbed
        /\ \A k \in Nodes : k # n => file'[k] = file[k] /\ assembling'[k] = assembling[k]
    BY DEF Open, Write, AssembleFails, Check, Replace, SwarmTypes
  <2>2. CASE disturbed[n]
    BY <2>1, <2>2 DEF DisturbanceNoticed
  <2>3. CASE assembling[n] = {a}
    <3>1. a \in Assembly
      BY DEF SwarmTypes
    <3>2. CASE Open(n, a)
      <4>1. assembling'[n] = {[a EXCEPT !.stage = "write"]}
        BY <2>3, <3>2 DEF Open, Replace, SwarmTypes
      <4>2. [a EXCEPT !.stage = "write"].stage = "write"
        BY <3>1 DEF Assembly
      <4>. QED  BY <2>1, <4>1, <4>2 DEF DisturbanceNoticed
    <3>3. CASE Write(n, a)
      <4>1. assembling'[n] = {[a EXCEPT !.stage = "check"]} /\ file'[n] = a.chunks
        BY <2>3, <3>3 DEF Write, Replace, SwarmTypes
      <4>2. [a EXCEPT !.stage = "check"].chunks = a.chunks
        BY <3>1 DEF Assembly
      <4>. QED  BY <2>1, <4>1, <4>2 DEF DisturbanceNoticed
    <3>4. CASE AssembleFails(n, a) \/ Check(n, a)
      <4>1. assembling'[n] = {}
        BY <2>3, <3>4 DEF AssembleFails, Check, SwarmTypes
      <4>. QED  BY <2>1, <4>1 DEF DisturbanceNoticed
    <3>. QED  BY <3>2, <3>3, <3>4
  <2>. QED  BY <2>2, <2>3 DEF DisturbanceNoticed
<1>4. ASSUME NEW m \in net, OnChunk(m) PROVE DisturbanceNoticed'
  <2> DEFINE n == m.to
             b == [ticket |-> wanting[n], stage |-> "open",
                   chunks |-> [have[n] EXCEPT ![m.chunk] = m.datum]]
  <2>1. CASE UNCHANGED <<assembling, disturbed>>
    BY <1>4, <2>1 DEF OnChunk, DisturbanceNoticed
  <2>2. CASE /\ assembling' = [assembling EXCEPT ![n] = @ \union {b}]
             /\ disturbed' = [disturbed EXCEPT ![n] = assembling[n] # {}]
    <3>1. n \in Nodes
      BY <1>4 DEF OnChunk, Receive, SwarmTypes, Message
    <3>2. b.stage = "open" /\ UNCHANGED file
      BY <1>4 DEF OnChunk
    <3> HIDE DEF b
    <3>3. disturbed'[n] \/ assembling'[n] = {b}
      <4>1. CASE assembling[n] = {}
        BY <2>2, <3>1, <4>1 DEF SwarmTypes
      <4>2. CASE assembling[n] # {}
        BY <2>2, <3>1, <4>2 DEF SwarmTypes
      <4>. QED  BY <4>1, <4>2
    <3>4. \A k \in Nodes : k # n =>
             disturbed'[k] = disturbed[k] /\ assembling'[k] = assembling[k]
      BY <2>2, <3>1 DEF SwarmTypes
    <3>. QED  BY <3>1, <3>2, <3>3, <3>4 DEF DisturbanceNoticed
  <2>. QED  BY <1>4, <2>1, <2>2 DEF OnChunk
<1>. QED
  BY <1>1, <1>2, <1>3, <1>4
     DEF Next, swarmVars, AssemblyStep, Announce, Want, Stop, Request, SendChunk, OnHave,
         OnRequest, Lose, tables, disk

-----------------------------------------------------------------------------
(* Seeders.                                                                *)

LEMMA InitSeeders == Init => KnownSeedersAsked
BY DEF Init, KnownSeedersAsked

LEMMA NextSeeders ==
    SwarmTypes /\ KnownSeedersAsked /\ [Next]_swarmVars => KnownSeedersAsked'
<1> SUFFICES ASSUME SwarmTypes, KnownSeedersAsked, [Next]_swarmVars
             PROVE  KnownSeedersAsked'
  OBVIOUS
<1>1. CASE UNCHANGED <<peersWith, wanting, have, asking, asked>>
  BY <1>1 DEF KnownSeedersAsked, Missing
<1>2. ASSUME NEW n \in Nodes, Want(n) PROVE KnownSeedersAsked'
  BY <1>2 DEF Want, SwarmTypes, KnownSeedersAsked, Missing
<1>3. ASSUME NEW n \in Nodes, Stop(n) PROVE KnownSeedersAsked'
  BY <1>3 DEF Stop, SwarmTypes, KnownSeedersAsked, Missing
<1>4. ASSUME NEW n \in Nodes, NEW p \in asking[n], Request(n, p)
      PROVE  KnownSeedersAsked'
  BY <1>4 DEF Request, tables, SwarmTypes, KnownSeedersAsked, Missing
<1>5. ASSUME NEW m \in net, OnHave(m) PROVE KnownSeedersAsked'
  <2>1. m.to \in Nodes /\ m.from \in Nodes
    BY <1>5 DEF OnHave, Receive, SwarmTypes, Message
  <2>. QED  BY <1>5, <2>1 DEF OnHave, SwarmTypes, KnownSeedersAsked, Missing
<1>6. ASSUME NEW m \in net, OnChunk(m) PROVE KnownSeedersAsked'
  <2>1. m.to \in Nodes /\ m.chunk \in Chunks /\ m.datum # "none"
    BY <1>6 DEF OnChunk, Receive, SwarmTypes, Message, Data
  <2>2. CASE wanting[m.to] = 0
    <3>1. UNCHANGED <<peersWith, wanting, have, asking, asked>>
      BY <1>6, <2>2 DEF OnChunk
    <3>. QED  BY <1>1, <3>1
  <2>3. CASE wanting[m.to] # 0 /\ wanting' = wanting
    <3>1. /\ have' = [have EXCEPT ![m.to] = [have[m.to] EXCEPT ![m.chunk] = m.datum]]
          /\ UNCHANGED <<peersWith, asking, asked>>
      BY <1>6, <2>1, <2>3 DEF OnChunk, SwarmTypes
    <3>2. \A k \in Nodes : \A c \in Chunks : have'[k][c] = "none" => have[k][c] = "none"
      BY <2>1, <3>1 DEF SwarmTypes
    <3>. QED  BY <2>3, <3>1, <3>2 DEF KnownSeedersAsked, Missing
  <2>4. CASE wanting' = [wanting EXCEPT ![m.to] = 0]
    <3>1. /\ UNCHANGED <<peersWith, asking>>
          /\ \A k \in Nodes : k # m.to => have'[k] = have[k] /\ asked'[k] = asked[k]
      <4>1. /\ UNCHANGED <<peersWith, asking>>
            /\ \/ have' = have
               \/ have' = [have EXCEPT ![m.to] = Empty]
               \/ have' = [have EXCEPT ![m.to] = [have[m.to] EXCEPT ![m.chunk] = m.datum]]
            /\ asked' = asked \/ asked' = [asked EXCEPT ![m.to] = {}]
        BY <1>6 DEF OnChunk
      <4>. QED  BY <2>1, <4>1 DEF SwarmTypes
    <3>2. wanting'[m.to] = 0 /\ \A k \in Nodes : k # m.to => wanting'[k] = wanting[k]
      BY <2>1, <2>4 DEF SwarmTypes
    <3>3. \A k \in Nodes : k # m.to => Missing(k)' = Missing(k)
      BY <3>1 DEF Missing
    <3>. QED  BY <3>1, <3>2, <3>3 DEF KnownSeedersAsked
  <2>. QED  BY <1>6, <2>2, <2>3, <2>4 DEF OnChunk
<1>. QED
  BY <1>1, <1>2, <1>3, <1>4, <1>5, <1>6, ZenonT(60)
     DEF Next, swarmVars, Announce, Edit, Open, Write, AssembleFails, Check, SendChunk,
         OnRequest, Lose, tables, disk

-----------------------------------------------------------------------------
(* The theorems.                                                           *)

LEMMA SwarmInvInductive ==
    /\ Init => SwarmInv
    /\ SwarmInv /\ [Next]_swarmVars => SwarmInv'
BY InitType, InitTickets, InitDisturbance, InitSeeders,
   NextType, NextTickets, NextDisturbance, NextSeeders DEF SwarmInv

LEMMA SwarmInvHolds == Spec => []SwarmInv
BY SwarmInvInductive, PTL DEF Spec

\* Whatever is lost, late or changed, a node's tables are well typed, and each
\* want() it took up is one entry or one assembly, never two.
THEOREM SwarmTypeCorrect == Spec => []TypeOK
<1>1. SwarmInv => TypeOK
  BY DEF SwarmInv, TypeOK
<1>. QED  BY <1>1, SwarmInvHolds, PTL

\* want() and _on_have never miss one another, with any number of peers.
THEOREM SeedersAreAsked == Spec => []KnownSeedersAsked
BY SwarmInvHolds, PTL DEF SwarmInv

\* on_complete is called for a file that is there and whole, unless somebody
\* else wrote it meanwhile.
THEOREM CompletedIsThere == Spec => CompletedFileIsThere
<1>1. SwarmInv /\ [Next]_swarmVars =>
         [\A n \in Nodes : completed'[n] # completed[n] =>
             file'[n] = Genuine \/ disturbed[n]]_swarmVars
  <2> SUFFICES ASSUME SwarmInv, Next, NEW n \in Nodes, completed'[n] # completed[n]
               PROVE  file'[n] = Genuine \/ disturbed[n]
    OBVIOUS
  <2>1. PICK k \in Nodes : \E a \in assembling[k] : Check(k, a)
    BY ZenonT(60) DEF Next, Announce, Want, Stop, Edit, Request, SendChunk, Open, Write,
           AssembleFails, OnHave, OnRequest, OnChunk, Lose, tables, disk
  <2> PICK a \in assembling[k] : Check(k, a)
    BY <2>1
  <2>2. k = n /\ a.stage = "check" /\ a.chunks = Genuine /\ file' = file
    BY DEF Check, SwarmInv, SwarmTypes
  <2>. QED  BY <2>2 DEF SwarmInv, DisturbanceNoticed
<1>. QED  BY <1>1, SwarmInvHolds, PTL DEF Spec, CompletedFileIsThere

LEMMA StepAnswers == SwarmInv /\ [Next]_swarmVars =>
    [Transfer!Next]_<<wants, [n \in Nodes |-> Pending(n)], completed>>
<1> SUFFICES ASSUME SwarmInv, [Next]_swarmVars
             PROVE  Transfer!Next \/ UNCHANGED <<wants, [n \in Nodes |-> Pending(n)], completed>>
  OBVIOUS
<1> USE DEF SwarmInv, SwarmTypes
<1> DEFINE pending == [n \in Nodes |-> Pending(n)]
<1>1. CASE UNCHANGED <<wants, wanting, assembling, completed>>
  BY <1>1 DEF Pending
<1>2. ASSUME NEW n \in Nodes, Want(n) PROVE Transfer!Want(n)
  <2>1. UNCHANGED <<assembling, completed>>
    BY <1>2 DEF Want, disk
  <2>2. \A k \in Nodes : pending'[k] = [pending EXCEPT ![n] = @ \union {wants[n] + 1}][k]
    BY <1>2, <2>1 DEF Want, Pending
  <2>. QED  BY <1>2, <2>1, <2>2 DEF Want, Transfer!Want
<1>3. ASSUME NEW n \in Nodes, Stop(n), wanting[n] # 0
      PROVE  Transfer!Abandon(n, wanting[n])
  <2>1. UNCHANGED <<wants, assembling, completed>>
    BY <1>3 DEF Stop, disk
  <2>2. \A k \in Nodes : pending'[k] = [pending EXCEPT ![n] = @ \ {wanting[n]}][k]
    BY <1>3, <2>1 DEF Stop, Pending, TicketsDiffer
  <2>. QED  BY <1>3, <2>1, <2>2 DEF Pending, Transfer!Abandon
<1>4. ASSUME NEW n \in Nodes, NEW a \in assembling[n],
             assembling' = [assembling EXCEPT ![n] = @ \ {a}], UNCHANGED wanting
      PROVE  /\ a.ticket \in Pending(n)
             /\ pending' = [pending EXCEPT ![n] = @ \ {a.ticket}]
  <2>1. a.ticket \in Pending(n)
    BY DEF Pending
  <2>2. \A k \in Nodes : pending'[k] = [pending EXCEPT ![n] = @ \ {a.ticket}][k]
    <3>1. {b.ticket : b \in assembling[n] \ {a}} = {b.ticket : b \in assembling[n]} \ {a.ticket}
      BY DEF TicketsDiffer
    <3>2. a.ticket # wanting[n]
      BY DEF TicketsDiffer
    <3>3. Pending(n)' = Pending(n) \ {a.ticket}
      BY <1>4, <3>1, <3>2 DEF Pending
    <3>4. \A k \in Nodes : k # n => Pending(k)' = Pending(k)
      BY <1>4 DEF Pending
    <3>. QED  BY <3>3, <3>4
  <2>. QED  BY <2>1, <2>2
<1>5. ASSUME NEW n \in Nodes, NEW a \in assembling[n], NEW b, b.ticket = a.ticket,
             assembling' = [assembling EXCEPT ![n] = (@ \ {a}) \union {b}],
             UNCHANGED wanting
      PROVE  pending' = pending
  <2>1. Pending(n)' = Pending(n)
    BY <1>5 DEF Pending
  <2>2. \A k \in Nodes : k # n => Pending(k)' = Pending(k)
    BY <1>5 DEF Pending
  <2>. QED  BY <2>1, <2>2
<1>6. ASSUME NEW n \in Nodes, NEW a \in assembling[n], Check(n, a)
      PROVE  Transfer!Deliver(n, a.ticket) \/ Transfer!Abandon(n, a.ticket)
  <2>1. /\ assembling' = [assembling EXCEPT ![n] = @ \ {a}]
        /\ UNCHANGED <<wants, wanting>>
    BY <1>6 DEF Check, tables
  <2>2. a.ticket \in Pending(n) /\ pending' = [pending EXCEPT ![n] = @ \ {a.ticket}]
    BY <1>4, <2>1
  <2>3. \/ completed' = completed
        \/ completed' = [completed EXCEPT ![n] = @ \union
                            {[ticket |-> a.ticket, chunks |-> Genuine]}]
    BY <1>6 DEF Check
  <2>. QED  BY <2>1, <2>2, <2>3 DEF Transfer!Deliver, Transfer!Abandon
<1>7. ASSUME NEW n \in Nodes, NEW a \in assembling[n], AssembleFails(n, a)
      PROVE  Transfer!Abandon(n, a.ticket)
  <2>1. /\ assembling' = [assembling EXCEPT ![n] = @ \ {a}]
        /\ UNCHANGED <<wants, wanting, completed>>
    BY <1>7 DEF AssembleFails, tables
  <2>. QED  BY <1>4, <2>1 DEF Transfer!Abandon
<1>8. ASSUME NEW n \in Nodes, NEW a \in assembling[n], Open(n, a) \/ Write(n, a)
      PROVE  UNCHANGED <<wants, pending, completed>>
  <2>1. a \in Assembly
    OBVIOUS
  <2>2. /\ [a EXCEPT !.stage = "write"].ticket = a.ticket
        /\ [a EXCEPT !.stage = "check"].ticket = a.ticket
    BY <2>1 DEF Assembly
  <2>3. PICK b : /\ b.ticket = a.ticket
                 /\ assembling' = [assembling EXCEPT ![n] = (@ \ {a}) \union {b}]
    BY <1>8, <2>2 DEF Open, Write, Replace
  <2>4. UNCHANGED <<wants, wanting, completed>>
    BY <1>8 DEF Open, Write, tables
  <2>. QED  BY <1>5, <2>3, <2>4
<1>9. ASSUME NEW m \in net, OnChunk(m)
      PROVE  UNCHANGED <<wants, pending, completed>>
  <2> DEFINE n == m.to
             b == [ticket |-> wanting[n], stage |-> "open",
                   chunks |-> [have[n] EXCEPT ![m.chunk] = m.datum]]
  <2>1. UNCHANGED <<wants, completed>> /\ n \in Nodes
    BY <1>9 DEF OnChunk, Receive, Message
  <2>2. CASE UNCHANGED <<wanting, assembling>>
    BY <2>1, <2>2 DEF Pending
  <2>3. CASE /\ wanting[n] # 0
             /\ wanting' = [wanting EXCEPT ![n] = 0]
             /\ assembling' = [assembling EXCEPT ![n] = @ \union {b}]
    <3>1. b.ticket = wanting[n]
      OBVIOUS
    <3> HIDE DEF b, n
    <3>2. Pending(n)' = Pending(n)
      BY <2>1, <2>3, <3>1 DEF Pending
    <3>3. \A k \in Nodes : k # n => Pending(k)' = Pending(k)
      BY <2>1, <2>3 DEF Pending
    <3>. QED  BY <2>1, <3>2, <3>3
  <2>. QED  BY <1>9, <2>2, <2>3 DEF OnChunk
<1>10. CASE Next
  <2>1. CASE \E n \in Nodes : Want(n)
    BY <1>2, <2>1 DEF Transfer!Next
  <2>2. CASE \E n \in Nodes : Stop(n)
    <3> PICK n \in Nodes : Stop(n)
      BY <2>2
    <3>1. CASE wanting[n] = 0
      BY <1>1, <3>1 DEF Stop, disk
    <3>2. CASE wanting[n] # 0
      <4>1. wanting[n] \in pending[n]
        BY <3>2 DEF Pending
      <4>. QED  BY <1>3, <3>2, <4>1 DEF Transfer!Next
    <3>. QED  BY <3>1, <3>2
  <2>3. CASE \E n \in Nodes : AssemblyStep(n)
    <3> PICK n \in Nodes : AssemblyStep(n)
      BY <2>3
    <3> PICK a \in assembling[n] :
           Open(n, a) \/ Write(n, a) \/ AssembleFails(n, a) \/ Check(n, a)
      BY DEF AssemblyStep
    <3>1. a.ticket \in pending[n]
      BY DEF Pending
    <3>2. CASE Open(n, a) \/ Write(n, a)
      BY <1>8, <3>2
    <3>3. CASE AssembleFails(n, a) \/ Check(n, a)
      BY <1>6, <1>7, <3>1, <3>3 DEF Transfer!Next
    <3>. QED  BY <3>2, <3>3
  <2>4. CASE \E m \in net : OnChunk(m)
    BY <1>9, <2>4
  <2>5. CASE UNCHANGED <<wants, wanting, assembling, completed>>
    BY <1>1, <2>5
  <2>. QED
    BY <1>10, <2>1, <2>2, <2>3, <2>4, <2>5
       DEF Next, AssemblyStep, Announce, Edit, Request, SendChunk, OnHave, OnRequest,
           Lose, tables, disk
<1>11. CASE UNCHANGED swarmVars
  BY <1>1, <1>11 DEF swarmVars
<1>. QED  BY <1>10, <1>11

\* SwarmTransfer implements FileTransfer: each want() is answered at most once,
\* never after it was given up, and only with the genuine chunks.
THEOREM SwarmImplementsTransfer == Spec => AnswersAreGenuine
<1>1. Init => Transfer!Init
  BY DEF Init, Transfer!Init, Pending
<1>. QED  BY <1>1, StepAnswers, SwarmInvHolds, PTL DEF Spec, AnswersAreGenuine, Transfer!Spec
=============================================================================
