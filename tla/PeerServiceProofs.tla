-------------------------- MODULE PeerServiceProofs --------------------------
(***************************************************************************)
(* Theorems about PeerService, for any set of peers and any number of      *)
(* announces handled at a time, events waiting and calls of stop().        *)
(***************************************************************************)
EXTENDS PeerService, FiniteSetTheorems, SequenceTheorems, TLAPS

-----------------------------------------------------------------------------
(* How often an event is in a queue.                                       *)

At(q, e) == {i \in DOMAIN q : q[i] = e}

LEMMA AtFinite ==
    ASSUME NEW q \in Seq(Event), NEW e
    PROVE  IsFiniteSet(At(q, e)) /\ Cardinality(At(q, e)) \in Nat
<1>1. DOMAIN q = 1 .. Len(q) /\ Len(q) \in Nat
  BY LenProperties
<1>2. IsFiniteSet(1 .. Len(q))
  BY <1>1, FS_Interval
<1>3. At(q, e) \in SUBSET (1 .. Len(q))
  BY <1>1 DEF At
<1>. QED  BY <1>2, <1>3, FS_Subset, FS_CardinalityType

LEMMA AppendCounts ==
    ASSUME NEW q \in Seq(Event), NEW x \in Event, NEW e
    PROVE  Cardinality(At(Append(q, x), e))
              = Cardinality(At(q, e)) + (IF x = e THEN 1 ELSE 0)
<1> DEFINE n == Len(q) + 1
<1>1. /\ DOMAIN q = 1 .. Len(q) /\ Len(q) \in Nat
      /\ DOMAIN Append(q, x) = 1 .. n
      /\ Append(q, x)[n] = x
      /\ \A i \in 1 .. Len(q) : Append(q, x)[i] = q[i]
  BY LenProperties
<1>2. n \notin At(q, e) /\ 1 .. n = (1 .. Len(q)) \cup {n}
  BY <1>1 DEF At
<1> HIDE DEF n
<1>3. CASE x = e
  <2>1. At(Append(q, x), e) = At(q, e) \cup {n}
    BY <1>1, <1>2, <1>3 DEF At
  <2>. QED  BY <1>2, <1>3, <2>1, AtFinite, FS_AddElement
<1>4. CASE x # e
  <2>1. At(Append(q, x), e) = At(q, e)
    BY <1>1, <1>2, <1>4 DEF At
  <2>. QED  BY <1>4, <2>1, AtFinite
<1>. QED  BY <1>3, <1>4

LEMMA TailCounts ==
    ASSUME NEW q \in Seq(Event), q # <<>>, NEW e
    PROVE  Cardinality(At(q, e))
              = Cardinality(At(Tail(q), e)) + (IF Head(q) = e THEN 1 ELSE 0)
<1> DEFINE later == At(q, e) \ {1}
           f == [i \in At(Tail(q), e) |-> i + 1]
<1>1. /\ Len(q) \in Nat \ {0} /\ DOMAIN q = 1 .. Len(q)
      /\ Tail(q) \in Seq(Event) /\ Len(Tail(q)) = Len(q) - 1
      /\ DOMAIN Tail(q) = 1 .. (Len(q) - 1)
      /\ \A i \in 1 .. (Len(q) - 1) : Tail(q)[i] = q[i + 1]
      /\ Head(q) = q[1]
  BY LenProperties, EmptySeq, HeadTailProperties
<1>2. f \in Bijection(At(Tail(q), e), later)
  <2>1. \A i \in At(Tail(q), e) : i \in Nat /\ i + 1 \in later
    BY <1>1 DEF At
  <2>2. f \in [At(Tail(q), e) -> later]
    BY <2>1
  <2>3. \A i, j \in At(Tail(q), e) : f[i] = f[j] => i = j
    BY <2>1
  <2>4. ASSUME NEW j \in later
        PROVE  \E i \in At(Tail(q), e) : f[i] = j
    <3>1. j - 1 \in At(Tail(q), e) /\ j = (j - 1) + 1
      BY <1>1 DEF At
    <3>. QED  BY <3>1
  <2> HIDE DEF f, later
  <2>. QED  BY <2>2, <2>3, <2>4
            DEF Bijection, Injection, Surjection, IsInjective
<1>3. Cardinality(later) = Cardinality(At(Tail(q), e))
  <2> HIDE DEF f, later
  <2>1. ExistsBijection(At(Tail(q), e), later)
    BY <1>2 DEF ExistsBijection
  <2>. QED  BY <1>1, <2>1, AtFinite, FS_Bijection
<1>4. 1 \in At(q, e) <=> Head(q) = e
  BY <1>1 DEF At
<1>5. /\ IsFiniteSet(At(q, e))
      /\ Cardinality(At(q, e)) \in Nat
      /\ Cardinality(At(Tail(q), e)) \in Nat
  BY <1>1, AtFinite
<1>6. Cardinality(later) = IF 1 \in At(q, e) THEN Cardinality(At(q, e)) - 1
                                            ELSE Cardinality(At(q, e))
  BY <1>5, FS_RemoveElement
<1> HIDE DEF later
<1>. QED  BY <1>3, <1>4, <1>5, <1>6

-----------------------------------------------------------------------------
(* The inductive invariant.                                                *)

\* The expiry thread holds a popped peer exactly while it has it to report,
\* and there is no such thread before RNS exists.
PoppedToReport ==
    /\ expiry = "report" <=> popped # NoPeer
    /\ rns = "none" => expiry = "none"

Accounted(p) ==
    balance[p] + added[p] + InQueue("discovered", p)
        = InQueue("lost", p) + (IF popped = p THEN 1 ELSE 0)
                             + (IF p \in peers THEN 1 ELSE 0)

Discovered(p) == [type |-> "discovered", peer |-> p]
Lost(p) == [type |-> "lost", peer |-> p]

LEMMA TypeInductive ==
    ASSUME TypeOK, PoppedToReport, [Next]_vars
    PROVE  TypeOK'
<1> USE DEF TypeOK, threads, table, events
<1>1. CASE FirstStart
  BY <1>1 DEF FirstStart, RnsStates, ExpiryStages
<1>2. CASE StartRaises
  BY <1>2 DEF StartRaises, RnsStates
<1>3. CASE Stop
  <2>1. stops' \in 0 .. MaxStops
    BY <1>3, PeerAssumption DEF Stop
  <2>. QED  BY <1>3, <2>1 DEF Stop
<1>4. CASE AnnouncerEnds
  BY <1>4 DEF AnnouncerEnds
<1>5. CASE Collect
  BY <1>5 DEF Collect, ExpiryStages
<1>6. CASE ReportLost
  <2>1. Lost(popped) \in Event
    BY <1>6 DEF ReportLost, PoppedToReport, Lost, Event
  <2>2. queue' \in Seq(Event)
    BY <1>6, <2>1 DEF ReportLost, Lost
  <2>. QED  BY <1>6, <2>2 DEF ReportLost, ExpiryStages
<1>7. CASE ExpiryTurn
  BY <1>7 DEF ExpiryTurn, ExpiryStages
<1>8. CASE Publish
  <2>1. Head(queue) \in Event /\ queue' \in Seq(Event)
    BY <1>8, HeadTailProperties DEF Publish
  <2>2. balance' \in [Peers -> Int]
    BY <1>8, <2>1, SMTT(60) DEF Publish, Event
  <2>. QED  BY <1>8, <2>1, <2>2 DEF Publish
<1>9. ASSUME NEW p \in Peers, Announce(p)
      PROVE  TypeOK'
  BY <1>9 DEF Announce
<1>10. ASSUME NEW p \in Peers, OnAnnounce(p)
       PROVE  TypeOK'
  <2>1. heard' \in [Peers -> Nat] /\ added' \in [Peers -> Nat]
    BY <1>10 DEF OnAnnounce
  <2>. QED  BY <1>10, <2>1 DEF OnAnnounce
<1>11. ASSUME NEW p \in Peers, ReportDiscovered(p)
       PROVE  TypeOK'
  <2>1. Discovered(p) \in Event
    BY DEF Discovered, Event
  <2>2. queue' \in Seq(Event) /\ added' \in [Peers -> Nat]
    BY <1>11, <2>1 DEF ReportDiscovered, Discovered
  <2>. QED  BY <1>11, <2>2 DEF ReportDiscovered
<1>12. ASSUME NEW p \in Peers, FallSilent(p)
       PROVE  TypeOK'
  BY <1>12 DEF FallSilent
<1>13. ASSUME NEW p \in Peers, Expire(p)
       PROVE  TypeOK'
  BY <1>13 DEF Expire, ExpiryStages
<1>14. CASE UNCHANGED vars
  BY <1>14 DEF vars
<1>. QED
  BY <1>1, <1>2, <1>3, <1>4, <1>5, <1>6, <1>7, <1>8, <1>9, <1>10, <1>11,
     <1>12, <1>13, <1>14 DEF Next, ThreadStep

LEMMA PoppedInductive ==
    ASSUME TypeOK, PoppedToReport, [Next]_vars
    PROVE  PoppedToReport'
<1> USE DEF PoppedToReport, threads, table, events
<1>1. CASE FirstStart \/ StartRaises \/ Stop \/ AnnouncerEnds
  BY <1>1 DEF FirstStart, StartRaises, Stop, AnnouncerEnds
<1>2. CASE Collect \/ ReportLost \/ ExpiryTurn \/ Publish
  BY <1>2 DEF Collect, ReportLost, ExpiryTurn, Publish
<1>3. ASSUME NEW p \in Peers,
             \/ Announce(p) \/ OnAnnounce(p) \/ ReportDiscovered(p)
             \/ FallSilent(p)
      PROVE  PoppedToReport'
  BY <1>3 DEF Announce, OnAnnounce, ReportDiscovered, FallSilent
<1>4. ASSUME NEW p \in Peers, Expire(p)
      PROVE  PoppedToReport'
  BY <1>4, PeerAssumption DEF Expire
<1>5. CASE UNCHANGED vars
  BY <1>5 DEF vars
<1>. QED  BY <1>1, <1>2, <1>3, <1>4, <1>5 DEF Next, ThreadStep

\* The two counts of a peer's events are numbers.
LEMMA QueueCounts ==
    ASSUME TypeOK, NEW p \in Peers
    PROVE  /\ InQueue("discovered", p) = Cardinality(At(queue, Discovered(p)))
           /\ InQueue("lost", p) = Cardinality(At(queue, Lost(p)))
           /\ InQueue("discovered", p) \in Nat
           /\ InQueue("lost", p) \in Nat
BY AtFinite DEF InQueue, At, Discovered, Lost, TypeOK

\* An event that is handed to the loop is counted once.
LEMMA HandedOver ==
    ASSUME TypeOK, NEW x \in Event, queue' = Append(queue, x), NEW p \in Peers
    PROVE  /\ InQueue("discovered", p)' = InQueue("discovered", p)
                 + (IF x = Discovered(p) THEN 1 ELSE 0)
           /\ InQueue("lost", p)' = InQueue("lost", p)
                 + (IF x = Lost(p) THEN 1 ELSE 0)
<1>1. /\ InQueue("discovered", p)' = Cardinality(At(queue', Discovered(p)))
      /\ InQueue("lost", p)' = Cardinality(At(queue', Lost(p)))
  BY DEF InQueue, At, Discovered, Lost
<1>2. queue \in Seq(Event)
  BY DEF TypeOK
<1>. QED  BY <1>1, <1>2, QueueCounts, AppendCounts

LEMMA AccountsInductive ==
    ASSUME TypeOK, PoppedToReport, NEW p \in Peers, Accounted(p), [Next]_vars
    PROVE  Accounted(p)'
<1> USE DEF threads, table, events
<1>0. /\ balance \in [Peers -> Int]
      /\ added \in [Peers -> Nat] /\ added[p] \in Nat /\ balance[p] \in Int
      /\ InQueue("discovered", p) \in Nat
      /\ InQueue("lost", p) \in Nat
      /\ NoPeer \notin Peers
  BY QueueCounts, PeerAssumption DEF TypeOK
<1>1. ASSUME UNCHANGED <<balance, added, queue, popped, peers>>
      PROVE  Accounted(p)'
  BY <1>1 DEF Accounted, InQueue
<1>2. CASE FirstStart \/ StartRaises \/ Stop \/ AnnouncerEnds
  BY <1>1, <1>2 DEF FirstStart, StartRaises, Stop, AnnouncerEnds
<1>3. CASE Collect \/ ExpiryTurn
  BY <1>1, <1>3 DEF Collect, ExpiryTurn
<1>4. ASSUME NEW r \in Peers, Announce(r) \/ FallSilent(r)
      PROVE  Accounted(p)'
  BY <1>1, <1>4 DEF Announce, FallSilent
<1>5. CASE ReportLost
  <2>1. popped \in Peers /\ Lost(popped) \in Event
    BY <1>5 DEF ReportLost, PoppedToReport, TypeOK, Lost, Event
  <2>2. /\ queue' = Append(queue, Lost(popped)) /\ popped' = NoPeer
        /\ UNCHANGED <<balance, added, peers>>
    BY <1>5 DEF ReportLost, Lost
  <2>3. /\ InQueue("discovered", p)' = InQueue("discovered", p)
        /\ InQueue("lost", p)' = InQueue("lost", p)
              + (IF popped = p THEN 1 ELSE 0)
    <3>1. /\ Lost(popped) # Discovered(p)
          /\ Lost(popped) = Lost(p) <=> popped = p
      BY DEF Lost, Discovered
    <3>. QED  BY <1>0, <2>1, <2>2, <3>1, HandedOver
  <2>. QED  BY <1>0, <2>2, <2>3 DEF Accounted
<1>6. ASSUME NEW r \in Peers, ReportDiscovered(r)
      PROVE  Accounted(p)'
  <2>1. Discovered(r) \in Event
    BY DEF Discovered, Event
  <2>2. /\ queue' = Append(queue, Discovered(r))
        /\ added' = [added EXCEPT ![r] = @ - 1]
        /\ UNCHANGED <<balance, popped, peers>>
    BY <1>6 DEF ReportDiscovered, Discovered
  <2>3. /\ InQueue("lost", p)' = InQueue("lost", p)
        /\ InQueue("discovered", p)' = InQueue("discovered", p)
              + (IF r = p THEN 1 ELSE 0)
    <3>1. /\ Discovered(r) # Lost(p)
          /\ Discovered(r) = Discovered(p) <=> r = p
      BY DEF Lost, Discovered
    <3>. QED  BY <1>0, <2>1, <2>2, <3>1, HandedOver
  <2>4. added'[p] = added[p] - (IF r = p THEN 1 ELSE 0)
    BY <1>0, <2>2
  <2>. QED  BY <1>0, <2>2, <2>3, <2>4 DEF Accounted
<1>7. ASSUME NEW r \in Peers, OnAnnounce(r)
      PROVE  Accounted(p)'
  <2>1. /\ added' = [added EXCEPT ![r] = IF r \in peers THEN @ ELSE @ + 1]
        /\ peers' = peers \cup {r}
        /\ UNCHANGED <<balance, popped, queue>>
    BY <1>7 DEF OnAnnounce
  <2>2. added'[p] = added[p] + (IF r = p /\ p \notin peers THEN 1 ELSE 0)
    BY <1>0, <2>1
  <2>. QED  BY <1>0, <2>1, <2>2 DEF Accounted, InQueue
<1>8. ASSUME NEW r \in Peers, Expire(r)
      PROVE  Accounted(p)'
  <2>1. /\ popped = NoPeer
        /\ popped' = (IF r \in peers THEN r ELSE NoPeer)
        /\ peers' = peers \ {r}
        /\ UNCHANGED <<balance, added, queue>>
    BY <1>8 DEF Expire, PoppedToReport
  <2>. QED  BY <1>0, <2>1 DEF Accounted, InQueue
<1>9. CASE Publish
  <2> DEFINE e == Head(queue)
  <2>1. /\ queue \in Seq(Event) /\ queue # <<>> /\ queue' = Tail(queue)
        /\ balance' = [balance EXCEPT ![e.peer] =
                          IF e.type = "discovered" THEN @ + 1 ELSE @ - 1]
        /\ UNCHANGED <<added, popped, peers>>
    BY <1>9 DEF Publish, TypeOK
  <2>2. e \in Event
    BY <2>1, HeadTailProperties
  <2>3. /\ InQueue("discovered", p) = InQueue("discovered", p)'
              + (IF e = Discovered(p) THEN 1 ELSE 0)
        /\ InQueue("lost", p) = InQueue("lost", p)'
              + (IF e = Lost(p) THEN 1 ELSE 0)
    <3>1. /\ InQueue("discovered", p)' = Cardinality(At(queue', Discovered(p)))
          /\ InQueue("lost", p)' = Cardinality(At(queue', Lost(p)))
      BY DEF InQueue, At, Discovered, Lost
    <3>. QED  BY <2>1, <3>1, QueueCounts, TailCounts
  <2>4. /\ InQueue("discovered", p)' \in Nat
        /\ InQueue("lost", p)' \in Nat
    <3>1. TypeOK'
      BY TypeInductive
    <3>2. /\ IsFiniteSet(At(queue', Discovered(p)))
          /\ Cardinality(At(queue', Discovered(p))) \in Nat
          /\ Cardinality(At(queue', Lost(p))) \in Nat
      BY <3>1, AtFinite DEF TypeOK
    <3>. QED  BY <3>2 DEF InQueue, At, Discovered, Lost
  <2>5. balance'[p] = balance[p] + (IF e = Discovered(p) THEN 1 ELSE 0)
                                 - (IF e = Lost(p) THEN 1 ELSE 0)
    <3>1. /\ e.peer \in Peers /\ e.type \in {"discovered", "lost"}
          /\ e = [type |-> e.type, peer |-> e.peer]
      BY <2>2 DEF Event
    <3>2. /\ e = Discovered(p) <=> e.type = "discovered" /\ e.peer = p
          /\ e = Lost(p) <=> e.type = "lost" /\ e.peer = p
      BY <3>1 DEF Discovered, Lost
    <3> HIDE DEF e
    <3>. QED  BY <1>0, <2>1, <3>1, <3>2
  <2> HIDE DEF e
  <2>6. Discovered(p) # Lost(p)
    BY DEF Discovered, Lost
  <2>7. balance'[p] + InQueue("discovered", p)' - InQueue("lost", p)'
           = balance[p] + InQueue("discovered", p) - InQueue("lost", p)
    BY <1>0, <2>3, <2>4, <2>5, <2>6
  <2>8. balance'[p] \in Int
    BY <1>0, <2>5
  <2>9. /\ added'[p] = added[p]
        /\ (popped = p)' <=> popped = p
        /\ (p \in peers)' <=> p \in peers
    BY <2>1
  <2>10. balance[p] + added[p] + InQueue("discovered", p)
            = InQueue("lost", p) + (IF popped = p THEN 1 ELSE 0)
                                 + (IF p \in peers THEN 1 ELSE 0)
    BY DEF Accounted
  <2> DEFINE held == (IF popped = p THEN 1 ELSE 0)
                        + (IF p \in peers THEN 1 ELSE 0)
             D == InQueue("discovered", p)
             L == InQueue("lost", p)
  <2>11. held \in Nat /\ held' = held
    BY <2>9
  <2>12. balance[p] + added[p] + D = L + held
    BY <1>0, <2>10
  <2> HIDE DEF held, D, L
  <2>13. balance'[p] + added'[p] + D' = L' + held'
    BY <1>0, <2>4, <2>7, <2>8, <2>9, <2>11, <2>12 DEF D, L
  <2>. QED  BY <1>0, <2>4, <2>13 DEF Accounted, held, D, L
<1>10. CASE UNCHANGED vars
  BY <1>1, <1>10 DEF vars
<1>. QED
  BY <1>2, <1>3, <1>4, <1>5, <1>6, <1>7, <1>8, <1>9, <1>10 DEF Next, ThreadStep

-----------------------------------------------------------------------------
(* The theorems.                                                           *)

TableInv == TypeOK /\ PoppedToReport /\ EventsAccountForTable

LEMMA InitTable == Init => TableInv
<1> SUFFICES ASSUME Init PROVE TableInv
  OBVIOUS
<1>1. TypeOK
  <2>1. queue \in Seq(Event)
    BY EmptySeq DEF Init
  <2>2. stops \in 0 .. MaxStops
    BY PeerAssumption DEF Init
  <2>3. /\ heard \in [Peers -> Nat] /\ added \in [Peers -> Nat]
        /\ balance \in [Peers -> Int]
    BY DEF Init
  <2>. QED  BY <2>1, <2>2, <2>3 DEF Init, TypeOK, RnsStates, ExpiryStages
<1>2. PoppedToReport
  BY DEF Init, PoppedToReport
<1>3. ASSUME NEW p \in Peers PROVE Accounted(p)
  <2>1. At(queue, Discovered(p)) = {} /\ At(queue, Lost(p)) = {}
    BY DEF Init, At
  <2>2. InQueue("discovered", p) = 0 /\ InQueue("lost", p) = 0
    BY <1>1, <2>1, QueueCounts, FS_EmptySet
  <2>. QED  BY <2>2, PeerAssumption DEF Init, Accounted
<1>. QED  BY <1>1, <1>2, <1>3 DEF TableInv, EventsAccountForTable, Accounted

LEMMA NextTable == TableInv /\ [Next]_vars => TableInv'
<1> SUFFICES ASSUME TableInv, [Next]_vars PROVE TableInv'
  OBVIOUS
<1>1. ASSUME NEW p \in Peers PROVE Accounted(p)'
  BY AccountsInductive DEF TableInv, EventsAccountForTable, Accounted
<1>. QED  BY <1>1, TypeInductive, PoppedInductive
          DEF TableInv, EventsAccountForTable, Accounted

\* Whatever the announce threads, the expiry thread, start() and stop() do,
\* the peer service's state is well typed.
THEOREM PeerTypeCorrect == Spec => []TypeOK
BY InitTable, NextTable, PTL DEF Spec, TableInv

\* However the handlers and the expiry thread overlap, and in whatever order
\* their events reach the loop, what subscribers were told and what is still
\* on its way add up to the table: no discovery or loss is dropped or doubled.
THEOREM EventsAccount == Spec => []EventsAccountForTable
BY InitTable, NextTable, PTL DEF Spec, TableInv
===============================================================================
