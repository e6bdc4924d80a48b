-------------------------- MODULE AppLifecycleProofs --------------------------
(***************************************************************************)
(* Theorems about AppLifecycle, for any setups: however many requests,     *)
(* commands, signals and failures.                                         *)
(*                                                                         *)
(* What may be relied on between two steps depends on what is still to be  *)
(* done: a container whose start is half done is not running, a service    *)
(* that stop() has still to come to may be up.  The invariants relate the  *)
(* services' state to the lists of steps by three things that every list   *)
(* keeps as its steps are done: the halves of a start() or stop() follow   *)
(* one another, nothing waits between them but where the code does, and    *)
(* the application's stop() has only steps that stop.                      *)
(***************************************************************************)
EXTENDS AppLifecycle, CLIInterface, SequenceTheorems, FiniteSetTheorems, TLAPS

Has(todo, step) == \E i \in DOMAIN todo : todo[i] = step

\* After each first, and nowhere else but in the beginning, comes the second.
Pair(todo, first, second) ==
    /\ \A i \in 1 .. Len(todo) - 1 : todo[i] = first <=> todo[i + 1] = second
    /\ \A i \in 1 .. Len(todo) : todo[i] = first => i < Len(todo)

Paired(todo) ==
    /\ Pair(todo, "i2pProbe", "i2pLaunch")
    /\ Pair(todo, "syncStart", "syncScan")
    /\ Pair(todo, "ctrStart", "ctrServe")
    /\ Pair(todo, "ctrStop", "ctrUnmount")
    /\ Pair(todo, "apiClose", "apiGone")

\* The second halves before which no other job runs.
Tight == {"i2pLaunch", "syncScan", "ctrServe", "ctrUnmount"}

Next1(todo) == IF todo = << >> THEN "nothing" ELSE todo[1]

StopKinds == {"stop", "tray"}
StopSteps == {"stopGuard", "syncStop", "syncUnlink", "rnsStop", "i2pHalt", "i2pClear",
              "ctrStop", "ctrUnmount", "apiClose", "apiGone", "loopStop"}

JobFits(job) ==
    /\ Paired(job.todo)
    /\ Has(job.todo, "loopStop") => job.kind = "stop"
    /\ Has(job.todo, "stopGuard") => job.kind \in StopKinds /\ job.todo \in {AppStop, StopAndExit}
    /\ job.kind \in StopKinds => \A i \in DOMAIN job.todo : job.todo[i] \in StopSteps

\* A stop() that has begun and is not over.
Stopping(job) == job.kind \in StopKinds /\ job.todo # << >> /\ job.todo[1] # "stopGuard"

JobsInv ==
    /\ current # 0 => ~Ended(current)
    /\ \A j \in DOMAIN jobs :
          /\ JobFits(jobs[j])
          /\ j # current => Next1(jobs[j].todo) \notin Tight
          /\ Stopping(jobs[j]) => ~running
    /\ Paired(cliTodo)
    /\ cliTodo # << >> => mode = "cli"
    /\ loopState \in {"stopping", "stopped"} \/ mainAt = "draining" => ~running

\* The step that the loop, or the prompt, is about to do.
Doing(step) ==
    \/ current # 0 /\ jobs[current].todo[1] = step
    \/ Next1(cliTodo) = step

ScansInv ==
    OneAtATime =>
        /\ mode # "cli" => \A k \in DOMAIN scans : scans[k].on = "main"
        /\ \A k \in DOMAIN scans : scans[k].at = "live" => k = Len(scans) /\ syncRunning
        /\ Doing("syncScan") => syncRunning /\ \A k \in DOMAIN scans : scans[k].at # "live"
        /\ mode # "cli" /\ syncRunning =>
               Doing("syncScan") \/ (scans # << >> /\ LastScan.at = "live")

ShellInv ==
    OneAtATime =>
        /\ (containerState = "running") <=> shellRunning
        /\ shellPath = IF shellRunning THEN shellSocket ELSE 0
        /\ shellRunning => shellSocket # 0
        /\ Doing("ctrServe") \/ Doing("ctrUnmount") => containerState # "running"

\* Without a second start() the i2pd launched last is the only one, and a
\* manager that does not run has none.
I2PInv ==
    OneAtATime =>
        \/ startedTwice
        \/ /\ daemons \subseteq {process}
           /\ ~i2pRunning => daemons = {}
           /\ Doing("i2pLaunch") => i2pRunning /\ daemons = {}

\* A stop() that has begun has still to come to the step.
Due(step) == \E j \in DOMAIN jobs : Stopping(jobs[j]) /\ Has(jobs[j].todo, step)

\* What stop() has come to is down.
DownInv ==
    ~running /\ ~meddled =>
        /\ syncRunning => Due("syncStop")
        /\ rnsRunning => Due("rnsStop")
        /\ i2pRunning \/ process \in daemons => Due("i2pHalt")
        /\ containerState # "stopped" => Due("ctrStop") \/ Due("ctrUnmount")
        /\ apiPath => Due("apiGone")

-----------------------------------------------------------------------------
(* Lists of steps.                                                         *)

LEMMA JoinPair ==
    ASSUME NEW first, NEW second, first # second, NEW s \in Seq(Steps), NEW t \in Seq(Steps),
           Pair(s, first, second), Pair(t, first, second),
           t # << >> => t[1] # second
    PROVE  Pair(s \o t, first, second)
<1>1. /\ Len(s \o t) = Len(s) + Len(t) /\ Len(s) \in Nat /\ Len(t) \in Nat
      /\ \A i \in 1 .. Len(s) + Len(t) :
            (s \o t)[i] = IF i <= Len(s) THEN s[i] ELSE t[i - Len(s)]
  BY ConcatProperties, LenProperties
<1>2. t # << >> => Len(t) > 0
  BY EmptySeq, LenProperties
<1>. DEFINE u == s \o t
<1>3. ASSUME NEW i \in 1 .. Len(u), u[i] = first
      PROVE  i < Len(u)
  <2>1. CASE i <= Len(s)
    BY <1>1, <1>3, <2>1 DEF Pair
  <2>2. CASE i > Len(s)
    <3>1. i - Len(s) \in 1 .. Len(t) /\ t[i - Len(s)] = first
      BY <1>1, <1>3, <2>2
    <3>. QED  BY <1>1, <3>1 DEF Pair
  <2>. QED  BY <1>1, <2>1, <2>2
<1>4. ASSUME NEW i \in 1 .. Len(u) - 1
      PROVE  u[i] = first <=> u[i + 1] = second
  <2>1. CASE i < Len(s)
    BY <1>1, <1>4, <2>1 DEF Pair
  <2>2. CASE i = Len(s)
    <3>1. s[i] # first /\ u[i] = s[i]
      BY <1>1, <1>4, <2>2 DEF Pair
    <3>2. Len(t) > 0 /\ u[i + 1] = t[1]
      BY <1>1, <1>4, <2>2
    <3>. QED  BY <3>1, <3>2, EmptySeq
  <2>3. CASE i > Len(s)
    <3>1. i - Len(s) \in 1 .. Len(t) - 1 /\ u[i] = t[i - Len(s)] /\ u[i + 1] = t[(i - Len(s)) + 1]
      BY <1>1, <1>4, <2>3
    <3>. QED  BY <3>1 DEF Pair
  <2>. QED  BY <1>1, <2>1, <2>2, <2>3
<1>. QED  BY <1>3, <1>4 DEF Pair

LEMMA JoinHas ==
    ASSUME NEW s \in Seq(Steps), NEW t \in Seq(Steps), NEW step
    PROVE  Has(s \o t, step) <=> Has(s, step) \/ Has(t, step)
<1>1. /\ s \o t \in Seq(Steps)
      /\ Len(s \o t) = Len(s) + Len(t) /\ Len(s) \in Nat /\ Len(t) \in Nat
      /\ DOMAIN s = 1 .. Len(s) /\ DOMAIN t = 1 .. Len(t) /\ DOMAIN (s \o t) = 1 .. Len(s \o t)
      /\ \A i \in 1 .. Len(s) + Len(t) :
            (s \o t)[i] = IF i <= Len(s) THEN s[i] ELSE t[i - Len(s)]
  BY ConcatProperties, LenProperties
<1>2. ASSUME Has(s \o t, step) PROVE Has(s, step) \/ Has(t, step)
  <2> PICK i \in 1 .. Len(s) + Len(t) : (s \o t)[i] = step
    BY <1>1, <1>2 DEF Has
  <2>1. i <= Len(s) => i \in DOMAIN s /\ s[i] = step
    BY <1>1
  <2>2. i > Len(s) => i - Len(s) \in DOMAIN t /\ t[i - Len(s)] = step
    BY <1>1
  <2>. QED  BY <1>1, <2>1, <2>2 DEF Has
<1>3. ASSUME NEW i \in DOMAIN s, s[i] = step PROVE Has(s \o t, step)
  BY <1>1, <1>3 DEF Has
<1>4. ASSUME NEW i \in DOMAIN t, t[i] = step PROVE Has(s \o t, step)
  <2>1. i + Len(s) \in DOMAIN (s \o t) /\ (s \o t)[i + Len(s)] = step
    BY <1>1, <1>4
  <2>. QED  BY <2>1 DEF Has
<1>. QED  BY <1>2, <1>3, <1>4 DEF Has

\* A list that any other may follow, of steps of services.
ServiceSteps == Steps \ {"stopGuard", "loopStop", "block"}

Whole(todo) ==
    /\ todo \in Seq(Steps)
    /\ Paired(todo)
    /\ Next1(todo) \notin Tight \cup {"apiGone"}
    /\ \A i \in DOMAIN todo : todo[i] \in ServiceSteps

LEMMA JoinWhole ==
    ASSUME NEW s, NEW t, Whole(s), Whole(t)
    PROVE  Whole(s \o t)
<1>1. s \in Seq(Steps) /\ t \in Seq(Steps) /\ s \o t \in Seq(Steps)
  BY ConcatProperties DEF Whole
<1>2. t # << >> => t[1] \notin Tight \cup {"apiGone"}
  BY DEF Whole, Next1
<1>3. Paired(s \o t)
  <2>1. t # << >> => /\ t[1] # "i2pLaunch" /\ t[1] # "syncScan" /\ t[1] # "ctrServe"
                     /\ t[1] # "ctrUnmount" /\ t[1] # "apiGone"
    BY <1>2 DEF Tight
  <2>6. Pair(s \o t, "i2pProbe", "i2pLaunch")
    BY <1>1, <2>1, JoinPair DEF Whole, Paired
  <2>2. Pair(s \o t, "syncStart", "syncScan")
    BY <1>1, <2>1, JoinPair DEF Whole, Paired
  <2>3. Pair(s \o t, "ctrStart", "ctrServe")
    BY <1>1, <2>1, JoinPair DEF Whole, Paired
  <2>4. Pair(s \o t, "ctrStop", "ctrUnmount")
    BY <1>1, <2>1, JoinPair DEF Whole, Paired
  <2>5. Pair(s \o t, "apiClose", "apiGone")
    BY <1>1, <2>1, JoinPair DEF Whole, Paired
  <2>. QED  BY <2>2, <2>3, <2>4, <2>5, <2>6 DEF Paired
<1>4. Next1(s \o t) \notin Tight \cup {"apiGone"}
  <2>1. CASE s = << >>
    BY <1>1, <2>1, ConcatEmptySeq DEF Whole
  <2>2. CASE s # << >>
    BY <1>1, <2>2, ConcatProperties, LenProperties, EmptySeq DEF Whole, Next1
  <2>. QED  BY <2>1, <2>2
<1>5. \A i \in DOMAIN (s \o t) : (s \o t)[i] \in ServiceSteps
  BY <1>1, JoinHas DEF Whole, Has
<1>. QED  BY <1>1, <1>3, <1>4, <1>5 DEF Whole

LEMMA WholeLists ==
    /\ Whole(I2PStart) /\ Whole(I2PStop) /\ Whole(SyncStart) /\ Whole(SyncStop)
    /\ Whole(ContainerStart) /\ Whole(ContainerStop)
    /\ Whole(<<"rnsStart">>) /\ Whole(<<"rnsStop">>) /\ Whole(<<"read">>) /\ Whole(<< >>)
    /\ Whole(<<"apiBind", "apiServe">>) /\ Whole(<<"apiClose", "apiGone">>)
BY DEF Whole, Paired, Pair, Next1, Tight, ServiceSteps, Steps,
   I2PStart, I2PStop, SyncStart, SyncStop, ContainerStart, ContainerStop

Verbs == {"service_start", "service_stop", "service_restart"}

\* The lists of the requests and of the commands, and that of the application's
\* start().
LEMMA ServiceLists ==
    /\ Whole(AppStart)
    /\ \A s \in Services : Whole(ServiceStart(s)) /\ Whole(ServiceStop(s))
    /\ \A verb \in Verbs, s \in Services : Whole(Handler(verb, s))
<1>1. Whole(AppStart)
  <2>1. Whole(I2PStart \o <<"rnsStart">>)
    BY WholeLists, JoinWhole
  <2>2. Whole((I2PStart \o <<"rnsStart">>) \o ContainerStart)
    BY <2>1, WholeLists, JoinWhole
  <2>3. Whole(((I2PStart \o <<"rnsStart">>) \o ContainerStart) \o SyncStart)
    BY <2>2, WholeLists, JoinWhole
  <2>. QED  BY <2>3, WholeLists, JoinWhole DEF AppStart
<1>2. ASSUME NEW s \in Services
      PROVE  Whole(ServiceStart(s)) /\ Whole(ServiceStop(s))
  <2>1. s \in {"peers", "sync", "container", "i2p", "all"}
    BY AppAssumption
  <2>2. CASE s # "all"
    BY <2>1, <2>2, WholeLists DEF ServiceStart, ServiceStop
  <2>3. CASE s = "all"
    <3>1. Whole(<<"rnsStart">> \o SyncStart) /\ Whole(I2PStop \o SyncStop)
      BY WholeLists, JoinWhole
    <3>2. Whole((<<"rnsStart">> \o SyncStart) \o ContainerStart)
          /\ Whole((I2PStop \o SyncStop) \o <<"rnsStop">>)
      BY <3>1, WholeLists, JoinWhole
    <3>3. Whole(((<<"rnsStart">> \o SyncStart) \o ContainerStart) \o I2PStart)
          /\ Whole(((I2PStop \o SyncStop) \o <<"rnsStop">>) \o ContainerStop)
      BY <3>2, WholeLists, JoinWhole
    <3>. QED  BY <2>3, <3>3 DEF ServiceStart, ServiceStop
  <2>. QED  BY <2>2, <2>3
<1>3. ASSUME NEW verb \in Verbs, NEW s \in Services
      PROVE  Whole(Handler(verb, s))
  BY <1>2, JoinWhole DEF Handler, Verbs
<1>. QED  BY <1>1, <1>2, <1>3

Downs == {"syncStop", "rnsStop", "i2pHalt", "ctrStop", "apiGone"}

LEMMA StopsAre ==
    /\ Whole(StopAll)
    /\ \A i \in DOMAIN StopAll : StopAll[i] \in StopSteps
    /\ \A step \in Downs : Has(StopAll, step)
<1> DEFINE A == SyncStop \o <<"rnsStop">>
           B == A \o I2PStop
           C == B \o ContainerStop
<1>1. Whole(A) /\ Whole(B) /\ Whole(C) /\ Whole(StopAll)
  <2>1. Whole(A)
    BY WholeLists, JoinWhole
  <2>2. Whole(B)
    BY <2>1, WholeLists, JoinWhole
  <2>3. Whole(C)
    BY <2>2, WholeLists, JoinWhole
  <2>. QED  BY <2>1, <2>2, <2>3, WholeLists, JoinWhole DEF StopAll
<1>2. ASSUME NEW step
      PROVE  Has(StopAll, step) <=> \/ Has(SyncStop, step) \/ step = "rnsStop" \/ Has(I2PStop, step)
                                  \/ Has(ContainerStop, step) \/ step \in {"apiClose", "apiGone"}
  <2>1. /\ Has(<<"rnsStop">>, step) <=> step = "rnsStop"
        /\ Has(<<"apiClose", "apiGone">>, step) <=> step \in {"apiClose", "apiGone"}
    BY DEF Has
  <2>2. Has(A, step) <=> Has(SyncStop, step) \/ step = "rnsStop"
    <3>1. SyncStop \in Seq(Steps) /\ <<"rnsStop">> \in Seq(Steps)
      BY WholeLists DEF Whole
    <3>. QED  BY <2>1, <3>1, JoinHas
  <2>3. Has(B, step) <=> Has(A, step) \/ Has(I2PStop, step)
    BY <1>1, WholeLists, JoinHas DEF Whole
  <2>4. Has(C, step) <=> Has(B, step) \/ Has(ContainerStop, step)
    BY <1>1, WholeLists, JoinHas DEF Whole
  <2>5. Has(StopAll, step) <=> Has(C, step) \/ step \in {"apiClose", "apiGone"}
    <3>1. C \in Seq(Steps) /\ <<"apiClose", "apiGone">> \in Seq(Steps)
      BY <1>1, WholeLists DEF Whole
    <3>2. StopAll = C \o <<"apiClose", "apiGone">>
      BY DEF StopAll
    <3> HIDE DEF C
    <3>. QED  BY <2>1, <3>1, <3>2, JoinHas
  <2>. QED  BY <2>2, <2>3, <2>4, <2>5
<1>3. ASSUME NEW step
      PROVE  /\ Has(SyncStop, step) <=> step \in {"syncStop", "syncUnlink"}
             /\ Has(I2PStop, step) <=> step \in {"i2pHalt", "i2pClear"}
             /\ Has(ContainerStop, step) <=> step \in {"ctrStop", "ctrUnmount"}
  BY DEF Has, SyncStop, I2PStop, ContainerStop
<1>4. \A i \in DOMAIN StopAll : StopAll[i] \in StopSteps
  <2> SUFFICES ASSUME NEW i \in DOMAIN StopAll PROVE StopAll[i] \in StopSteps
    OBVIOUS
  <2>1. Has(StopAll, StopAll[i])
    BY DEF Has
  <2>. QED  BY <2>1, <1>2, <1>3 DEF StopSteps
<1>. QED  BY <1>1, <1>2, <1>3, <1>4 DEF Downs

LEMMA GuardFirst ==
    ASSUME NEW s \in Seq(Steps)
    PROVE  LET t == <<"stopGuard">> \o s
           IN  t \in Seq(Steps) /\ t # << >> /\ t[1] = "stopGuard" /\ Tail(t) = s
<1> DEFINE t == <<"stopGuard">> \o s
<1>1. <<"stopGuard">> \in Seq(Steps)
  BY DEF Steps
<1>2. /\ t \in Seq(Steps) /\ Len(t) = 1 + Len(s) /\ Len(s) \in Nat
      /\ t[1] = "stopGuard"
      /\ \A i \in 1 .. Len(s) : t[i + 1] = s[i]
  BY <1>1, ConcatProperties, LenProperties
<1>3. t # << >>
  BY <1>2, EmptySeq
<1>4. Tail(t) \in Seq(Steps) /\ Len(Tail(t)) = Len(s) /\ \A i \in 1 .. Len(s) : Tail(t)[i] = s[i]
  BY <1>2, <1>3, HeadTailProperties
<1>5. Tail(t) = s
  BY <1>4, SeqEqual
<1>. QED  BY <1>2, <1>3, <1>5

\* stop() is the guard and what follows; who stops the loop does that at last.
LEMMA StopLists ==
    /\ AppStop \in Seq(Steps) /\ StopAndExit \in Seq(Steps)
    /\ AppStop # << >> /\ AppStop[1] = "stopGuard" /\ Tail(AppStop) = StopAll
    /\ StopAndExit # << >> /\ StopAndExit[1] = "stopGuard"
    /\ Tail(StopAndExit) = StopAll \o <<"loopStop">>
    /\ StopAll \o <<"loopStop">> \in Seq(Steps)
<1>1. StopAll \in Seq(Steps) /\ <<"loopStop">> \in Seq(Steps)
  BY StopsAre DEF Whole, Steps
<1>2. StopAll \o <<"loopStop">> \in Seq(Steps)
  BY <1>1, ConcatProperties
<1>. QED  BY <1>1, <1>2, GuardFirst DEF AppStop, StopAndExit

\* What a step leaves of a list.
LEMMA RestIs ==
    ASSUME NEW kind, NEW todo \in Seq(Steps), todo # << >>, NEW outcome
    PROVE  LET rest == Rest(kind, todo, outcome)
           IN  /\ rest \in Seq(Steps)
               /\ \/ rest = << >> /\ kind = "client"
                  \/ /\ rest = Tail(todo)
                     /\ outcome \in {"ok", "logged"} \/ (Len(todo) > 1 => todo[2] \notin Seconds)
                  \/ /\ rest = Tail(Tail(todo))
                     /\ Len(todo) > 1 /\ todo[2] \in Seconds /\ outcome \notin {"ok", "logged"}
<1>1. /\ Tail(todo) \in Seq(Steps) /\ Len(Tail(todo)) = Len(todo) - 1 /\ Len(todo) \in Nat
  BY HeadTailProperties, LenProperties
<1>2. Len(todo) > 1 => Tail(Tail(todo)) \in Seq(Steps)
  <2> DEFINE t == Tail(todo)
  <2>1. t \in Seq(Steps) /\ (Len(todo) > 1 => Len(t) > 0)
    BY <1>1
  <2> HIDE DEF t
  <2>2. Len(todo) > 1 => t # << >>
    BY <2>1, EmptySeq
  <2>3. Len(todo) > 1 => Tail(t) \in Seq(Steps)
    BY <2>1, <2>2, HeadTailProperties
  <2>. QED  BY <2>3 DEF t
<1>3. << >> \in Seq(Steps)
  BY EmptySeq
<1>4. CASE outcome \in {"ok", "logged"}
  BY <1>1, <1>4 DEF Rest
<1>5. CASE outcome \notin {"ok", "logged"} /\ outcome \in {"fail", "fault"} /\ kind = "client"
  BY <1>3, <1>5 DEF Rest
<1>6. CASE outcome \notin {"ok", "logged"} /\ ~(outcome \in {"fail", "fault"} /\ kind = "client")
  <2>1. Rest(kind, todo, outcome) = IF Len(todo) > 1 /\ todo[2] \in Seconds
                                    THEN Tail(Tail(todo)) ELSE Tail(todo)
    BY <1>6 DEF Rest
  <2>. QED  BY <1>1, <1>2, <1>6, <2>1
<1>. QED  BY <1>4, <1>5, <1>6

LEMMA TailIs ==
    ASSUME NEW todo \in Seq(Steps), todo # << >>
    PROVE  /\ Tail(todo) \in Seq(Steps) /\ Len(Tail(todo)) = Len(todo) - 1 /\ Len(todo) \in Nat \ {0}
           /\ DOMAIN todo = 1 .. Len(todo) /\ DOMAIN Tail(todo) = 1 .. Len(todo) - 1
           /\ \A i \in 1 .. Len(todo) - 1 : Tail(todo)[i] = todo[i + 1]
           /\ Len(todo) > 1 <=> Tail(todo) # << >>
           /\ Head(todo) = todo[1] /\ todo[1] \in Steps
<1>1. /\ Tail(todo) \in Seq(Steps) /\ Len(Tail(todo)) = Len(todo) - 1
      /\ \A i \in 1 .. Len(Tail(todo)) : Tail(todo)[i] = todo[i + 1]
  BY HeadTailProperties
<1>2. Len(todo) \in Nat \ {0} /\ DOMAIN todo = 1 .. Len(todo)
  BY LenProperties, EmptySeq
<1>3. DOMAIN Tail(todo) = 1 .. Len(Tail(todo))
  BY <1>1, LenProperties
<1>4. Len(todo) > 1 <=> Tail(todo) # << >>
  <2>1. \A t \in Seq(Steps) : Len(t) = 0 <=> t = << >>
    BY EmptySeq
  <2>2. Len(Tail(todo)) = 0 <=> Tail(todo) = << >>
    BY <1>1, <2>1, Zenon
  <2>. QED  BY <1>1, <1>2, <2>2
<1>5. Head(todo) = todo[1] /\ todo[1] \in Steps
  BY <1>2
<1>. QED  BY <1>1, <1>2, <1>3, <1>4, <1>5

\* The steps of a list stay but for the first, and the second half of what has
\* ended with it.
LEMMA RestHas ==
    ASSUME NEW kind, NEW todo \in Seq(Steps), todo # << >>, NEW outcome, NEW step
    PROVE  LET rest == Rest(kind, todo, outcome)
           IN  /\ Has(rest, step) => Has(todo, step)
               /\ kind # "client" /\ Has(todo, step) /\ ~Has(rest, step) =>
                      \/ step = todo[1]
                      \/ /\ Len(todo) > 1 /\ step = todo[2] /\ step \in Seconds
                         /\ outcome \notin {"ok", "logged"}
<1> DEFINE rest == Rest(kind, todo, outcome)
           Goal == /\ Has(rest, step) => Has(todo, step)
                   /\ kind # "client" /\ Has(todo, step) /\ ~Has(rest, step) =>
                          \/ step = todo[1]
                          \/ /\ Len(todo) > 1 /\ step = todo[2] /\ step \in Seconds
                             /\ outcome \notin {"ok", "logged"}
<1> SUFFICES Goal
  OBVIOUS
<1>4. \/ rest = << >> /\ kind = "client"
      \/ rest = Tail(todo)
      \/ /\ rest = Tail(Tail(todo))
         /\ Len(todo) > 1 /\ todo[2] \in Seconds /\ outcome \notin {"ok", "logged"}
  BY RestIs, Zenon
<1> HIDE DEF rest
<1>1. CASE rest = << >> /\ kind = "client"
  BY <1>1, EmptySeq DEF Has
<1>2. ASSUME rest = Tail(todo)
      PROVE  /\ Has(rest, step) => Has(todo, step)
             /\ Has(todo, step) => Has(rest, step) \/ step = todo[1]
  <2>1. ASSUME NEW i \in DOMAIN todo, todo[i] = step, i # 1
        PROVE  Has(rest, step)
    <3>1. i - 1 \in DOMAIN rest /\ rest[i - 1] = step
      BY <1>2, <2>1, TailIs
    <3>. QED  BY <3>1 DEF Has
  <2>2. ASSUME NEW i \in DOMAIN rest, rest[i] = step
        PROVE  Has(todo, step)
    <3>1. i + 1 \in DOMAIN todo /\ todo[i + 1] = step
      BY <1>2, <2>2, TailIs
    <3>. QED  BY <3>1 DEF Has
  <2>. QED  BY <2>1, <2>2 DEF Has
<1>3. ASSUME rest = Tail(Tail(todo)), Len(todo) > 1
      PROVE  /\ Has(rest, step) => Has(todo, step)
             /\ Has(todo, step) => Has(rest, step) \/ step = todo[1] \/ step = todo[2]
  <2>0. /\ Tail(todo) \in Seq(Steps) /\ Tail(todo) # << >>
        /\ DOMAIN rest = 1 .. Len(todo) - 2 /\ DOMAIN todo = 1 .. Len(todo) /\ Len(todo) \in Nat
        /\ \A i \in 1 .. Len(todo) - 2 : rest[i] = todo[i + 2]
    <3>1. Tail(todo) \in Seq(Steps) /\ Tail(todo) # << >> /\ Len(Tail(todo)) = Len(todo) - 1 /\ Len(todo) \in Nat
      BY <1>3, TailIs
    <3>2. /\ DOMAIN rest = 1 .. Len(Tail(todo)) - 1
          /\ \A i \in 1 .. Len(Tail(todo)) - 1 : rest[i] = Tail(todo)[i + 1]
      BY <1>3, <3>1, TailIs
    <3>3. \A i \in 1 .. Len(todo) - 2 : Tail(todo)[i + 1] = todo[(i + 1) + 1]
      BY <3>1, TailIs
    <3>. QED  BY <3>1, <3>2, <3>3, TailIs
  <2>1. ASSUME NEW i \in DOMAIN todo, todo[i] = step, i # 1, i # 2
        PROVE  Has(rest, step)
    <3>1. i - 2 \in DOMAIN rest /\ rest[i - 2] = step
      BY <2>0, <2>1
    <3>. QED  BY <3>1 DEF Has
  <2>2. ASSUME NEW i \in DOMAIN rest, rest[i] = step
        PROVE  Has(todo, step)
    <3>1. i + 2 \in DOMAIN todo /\ todo[i + 2] = step
      BY <2>0, <2>2
    <3>. QED  BY <3>1 DEF Has
  <2>. QED  BY <2>1, <2>2 DEF Has
<1>. QED  BY <1>1, <1>2, <1>3, <1>4

LEMMA TailPair ==
    ASSUME NEW first, NEW second, NEW todo \in Seq(Steps), todo # << >>, Pair(todo, first, second)
    PROVE  /\ Pair(Tail(todo), first, second)
           /\ Tail(todo) # << >> => (Tail(todo)[1] = second <=> todo[1] = first)
           /\ todo[1] = first => Tail(todo) # << >>
<1>1. /\ Len(Tail(todo)) = Len(todo) - 1 /\ Len(todo) \in Nat \ {0}
      /\ \A i \in 1 .. Len(todo) - 1 : Tail(todo)[i] = todo[i + 1]
      /\ Len(todo) > 1 <=> Tail(todo) # << >>
  BY TailIs
<1>2. \A i \in 1 .. Len(Tail(todo)) - 1 : Tail(todo)[i] = first <=> Tail(todo)[i + 1] = second
  <2> SUFFICES ASSUME NEW i \in 1 .. Len(todo) - 2
               PROVE  Tail(todo)[i] = first <=> Tail(todo)[i + 1] = second
    BY <1>1
  <2>1. Tail(todo)[i] = todo[i + 1] /\ Tail(todo)[i + 1] = todo[(i + 1) + 1] /\ i + 1 \in 1 .. Len(todo) - 1
    BY <1>1
  <2>. QED  BY <2>1 DEF Pair
<1>3. \A i \in 1 .. Len(Tail(todo)) : Tail(todo)[i] = first => i < Len(Tail(todo))
  BY <1>1 DEF Pair
<1>. QED  BY <1>1, <1>2, <1>3 DEF Pair

\* The second half of something is next exactly when the first was done.
LEMMA RestPair ==
    ASSUME NEW first, NEW second, first \notin Seconds, second \in Seconds,
           NEW kind, NEW todo \in Seq(Steps), todo # << >>, NEW outcome,
           Pair(todo, first, second)
    PROVE  LET rest == Rest(kind, todo, outcome)
           IN  /\ Pair(rest, first, second)
               /\ Next1(rest) = second => todo[1] = first /\ outcome \in {"ok", "logged"}
               /\ todo[1] = first /\ outcome \in {"ok", "logged"} => Next1(rest) = second
<1> DEFINE rest == Rest(kind, todo, outcome)
<1>0. second # "nothing" /\ first # second
  BY DEF Seconds
<1>4. \/ outcome \in {"ok", "logged"} /\ rest = Tail(todo)
      \/ outcome \notin {"ok", "logged"}
  BY DEF Rest
<1>5. \/ rest = << >>
      \/ /\ rest = Tail(todo)
         /\ outcome \in {"ok", "logged"} \/ (Len(todo) > 1 => todo[2] \notin Seconds)
      \/ /\ rest = Tail(Tail(todo))
         /\ Len(todo) > 1 /\ todo[2] \in Seconds /\ outcome \notin {"ok", "logged"}
  BY RestIs, Zenon
<1> DEFINE Goal == /\ Pair(rest, first, second)
                   /\ Next1(rest) = second => todo[1] = first /\ outcome \in {"ok", "logged"}
                   /\ todo[1] = first /\ outcome \in {"ok", "logged"} => Next1(rest) = second
<1> SUFFICES Goal
  OBVIOUS
<1> HIDE DEF rest
<1>1. CASE rest = << >> /\ outcome \notin {"ok", "logged"}
  BY <1>0, <1>1, EmptySeq DEF Pair, Next1
<1>2. CASE /\ rest = Tail(todo)
           /\ outcome \in {"ok", "logged"} \/ (Len(todo) > 1 => todo[2] \notin Seconds)
  <2>1. Len(todo) > 1 => Tail(todo)[1] = todo[2] /\ Tail(todo) # << >>
    BY TailIs
  <2>2. Tail(todo) # << >> => Len(todo) > 1
    BY TailIs
  <2>3. /\ Pair(rest, first, second)
        /\ rest # << >> => (rest[1] = second <=> todo[1] = first)
        /\ todo[1] = first => rest # << >>
    <3>1. /\ Pair(Tail(todo), first, second)
          /\ Tail(todo) # << >> => (Tail(todo)[1] = second <=> todo[1] = first)
          /\ todo[1] = first => Tail(todo) # << >>
      BY TailPair
    <3>. QED  BY <1>2, <3>1
  <2>. QED  BY <1>0, <1>2, <2>1, <2>2, <2>3 DEF Next1
<1>3. CASE /\ rest = Tail(Tail(todo))
           /\ Len(todo) > 1 /\ todo[2] \in Seconds /\ outcome \notin {"ok", "logged"}
  <2>1. Tail(todo) \in Seq(Steps) /\ Tail(todo) # << >> /\ Tail(todo)[1] = todo[2]
    BY <1>3, TailIs
  <2>2. Pair(Tail(todo), first, second)
    BY TailPair
  <2>3. Pair(rest, first, second) /\ (rest # << >> => (rest[1] = second <=> Tail(todo)[1] = first))
    <3> DEFINE t == Tail(todo)
    <3>1. rest = Tail(t) /\ t \in Seq(Steps) /\ t # << >> /\ Pair(t, first, second)
      BY <1>3, <2>1, <2>2
    <3> HIDE DEF t
    <3>2. Pair(Tail(t), first, second) /\ (Tail(t) # << >> => (Tail(t)[1] = second <=> t[1] = first))
      BY <3>1, TailPair
    <3>. QED  BY <3>1, <3>2 DEF t
  <2>. QED  BY <1>0, <1>3, <2>1, <2>3 DEF Next1
<1>. QED  BY <1>1, <1>2, <1>3, <1>4, <1>5

LEMMA RestPaired ==
    ASSUME NEW kind, NEW todo \in Seq(Steps), todo # << >>, NEW outcome, Paired(todo)
    PROVE  LET rest == Rest(kind, todo, outcome)
           IN  /\ Paired(rest)
               /\ Next1(rest) = "i2pLaunch" <=> todo[1] = "i2pProbe" /\ outcome \in {"ok", "logged"}
               /\ Next1(rest) = "syncScan" <=> todo[1] = "syncStart" /\ outcome \in {"ok", "logged"}
               /\ Next1(rest) = "ctrServe" <=> todo[1] = "ctrStart" /\ outcome \in {"ok", "logged"}
               /\ Next1(rest) = "ctrUnmount" <=> todo[1] = "ctrStop" /\ outcome \in {"ok", "logged"}
               /\ Next1(rest) = "apiGone" <=> todo[1] = "apiClose" /\ outcome \in {"ok", "logged"}
<1> DEFINE rest == Rest(kind, todo, outcome)
<1>1. /\ Pair(rest, "syncStart", "syncScan")
      /\ Next1(rest) = "syncScan" <=> todo[1] = "syncStart" /\ outcome \in {"ok", "logged"}
  <2>1. "syncStart" \notin Seconds /\ "syncScan" \in Seconds
    BY DEF Seconds
  <2>2. Pair(todo, "syncStart", "syncScan")
    BY DEF Paired
  <2>. QED  BY <2>1, <2>2, RestPair
<1>2. /\ Pair(rest, "ctrStart", "ctrServe")
      /\ Next1(rest) = "ctrServe" <=> todo[1] = "ctrStart" /\ outcome \in {"ok", "logged"}
  <2>1. "ctrStart" \notin Seconds /\ "ctrServe" \in Seconds
    BY DEF Seconds
  <2>2. Pair(todo, "ctrStart", "ctrServe")
    BY DEF Paired
  <2>. QED  BY <2>1, <2>2, RestPair
<1>3. /\ Pair(rest, "ctrStop", "ctrUnmount")
      /\ Next1(rest) = "ctrUnmount" <=> todo[1] = "ctrStop" /\ outcome \in {"ok", "logged"}
  <2>1. "ctrStop" \notin Seconds /\ "ctrUnmount" \in Seconds
    BY DEF Seconds
  <2>2. Pair(todo, "ctrStop", "ctrUnmount")
    BY DEF Paired
  <2>. QED  BY <2>1, <2>2, RestPair
<1>4. /\ Pair(rest, "apiClose", "apiGone")
      /\ Next1(rest) = "apiGone" <=> todo[1] = "apiClose" /\ outcome \in {"ok", "logged"}
  <2>1. "apiClose" \notin Seconds /\ "apiGone" \in Seconds
    BY DEF Seconds
  <2>2. Pair(todo, "apiClose", "apiGone")
    BY DEF Paired
  <2>. QED  BY <2>1, <2>2, RestPair
<1>5. /\ Pair(rest, "i2pProbe", "i2pLaunch")
      /\ Next1(rest) = "i2pLaunch" <=> todo[1] = "i2pProbe" /\ outcome \in {"ok", "logged"}
  <2>1. "i2pProbe" \notin Seconds /\ "i2pLaunch" \in Seconds
    BY DEF Seconds
  <2>2. Pair(todo, "i2pProbe", "i2pLaunch")
    BY DEF Paired
  <2>. QED  BY <2>1, <2>2, RestPair
<1>. QED  BY <1>1, <1>2, <1>3, <1>4, <1>5 DEF Paired

-----------------------------------------------------------------------------
(* Jobs.                                                                   *)

\* A job whose step is done fits as it did.
LEMMA JobGoesOn ==
    ASSUME NEW job, job.todo \in Seq(Steps), job.todo # << >>, JobFits(job),
           job.todo[1] # "stopGuard", NEW outcome, NEW next, next.kind = job.kind,
           next.todo = Rest(job.kind, job.todo, outcome)
    PROVE  /\ next.todo \in Seq(Steps)
           /\ JobFits(next)
           /\ Stopping(next) => Stopping(job)
<1>1. next.todo \in Seq(Steps) /\ Paired(next.todo)
  <2>1. Paired(job.todo)
    BY DEF JobFits
  <2>2. Rest(job.kind, job.todo, outcome) \in Seq(Steps)
    BY RestIs, Zenon
  <2>. QED  BY <2>1, <2>2, RestPaired
<1>2. ASSUME NEW step, Has(next.todo, step)
      PROVE  Has(job.todo, step)
  BY <1>2, RestHas
<1>3. ~Has(job.todo, "stopGuard")
  BY StopLists DEF JobFits
<1>4. job.kind \in StopKinds => \A i \in DOMAIN next.todo : next.todo[i] \in StopSteps
  <2> SUFFICES ASSUME job.kind \in StopKinds, NEW i \in DOMAIN next.todo
               PROVE  next.todo[i] \in StopSteps
    OBVIOUS
  <2>1. Has(job.todo, next.todo[i])
    BY <1>2 DEF Has
  <2>. QED  BY <2>1 DEF Has, JobFits
<1>5. JobFits(next)
  BY <1>1, <1>2, <1>3, <1>4 DEF JobFits
<1>. QED  BY <1>1, <1>5 DEF Stopping

\* What the guard of stop() leaves: all of it, or at most the end of the loop.
LEMMA GuardLeaves ==
    ASSUME NEW job, job.todo \in Seq(Steps), job.todo # << >>, JobFits(job),
           job.todo[1] = "stopGuard", NEW next, next.kind = job.kind,
           next.todo \in {Tail(job.todo), WithoutStop(job.todo)}
    PROVE  /\ next.todo \in Seq(Steps)
           /\ JobFits(next)
           /\ Next1(next.todo) \notin Tight
           /\ next.todo = Tail(job.todo) => Stopping(next) /\ \A step \in Downs : Has(next.todo, step)
<1>1. job.kind \in StopKinds /\ job.todo \in {AppStop, StopAndExit}
  <2>1. 1 \in DOMAIN job.todo
    BY LenProperties, EmptySeq
  <2>2. Has(job.todo, "stopGuard")
    BY <2>1 DEF Has
  <2>. QED  BY <2>2 DEF JobFits
<1> DEFINE L == <<"loopStop">>
<1>2. /\ L \in Seq(Steps) /\ Paired(L) /\ Next1(L) \notin Tight /\ L # << >>
      /\ \A step : Has(L, step) <=> step = "loopStop"
      /\ << >> \in Seq(Steps) /\ Paired(<< >>) /\ Next1(<< >>) \notin Tight /\ \A step : ~Has(<< >>, step)
  BY DEF Steps, Paired, Pair, Next1, Tight, Has
<1>3. /\ StopAll \in Seq(Steps) /\ Paired(StopAll) /\ Next1(StopAll) \notin Tight /\ StopAll # << >>
      /\ \A step \in Downs : Has(StopAll, step)
      /\ \A i \in DOMAIN StopAll : StopAll[i] \in StopSteps \cap ServiceSteps
  <2>1. Has(StopAll, "rnsStop")
    BY StopsAre DEF Downs
  <2>. QED  BY <2>1, <1>2, StopsAre DEF Whole
<1> DEFINE A == StopAll \o L
<1>4. /\ A \in Seq(Steps) /\ Paired(A) /\ Next1(A) \notin Tight /\ A # << >>
      /\ \A step : Has(A, step) <=> Has(StopAll, step) \/ step = "loopStop"
  <2>1. A \in Seq(Steps) /\ A[1] = StopAll[1] /\ A # << >>
    <3>1. Len(StopAll) \in Nat \ {0} /\ Len(L) \in Nat
      BY <1>2, <1>3, LenProperties, EmptySeq
    <3>2. A \in Seq(Steps) /\ Len(A) = Len(StopAll) + Len(L) /\ A[1] = StopAll[1]
      BY <1>2, <1>3, <3>1, ConcatProperties
    <3>. QED  BY <3>1, <3>2, EmptySeq
  <2>2. Paired(A)
    <3>1. /\ Pair(A, "i2pProbe", "i2pLaunch") /\ Pair(A, "syncStart", "syncScan")
          /\ Pair(A, "ctrStart", "ctrServe")
          /\ Pair(A, "ctrStop", "ctrUnmount") /\ Pair(A, "apiClose", "apiGone")
      BY <1>2, <1>3, JoinPair DEF Paired
    <3>. QED  BY <3>1 DEF Paired
  <2>3. \A step : Has(A, step) <=> Has(StopAll, step) \/ step = "loopStop"
    BY <1>2, <1>3, JoinHas
  <2>. QED  BY <1>3, <2>1, <2>2, <2>3 DEF Next1
<1>5. Has(StopAll, "stopGuard") = FALSE /\ Has(StopAll, "loopStop") = FALSE
  BY <1>3 DEF Has, ServiceSteps
<1>6. Has(job.todo, "loopStop") => job.kind = "stop"
  BY DEF JobFits
<1>7. Tail(job.todo) \in {StopAll, A} /\ (Tail(job.todo) = A => job.kind = "stop")
  <2>1. CASE job.todo = AppStop /\ AppStop # StopAndExit
    <3>1. Tail(job.todo) = StopAll
      BY <2>1, StopLists
    <3>2. StopAll # A
      BY <1>4, <1>5
    <3>. QED  BY <3>1, <3>2
  <2>2. CASE job.todo = StopAndExit
    <3>1. Tail(job.todo) = A
      BY <2>2, StopLists
    <3>2. Has(A, "loopStop")
      BY <1>4
    <3>3. Has(job.todo, "loopStop")
      <4> PICK i \in DOMAIN A : A[i] = "loopStop"
        BY <3>2 DEF Has
      <4>0. /\ DOMAIN Tail(job.todo) = 1 .. Len(job.todo) - 1 /\ DOMAIN job.todo = 1 .. Len(job.todo)
            /\ Len(job.todo) \in Nat \ {0}
            /\ \A k \in 1 .. Len(job.todo) - 1 : Tail(job.todo)[k] = job.todo[k + 1]
        <5> DEFINE t == job.todo
        <5>1. t \in Seq(Steps) /\ t # << >>
          OBVIOUS
        <5> HIDE DEF t
        <5>2. /\ DOMAIN Tail(t) = 1 .. Len(t) - 1 /\ DOMAIN t = 1 .. Len(t)
              /\ Len(t) \in Nat \ {0}
              /\ \A k \in 1 .. Len(t) - 1 : Tail(t)[k] = t[k + 1]
          BY <5>1, TailIs
        <5>. QED  BY <5>2 DEF t
      <4> HIDE DEF A
      <4>1. i \in 1 .. Len(job.todo) - 1 /\ job.todo[i + 1] = A[i]
        BY <3>1, <4>0
      <4>2. i + 1 \in DOMAIN job.todo
        BY <4>0, <4>1
      <4>. QED  BY <4>1, <4>2 DEF Has
    <3>. QED  BY <3>1, <3>3, <1>6
  <2>. QED  BY <1>1, <2>1, <2>2
<1>8. ASSUME NEW t \in {StopAll, A, L, << >>}, next.todo = t,
             t \in {A, L} => job.kind = "stop"
      PROVE  JobFits(next) /\ next.todo \in Seq(Steps) /\ Next1(next.todo) \notin Tight
  <2>1. \A i \in DOMAIN t : t[i] \in StopSteps
    <3>1. "loopStop" \in StopSteps /\ \A step : Has(StopAll, step) => step \in StopSteps
      BY <1>3 DEF StopSteps, Has
    <3>2. \A step : Has(t, step) => step \in StopSteps
      BY <1>2, <1>4, <3>1
    <3>. QED  BY <3>2 DEF Has
  <2>2. ~Has(t, "stopGuard") /\ (Has(t, "loopStop") => job.kind = "stop")
    BY <1>2, <1>4, <1>5, <1>8
  <2>3. Paired(t) /\ t \in Seq(Steps) /\ Next1(t) \notin Tight
    BY <1>2, <1>3, <1>4
  <2>. QED  BY <1>8, <2>1, <2>2, <2>3 DEF JobFits
<1>9. WithoutStop(job.todo) \in {L, << >>} /\ (WithoutStop(job.todo) = L => job.kind = "stop")
  <2>1. Len(job.todo) \in DOMAIN job.todo
    BY TailIs
  <2>2. job.todo[Len(job.todo)] = "loopStop" => Has(job.todo, "loopStop")
    BY <2>1 DEF Has
  <2>. QED  BY <1>6, <2>2 DEF WithoutStop
<1>10. ASSUME next.todo = Tail(job.todo)
       PROVE  Stopping(next) /\ \A step \in Downs : Has(next.todo, step)
  <2>1. \A step \in Downs : Has(next.todo, step)
    BY <1>3, <1>4, <1>7, <1>10
  <2>2. next.todo # << >> /\ next.todo \in Seq(Steps) /\ ~Has(next.todo, "stopGuard")
    BY <1>3, <1>4, <1>5, <1>7, <1>10
  <2>3. 1 \in DOMAIN next.todo
    BY <2>2, LenProperties, EmptySeq
  <2>. QED  BY <1>1, <2>1, <2>2, <2>3 DEF Stopping, Has
<1>11. /\ JobFits(next) /\ next.todo \in Seq(Steps) /\ Next1(next.todo) \notin Tight
  <2>1. CASE next.todo = Tail(job.todo)
    <3>1. StopAll # L
      BY <1>2, <1>5
    <3>2. Tail(job.todo) \in {A, L} => job.kind = "stop"
      BY <1>7, <3>1
    <3>. QED  BY <1>7, <1>8, <2>1, <3>2
  <2>2. CASE next.todo = WithoutStop(job.todo)
    BY <1>8, <1>9, <2>2
  <2>. QED  BY <2>1, <2>2
<1>. QED  BY <1>10, <1>11

\* A job that is new to the loop.
LEMMA NewJobFits ==
    ASSUME NEW kind, NEW todo,
           \/ kind \in {"app", "client"} /\ Whole(todo)
           \/ kind = "stop" /\ todo = StopAndExit
           \/ kind = "tray" /\ todo = AppStop
           \/ kind = "quit" /\ todo = <<"block">>
    PROVE  LET job == NewJob(kind, todo)
           IN  /\ job \in Job /\ JobFits(job)
               /\ Next1(job.todo) \notin Tight /\ ~Stopping(job)
<1> DEFINE job == NewJob(kind, todo)
<1>1. job.kind = kind /\ job.todo = todo /\ job.waitsFor = 0
  BY DEF NewJob
<1>2. job \in Job <=> kind \in {"app", "stop", "tray", "client", "quit"} /\ todo \in Seq(Steps)
  BY DEF NewJob, Job
<1>3. CASE kind \in {"app", "client"} /\ Whole(todo)
  <2>1. ~Has(todo, "loopStop") /\ ~Has(todo, "stopGuard")
    BY <1>3 DEF Has, Whole, ServiceSteps
  <2>. QED  BY <1>1, <1>2, <1>3, <2>1 DEF JobFits, Stopping, StopKinds, Whole
<1>4. CASE \/ kind = "stop" /\ todo = StopAndExit
           \/ kind = "tray" /\ todo = AppStop
  <2> DEFINE L == <<"loopStop">>
             G == <<"stopGuard">>
             A == StopAll \o L
             rest == IF kind = "stop" THEN A ELSE StopAll
  <2>1. StopAll \in Seq(Steps) /\ A \in Seq(Steps) /\ L \in Seq(Steps) /\ G \in Seq(Steps)
    BY StopLists, StopsAre DEF Whole, Steps
  <2>2. rest \in Seq(Steps) /\ todo = G \o rest
    BY <1>4, <2>1 DEF AppStop, StopAndExit
  <2>3. Paired(rest) /\ Next1(rest) \notin Tight \cup {"apiGone"}
    <3>1. Paired(StopAll) /\ Next1(StopAll) \notin Tight \cup {"apiGone"} /\ StopAll # << >>
      <4>1. Has(StopAll, "rnsStop")
        BY StopsAre DEF Downs
      <4>. QED  BY <4>1, StopsAre DEF Whole, Has
    <3>2. Paired(L) /\ L # << >> /\ L[1] = "loopStop"
      BY DEF Paired, Pair
    <3>3. Paired(A)
      BY <2>1, <3>1, <3>2, JoinPair DEF Paired
    <3>4. Next1(A) = Next1(StopAll)
      BY <2>1, <3>1, ConcatProperties, LenProperties, EmptySeq DEF Next1
    <3>. QED  BY <3>1, <3>3, <3>4
  <2>4. \A step : Has(todo, step) => step \in StopSteps /\ (step = "loopStop" => kind = "stop")
    <3>1. \A step : Has(G, step) <=> step = "stopGuard"
      BY DEF Has
    <3>2. \A step : Has(L, step) <=> step = "loopStop"
      BY DEF Has
    <3>3. \A step : Has(StopAll, step) => step \in StopSteps /\ step # "loopStop"
      BY StopsAre DEF Has, Whole, ServiceSteps
    <3>4. \A step : Has(A, step) <=> Has(StopAll, step) \/ Has(L, step)
      BY <2>1, JoinHas
    <3>5. \A step : Has(todo, step) <=> Has(G, step) \/ Has(rest, step)
      BY <2>1, <2>2, JoinHas
    <3>. QED  BY <3>1, <3>2, <3>3, <3>4, <3>5 DEF StopSteps
  <2>5. Paired(todo)
    <3>1. G # << >> /\ Paired(G)
      BY DEF Paired, Pair
    <3>2. rest # << >> => rest[1] \notin Tight \cup {"apiGone"}
      BY <2>3 DEF Next1
    <3> HIDE DEF G, rest
    <3>3. Pair(G \o rest, "syncStart", "syncScan")
      BY <2>1, <2>2, <2>3, <3>1, <3>2, JoinPair DEF Paired, Tight
    <3>4. Pair(G \o rest, "ctrStart", "ctrServe")
      BY <2>1, <2>2, <2>3, <3>1, <3>2, JoinPair DEF Paired, Tight
    <3>5. Pair(G \o rest, "ctrStop", "ctrUnmount")
      BY <2>1, <2>2, <2>3, <3>1, <3>2, JoinPair DEF Paired, Tight
    <3>6. Pair(G \o rest, "apiClose", "apiGone")
      BY <2>1, <2>2, <2>3, <3>1, <3>2, JoinPair DEF Paired, Tight
    <3>7. Pair(G \o rest, "i2pProbe", "i2pLaunch")
      BY <2>1, <2>2, <2>3, <3>1, <3>2, JoinPair DEF Paired, Tight
    <3>. QED  BY <2>2, <3>3, <3>4, <3>5, <3>6, <3>7 DEF Paired
  <2>6. todo \in Seq(Steps) /\ todo # << >> /\ todo[1] = "stopGuard" /\ todo \in {AppStop, StopAndExit}
    BY <1>4, StopLists
  <2>7. \A i \in DOMAIN todo : todo[i] \in StopSteps
    BY <2>4 DEF Has
  <2>8. JobFits(job)
    <3> HIDE DEF job
    <3>. QED  BY <1>1, <1>4, <2>4, <2>5, <2>6, <2>7 DEF JobFits, StopKinds
  <2>. QED  BY <1>1, <1>2, <1>4, <2>6, <2>8 DEF Stopping, Next1, Tight
<1>5. CASE kind = "quit" /\ todo = <<"block">>
  <2>1. todo \in Seq(Steps) /\ Paired(todo) /\ Next1(todo) = "block"
    BY <1>5 DEF Steps, Paired, Pair, Next1
  <2>2. ~Has(todo, "loopStop") /\ ~Has(todo, "stopGuard")
    BY <1>5 DEF Has
  <2>. QED  BY <1>1, <1>2, <1>5, <2>1, <2>2 DEF JobFits, Stopping, StopKinds, Tight
<1>. QED  BY <1>3, <1>4, <1>5

\* What a step of the current job does to the jobs.
LEMMA Advances ==
    ASSUME jobs \in Seq(Job), current \in 1 .. Len(jobs), NEW step, NEW todo, NEW outcome,
           todo \in Seq(Steps), scans \in Seq(Scan),
           Advance(step, todo, outcome)
    PROVE  /\ jobs' \in Seq(Job) /\ Len(jobs') = Len(jobs)
           /\ DOMAIN jobs = 1 .. Len(jobs) /\ DOMAIN jobs' = 1 .. Len(jobs)
           /\ \A j \in 1 .. Len(jobs) : j # current => jobs'[j] = jobs[j]
           /\ jobs'[current].kind = jobs[current].kind
           /\ jobs'[current].todo = todo
           /\ current' = 0 \/ (current' = current /\ todo # << >>)
           /\ step = "apiBind" => current' = 0
<1>1. PICK w \in Nat : jobs' = [jobs EXCEPT ![current].todo = todo, ![current].waitsFor = w]
  <2>1. Len(scans) \in Nat
    BY LenProperties
  <2>. QED  BY <2>1 DEF Advance
<1>2. jobs[current] \in Job /\ DOMAIN jobs = 1 .. Len(jobs) /\ Len(jobs) \in Nat
  BY LenProperties, ElementOfSeq
<1>3. jobs' = [jobs EXCEPT ![current] = [jobs[current] EXCEPT !.todo = todo, !.waitsFor = w]]
  BY <1>1, <1>2
<1>4. [jobs[current] EXCEPT !.todo = todo, !.waitsFor = w] \in Job
  BY <1>2 DEF Job
<1>5. jobs' \in Seq(Job) /\ Len(jobs') = Len(jobs) /\ DOMAIN jobs' = 1 .. Len(jobs)
  BY <1>2, <1>3, <1>4, ExceptSeq, LenProperties
<1>6. /\ \A j \in 1 .. Len(jobs) : j # current => jobs'[j] = jobs[j]
      /\ jobs'[current].kind = jobs[current].kind
      /\ jobs'[current].todo = todo
  BY <1>2, <1>3 DEF Job
<1>. QED  BY <1>2, <1>5, <1>6 DEF Advance

-----------------------------------------------------------------------------
(* Types.                                                                  *)

\* An accept thread waits on the socket that is there while the server runs.
TypeInv == TypeOK /\ (shellRunning => shellSocket # 0)

ServiceTypes ==
    /\ I2PType
    /\ ShellType
    /\ shellRunning => shellSocket # 0
    /\ {rnsRunning, rnsMade, syncRunning, apiPath} \subseteq BOOLEAN
    /\ scans \in Seq(Scan)
    /\ server \in {"none", "bound", "open", "closed"}

LEMMA I2PTypes ==
    ASSUME I2PType,
           (\E r \in BOOLEAN : Probe(r)) \/ Launch \/ Terminate \/ MarkGone \/ I2PStep
    PROVE  I2PType'
<1>1. ASSUME NEW r \in BOOLEAN, Probe(r)
      PROVE  I2PType'
  BY <1>1 DEF Probe, I2PType
<1>2. CASE Launch
  BY <1>2 DEF Launch, I2PType
<1>3. CASE Terminate
  BY <1>3 DEF Terminate, I2PType
<1>4. CASE MarkGone
  BY <1>4 DEF MarkGone, I2PType
<1>5. ASSUME NEW d \in daemons, DaemonDies(d)
      PROVE  I2PType'
  BY <1>5 DEF DaemonDies, I2PType
<1>6. ASSUME NEW d \in 1 .. launches, MonitorStep(d)
      PROVE  I2PType'
  <2>1. CASE MonitorSees(d)
    BY <2>1 DEF MonitorSees, I2PType
  <2>2. CASE MonitorReports(d)
    BY <2>2 DEF MonitorReports, I2PType
  <2>3. CASE MonitorEnds(d)
    BY <2>3 DEF MonitorEnds, I2PType
  <2>. QED  BY <1>6, <2>1, <2>2, <2>3 DEF MonitorStep
<1>. QED  BY <1>1, <1>2, <1>3, <1>4, <1>5, <1>6 DEF I2PStep

LEMMA ShellTypes ==
    ASSUME ShellType, shellRunning => shellSocket # 0,
           Starting \/ Serving \/ ServingFails \/ Closing \/ Closed \/ ShellStep
    PROVE  ShellType' /\ (shellRunning' => shellSocket' # 0)
<1>1. CASE Starting
  BY <1>1 DEF Starting, SetState, ShellType, ContainerStates
<1>2. CASE Serving
  <2>1. [made |-> shells + 1, at |-> "test", on |-> 0] \in Acceptor
    BY DEF ShellType, Acceptor
  <2>. QED  BY <1>2, <2>1 DEF Serving, SetState, ShellType, ContainerStates
<1>3. CASE ServingFails
  BY <1>3 DEF ServingFails, SetState, ShellType, ContainerStates
<1>4. CASE Closing
  <2>1. /\ containerState' = "stopping" /\ shellRunning' = FALSE /\ shellSocket' = 0 /\ shellPath' = 0
        /\ shells' = shells /\ acceptors' = acceptors
    BY <1>4 DEF Closing, SetState
  <2>2. shells \in Nat /\ 0 \in 0 .. shells
    BY DEF ShellType
  <2>. QED  BY <2>1, <2>2 DEF ShellType, ContainerStates
<1>5. CASE Closed
  BY <1>5 DEF Closed, SetState, ShellType, ContainerStates
<1>6. ASSUME NEW a \in acceptors, AcceptorStep(a)
      PROVE  ShellType' /\ (shellRunning' => shellSocket' # 0)
  <2>0. a \in Acceptor /\ (a.at = "busy" => a.on \in 1 .. shells) /\ shells \in Nat
        /\ shellSocket \in 0 .. shells
    BY DEF ShellType
  <2>1. \/ Turn(a, {}) \/ Turn(a, {[a EXCEPT !.at = "test"]})
        \/ shellRunning /\ Turn(a, {[a EXCEPT !.at = "busy", !.on = shellSocket]})
    BY <1>6 DEF AcceptorStep, AcceptorTests, AcceptorReturns, AcceptorBreaks
  <2> DEFINE Fits(b) == b \in Acceptor /\ (b.at = "busy" => b.on \in 1 .. shells)
  <2>2. Fits([a EXCEPT !.at = "test"])
    BY <2>0 DEF Acceptor
  <2>3. shellRunning => Fits([a EXCEPT !.at = "busy", !.on = shellSocket])
    <3> SUFFICES ASSUME shellRunning PROVE Fits([a EXCEPT !.at = "busy", !.on = shellSocket])
      OBVIOUS
    <3>1. shellSocket \in 1 .. shells /\ shellSocket \in Nat
      BY <2>0
    <3>. QED  BY <2>0, <3>1 DEF Acceptor
  <2>4. PICK next : Turn(a, next) /\ \A b \in next : Fits(b)
    <3> HIDE DEF Fits
    <3>1. CASE Turn(a, {})
      BY <3>1
    <3>2. CASE Turn(a, {[a EXCEPT !.at = "test"]})
      BY <2>2, <3>2
    <3>3. CASE shellRunning /\ Turn(a, {[a EXCEPT !.at = "busy", !.on = shellSocket]})
      BY <2>3, <3>3
    <3>. QED  BY <2>1, <3>1, <3>2, <3>3
  <2>. QED  BY <2>4 DEF Turn, ShellType
<1>. QED  BY <1>1, <1>2, <1>3, <1>4, <1>5, <1>6 DEF ShellStep

LEMMA CancelledIs ==
    ASSUME scans \in Seq(Scan)
    PROVE  /\ Cancelled \in Seq(Scan) /\ Len(Cancelled) = Len(scans)
           /\ DOMAIN scans = 1 .. Len(scans) /\ DOMAIN Cancelled = 1 .. Len(scans)
           /\ Len(scans) \in Nat
           /\ \A k \in 1 .. Len(scans) :
                 /\ Cancelled[k].on = scans[k].on
                 /\ k # Len(scans) => Cancelled[k] = scans[k]
                 /\ k = Len(scans) => Cancelled[k].at # "live"
<1>1. DOMAIN scans = 1 .. Len(scans) /\ Len(scans) \in Nat
  BY LenProperties
<1>2. CASE ScanUnderWay
  <2>1. Len(scans) \in 1 .. Len(scans) /\ scans[Len(scans)] \in Scan
    BY <1>1, <1>2, EmptySeq, ElementOfSeq DEF ScanUnderWay
  <2>2. Cancelled = [scans EXCEPT ![Len(scans)] = [scans[Len(scans)] EXCEPT !.at = "cancelled"]]
    BY <1>2 DEF Cancelled
  <2>3. [scans[Len(scans)] EXCEPT !.at = "cancelled"] \in Scan
    BY <2>1 DEF Scan
  <2>4. Cancelled \in Seq(Scan) /\ Len(Cancelled) = Len(scans)
    BY <2>1, <2>2, <2>3, ExceptSeq
  <2>. QED  BY <1>1, <2>1, <2>2, <2>4, LenProperties DEF Scan
<1>3. CASE ~ScanUnderWay
  BY <1>1, <1>3 DEF Cancelled, ScanUnderWay, LastScan
<1>. QED  BY <1>2, <1>3

LEMMA ServiceStepTypes ==
    ASSUME ServiceTypes, NEW step, NEW on \in {"main", "temp"}, NEW outcome,
           ServiceDoes(step, on, outcome)
    PROVE  ServiceTypes' /\ outcome \in Outcomes
<1>1. CASE I2PDoes(step, outcome)
  <2>1. (\E r \in BOOLEAN : Probe(r)) \/ Launch \/ Terminate \/ MarkGone \/ UNCHANGED i2pVars
    BY <1>1 DEF I2PDoes
  <2>2. I2PType'
    BY <2>1, I2PTypes DEF ServiceTypes, i2pVars, I2PType
  <2>3. outcome \in Outcomes
    BY <1>1 DEF I2PDoes, Outcomes
  <2>. QED  BY <1>1, <2>2, <2>3 DEF I2PDoes, ServiceTypes, ShellType, shellVars, peerSyncVars, apiVars
<1>2. CASE ContainerDoes(step, outcome)
  <2>1. Starting \/ Serving \/ ServingFails \/ Closing \/ Closed \/ UNCHANGED shellVars
    BY <1>2 DEF ContainerDoes
  <2>2. ShellType' /\ (shellRunning' => shellSocket' # 0)
    BY <2>1, ShellTypes DEF ServiceTypes, shellVars, ShellType
  <2>3. outcome \in Outcomes
    BY <1>2 DEF ContainerDoes, Outcomes
  <2>. QED  BY <1>2, <2>2, <2>3 DEF ContainerDoes, ServiceTypes, I2PType, i2pVars, peerSyncVars, apiVars
<1>3. CASE PeersDo(step, outcome)
  BY <1>3 DEF PeersDo, ServiceTypes, I2PType, ShellType, i2pVars, shellVars, apiVars, Outcomes
<1>4. CASE SyncDoes(step, on, outcome)
  <2>1. Append(scans, [on |-> on, at |-> "live"]) \in Seq(Scan)
    BY AppendProperties DEF ServiceTypes, Scan
  <2>2. scans' \in Seq(Scan)
    BY <1>4, <2>1, CancelledIs DEF SyncDoes, ServiceTypes
  <2>. QED  BY <1>4, <2>2 DEF SyncDoes, ServiceTypes, I2PType, ShellType, i2pVars, shellVars, apiVars, Outcomes
<1>5. CASE ApiDoes(step, outcome)
  BY <1>5 DEF ApiDoes, ServiceTypes, I2PType, ShellType, i2pVars, shellVars, peerSyncVars, Outcomes
<1>. QED  BY <1>1, <1>2, <1>3, <1>4, <1>5 DEF ServiceDoes

Bounds == [requests : Nat, starts : Nat, signals : Nat, faults : Nat]

ProcessTypes ==
    /\ mode \in Modes
    /\ left \in Bounds
    /\ mainAt \in {"starting", "up", "joining", "draining", "exited"}
    /\ loopState \in {"running", "stopping", "stopped", "blocked"}
    /\ {running, meddled} \subseteq BOOLEAN
    /\ jobs \in Seq(Job)
    /\ current \in 0 .. Len(jobs)
    /\ cliTodo \in Seq(Steps)

LEMMA TypesAre == TypeInv <=> ServiceTypes /\ ProcessTypes
BY DEF TypeInv, TypeOK, ServiceTypes, ProcessTypes, Bounds

LEMMA SpendTypes ==
    ASSUME left \in Bounds, NEW bound \in {"requests", "starts", "signals", "faults"}, Spend(bound)
    PROVE  left' \in Bounds
<1>1. CASE bound = "requests"
  BY <1>1 DEF Spend, Bounds
<1>2. CASE bound = "starts"
  BY <1>2 DEF Spend, Bounds
<1>3. CASE bound = "signals"
  BY <1>3 DEF Spend, Bounds
<1>4. CASE bound = "faults"
  BY <1>4 DEF Spend, Bounds
<1>. QED  BY <1>1, <1>2, <1>3, <1>4

LEMMA PayTypes ==
    ASSUME left \in Bounds, NEW outcome, Pay(outcome)
    PROVE  left' \in Bounds
BY SpendTypes DEF Pay

\* Jobs that are given to the loop come behind those it has.
LEMMA AppendJob ==
    ASSUME jobs \in Seq(Job), NEW job \in Job, jobs' = Append(jobs, job)
    PROVE  /\ jobs' \in Seq(Job) /\ Len(jobs') = Len(jobs) + 1 /\ Len(jobs) \in Nat
           /\ DOMAIN jobs = 1 .. Len(jobs) /\ DOMAIN jobs' = 1 .. Len(jobs) + 1
           /\ \A j \in 1 .. Len(jobs) : jobs'[j] = jobs[j]
           /\ jobs'[Len(jobs) + 1] = job
BY AppendProperties, LenProperties

\* A step that concerns no service.
Bystander == UNCHANGED serviceVars

LEMMA BystanderTypes ==
    ASSUME ServiceTypes, Bystander
    PROVE  ServiceTypes'
BY DEF Bystander, serviceVars, ServiceTypes, I2PType, ShellType, i2pVars, shellVars, peerSyncVars, apiVars

\* The steps that advance the current job.
LEMMA AdvanceTypes ==
    ASSUME jobs \in Seq(Job), current \in 1 .. Len(jobs), scans \in Seq(Scan),
           NEW step, NEW outcome, NEW todo \in Seq(Steps), Advance(step, todo, outcome)
    PROVE  jobs' \in Seq(Job) /\ current' \in 0 .. Len(jobs')
BY Advances, LenProperties

LEMMA LoopTypes ==
    ASSUME ServiceTypes, ProcessTypes, JobsInv, LoopStep
    PROVE  ServiceTypes' /\ ProcessTypes'
<1>0. /\ Len(jobs) \in Nat /\ DOMAIN jobs = 1 .. Len(jobs)
      /\ \A j \in 1 .. Len(jobs) : jobs[j] \in Job /\ jobs[j].todo \in Seq(Steps)
  <2>1. /\ Len(jobs) \in Nat /\ DOMAIN jobs = 1 .. Len(jobs)
        /\ \A j \in 1 .. Len(jobs) : jobs[j] \in Job
    BY LenProperties, ElementOfSeq DEF ProcessTypes
  <2>. QED  BY <2>1 DEF Job
<1>1. current # 0 => /\ current \in 1 .. Len(jobs)
                     /\ jobs[current].todo \in Seq(Steps) /\ jobs[current].todo # << >>
  BY <1>0 DEF ProcessTypes, JobsInv, Ended
<1>2. ASSUME NEW j \in DOMAIN jobs, Resume(j)
      PROVE  ServiceTypes' /\ ProcessTypes'
  <2>1. jobs' = [jobs EXCEPT ![j] = [jobs[j] EXCEPT !.waitsFor = 0]]
    BY <1>2, <1>0 DEF Resume
  <2>2. [jobs[j] EXCEPT !.waitsFor = 0] \in Job
    BY <1>0 DEF Job
  <2>3. jobs' \in Seq(Job) /\ Len(jobs') = Len(jobs)
    BY <1>0, <2>1, <2>2, ExceptSeq DEF ProcessTypes
  <2>4. ProcessTypes'
    BY <1>0, <1>2, <2>3 DEF Resume, ProcessTypes
  <2>. QED  BY <1>2, <2>4, BystanderTypes DEF Bystander, Resume
<1>3. CASE ServiceStep
  <2>1. PICK outcome \in Outcomes :
           /\ ServiceDoes(Head(jobs[current].todo), "main", outcome)
           /\ Advance(Head(jobs[current].todo), Rest(jobs[current].kind, jobs[current].todo, outcome), outcome)
           /\ Pay(outcome)
    BY <1>3 DEF ServiceStep
  <2>2. Rest(jobs[current].kind, jobs[current].todo, outcome) \in Seq(Steps)
    <3>1. jobs[current].todo \in Seq(Steps) /\ jobs[current].todo # << >>
      BY <1>1, <1>3 DEF ServiceStep
    <3>. QED  BY <3>1, RestIs, Zenon
  <2>3. ServiceTypes'
    BY <2>1, ServiceStepTypes
  <2>4. jobs' \in Seq(Job) /\ current' \in 0 .. Len(jobs')
    BY <1>1, <1>3, <2>1, <2>2, AdvanceTypes DEF ServiceStep, ProcessTypes, ServiceTypes
  <2>5. left' \in Bounds
    BY <2>1, PayTypes DEF ProcessTypes
  <2>6. meddled' \in BOOLEAN /\ UNCHANGED <<mode, mainAt, loopState, running, cliTodo>>
    BY <1>3 DEF ServiceStep, ProcessTypes
  <2>. QED  BY <2>3, <2>4, <2>5, <2>6 DEF ProcessTypes
<1>4. CASE StopGuard
  <2>1. PICK todo \in {Tail(jobs[current].todo), WithoutStop(jobs[current].todo)} :
           Advance("stopGuard", todo, "ok")
    BY <1>4 DEF StopGuard
  <2>2. todo \in Seq(Steps)
    <3>1. Tail(jobs[current].todo) \in Seq(Steps)
      BY <1>1, <1>4, TailIs DEF StopGuard
    <3>2. <<"loopStop">> \in Seq(Steps) /\ << >> \in Seq(Steps)
      BY EmptySeq DEF Steps
    <3>3. WithoutStop(jobs[current].todo) \in Seq(Steps)
      BY <3>2 DEF WithoutStop
    <3>. QED  BY <3>1, <3>3
  <2>3. jobs' \in Seq(Job) /\ current' \in 0 .. Len(jobs')
    BY <1>1, <1>4, <2>1, <2>2, AdvanceTypes DEF StopGuard, ProcessTypes, ServiceTypes
  <2>. QED  BY <1>4, <2>3, BystanderTypes DEF Bystander, StopGuard, ProcessTypes
<1>5. CASE LoopStop
  <2>1. Tail(jobs[current].todo) \in Seq(Steps)
    BY <1>1, <1>5, TailIs DEF LoopStop
  <2>2. jobs' \in Seq(Job) /\ current' \in 0 .. Len(jobs')
    BY <1>1, <1>5, <2>1, AdvanceTypes DEF LoopStop, ProcessTypes, ServiceTypes
  <2>. QED  BY <1>5, <2>2, BystanderTypes DEF Bystander, LoopStop, ProcessTypes
<1>6. CASE Block
  <2>1. << >> \in Seq(Steps)
    BY EmptySeq
  <2>2. jobs' \in Seq(Job) /\ current' \in 0 .. Len(jobs')
    BY <1>1, <1>6, <2>1, AdvanceTypes DEF Block, ProcessTypes, ServiceTypes
  <2>. QED  BY <1>6, <2>2, BystanderTypes DEF Bystander, Block, ProcessTypes
<1>7. CASE LoopEnds
  BY <1>7, BystanderTypes DEF Bystander, LoopEnds, ProcessTypes
<1>8. ASSUME NEW k \in DOMAIN scans, ScanEnds(k)
      PROVE  ServiceTypes' /\ ProcessTypes'
  <2>1. scans' = [scans EXCEPT ![k] = [scans[k] EXCEPT !.at = "ended"]] /\ k \in 1 .. Len(scans)
    BY <1>8, LenProperties DEF ScanEnds, ServiceTypes
  <2>2. [scans[k] EXCEPT !.at = "ended"] \in Scan
    <3>1. scans[k] \in Scan
      BY <2>1, ElementOfSeq DEF ServiceTypes
    <3>. QED  BY <3>1 DEF Scan
  <2>3. scans' \in Seq(Scan)
    BY <2>1, <2>2, ExceptSeq DEF ServiceTypes
  <2>. QED  BY <1>8, <2>3 DEF ScanEnds, ProcessTypes, ServiceTypes, I2PType, ShellType,
               i2pVars, shellVars, apiVars, loopVars
<1>. QED  BY <1>2, <1>3, <1>4, <1>5, <1>6, <1>7, <1>8 DEF LoopStep

LEMMA EndedTasks ==
    ASSUME scans \in Seq(Scan)
    PROVE  LET ss == EndTempTasks(scans)
           IN  /\ ss \in Seq(Scan) /\ Len(ss) = Len(scans) /\ Len(scans) \in Nat
               /\ DOMAIN scans = 1 .. Len(scans) /\ DOMAIN ss = 1 .. Len(scans)
               /\ \A k \in 1 .. Len(scans) :
                     /\ scans[k] \in Scan
                     /\ scans[k].on = "main" => ss[k] = scans[k]
                     /\ scans[k].on = "temp" => ss[k].on = "temp" /\ ss[k].at = "ended"
<1> DEFINE ss == EndTempTasks(scans)
<1>1. DOMAIN scans = 1 .. Len(scans) /\ Len(scans) \in Nat /\ \A k \in 1 .. Len(scans) : scans[k] \in Scan
  BY LenProperties, ElementOfSeq
<1>2. ss = [k \in 1 .. Len(scans) |->
              IF scans[k].on = "temp" THEN [scans[k] EXCEPT !.at = "ended"] ELSE scans[k]]
  BY <1>1 DEF EndTempTasks
<1>3. ASSUME NEW k \in 1 .. Len(scans)
      PROVE  /\ ss[k] \in Scan
             /\ scans[k].on = "main" => ss[k] = scans[k]
             /\ scans[k].on = "temp" => ss[k].on = "temp" /\ ss[k].at = "ended"
  <2>1. ss[k] = IF scans[k].on = "temp" THEN [scans[k] EXCEPT !.at = "ended"] ELSE scans[k]
    BY <1>2, <1>3
  <2>2. scans[k] \in Scan
    BY <1>1
  <2>. QED  BY <2>1, <2>2 DEF Scan
<1> HIDE DEF ss
<1>4. ss \in [1 .. Len(scans) -> Scan]
  BY <1>2, <1>3
<1>5. ss \in Seq(Scan) /\ Len(ss) = Len(scans) /\ DOMAIN ss = 1 .. Len(scans)
  BY <1>1, <1>4, SeqDef, LenProperties
<1>. QED  BY <1>1, <1>3, <1>5 DEF ss

\* A job given to the loop from outside.
LEMMA NewJobTypes ==
    ASSUME ProcessTypes, NEW job \in Job, jobs' = Append(jobs, job),
           mainAt' \in {mainAt, "joining"}, left' \in Bounds,
           UNCHANGED <<mode, loopState, running, current, cliTodo, meddled>>
    PROVE  ProcessTypes'
<1>1. jobs' \in Seq(Job) /\ Len(jobs') = Len(jobs) + 1 /\ Len(jobs) \in Nat
  BY AppendJob DEF ProcessTypes
<1>. QED  BY <1>1 DEF ProcessTypes

LEMMA MainTypes ==
    ASSUME ServiceTypes, ProcessTypes, MainStep
    PROVE  ServiceTypes' /\ ProcessTypes'
<1>1. CASE Started
  BY <1>1, BystanderTypes DEF Bystander, Started, ProcessTypes, loopVars
<1>2. CASE CliStep
  <2>1. PICK outcome \in Outcomes :
           /\ ServiceDoes(Head(cliTodo), "temp", outcome)
           /\ cliTodo' = Rest("client", cliTodo, outcome)
           /\ Pay(outcome)
    BY <1>2 DEF CliStep
  <2>2. Rest("client", cliTodo, outcome) \in Seq(Steps)
    <3>1. cliTodo \in Seq(Steps) /\ cliTodo # << >>
      BY <1>2 DEF CliStep, ProcessTypes
    <3>. QED  BY <3>1, RestIs, Zenon
  <2>3. ServiceTypes' /\ left' \in Bounds
    BY <2>1, ServiceStepTypes, PayTypes DEF ProcessTypes
  <2>4. meddled' \in BOOLEAN /\ UNCHANGED <<mode, mainAt, running, loopVars>>
    BY <1>2 DEF CliStep, ProcessTypes
  <2>. QED  BY <2>1, <2>2, <2>3, <2>4 DEF ProcessTypes, loopVars
<1>3. CASE CliDone
  <2>1. scans' \in Seq(Scan)
    BY <1>3, EndedTasks DEF CliDone, ServiceTypes
  <2>. QED  BY <1>3, <2>1 DEF CliDone, ProcessTypes, ServiceTypes, I2PType, ShellType,
               i2pVars, shellVars, apiVars, loopVars
<1>4. CASE Joined
  BY <1>4, BystanderTypes DEF Bystander, Joined, ProcessTypes, loopVars
<1>5. CASE Drained
  BY <1>5, BystanderTypes DEF Bystander, Drained, ProcessTypes
<1>. QED  BY <1>1, <1>2, <1>3, <1>4, <1>5 DEF MainStep

\* Whatever comes from outside is a start command, or a job for the loop.
NewKinds(kind, todo) ==
    \/ kind = "client" /\ Whole(todo)
    \/ kind = "stop" /\ todo = StopAndExit
    \/ kind = "tray" /\ todo = AppStop

JobComes ==
    \E kind \in {"client", "stop", "tray"}, todo \in Seq(Steps) :
        /\ NewKinds(kind, todo)
        /\ jobs' = Append(jobs, NewJob(kind, todo))
        /\ mainAt' \in {mainAt, "joining"}
        /\ mainAt # "exited"
        /\ left' = left \/ \E bound \in {"requests", "signals"} : Spend(bound)
        /\ UNCHANGED <<mode, loopState, running, current, cliTodo, meddled, serviceVars>>

LEMMA Arrivals ==
    ASSUME CliExit \/ Signal \/ TrayQuit \/ OtherConnects
           \/ \E verb \in Verbs, s \in Services : CliRequest(verb, s) \/ OtherRequest(verb, s)
    PROVE  JobComes
<1>1. StopAndExit \in Seq(Steps) /\ AppStop \in Seq(Steps)
  BY StopLists
<1>2. CASE CliExit
  <2>1. NewKinds("stop", StopAndExit) /\ mainAt # "exited" /\ left' = left
    BY <1>2 DEF CliExit, Prompt, NewKinds
  <2>. QED  BY <1>1, <1>2, <2>1 DEF CliExit, JobComes
<1>3. CASE Signal
  BY <1>1, <1>3 DEF Signal, Interrupt, JobComes, NewKinds
<1>4. CASE TrayQuit
  BY <1>1, <1>4 DEF TrayQuit, Interrupt, JobComes, NewKinds
<1>5. ASSUME NEW verb \in Verbs, NEW s \in Services, SocketQuery(verb, s)
      PROVE  JobComes
  <2>1. Handler(verb, s) \in Seq(Steps) /\ Whole(Handler(verb, s))
    BY ServiceLists DEF Whole
  <2>. QED  BY <1>5, <2>1 DEF SocketQuery, Connects, JobComes, NewKinds
<1>6. CASE OtherConnects
  <2>1. <<"read">> \in Seq(Steps) /\ Whole(<<"read">>)
    BY WholeLists DEF Whole
  <2>. QED  BY <1>6, <2>1 DEF OtherConnects, Connects, JobComes, NewKinds
<1>. QED  BY <1>2, <1>3, <1>4, <1>5, <1>6 DEF CliRequest, OtherRequest

\* A client that had connected asks for something, or leaves.
JobReads == \E j \in DOMAIN jobs, todo \in Seq(Steps) : Whole(todo) /\ ReadReturns(j, todo)

LEMMA Reads ==
    ASSUME (\E verb \in Verbs, s \in Services, j \in DOMAIN jobs : LateRequest(j, verb, s))
           \/ \E j \in DOMAIN jobs : HangsUp(j)
    PROVE  JobReads
BY ServiceLists, WholeLists DEF LateRequest, HangsUp, JobReads, Whole

\* The list of its job is another; no other job changes.
LEMMA ReadJobs ==
    ASSUME jobs \in Seq(Job), JobReads
    PROVE  \E j \in DOMAIN jobs, todo \in Seq(Steps) :
              /\ Whole(todo)
              /\ jobs[j].todo = <<"read">>
              /\ jobs' \in Seq(Job) /\ Len(jobs') = Len(jobs) /\ DOMAIN jobs' = DOMAIN jobs
              /\ \A i \in DOMAIN jobs : i # j => jobs'[i] = jobs[i]
              /\ jobs'[j].kind = jobs[j].kind /\ jobs'[j].todo = todo
              /\ current = 0
              /\ UNCHANGED <<mode, mainAt, running, serviceVars, loopState, current, cliTodo,
                            left, meddled>>
<1> PICK j \in DOMAIN jobs, todo \in Seq(Steps) : Whole(todo) /\ ReadReturns(j, todo)
  BY DEF JobReads
<1>1. jobs[j] \in Job /\ DOMAIN jobs = 1 .. Len(jobs)
  BY LenProperties, ElementOfSeq
<1>2. jobs' = [jobs EXCEPT ![j] = [jobs[j] EXCEPT !.todo = todo]]
  BY <1>1 DEF ReadReturns
<1>3. [jobs[j] EXCEPT !.todo = todo] \in Job
  BY <1>1 DEF Job, Whole
<1>4. jobs' \in Seq(Job) /\ Len(jobs') = Len(jobs) /\ DOMAIN jobs' = DOMAIN jobs
  BY <1>1, <1>2, <1>3, ExceptSeq, LenProperties
<1>5. /\ \A i \in DOMAIN jobs : i # j => jobs'[i] = jobs[i]
      /\ jobs'[j].kind = jobs[j].kind /\ jobs'[j].todo = todo
  BY <1>1, <1>2 DEF Job
<1>6. /\ jobs[j].todo = <<"read">> /\ current = 0
      /\ UNCHANGED <<mode, mainAt, running, serviceVars, loopState, current, cliTodo, left, meddled>>
  BY DEF ReadReturns
<1>. QED  BY <1>4, <1>5, <1>6

LEMMA AppendJobs ==
    ASSUME jobs \in Seq(Job), NEW a \in Job, NEW b \in Job, jobs' = jobs \o <<a, b>>
    PROVE  /\ jobs' \in Seq(Job) /\ Len(jobs') = Len(jobs) + 2 /\ Len(jobs) \in Nat
           /\ DOMAIN jobs = 1 .. Len(jobs) /\ DOMAIN jobs' = 1 .. Len(jobs) + 2
           /\ \A j \in 1 .. Len(jobs) : jobs'[j] = jobs[j]
           /\ jobs'[Len(jobs) + 1] = a /\ jobs'[Len(jobs) + 2] = b
<1>1. <<a, b>> \in Seq(Job) /\ Len(<<a, b>>) = 2
  OBVIOUS
<1>2. /\ jobs' \in Seq(Job) /\ Len(jobs') = Len(jobs) + 2
      /\ \A i \in 1 .. Len(jobs) + 2 :
            jobs'[i] = IF i <= Len(jobs) THEN jobs[i] ELSE <<a, b>>[i - Len(jobs)]
  BY <1>1, ConcatProperties
<1>3. Len(jobs) \in Nat /\ DOMAIN jobs = 1 .. Len(jobs) /\ DOMAIN jobs' = 1 .. Len(jobs) + 2
  BY <1>2, LenProperties
<1>. QED  BY <1>1, <1>2, <1>3

LEMMA OutsideTypes ==
    ASSUME ServiceTypes, ProcessTypes,
           \/ JobComes \/ JobReads \/ (\E s \in Services : CliStart(s)) \/ CliQuit \/ Threads
           \/ UNCHANGED vars
    PROVE  ServiceTypes' /\ ProcessTypes'
<1>1. CASE JobComes
  <2>1. PICK kind \in {"client", "stop", "tray"}, todo \in Seq(Steps) :
           NewKinds(kind, todo) /\ jobs' = Append(jobs, NewJob(kind, todo))
    BY <1>1 DEF JobComes
  <2>2. NewJob(kind, todo) \in Job
    BY <2>1, NewJobFits DEF NewKinds
  <2>3. left' \in Bounds
    BY <1>1, SpendTypes DEF JobComes, ProcessTypes
  <2>. QED  BY <1>1, <2>1, <2>2, <2>3, NewJobTypes, BystanderTypes DEF JobComes, Bystander
<1>2. ASSUME NEW s \in Services, CliStart(s)
      PROVE  ServiceTypes' /\ ProcessTypes'
  <2>1. ServiceStart(s) \in Seq(Steps)
    BY ServiceLists DEF Whole
  <2>2. left' \in Bounds
    BY <1>2, SpendTypes DEF CliStart, ProcessTypes
  <2>. QED  BY <1>2, <2>1, <2>2, BystanderTypes DEF Bystander, CliStart, ProcessTypes, loopVars
<1>3. CASE CliQuit
  <2>1. NewJob("quit", <<"block">>) \in Job /\ NewJob("stop", StopAndExit) \in Job
    BY NewJobFits
  <2>2. /\ jobs' \in Seq(Job) /\ current' \in 0 .. Len(jobs')
        /\ running' \in BOOLEAN
    <3>1. CASE loopState = "stopped"
      BY <1>3, <3>1 DEF CliQuit, ProcessTypes
    <3>2. CASE loopState # "stopped"
      <4>1. jobs' = jobs \o <<NewJob("quit", <<"block">>), NewJob("stop", StopAndExit)>>
        BY <1>3, <3>2 DEF CliQuit
      <4>2. jobs' \in Seq(Job) /\ Len(jobs') = Len(jobs) + 2 /\ Len(jobs) \in Nat
        BY <2>1, <4>1, AppendJobs DEF ProcessTypes
      <4>. QED  BY <1>3, <3>2, <4>2 DEF CliQuit, ProcessTypes
    <3>. QED  BY <3>1, <3>2
  <2>. QED  BY <1>3, <2>2, BystanderTypes DEF Bystander, CliQuit, ProcessTypes
<1>4. CASE Threads
  <2>1. CASE I2PStep /\ UNCHANGED shellVars
    <3>1. I2PType'
      BY <2>1, I2PTypes DEF ServiceTypes
    <3>. QED  BY <1>4, <2>1, <3>1 DEF Threads, ServiceTypes, ProcessTypes, ShellType,
                 shellVars, peerSyncVars, apiVars, loopVars
  <2>2. CASE ShellStep /\ UNCHANGED i2pVars
    <3>1. ShellType' /\ (shellRunning' => shellSocket' # 0)
      BY <2>2, ShellTypes DEF ServiceTypes
    <3>. QED  BY <1>4, <2>2, <3>1 DEF Threads, ServiceTypes, ProcessTypes, I2PType,
                 i2pVars, peerSyncVars, apiVars, loopVars
  <2>. QED  BY <1>4, <2>1, <2>2 DEF Threads
<1>5. CASE UNCHANGED vars
  BY <1>5, BystanderTypes DEF vars, Bystander, ProcessTypes, loopVars
<1>6. CASE JobReads
  <2>1. /\ jobs' \in Seq(Job) /\ Len(jobs') = Len(jobs)
        /\ UNCHANGED <<mode, mainAt, running, serviceVars, loopState, current, cliTodo, left, meddled>>
    BY <1>6, ReadJobs DEF ProcessTypes
  <2>. QED  BY <2>1, BystanderTypes DEF Bystander, ProcessTypes
<1>. QED  BY <1>1, <1>2, <1>3, <1>4, <1>5, <1>6

LEMMA NextTypes ==
    ASSUME TypeInv, JobsInv, [Next]_vars
    PROVE  TypeInv'
<1>1. ServiceTypes /\ ProcessTypes
  BY TypesAre
<1>2. \/ LoopStep \/ MainStep \/ JobComes \/ JobReads \/ (\E s \in Services : CliStart(s))
      \/ CliQuit \/ Threads \/ UNCHANGED vars
  BY Arrivals, Reads DEF Next, Verbs
<1>3. ServiceTypes' /\ ProcessTypes'
  BY <1>1, <1>2, LoopTypes, MainTypes, OutsideTypes
<1>4. TypeInv' <=> ServiceTypes' /\ ProcessTypes'
  BY TypesAre, PTL
<1>. QED  BY <1>3, <1>4

-----------------------------------------------------------------------------
(* The jobs keep their form.                                               *)

LEMMA CurrentJob ==
    ASSUME TypeInv, JobsInv
    PROVE  /\ jobs \in Seq(Job) /\ scans \in Seq(Scan) /\ cliTodo \in Seq(Steps)
           /\ Len(jobs) \in Nat /\ DOMAIN jobs = 1 .. Len(jobs) /\ current \in 0 .. Len(jobs)
           /\ \A j \in 1 .. Len(jobs) : jobs[j] \in Job /\ jobs[j].todo \in Seq(Steps)
           /\ current # 0 =>
                  /\ current \in 1 .. Len(jobs)
                  /\ jobs[current].todo \in Seq(Steps) /\ jobs[current].todo # << >>
                  /\ Head(jobs[current].todo) = jobs[current].todo[1]
                  /\ JobFits(jobs[current]) /\ Paired(jobs[current].todo)
           /\ cliTodo # << >> => Head(cliTodo) = cliTodo[1]
<1>1. /\ jobs \in Seq(Job) /\ scans \in Seq(Scan) /\ cliTodo \in Seq(Steps)
      /\ current \in 0 .. Len(jobs)
  BY DEF TypeInv, TypeOK
<1>2. Len(jobs) \in Nat /\ DOMAIN jobs = 1 .. Len(jobs) /\ \A j \in 1 .. Len(jobs) : jobs[j] \in Job
  BY <1>1, LenProperties, ElementOfSeq
<1>3. \A j \in 1 .. Len(jobs) : jobs[j].todo \in Seq(Steps)
  BY <1>2 DEF Job
<1>4. cliTodo # << >> => Head(cliTodo) = cliTodo[1]
  BY <1>1, TailIs
<1>5. ASSUME current # 0
      PROVE  /\ current \in 1 .. Len(jobs)
             /\ jobs[current].todo \in Seq(Steps) /\ jobs[current].todo # << >>
             /\ JobFits(jobs[current]) /\ Paired(jobs[current].todo)
  <2>1. current \in 1 .. Len(jobs)
    BY <1>1, <1>2, <1>5
  <2>2. jobs[current].todo # << >> /\ JobFits(jobs[current])
    BY <1>2, <1>5, <2>1 DEF JobsInv, Ended
  <2>. QED  BY <1>3, <2>1, <2>2 DEF JobFits
<1>6. current # 0 => Head(jobs[current].todo) = jobs[current].todo[1]
  BY <1>5, TailIs
<1>. QED  BY <1>1, <1>2, <1>3, <1>4, <1>5, <1>6

JobsFit ==
    \A j \in DOMAIN jobs :
        /\ JobFits(jobs[j])
        /\ j # current => Next1(jobs[j].todo) \notin Tight
        /\ Stopping(jobs[j]) => ~running

LEMMA AdvanceJobs ==
    ASSUME TypeInv, JobsInv, current # 0,
           NEW step, NEW todo \in Seq(Steps), NEW outcome, Advance(step, todo, outcome),
           JobFits(jobs'[current]),
           Stopping(jobs'[current]) => ~running', ~running => ~running',
           current' = 0 => Next1(todo) \notin Tight
    PROVE  JobsFit' /\ (current' # 0 => ~Ended(current)')
<1>1. /\ DOMAIN jobs = 1 .. Len(jobs) /\ DOMAIN jobs' = 1 .. Len(jobs)
      /\ \A j \in 1 .. Len(jobs) : j # current => jobs'[j] = jobs[j]
      /\ jobs'[current].todo = todo
      /\ current' = 0 \/ (current' = current /\ todo # << >>)
  BY CurrentJob, Advances
<1>2. ASSUME NEW j \in 1 .. Len(jobs)
      PROVE  /\ JobFits(jobs'[j])
             /\ j # current' => Next1(jobs'[j].todo) \notin Tight
             /\ Stopping(jobs'[j]) => ~running'
  <2>1. CASE j = current
    BY <1>1, <2>1
  <2>2. CASE j # current
    BY <1>1, <2>2 DEF JobsInv
  <2>. QED  BY <2>1, <2>2
<1>. QED  BY <1>1, <1>2 DEF JobsFit, Ended

\* The steps of services are not those of stop() itself.
LEMMA DoesService ==
    ASSUME NEW step, NEW on, NEW outcome, ServiceDoes(step, on, outcome)
    PROVE  step \in ServiceSteps /\ outcome \in Outcomes
<1>1. CASE I2PDoes(step, outcome)
  BY <1>1 DEF I2PDoes, ServiceSteps, Steps, Outcomes
<1>2. CASE ContainerDoes(step, outcome)
  BY <1>2 DEF ContainerDoes, ServiceSteps, Steps, Outcomes
<1>3. CASE PeersDo(step, outcome)
  BY <1>3 DEF PeersDo, ServiceSteps, Steps, Outcomes
<1>4. CASE SyncDoes(step, on, outcome)
  BY <1>4 DEF SyncDoes, ServiceSteps, Steps, Outcomes
<1>5. CASE ApiDoes(step, outcome)
  BY <1>5 DEF ApiDoes, ServiceSteps, Steps, Outcomes
<1>. QED  BY <1>1, <1>2, <1>3, <1>4, <1>5 DEF ServiceDoes

\* What a service's step does to the current job.
LEMMA ServiceStepJobs ==
    ASSUME TypeInv, JobsInv, ServiceStep
    PROVE  \E outcome \in Outcomes :
              LET job == jobs[current]
                  todo == Rest(job.kind, job.todo, outcome)
              IN  /\ job.todo[1] \in ServiceSteps
                  /\ ServiceDoes(job.todo[1], "main", outcome)
                  /\ Advance(job.todo[1], todo, outcome)
                  /\ todo \in Seq(Steps) /\ jobs'[current].todo = todo
                  /\ jobs'[current].kind = job.kind
                  /\ JobFits(jobs'[current])
                  /\ Stopping(jobs'[current]) => Stopping(job)
                  /\ current' = 0 => Next1(todo) \notin Tight
<1> DEFINE job == jobs[current]
<1>0. /\ current # 0 /\ job.todo \in Seq(Steps) /\ job.todo # << >>
      /\ Head(job.todo) = job.todo[1] /\ JobFits(job) /\ Paired(job.todo)
  BY CurrentJob DEF ServiceStep
<1>1. PICK outcome \in Outcomes :
         /\ ServiceDoes(job.todo[1], "main", outcome)
         /\ Advance(job.todo[1], Rest(job.kind, job.todo, outcome), outcome)
  BY <1>0 DEF ServiceStep
<1> DEFINE todo == Rest(job.kind, job.todo, outcome)
<1>2. job.todo[1] \in ServiceSteps
  BY <1>1, DoesService
<1>3. todo \in Seq(Steps)
  BY <1>0, RestIs, Zenon
<1>4. jobs'[current].todo = todo /\ jobs'[current].kind = job.kind
  BY <1>0, <1>1, <1>3, CurrentJob, Advances
<1>5. JobFits(jobs'[current]) /\ (Stopping(jobs'[current]) => Stopping(job))
  <2>1. job.todo[1] # "stopGuard"
    BY <1>2 DEF ServiceSteps
  <2> HIDE DEF job
  <2>. QED  BY <1>0, <1>4, <2>1, JobGoesOn
<1>6. ASSUME current' = 0
      PROVE  Next1(todo) \notin Tight
  <2>1. todo = << >> \/ job.todo[1] \in {"syncStop", "apiBind", "apiClose"}
    BY <1>0, <1>1, <1>6 DEF Advance
  <2>2. CASE todo = << >>
    BY <2>2 DEF Next1, Tight
  <2>3. CASE job.todo[1] \in {"syncStop", "apiBind", "apiClose"}
    <3>1. /\ Next1(todo) = "syncScan" => job.todo[1] = "syncStart"
          /\ Next1(todo) = "ctrServe" => job.todo[1] = "ctrStart"
          /\ Next1(todo) = "ctrUnmount" => job.todo[1] = "ctrStop"
          /\ Next1(todo) = "i2pLaunch" => job.todo[1] = "i2pProbe"
      BY <1>0, RestPaired
    <3>. QED  BY <2>3, <3>1 DEF Tight
  <2>. QED  BY <2>1, <2>2, <2>3
<1>. QED  BY <1>1, <1>2, <1>3, <1>4, <1>5, <1>6

\* The guard of stop() and the two steps that services have no part in.
LEMMA OtherStepJobs ==
    ASSUME TypeInv, JobsInv, StopGuard \/ LoopStop \/ Block
    PROVE  /\ JobsFit' /\ (current' # 0 => ~Ended(current)')
           /\ LoopStop => ~running
           /\ current # 0 /\ current' \in {0, current} /\ Next1(jobs'[current].todo) \notin Tight
<1> DEFINE job == jobs[current]
<1>0. /\ current # 0 /\ current \in 1 .. Len(jobs) /\ DOMAIN jobs = 1 .. Len(jobs)
      /\ job.todo \in Seq(Steps) /\ job.todo # << >>
      /\ Head(job.todo) = job.todo[1] /\ JobFits(job) /\ Paired(job.todo)
  BY CurrentJob DEF StopGuard, LoopStop, Block
<1>1. CASE StopGuard
  <2>1. PICK todo \in {Tail(job.todo), WithoutStop(job.todo)} : Advance("stopGuard", todo, "ok")
    BY <1>1 DEF StopGuard
  <2>2. todo \in Seq(Steps)
    <3>1. <<"loopStop">> \in Seq(Steps) /\ << >> \in Seq(Steps) /\ Tail(job.todo) \in Seq(Steps)
      BY <1>0, TailIs, EmptySeq DEF Steps
    <3>. QED  BY <3>1 DEF WithoutStop
  <2>3. /\ jobs'[current].todo = todo /\ jobs'[current].kind = job.kind
        /\ current' \in {0, current}
    BY <1>0, <2>1, <2>2, CurrentJob, Advances
  <2>4. JobFits(jobs'[current]) /\ Next1(todo) \notin Tight
    <3>1. job.todo[1] = "stopGuard"
      BY <1>0, <1>1 DEF StopGuard
    <3> HIDE DEF job
    <3>. QED  BY <1>0, <2>1, <2>3, <3>1, GuardLeaves
  <2>5. ~running' /\ ~LoopStop
    BY <1>0, <1>1 DEF StopGuard, LoopStop
  <2>. QED  BY <1>0, <2>1, <2>2, <2>3, <2>4, <2>5, AdvanceJobs
<1>2. CASE LoopStop
  <2>1. /\ job.todo[1] = "loopStop" /\ UNCHANGED running
        /\ Advance("loopStop", Tail(job.todo), "ok")
    BY <1>0, <1>2 DEF LoopStop
  <2>2. Tail(job.todo) = Rest(job.kind, job.todo, "ok") /\ Tail(job.todo) \in Seq(Steps)
    BY <1>0, TailIs DEF Rest
  <2>3. /\ jobs'[current].todo = Tail(job.todo) /\ jobs'[current].kind = job.kind
        /\ current' \in {0, current}
    BY <1>0, <2>1, <2>2, CurrentJob, Advances
  <2>4. ~running
    <3>1. Has(job.todo, "loopStop")
      <4>1. 1 \in DOMAIN job.todo
        BY <1>0, TailIs
      <4>. QED  BY <2>1, <4>1 DEF Has
    <3>2. Stopping(job)
      BY <1>0, <2>1, <3>1 DEF JobFits, Stopping, StopKinds
    <3>. QED  BY <1>0, <3>2 DEF JobsInv
  <2>5. JobFits(jobs'[current])
    <3>1. job.todo[1] # "stopGuard"
      BY <2>1
    <3> HIDE DEF job
    <3>. QED  BY <1>0, <2>2, <2>3, <3>1, JobGoesOn
  <2>6. Next1(Tail(job.todo)) \notin Tight
    <3>1. /\ Next1(Tail(job.todo)) = "syncScan" => job.todo[1] = "syncStart"
          /\ Next1(Tail(job.todo)) = "ctrServe" => job.todo[1] = "ctrStart"
          /\ Next1(Tail(job.todo)) = "ctrUnmount" => job.todo[1] = "ctrStop"
          /\ Next1(Tail(job.todo)) = "i2pLaunch" => job.todo[1] = "i2pProbe"
      BY <1>0, <2>2, RestPaired
    <3>. QED  BY <2>1, <3>1 DEF Tight
  <2>. QED  BY <1>0, <2>1, <2>2, <2>3, <2>4, <2>5, <2>6, AdvanceJobs
<1>3. CASE Block
  <2>1. job.todo[1] = "block" /\ UNCHANGED running /\ Advance("block", << >>, "ok")
    BY <1>0, <1>3 DEF Block
  <2>2. << >> \in Seq(Steps) /\ Next1(<< >>) \notin Tight /\ Paired(<< >>) /\ \A step : ~Has(<< >>, step)
    BY EmptySeq DEF Next1, Tight, Paired, Pair, Has
  <2>3. /\ jobs'[current].todo = << >> /\ jobs'[current].kind = job.kind
        /\ current' \in {0, current}
    BY <1>0, <2>1, <2>2, CurrentJob, Advances
  <2>4. JobFits(jobs'[current]) /\ ~Stopping(jobs'[current])
    <3>1. \A i \in DOMAIN << >> : FALSE
      OBVIOUS
    <3>. QED  BY <2>2, <2>3, <3>1 DEF JobFits, Stopping
  <2>5. ~LoopStop
    BY <1>0, <2>1 DEF LoopStop
  <2>. QED  BY <1>0, <2>1, <2>2, <2>3, <2>4, <2>5, AdvanceJobs
<1>. QED  BY <1>1, <1>2, <1>3

\* A job that comes from outside finds the others as they are.
LEMMA NewJobsFit ==
    ASSUME TypeInv, JobsInv, JobComes \/ CliQuit
    PROVE  /\ JobsFit' /\ (current' # 0 => ~Ended(current)')
           /\ current' = current /\ current \in 0 .. Len(jobs)
           /\ DOMAIN jobs = 1 .. Len(jobs) /\ Len(jobs) \in Nat /\ DOMAIN jobs \subseteq DOMAIN jobs'
           /\ \A j \in DOMAIN jobs : jobs'[j] = jobs[j]
           /\ ~running => ~running'
<1>0. /\ Len(jobs) \in Nat /\ DOMAIN jobs = 1 .. Len(jobs) /\ current \in 0 .. Len(jobs)
      /\ jobs \in Seq(Job)
  BY CurrentJob
<1>1. current' = current /\ (~running => ~running')
  BY DEF JobComes, CliQuit, ProcessTypes
<1>2. /\ \A j \in 1 .. Len(jobs) : j \in DOMAIN jobs' /\ jobs'[j] = jobs[j]
      /\ \A j \in DOMAIN jobs' \ (1 .. Len(jobs)) :
            JobFits(jobs'[j]) /\ Next1(jobs'[j].todo) \notin Tight /\ ~Stopping(jobs'[j])
  <2>1. CASE JobComes
    <3>1. PICK kind \in {"client", "stop", "tray"}, todo \in Seq(Steps) :
             NewKinds(kind, todo) /\ jobs' = Append(jobs, NewJob(kind, todo))
      BY <2>1 DEF JobComes
    <3> DEFINE new == NewJob(kind, todo)
    <3>2. new \in Job /\ JobFits(new) /\ Next1(new.todo) \notin Tight /\ ~Stopping(new)
      BY <3>1, NewJobFits DEF NewKinds
    <3> HIDE DEF new
    <3>3. /\ DOMAIN jobs' = 1 .. Len(jobs) + 1
          /\ \A j \in 1 .. Len(jobs) : jobs'[j] = jobs[j]
          /\ jobs'[Len(jobs) + 1] = new
      BY <1>0, <3>1, <3>2, AppendJob DEF new
    <3>. QED  BY <1>0, <3>2, <3>3
  <2>2. CASE CliQuit
    <3>1. CASE loopState = "stopped"
      BY <1>0, <2>2, <3>1 DEF CliQuit
    <3>2. CASE loopState # "stopped"
      <4> DEFINE a == NewJob("quit", <<"block">>)
                 b == NewJob("stop", StopAndExit)
      <4>1. /\ a \in Job /\ JobFits(a) /\ Next1(a.todo) \notin Tight /\ ~Stopping(a)
            /\ b \in Job /\ JobFits(b) /\ Next1(b.todo) \notin Tight /\ ~Stopping(b)
        BY NewJobFits
      <4>2. jobs' = jobs \o <<a, b>>
        BY <2>2, <3>2 DEF CliQuit
      <4> HIDE DEF a, b
      <4>3. /\ DOMAIN jobs' = 1 .. Len(jobs) + 2
            /\ \A j \in 1 .. Len(jobs) : jobs'[j] = jobs[j]
            /\ jobs'[Len(jobs) + 1] = a /\ jobs'[Len(jobs) + 2] = b
        BY <1>0, <4>1, <4>2, AppendJobs
      <4>. QED  BY <1>0, <4>1, <4>3
    <3>. QED  BY <3>1, <3>2
  <2>. QED  BY <2>1, <2>2
<1>3. ASSUME NEW j \in DOMAIN jobs'
      PROVE  /\ JobFits(jobs'[j])
             /\ j # current' => Next1(jobs'[j].todo) \notin Tight
             /\ Stopping(jobs'[j]) => ~running'
  <2>1. CASE j \in 1 .. Len(jobs)
    BY <1>0, <1>1, <1>2, <2>1 DEF JobsInv
  <2>2. CASE j \notin 1 .. Len(jobs)
    BY <1>2, <1>3, <2>2
  <2>. QED  BY <2>1, <2>2
<1>4. current' # 0 => ~Ended(current)'
  BY <1>0, <1>1, <1>2 DEF JobsInv, Ended
<1>. QED  BY <1>0, <1>1, <1>2, <1>3, <1>4 DEF JobsFit

\* The job of a client is none of those that stop the application.
LEMMA ReadJobsFit ==
    ASSUME TypeInv, JobsInv, JobReads
    PROVE  /\ JobsFit' /\ current = 0 /\ UNCHANGED <<current, running, cliTodo, mode, meddled>>
           /\ DOMAIN jobs' = DOMAIN jobs
           /\ \A i \in DOMAIN jobs : Stopping(jobs[i]) => jobs'[i] = jobs[i]
<1>0. jobs \in Seq(Job)
  BY CurrentJob
<1> PICK j \in DOMAIN jobs, todo \in Seq(Steps) :
           /\ Whole(todo)
           /\ jobs[j].todo = <<"read">>
           /\ DOMAIN jobs' = DOMAIN jobs
           /\ \A i \in DOMAIN jobs : i # j => jobs'[i] = jobs[i]
           /\ jobs'[j].kind = jobs[j].kind /\ jobs'[j].todo = todo
           /\ current = 0
           /\ UNCHANGED <<mode, running, current, cliTodo, meddled>>
  BY <1>0, ReadJobs
<1>1. jobs[j].kind \notin StopKinds
  BY DEF JobsInv, JobFits, StopSteps
<1>2. JobFits(jobs'[j]) /\ Next1(jobs'[j].todo) \notin Tight /\ ~Stopping(jobs'[j])
  <2>1. ~Has(todo, "loopStop") /\ ~Has(todo, "stopGuard")
    BY DEF Has, Whole, ServiceSteps
  <2>. QED  BY <1>1, <2>1 DEF JobFits, Stopping, Whole
<1>3. ASSUME NEW i \in DOMAIN jobs'
      PROVE  /\ JobFits(jobs'[i])
             /\ i # current' => Next1(jobs'[i].todo) \notin Tight
             /\ Stopping(jobs'[i]) => ~running'
  <2>1. CASE i = j
    BY <1>2, <2>1
  <2>2. CASE i # j
    BY <2>2 DEF JobsInv
  <2>. QED  BY <2>1, <2>2
<1>. QED  BY <1>1, <1>3 DEF JobsFit, Stopping

LEMMA ResumeJobs ==
    ASSUME TypeInv, JobsInv, NEW j \in DOMAIN jobs, Resume(j)
    PROVE  /\ JobsFit' /\ current' = j /\ current = 0 /\ ~Ended(current)'
           /\ DOMAIN jobs' = DOMAIN jobs
           /\ \A i \in DOMAIN jobs : jobs'[i].todo = jobs[i].todo /\ jobs'[i].kind = jobs[i].kind
<1>0. /\ DOMAIN jobs = 1 .. Len(jobs)
      /\ \A i \in 1 .. Len(jobs) : jobs[i] \in Job
  BY CurrentJob
<1>1. /\ jobs' = [jobs EXCEPT ![j] = [jobs[j] EXCEPT !.waitsFor = 0]]
      /\ current' = j /\ current = 0 /\ ~Ended(j) /\ running' = running
  BY <1>0 DEF Resume, CanRun
<1>2. DOMAIN jobs' = DOMAIN jobs
  BY <1>1
<1>3. ASSUME NEW i \in DOMAIN jobs
      PROVE  jobs'[i].todo = jobs[i].todo /\ jobs'[i].kind = jobs[i].kind
  <2>1. CASE i = j
    <3>1. jobs[j] \in Job
      BY <1>0
    <3>2. jobs'[j] = [jobs[j] EXCEPT !.waitsFor = 0]
      BY <1>1
    <3>. QED  BY <2>1, <3>1, <3>2 DEF Job
  <2>2. CASE i # j
    BY <1>1, <2>2
  <2>. QED  BY <2>1, <2>2
<1>4. ASSUME NEW i \in DOMAIN jobs'
      PROVE  /\ JobFits(jobs'[i])
             /\ i # current' => Next1(jobs'[i].todo) \notin Tight
             /\ Stopping(jobs'[i]) => ~running'
  <2>1. /\ JobFits(jobs[i]) /\ Next1(jobs[i].todo) \notin Tight
        /\ Stopping(jobs[i]) => ~running
    BY <1>0, <1>1, <1>2, <1>4 DEF JobsInv
  <2>. QED  BY <1>1, <1>2, <1>3, <2>1 DEF JobFits, Stopping
<1>. QED  BY <1>0, <1>1, <1>2, <1>3, <1>4 DEF JobsFit, Ended

\* A step that leaves the jobs and the commands of the prompt alone.
LEMMA SameJobs ==
    ASSUME JobsInv, UNCHANGED <<jobs, current>>, ~running => ~running'
    PROVE  JobsFit' /\ (current' # 0 => ~Ended(current)')
BY DEF JobsInv, JobsFit, Ended

LEMMA NextJobs ==
    ASSUME TypeInv, JobsInv, [Next]_vars
    PROVE  JobsInv'
<1> DEFINE Cli == Paired(cliTodo) /\ (cliTodo # << >> => mode = "cli")
           Over == loopState \in {"stopping", "stopped"} \/ mainAt = "draining" => ~running
           Goal == JobsFit' /\ (current' # 0 => ~Ended(current)')
<1>0. Cli /\ Over
  BY DEF JobsInv
<1>a. Goal /\ Cli' /\ Over' => JobsInv'
  BY DEF JobsInv, JobsFit
<1> SUFFICES Goal /\ Cli' /\ Over'
  BY <1>a
<1>1. CASE LoopStep
  <2>1. UNCHANGED <<mode, cliTodo>> => Cli'
    BY <1>0
  <2>2. ASSUME NEW j \in DOMAIN jobs, Resume(j)
        PROVE  Goal /\ Cli' /\ Over'
    BY <1>0, <2>2, ResumeJobs DEF Resume
  <2>3. CASE ServiceStep
    <3>1. PICK outcome \in Outcomes :
             LET job == jobs[current]
                 todo == Rest(job.kind, job.todo, outcome)
             IN  /\ Advance(job.todo[1], todo, outcome)
                 /\ todo \in Seq(Steps)
                 /\ JobFits(jobs'[current])
                 /\ Stopping(jobs'[current]) => Stopping(job)
                 /\ current' = 0 => Next1(todo) \notin Tight
      BY <2>3, ServiceStepJobs
    <3>2. UNCHANGED <<mode, cliTodo, running, loopState, mainAt>> /\ current # 0
      BY <2>3 DEF ServiceStep
    <3>3. Stopping(jobs[current]) => ~running
      BY <3>2, CurrentJob DEF JobsInv
    <3>4. Goal
      BY <3>1, <3>2, <3>3, AdvanceJobs
    <3>. QED  BY <1>0, <3>2, <3>4
  <2>4. CASE StopGuard \/ LoopStop \/ Block
    <3>1. Goal /\ (LoopStop => ~running)
      BY <2>4, OtherStepJobs
    <3>2. Cli'
      BY <1>0, <2>4 DEF StopGuard, LoopStop, Block
    <3>3. Over'
      BY <1>0, <2>4, <3>1 DEF StopGuard, LoopStop, Block
    <3>. QED  BY <3>1, <3>2, <3>3
  <2>5. CASE LoopEnds
    BY <1>0, <2>5, SameJobs DEF LoopEnds
  <2>6. ASSUME NEW k \in DOMAIN scans, ScanEnds(k)
        PROVE  Goal /\ Cli' /\ Over'
    BY <1>0, <2>6, SameJobs DEF ScanEnds, loopVars
  <2>. QED  BY <1>1, <2>2, <2>3, <2>4, <2>5, <2>6 DEF LoopStep
<1>2. CASE MainStep
  <2>1. CASE Started
    BY <1>0, <2>1, SameJobs DEF Started, loopVars
  <2>2. CASE CliStep
    <3>1. PICK outcome \in Outcomes : cliTodo' = Rest("client", cliTodo, outcome)
      BY <2>2 DEF CliStep
    <3>2. cliTodo \in Seq(Steps) /\ cliTodo # << >>
      BY <2>2, CurrentJob DEF CliStep
    <3>3. Paired(Rest("client", cliTodo, outcome))
      BY <1>0, <3>2, RestPaired
    <3>4. UNCHANGED <<mode, mainAt, running, loopVars>>
      BY <2>2 DEF CliStep
    <3>5. Cli' /\ Over'
      BY <1>0, <3>1, <3>2, <3>3, <3>4 DEF loopVars
    <3>6. Goal
      BY <3>4, SameJobs DEF loopVars
    <3>. QED  BY <3>5, <3>6
  <2>3. CASE CliDone
    BY <1>0, <2>3, SameJobs DEF CliDone, loopVars
  <2>4. CASE Joined
    BY <1>0, <2>4, SameJobs DEF Joined, loopVars
  <2>5. CASE Drained
    BY <1>0, <2>5, SameJobs DEF Drained
  <2>. QED  BY <1>2, <2>1, <2>2, <2>3, <2>4, <2>5 DEF MainStep
<1>3. CASE JobComes \/ CliQuit
  <2>1. Goal /\ (~running => ~running')
    BY <1>3, NewJobsFit
  <2>2. Cli' /\ Over'
    BY <1>0, <1>3, <2>1 DEF JobComes, CliQuit
  <2>. QED  BY <2>1, <2>2
<1>4. ASSUME NEW s \in Services, CliStart(s)
      PROVE  Goal /\ Cli' /\ Over'
  <2>1. Paired(ServiceStart(s))
    BY ServiceLists DEF Whole
  <2>2. Cli' /\ Over'
    BY <1>0, <1>4, <2>1 DEF CliStart, Prompt, loopVars
  <2>3. Goal
    BY <1>4, SameJobs DEF CliStart, loopVars
  <2>. QED  BY <2>2, <2>3
<1>5. CASE Threads
  BY <1>0, <1>5, SameJobs DEF Threads, loopVars
<1>6. CASE UNCHANGED vars
  BY <1>0, <1>6, SameJobs DEF vars, loopVars
<1>7. CASE JobReads
  <2>1. Goal /\ UNCHANGED <<mode, cliTodo, running>>
    BY <1>7, ReadJobsFit
  <2>2. UNCHANGED <<loopState, mainAt>>
    BY <1>7 DEF JobReads, ReadReturns
  <2>. QED  BY <1>0, <2>1, <2>2
<1>8. \/ LoopStep \/ MainStep \/ JobComes \/ JobReads \/ (\E s \in Services : CliStart(s))
      \/ CliQuit \/ Threads \/ UNCHANGED vars
  BY Arrivals, Reads DEF Next, Verbs
<1>. QED  BY <1>1, <1>2, <1>3, <1>4, <1>5, <1>6, <1>7, <1>8

LEMMA StartsRight ==
    ASSUME Init
    PROVE  TypeInv /\ JobsInv
<1>1. Whole(AppStart) /\ AppStart \in Seq(Steps)
  BY ServiceLists DEF Whole
<1> DEFINE first == NewJob("app", AppStart)
<1>2. first \in Job /\ JobFits(first) /\ Next1(first.todo) \notin Tight /\ ~Stopping(first)
  BY <1>1, NewJobFits
<1>3. jobs = <<first>> /\ current = 0
  BY DEF Init
<1> HIDE DEF first
<1>4. jobs \in Seq(Job) /\ Len(jobs) = 1 /\ DOMAIN jobs = {1} /\ jobs[1] = first
  BY <1>2, <1>3
<1>5. scans \in Seq(Scan) /\ cliTodo \in Seq(Steps) /\ cliTodo = << >>
  BY EmptySeq DEF Init
<1>6. left \in Bounds /\ mode \in Modes
  <2>1. PICK setup \in Setup : left = [b \in {"requests", "starts", "signals", "faults"} |-> setup[b]]
                               /\ mode = setup.mode
    BY AppAssumption DEF Init
  <2>. QED  BY <2>1 DEF Bounds, Setup
<1>7. ServiceTypes
  <2>1. I2PType
    <3>1. I2PInit
      BY DEF Init
    <3>2. launches \in Nat /\ process \in 0 .. launches
      BY <3>1 DEF I2PInit
    <3>3. monitors \in [poll : SUBSET (1 .. launches), seen : SUBSET (1 .. launches)]
      BY <3>1 DEF I2PInit
    <3>. QED  BY <3>1, <3>2, <3>3 DEF I2PInit, I2PType
  <2>2. ShellType /\ ~shellRunning
    <3>1. ShellInit
      BY DEF Init
    <3>2. shells \in Nat /\ shellSocket \in 0 .. shells /\ shellPath \in 0 .. shells
      BY <3>1 DEF ShellInit
    <3>3. /\ containerState = "stopped" /\ shellRunning = FALSE
          /\ acceptors = {}
      BY <3>1 DEF ShellInit
    <3>. QED  BY <3>2, <3>3 DEF ShellType, ContainerStates
  <2>3. /\ rnsRunning = FALSE /\ rnsMade = FALSE /\ syncRunning = FALSE /\ apiPath = FALSE
        /\ server = "none"
    BY DEF Init
  <2>. QED  BY <1>5, <2>1, <2>2, <2>3 DEF ServiceTypes
<1>8. ProcessTypes
  <2>1. /\ mainAt = "starting" /\ loopState = "running" /\ running = TRUE /\ meddled = FALSE
    BY DEF Init
  <2>2. current \in 0 .. Len(jobs)
    BY <1>3, <1>4
  <2>. QED  BY <1>4, <1>5, <1>6, <2>1, <2>2 DEF ProcessTypes
<1>9. JobsInv
  <2>1. Paired(cliTodo)
    BY <1>5 DEF Paired, Pair
  <2>. QED  BY <1>2, <1>3, <1>4, <1>5, <2>1 DEF Init, JobsInv
<1>. QED  BY <1>7, <1>8, <1>9, TypesAre

\* The types are right and jobs keep their form, however many requests, commands
\* and signals there are and whatever services they name.
LEMMA FormKept == Spec => [](TypeInv /\ JobsInv)
<1>1. Init => TypeInv /\ JobsInv
  BY StartsRight
<1>2. TypeInv /\ JobsInv /\ [Next]_vars => (TypeInv /\ JobsInv)'
  BY NextTypes, NextJobs
<1>. QED  BY <1>1, <1>2, PTL DEF Spec

\* Whatever is asked of the process, its state stays within its types: the
\* current job is one of the loop's, i2pds and shell sockets are only ever those
\* that were made.
THEOREM AppTypeCorrect == Spec => []TypeOK
<1>1. TypeInv => TypeOK
  BY DEF TypeInv
<1>. QED  BY <1>1, FormKept, PTL

-----------------------------------------------------------------------------
(* One actor at a time.                                                    *)

LEMMA OneStays ==
    ASSUME [Next]_vars, OneAtATime', TypeInv
    PROVE  OneAtATime /\ mode' = mode
<1>1. meddled \in BOOLEAN
  BY DEF TypeInv, TypeOK
<1>2. mode' = mode /\ (meddled => meddled')
  <2>1. CASE LoopStep
    BY <1>1, <2>1 DEF LoopStep, Resume, ServiceStep, StopGuard, LoopStop, Block, LoopEnds, ScanEnds
  <2>2. CASE MainStep
    BY <1>1, <2>2 DEF MainStep, Started, CliStep, CliDone, Joined, Drained
  <2>3. CASE JobComes \/ (\E s \in Services : CliStart(s)) \/ CliQuit \/ Threads \/ UNCHANGED vars
    BY <2>3 DEF JobComes, CliStart, CliQuit, Threads, vars
  <2>4. CASE JobReads
    BY <2>4 DEF JobReads, ReadReturns
  <2>. QED  BY <2>1, <2>2, <2>3, <2>4, Arrivals, Reads DEF Next, Verbs
<1>. QED  BY <1>1, <1>2 DEF OneAtATime

\* The step of a service, by whoever does it.
ServiceActs == ServiceStep \/ CliStep

\* The one who does a step of a service does the only one that is under way, and
\* what comes next for it are second halves exactly of what it has begun.
LEMMA OneActs ==
    ASSUME TypeInv, JobsInv, ServiceActs, OneAtATime', mode' = mode
    PROVE  \E step \in ServiceSteps, on \in {"main", "temp"}, outcome \in Outcomes :
              /\ ServiceDoes(step, on, outcome)
              /\ on = "temp" => mode = "cli"
              /\ Doing(step)
              /\ \A s \in Steps : Doing(s) => s = step
              /\ Doing("i2pLaunch")' <=> step = "i2pProbe" /\ outcome \in {"ok", "logged"}
              /\ Doing("syncScan")' <=> step = "syncStart" /\ outcome \in {"ok", "logged"}
              /\ Doing("ctrServe")' <=> step = "ctrStart" /\ outcome \in {"ok", "logged"}
              /\ Doing("ctrUnmount")' <=> step = "ctrStop" /\ outcome \in {"ok", "logged"}
<1> USE DEF Doing
<1>1. CASE ServiceStep
  <2>1. cliTodo = << >> /\ UNCHANGED cliTodo /\ current # 0
    BY <1>1 DEF ServiceStep, OneAtATime, JobsInv
  <2> DEFINE job == jobs[current]
  <2>2. PICK outcome \in Outcomes :
           LET todo == Rest(job.kind, job.todo, outcome)
           IN  /\ job.todo[1] \in ServiceSteps
               /\ ServiceDoes(job.todo[1], "main", outcome)
               /\ Advance(job.todo[1], todo, outcome)
               /\ todo \in Seq(Steps) /\ jobs'[current].todo = todo
               /\ current' = 0 => Next1(todo) \notin Tight
    BY <1>1, ServiceStepJobs
  <2> DEFINE todo == Rest(job.kind, job.todo, outcome)
             step == job.todo[1]
  <2>3. /\ Next1(todo) = "i2pLaunch" <=> step = "i2pProbe" /\ outcome \in {"ok", "logged"}
        /\ Next1(todo) = "syncScan" <=> step = "syncStart" /\ outcome \in {"ok", "logged"}
        /\ Next1(todo) = "ctrServe" <=> step = "ctrStart" /\ outcome \in {"ok", "logged"}
        /\ Next1(todo) = "ctrUnmount" <=> step = "ctrStop" /\ outcome \in {"ok", "logged"}
    BY <2>1, CurrentJob, RestPaired
  <2>4. ASSUME NEW s \in Tight
        PROVE  Doing(s)' <=> Next1(todo) = s
    <3>1. Next1(cliTodo)' # s /\ s # "nothing"
      BY <2>1 DEF Next1, Tight
    <3>2. current' = 0 \/ (current' = current /\ todo # << >>)
      BY <2>1, <2>2, CurrentJob, Advances
    <3>3. Doing(s)' <=> current' # 0 /\ jobs'[current'].todo[1] = s
      BY <3>1
    <3>4. CASE current' = 0
      BY <2>2, <3>3, <3>4
    <3>5. CASE current' # 0
      <4>1. jobs'[current'].todo[1] = todo[1] /\ todo # << >>
        BY <2>2, <3>2, <3>5
      <4>. QED  BY <3>3, <3>5, <4>1 DEF Next1
    <3>. QED  BY <3>4, <3>5
  <2>5. \A s \in Steps : Doing(s) <=> s = step
    BY <2>1 DEF Next1, Steps
  <2>6. /\ Doing("i2pLaunch")' <=> Next1(todo) = "i2pLaunch"
        /\ Doing("syncScan")' <=> Next1(todo) = "syncScan"
        /\ Doing("ctrServe")' <=> Next1(todo) = "ctrServe"
        /\ Doing("ctrUnmount")' <=> Next1(todo) = "ctrUnmount"
    <3>1. {"i2pLaunch", "syncScan", "ctrServe", "ctrUnmount"} \subseteq Tight
      BY DEF Tight
    <3>. QED  BY <2>4, <3>1
  <2>7. step \in Steps /\ Doing(step)
    BY <2>1, <2>2 DEF ServiceSteps
  <2> HIDE DEF step, todo, Doing
  <2>. QED  BY <2>2, <2>3, <2>5, <2>6, <2>7 DEF step
<1>2. CASE CliStep
  <2>1. /\ cliTodo # << >> /\ mode = "cli" /\ UNCHANGED loopVars
        /\ cliTodo \in Seq(Steps) /\ Paired(cliTodo) /\ Head(cliTodo) = cliTodo[1]
    BY <1>2, CurrentJob DEF CliStep, JobsInv
  <2>2. \A j \in DOMAIN jobs : Ended(j)
    BY <1>2, <2>1 DEF CliStep, OneAtATime
  <2>3. current = 0 /\ current' = 0
    BY <2>1, <2>2, CurrentJob DEF JobsInv, loopVars
  <2> DEFINE step == cliTodo[1]
  <2>4. PICK outcome \in Outcomes :
           /\ ServiceDoes(step, "temp", outcome)
           /\ cliTodo' = Rest("client", cliTodo, outcome)
    BY <1>2, <2>1 DEF CliStep
  <2> DEFINE todo == Rest("client", cliTodo, outcome)
  <2>5. /\ Next1(todo) = "i2pLaunch" <=> step = "i2pProbe" /\ outcome \in {"ok", "logged"}
        /\ Next1(todo) = "syncScan" <=> step = "syncStart" /\ outcome \in {"ok", "logged"}
        /\ Next1(todo) = "ctrServe" <=> step = "ctrStart" /\ outcome \in {"ok", "logged"}
        /\ Next1(todo) = "ctrUnmount" <=> step = "ctrStop" /\ outcome \in {"ok", "logged"}
    BY <2>1, RestPaired
  <2>6. \A s : Doing(s)' <=> Next1(todo) = s
    BY <2>3, <2>4
  <2>7. step \in ServiceSteps /\ \A s \in Steps : Doing(s) <=> s = step
    BY <2>1, <2>3, <2>4, DoesService DEF Next1
  <2>8. step \in Steps /\ Doing(step)
    BY <2>7 DEF ServiceSteps
  <2> HIDE DEF step, todo, Doing
  <2>. QED  BY <2>1, <2>4, <2>5, <2>6, <2>7, <2>8
<1>. QED  BY <1>1, <1>2 DEF ServiceActs

\* What the services show the others.
ServicesSeen == <<i2pRunning, startedTwice, process, containerState, shellRunning,
                  shellSocket, shellPath, rnsRunning, syncRunning, apiPath>>

\* Scan tasks end, and those that are live go on, but for the ones of the prompt.
ScansGoOn ==
    /\ Len(scans') = Len(scans) /\ DOMAIN scans' = DOMAIN scans
    /\ \A k \in DOMAIN scans :
          /\ scans'[k].on = scans[k].on
          /\ scans'[k].at = "live" => scans[k].at = "live"
          /\ scans[k].on = "main" /\ scans[k].at = "live" => scans'[k].at = "live"

LEMMA OthersLeaveScans ==
    ASSUME TypeInv, JobsInv, [Next]_vars, ~ServiceActs
    PROVE  ScansGoOn /\ UNCHANGED ServicesSeen /\ daemons' \subseteq daemons
<1>0. scans \in Seq(Scan) /\ DOMAIN scans = 1 .. Len(scans) /\ \A k \in DOMAIN scans : scans[k] \in Scan
  <2>1. scans \in Seq(Scan)
    BY CurrentJob
  <2>. QED  BY <2>1, LenProperties, ElementOfSeq
<1>1. UNCHANGED <<scans, ServicesSeen, daemons>> =>
          ScansGoOn /\ UNCHANGED ServicesSeen /\ daemons' \subseteq daemons
  BY DEF ScansGoOn
<1>2. ASSUME NEW k \in DOMAIN scans, ScanEnds(k)
      PROVE  ScansGoOn /\ UNCHANGED ServicesSeen /\ daemons' \subseteq daemons
  <2>1. scans' = [scans EXCEPT ![k] = [scans[k] EXCEPT !.at = "ended"]] /\ scans[k].at = "cancelled"
    BY <1>2 DEF ScanEnds
  <2>2. [scans[k] EXCEPT !.at = "ended"] \in Scan /\ [scans[k] EXCEPT !.at = "ended"].on = scans[k].on
        /\ [scans[k] EXCEPT !.at = "ended"].at = "ended"
    <3>1. scans[k] \in Scan
      BY <1>0
    <3>. QED  BY <3>1 DEF Scan
  <2>3. Len(scans') = Len(scans) /\ DOMAIN scans' = DOMAIN scans
    BY <1>0, <2>1, <2>2, ExceptSeq, LenProperties
  <2>4. ScansGoOn
    BY <2>1, <2>2, <2>3 DEF ScansGoOn
  <2>. QED  BY <1>2, <2>4 DEF ScanEnds, ServicesSeen, i2pVars, shellVars, apiVars
<1>3. CASE CliDone
  <2>1. scans' = EndTempTasks(scans)
    BY <1>3 DEF CliDone
  <2>2. /\ Len(scans') = Len(scans) /\ DOMAIN scans' = DOMAIN scans
        /\ \A k \in DOMAIN scans :
              /\ scans[k].on = "main" => scans'[k] = scans[k]
              /\ scans[k].on = "temp" => scans'[k].on = "temp" /\ scans'[k].at = "ended"
    BY <1>0, <2>1, EndedTasks
  <2>3. \A k \in DOMAIN scans : scans[k].on \in {"main", "temp"}
    BY <1>0 DEF Scan
  <2>4. ScansGoOn
    BY <2>2, <2>3 DEF ScansGoOn
  <2>. QED  BY <1>3, <2>4 DEF CliDone, ServicesSeen, i2pVars, shellVars, apiVars
<1>4. CASE Threads
  <2>1. I2PStep => UNCHANGED <<i2pRunning, startedTwice, process>> /\ daemons' \subseteq daemons
    BY DEF I2PStep, DaemonDies, MonitorStep, MonitorSees, MonitorReports, MonitorEnds
  <2>2. ShellStep => UNCHANGED <<containerState, shellRunning, shellSocket, shellPath>>
    BY DEF ShellStep, AcceptorStep, AcceptorTests, AcceptorReturns, AcceptorBreaks, Turn
  <2>. QED  BY <1>4, <2>1, <2>2
            DEF Threads, ScansGoOn, ServicesSeen, i2pVars, shellVars, peerSyncVars, apiVars
<1>5. Bystander => UNCHANGED <<scans, ServicesSeen, daemons>>
  BY DEF Bystander, serviceVars, ServicesSeen, i2pVars, shellVars, peerSyncVars, apiVars
<1>6. CASE LoopStep
  <2>1. Bystander \/ \E k \in DOMAIN scans : ScanEnds(k)
    BY <1>6 DEF LoopStep, ServiceActs, Bystander, Resume, StopGuard, LoopStop, Block, LoopEnds
  <2>. QED  BY <1>1, <1>2, <1>5, <2>1
<1>7. CASE MainStep
  <2>1. Bystander \/ CliDone
    BY <1>7 DEF MainStep, ServiceActs, Bystander, Started, Joined, Drained
  <2>. QED  BY <1>1, <1>3, <1>5, <2>1
<1>8. CASE JobComes \/ (\E s \in Services : CliStart(s)) \/ CliQuit \/ UNCHANGED vars
  <2>1. Bystander
    BY <1>8 DEF JobComes, CliStart, CliQuit, vars, Bystander
  <2>. QED  BY <1>1, <1>5, <2>1
<1>9. CASE JobReads
  <2>1. Bystander
    BY <1>9 DEF JobReads, ReadReturns, Bystander
  <2>. QED  BY <1>1, <1>5, <2>1
<1>. QED  BY <1>4, <1>6, <1>7, <1>8, <1>9, Arrivals, Reads DEF Next, Verbs

LEMMA OthersAct ==
    ASSUME TypeInv, JobsInv, [Next]_vars, ~ServiceActs, NEW s \in Tight
    PROVE  /\ Doing(s)' => Doing(s)
           /\ mode # "cli" /\ Doing(s) => Doing(s)'
<1>0. s # "nothing" /\ s \notin {"stopGuard", "loopStop", "block"}
  BY DEF Tight
<1>1. ASSUME NEW j \in DOMAIN jobs, Resume(j)
      PROVE  (Doing(s)' => Doing(s)) /\ (mode # "cli" /\ Doing(s) => Doing(s)')
  <2>1. /\ current' = j /\ current = 0 /\ jobs'[j].todo = jobs[j].todo
        /\ UNCHANGED cliTodo /\ jobs[j].todo # << >>
    BY <1>1, ResumeJobs DEF Resume, CanRun, Ended
  <2>2. jobs[j].todo[1] # s /\ j # 0
    BY <1>1, <2>1, CurrentJob DEF JobsInv, Next1
  <2>. QED  BY <2>1, <2>2 DEF Doing
<1>2. CASE StopGuard \/ LoopStop \/ Block
  <2>1. /\ current # 0 /\ current' \in {0, current} /\ Next1(jobs'[current].todo) # s
        /\ current' # 0 => jobs'[current].todo # << >>
    BY <1>2, OtherStepJobs DEF Ended
  <2>2. UNCHANGED cliTodo /\ jobs[current].todo[1] # s
    BY <1>0, <1>2, CurrentJob DEF StopGuard, LoopStop, Block
  <2>. QED  BY <2>1, <2>2 DEF Doing, Next1
<1>3. CASE UNCHANGED <<jobs, current, cliTodo>>
  BY <1>3 DEF Doing
<1>4. CASE JobComes \/ CliQuit
  <2>1. UNCHANGED cliTodo
    BY <1>4 DEF JobComes, CliQuit
  <2>2. /\ current' = current /\ current \in 0 .. Len(jobs)
        /\ Len(jobs) \in Nat /\ \A j \in 1 .. Len(jobs) : jobs'[j] = jobs[j]
    BY <1>4, NewJobsFit
  <2>3. current # 0 => jobs'[current] = jobs[current]
    BY <2>2
  <2>. QED  BY <2>1, <2>2, <2>3 DEF Doing
<1>5. ASSUME NEW v \in Services, CliStart(v)
      PROVE  (Doing(s)' => Doing(s)) /\ (mode # "cli" /\ Doing(s) => Doing(s)')
  <2>1. Next1(ServiceStart(v)) # s
    BY ServiceLists DEF Whole
  <2>2. mode = "cli" /\ UNCHANGED <<jobs, current>> /\ Next1(cliTodo)' # s
    BY <1>5, <2>1 DEF CliStart, Prompt, loopVars, Next1
  <2>. QED  BY <2>2 DEF Doing
<1>7. CASE JobReads
  BY <1>7, ReadJobsFit DEF Doing
<1>6. \/ \E j \in DOMAIN jobs : Resume(j)
      \/ StopGuard \/ LoopStop \/ Block
      \/ UNCHANGED <<jobs, current, cliTodo>>
      \/ JobReads
      \/ JobComes \/ CliQuit \/ \E v \in Services : CliStart(v)
  <2>1. CASE LoopStep
    BY <2>1 DEF LoopStep, ServiceActs, LoopEnds, ScanEnds, loopVars
  <2>2. CASE MainStep
    BY <2>2 DEF MainStep, ServiceActs, Started, CliDone, Joined, Drained, loopVars
  <2>3. CASE Threads \/ UNCHANGED vars
    BY <2>3 DEF Threads, vars, loopVars
  <2>. QED  BY <2>1, <2>2, <2>3, Arrivals, Reads DEF Next, Verbs
<1>. QED  BY <1>1, <1>2, <1>3, <1>4, <1>5, <1>6, <1>7

-----------------------------------------------------------------------------
(* The container and its shell server.                                     *)

LEMMA NextShell ==
    ASSUME TypeInv, JobsInv, ShellInv, [Next]_vars
    PROVE  ShellInv'
<1> SUFFICES ASSUME OneAtATime'
             PROVE  /\ (containerState' = "running") <=> shellRunning'
                    /\ shellPath' = IF shellRunning' THEN shellSocket' ELSE 0
                    /\ shellRunning' => shellSocket' # 0
                    /\ Doing("ctrServe")' \/ Doing("ctrUnmount")' => containerState' # "running"
  BY DEF ShellInv
<1>1. OneAtATime /\ mode' = mode
  BY OneStays
<1>2. /\ (containerState = "running") <=> shellRunning
      /\ shellPath = IF shellRunning THEN shellSocket ELSE 0
      /\ shellRunning => shellSocket # 0
      /\ Doing("ctrServe") \/ Doing("ctrUnmount") => containerState # "running"
  BY <1>1 DEF ShellInv
<1>3. shellRunning \in BOOLEAN /\ shells + 1 # 0
  <2>1. shellRunning \in BOOLEAN /\ shells \in Nat
    BY DEF TypeInv, TypeOK, ShellType
  <2>. QED  BY <2>1
<1>4. CASE ~ServiceActs
  <2>1. UNCHANGED <<containerState, shellRunning, shellSocket, shellPath>>
    BY <1>4, OthersLeaveScans DEF ServicesSeen
  <2>2. \A s \in {"ctrServe", "ctrUnmount"} : Doing(s)' => Doing(s)
    BY <1>4, OthersAct DEF Tight
  <2>. QED  BY <1>2, <2>1, <2>2
<1>5. CASE ServiceActs
  <2>1. PICK step \in ServiceSteps, on \in {"main", "temp"}, outcome \in Outcomes :
           /\ ServiceDoes(step, on, outcome)
           /\ Doing(step)
           /\ Doing("ctrServe")' <=> step = "ctrStart" /\ outcome \in {"ok", "logged"}
           /\ Doing("ctrUnmount")' <=> step = "ctrStop" /\ outcome \in {"ok", "logged"}
    BY <1>1, <1>5, OneActs
  <2>2. CASE step \notin {"ctrStart", "ctrServe", "ctrStop", "ctrUnmount"}
    <3>1. UNCHANGED shellVars
      BY <2>1, <2>2 DEF ServiceDoes, I2PDoes, ContainerDoes, PeersDo, SyncDoes, ApiDoes
    <3>. QED  BY <1>2, <2>1, <2>2, <3>1 DEF shellVars
  <2>3. CASE step \in {"ctrStart", "ctrServe", "ctrStop", "ctrUnmount"}
    <3>1. ContainerDoes(step, outcome)
      BY <2>1, <2>3 DEF ServiceDoes, I2PDoes, PeersDo, SyncDoes, ApiDoes
    <3>2. CASE step = "ctrStart"
      <4>1. \/ containerState = "running" /\ outcome = "skip" /\ UNCHANGED shellVars
            \/ containerState # "running" /\ Starting /\ outcome = "ok"
        BY <3>1, <3>2 DEF ContainerDoes
      <4>. QED  BY <1>2, <2>1, <3>2, <4>1 DEF shellVars, Starting, SetState
    <3>3. CASE step = "ctrServe"
      <4>1. Serving \/ ServingFails
        BY <3>1, <3>3 DEF ContainerDoes
      <4>. QED  BY <1>2, <1>3, <2>1, <3>3, <4>1 DEF Serving, ServingFails, SetState
    <3>4. CASE step = "ctrStop"
      <4>1. \/ containerState = "stopped" /\ outcome = "skip" /\ UNCHANGED shellVars
            \/ containerState # "stopped" /\ Closing /\ outcome = "ok"
        BY <3>1, <3>4 DEF ContainerDoes
      <4>. QED  BY <1>2, <2>1, <3>4, <4>1 DEF shellVars, Closing, SetState
    <3>5. CASE step = "ctrUnmount"
      <4>1. Closed /\ outcome = "ok"
        BY <3>1, <3>5 DEF ContainerDoes
      <4>. QED  BY <1>2, <2>1, <3>5, <4>1 DEF Closed, SetState
    <3>. QED  BY <2>3, <3>2, <3>3, <3>4, <3>5
  <2>. QED  BY <2>2, <2>3
<1>. QED  BY <1>4, <1>5

-----------------------------------------------------------------------------
(* The i2pd.                                                               *)

LEMMA NextI2P ==
    ASSUME TypeInv, JobsInv, I2PInv, [Next]_vars
    PROVE  I2PInv'
<1> DEFINE Fine == /\ daemons \subseteq {process}
                   /\ ~i2pRunning => daemons = {}
                   /\ Doing("i2pLaunch") => i2pRunning /\ daemons = {}
<1> SUFFICES ASSUME OneAtATime', ~startedTwice'
             PROVE  Fine'
  BY DEF I2PInv
<1>1. OneAtATime /\ mode' = mode
  BY OneStays
<1>2. CASE ~ServiceActs
  <2>1. UNCHANGED <<i2pRunning, startedTwice, process>> /\ daemons' \subseteq daemons
    BY <1>2, OthersLeaveScans DEF ServicesSeen
  <2>2. Doing("i2pLaunch")' => Doing("i2pLaunch")
    BY <1>2, OthersAct DEF Tight
  <2>3. Fine
    BY <1>1, <2>1 DEF I2PInv
  <2>. QED  BY <2>1, <2>2, <2>3
<1>3. CASE ServiceActs
  <2>1. PICK step \in ServiceSteps, on \in {"main", "temp"}, outcome \in Outcomes :
           /\ ServiceDoes(step, on, outcome)
           /\ Doing(step)
           /\ Doing("i2pLaunch")' <=> step = "i2pProbe" /\ outcome \in {"ok", "logged"}
    BY <1>1, <1>3, OneActs
  <2>2. startedTwice \in BOOLEAN /\ i2pRunning \in BOOLEAN
    BY DEF TypeInv, TypeOK, I2PType
  <2>3. startedTwice => startedTwice'
    <3>1. CASE I2PDoes(step, outcome)
      BY <2>2, <3>1 DEF I2PDoes, Probe, Launch, Terminate, MarkGone, i2pVars
    <3>2. CASE ~I2PDoes(step, outcome)
      BY <2>1, <3>2 DEF ServiceDoes, ContainerDoes, PeersDo, SyncDoes, ApiDoes, i2pVars
    <3>. QED  BY <3>1, <3>2
  <2>4. Fine
    BY <1>1, <2>2, <2>3 DEF I2PInv
  <2> HIDE DEF Fine
  <2>5. CASE UNCHANGED i2pVars /\ step # "i2pProbe"
    BY <2>1, <2>4, <2>5 DEF Fine, i2pVars
  <2>6. CASE step = "i2pProbe"
    <3>1. PICK r \in BOOLEAN : Probe(r)
      BY <2>1, <2>6 DEF ServiceDoes, I2PDoes, ContainerDoes, PeersDo, SyncDoes, ApiDoes
    <3>2. ~i2pRunning /\ i2pRunning' /\ UNCHANGED <<daemons, process>>
      BY <2>2, <3>1 DEF Probe
    <3>. QED  BY <2>4, <3>2 DEF Fine
  <2>7. CASE step \in {"i2pLaunch", "i2pHalt", "i2pClear"} /\ ~UNCHANGED i2pVars
    <3>1. \/ step = "i2pLaunch" /\ Launch
          \/ step = "i2pHalt" /\ Terminate
          \/ step = "i2pClear" /\ MarkGone
      BY <2>1, <2>7 DEF ServiceDoes, I2PDoes, ContainerDoes, PeersDo, SyncDoes, ApiDoes
    <3>2. ~Doing("i2pLaunch")'
      BY <2>1, <2>7
    <3>3. CASE step = "i2pLaunch" /\ Launch
      <4>1. daemons = {} /\ i2pRunning
        BY <2>1, <2>4, <3>3 DEF Fine
      <4>. QED  BY <3>2, <3>3, <4>1 DEF Fine, Launch
    <3>4. CASE step = "i2pHalt" /\ Terminate
      BY <2>4, <3>2, <3>4 DEF Fine, Terminate
    <3>5. CASE step = "i2pClear" /\ MarkGone
      BY <2>4, <3>2, <3>5 DEF Fine, MarkGone
    <3>. QED  BY <3>1, <3>3, <3>4, <3>5
  <2>8. \/ UNCHANGED i2pVars /\ step # "i2pProbe"
        \/ step = "i2pProbe"
        \/ step \in {"i2pLaunch", "i2pHalt", "i2pClear"} /\ ~UNCHANGED i2pVars
    BY <2>1 DEF ServiceDoes, I2PDoes, ContainerDoes, PeersDo, SyncDoes, ApiDoes
  <2>. QED  BY <2>5, <2>6, <2>7, <2>8
<1>. QED  BY <1>2, <1>3

-----------------------------------------------------------------------------
(* The scan tasks.                                                         *)

\* One scan task at most is live, and an engine that runs has it or is about to
\* make it.
NoneLive == \A k \in DOMAIN scans : scans[k].at # "live"
OnlyLastLive == \A k \in DOMAIN scans : scans[k].at = "live" => k = Len(scans) /\ syncRunning
LastIsLive == scans # << >> /\ LastScan.at = "live"

LEMMA NextScans ==
    ASSUME TypeInv, JobsInv, ScansInv, [Next]_vars
    PROVE  ScansInv'
<1> DEFINE Ours == mode # "cli" => \A k \in DOMAIN scans : scans[k].on = "main"
           Second == Doing("syncScan") => syncRunning /\ NoneLive
           Has1 == mode # "cli" /\ syncRunning => Doing("syncScan") \/ LastIsLive
<1> SUFFICES ASSUME OneAtATime'
             PROVE  Ours' /\ OnlyLastLive' /\ Second' /\ Has1'
  BY DEF ScansInv, OnlyLastLive, NoneLive, LastIsLive
<1>1. OneAtATime /\ mode' = mode
  BY OneStays
<1>2. Ours /\ OnlyLastLive /\ Second /\ Has1
  BY <1>1 DEF ScansInv, OnlyLastLive, NoneLive, LastIsLive
<1>3. /\ scans \in Seq(Scan) /\ DOMAIN scans = 1 .. Len(scans) /\ Len(scans) \in Nat
      /\ syncRunning \in BOOLEAN
      /\ Len(scans) = 0 <=> scans = << >>
  BY LenProperties, EmptySeq DEF TypeInv, TypeOK
<1>4. CASE ~ServiceActs
  <2>1. ScansGoOn /\ syncRunning' = syncRunning
    BY <1>4, OthersLeaveScans DEF ServicesSeen
  <2>2. (Doing("syncScan")' => Doing("syncScan")) /\ (mode # "cli" /\ Doing("syncScan") => Doing("syncScan")')
    BY <1>4, OthersAct DEF Tight
  <2>3. NoneLive => NoneLive'
    BY <2>1 DEF NoneLive, ScansGoOn
  <2>4. Ours' /\ OnlyLastLive'
    BY <1>1, <1>2, <2>1 DEF ScansGoOn, OnlyLastLive
  <2>5. mode # "cli" /\ LastIsLive => LastIsLive'
    <3> SUFFICES ASSUME mode # "cli", LastIsLive PROVE LastIsLive'
      OBVIOUS
    <3>1. Len(scans) \in DOMAIN scans
      BY <1>3 DEF LastIsLive
    <3>2. scans'[Len(scans)].at = "live" /\ Len(scans') = Len(scans)
      BY <1>2, <2>1, <3>1 DEF LastIsLive, LastScan, ScansGoOn
    <3>3. scans' # << >>
      BY <2>1, <3>1 DEF ScansGoOn
    <3>. QED  BY <3>2, <3>3 DEF LastIsLive, LastScan
  <2>. QED  BY <1>1, <1>2, <2>1, <2>2, <2>3, <2>4, <2>5
<1>5. CASE ServiceActs
  <2>1. PICK step \in ServiceSteps, on \in {"main", "temp"}, outcome \in Outcomes :
           /\ ServiceDoes(step, on, outcome)
           /\ on = "temp" => mode = "cli"
           /\ Doing(step)
           /\ \A s \in Steps : Doing(s) => s = step
           /\ Doing("syncScan")' <=> step = "syncStart" /\ outcome \in {"ok", "logged"}
    BY <1>1, <1>5, OneActs
  <2>2. Doing("syncScan") => step = "syncScan"
    BY <2>1 DEF Steps
  <2>3. CASE step \notin {"syncStart", "syncScan", "syncStop"}
    <3>1. UNCHANGED <<scans, syncRunning>>
      BY <2>1, <2>3 DEF ServiceDoes, I2PDoes, ContainerDoes, PeersDo, SyncDoes, ApiDoes, peerSyncVars
    <3>. QED  BY <1>1, <1>2, <2>1, <2>2, <2>3, <3>1 DEF OnlyLastLive, LastIsLive, LastScan
  <2>4. CASE step \in {"syncStart", "syncScan", "syncStop"}
    <3>1. SyncDoes(step, on, outcome)
      BY <2>1, <2>4 DEF ServiceDoes, I2PDoes, ContainerDoes, PeersDo, ApiDoes
    <3>2. CASE step = "syncStart"
      <4>1. /\ syncRunning' = TRUE /\ scans' = scans
            /\ outcome = IF syncRunning THEN "skip" ELSE "ok"
        BY <3>1, <3>2 DEF SyncDoes
      <4>2. ~syncRunning => NoneLive
        BY <1>2 DEF OnlyLastLive, NoneLive
      <4>3. LastIsLive => LastIsLive'
        BY <4>1 DEF LastIsLive, LastScan
      <4>. QED  BY <1>1, <1>2, <1>3, <2>1, <2>2, <3>2, <4>1, <4>2, <4>3 DEF OnlyLastLive, NoneLive
    <3>3. CASE step = "syncScan"
      <4>1. scans' = Append(scans, [on |-> on, at |-> "live"]) /\ syncRunning' = syncRunning
        BY <3>1, <3>3 DEF SyncDoes
      <4>2. syncRunning /\ NoneLive
        BY <1>2, <2>1, <3>3
      <4>3. /\ Len(scans') = Len(scans) + 1 /\ DOMAIN scans' = 1 .. Len(scans) + 1
            /\ \A k \in 1 .. Len(scans) : scans'[k] = scans[k]
            /\ scans'[Len(scans) + 1] = [on |-> on, at |-> "live"]
        <5>1. [on |-> on, at |-> "live"] \in Scan
          BY DEF Scan
        <5>. QED  BY <1>3, <4>1, <5>1, AppendProperties, LenProperties
      <4>4. \A k \in DOMAIN scans' : k # Len(scans') => k \in DOMAIN scans /\ scans'[k] = scans[k]
        BY <1>3, <4>3
      <4>5. scans'[Len(scans')].at = "live" /\ scans'[Len(scans')].on = on /\ scans' # << >>
        BY <1>3, <4>3
      <4>6. OnlyLastLive'
        BY <4>1, <4>2, <4>4 DEF OnlyLastLive, NoneLive
      <4>7. Ours'
        BY <1>1, <1>2, <2>1, <4>4, <4>5
      <4>8. LastIsLive'
        BY <4>5 DEF LastIsLive, LastScan
      <4>. QED  BY <2>1, <3>3, <4>6, <4>7, <4>8
    <3>4. CASE step = "syncStop"
      <4>1. scans' = Cancelled /\ syncRunning' = FALSE
        BY <3>1, <3>4 DEF SyncDoes
      <4>2. /\ Len(scans') = Len(scans) /\ DOMAIN scans' = DOMAIN scans
            /\ \A k \in DOMAIN scans :
                  /\ scans'[k].on = scans[k].on
                  /\ k # Len(scans) => scans'[k] = scans[k]
                  /\ k = Len(scans) => scans'[k].at # "live"
        BY <1>3, <4>1, CancelledIs
      <4>3. \A k \in DOMAIN scans' : scans'[k].at # "live"
        BY <1>2, <4>2 DEF OnlyLastLive
      <4>4. Ours'
        BY <1>1, <1>2, <4>2
      <4>. QED  BY <2>1, <3>4, <4>1, <4>3, <4>4 DEF OnlyLastLive
    <3>. QED  BY <2>4, <3>2, <3>3, <3>4
  <2>. QED  BY <2>3, <2>4
<1>. QED  BY <1>4, <1>5

LEMMA InvariantsStart ==
    ASSUME Init
    PROVE  ShellInv /\ ScansInv /\ DownInv /\ I2PInv
<1>1. /\ containerState = "stopped" /\ shellRunning = FALSE /\ shellPath = 0
      /\ syncRunning = FALSE /\ running = TRUE /\ scans = << >>
  BY DEF Init, ShellInit
<1>2. \A s \in Tight : ~Doing(s)
  BY DEF Init, Doing, Next1, Tight
<1>3. DOMAIN scans = {}
  BY <1>1
<1>4. daemons = {}
  BY DEF Init, I2PInit
<1>. QED  BY <1>1, <1>2, <1>3, <1>4 DEF ShellInv, ScansInv, DownInv, I2PInv, Tight

LEMMA ShellScansKept == Spec => [](TypeInv /\ JobsInv /\ ShellInv /\ ScansInv)
<1>1. Init => TypeInv /\ JobsInv /\ ShellInv /\ ScansInv
  BY StartsRight, InvariantsStart
<1>2. TypeInv /\ JobsInv /\ ShellInv /\ ScansInv /\ [Next]_vars
      => (TypeInv /\ JobsInv /\ ShellInv /\ ScansInv)'
  BY NextTypes, NextJobs, NextShell, NextScans
<1>. QED  BY <1>1, <1>2, PTL DEF Spec

\* The container runs exactly when its shell server does, and its socket's path
\* leads to that server or is gone: for any number of requests that start, stop
\* and restart it, of failures of the server, and of stops of the application.
THEOREM ShellServerFollows == Spec => []ShellMatchesState
<1>1. ShellInv => ShellMatchesState
  BY DEF ShellInv, ShellMatchesState
<1>. QED  BY <1>1, ShellScansKept, PTL

\* No sequence of starts, stops and restarts of the sync engine, by the
\* application or by requests, leaves two scan loops, or an engine that says it
\* runs without one.
THEOREM NeverTwoScanLoops == Spec => []OneScanLoop
<1>1. TypeInv /\ JobsInv /\ ScansInv => OneScanLoop
  <2> SUFFICES ASSUME TypeInv, JobsInv, ScansInv, OneAtATime
               PROVE  /\ Cardinality({k \in DOMAIN scans :
                                         scans[k] = [on |-> "main", at |-> "live"]}) <= 1
                      /\ mode # "cli" /\ current = 0 /\ syncRunning =>
                             scans # << >> /\ LastScan.at = "live"
    BY DEF OneScanLoop
  <2> DEFINE L == {k \in DOMAIN scans : scans[k] = [on |-> "main", at |-> "live"]}
  <2>1. L \subseteq {Len(scans)}
    BY DEF ScansInv
  <2>2. L = {} \/ L = {Len(scans)}
    BY <2>1
  <2>3. Cardinality(L) <= 1
    <3>1. Cardinality({}) = 0 /\ Cardinality({Len(scans)}) = 1
      BY FS_EmptySet, FS_Singleton
    <3> HIDE DEF L
    <3>2. Cardinality(L) = 0 \/ Cardinality(L) = 1
      BY <2>2, <3>1, Zenon
    <3>. QED  BY <3>2
  <2>4. mode # "cli" /\ current = 0 => ~Doing("syncScan")
    BY DEF JobsInv, Doing, Next1
  <2>. QED  BY <2>3, <2>4 DEF ScansInv
<1>. QED  BY <1>1, ShellScansKept, PTL
-----------------------------------------------------------------------------
(* What stop() still has to do.                                            *)

\* What stop() waits for, and the second half of the container's stop.
DownSteps == Downs \cup {"ctrUnmount"}

LEMMA OthersLeaveDue ==
    ASSUME TypeInv, JobsInv, [Next]_vars, ~ServiceStep, NEW s \in DownSteps, Due(s)
    PROVE  Due(s)'
<1> PICK j \in DOMAIN jobs : Stopping(jobs[j]) /\ Has(jobs[j].todo, s)
  BY DEF Due
<1>0. s \notin {"stopGuard", "loopStop", "block"}
  BY DEF DownSteps, Downs
<1>1. ASSUME NEW i \in DOMAIN jobs, Resume(i)
      PROVE  Due(s)'
  <2>1. j \in DOMAIN jobs' /\ jobs'[j].todo = jobs[j].todo /\ jobs'[j].kind = jobs[j].kind
    BY <1>1, ResumeJobs
  <2>. QED  BY <2>1 DEF Due, Stopping
<1>2. CASE StopGuard \/ LoopStop \/ Block
  <2> DEFINE job == jobs[current]
  <2>1. /\ current # 0 /\ current \in 1 .. Len(jobs) /\ DOMAIN jobs = 1 .. Len(jobs)
        /\ job.todo \in Seq(Steps) /\ job.todo # << >>
        /\ Head(job.todo) = job.todo[1] /\ JobFits(job)
    BY <1>2, CurrentJob DEF StopGuard, LoopStop, Block
  <2>2. PICK step \in {"stopGuard", "loopStop", "block"}, todo \in Seq(Steps) :
           /\ Advance(step, todo, "ok")
           /\ job.todo[1] = step
           /\ step = "loopStop" => todo = Tail(job.todo)
    <3>1. CASE StopGuard
      <4>1. PICK todo \in {Tail(job.todo), WithoutStop(job.todo)} : Advance("stopGuard", todo, "ok")
        BY <3>1 DEF StopGuard
      <4>2. <<"loopStop">> \in Seq(Steps) /\ << >> \in Seq(Steps) /\ Tail(job.todo) \in Seq(Steps)
        BY <2>1, TailIs, EmptySeq DEF Steps
      <4>3. todo \in Seq(Steps)
        BY <4>2 DEF WithoutStop
      <4>. QED  BY <2>1, <3>1, <4>1, <4>3 DEF StopGuard
    <3>2. CASE LoopStop
      <4>1. Tail(job.todo) \in Seq(Steps)
        BY <2>1, TailIs
      <4>. QED  BY <2>1, <3>2, <4>1 DEF LoopStop
    <3>3. CASE Block
      <4>1. << >> \in Seq(Steps)
        BY EmptySeq
      <4>. QED  BY <2>1, <3>3, <4>1 DEF Block
    <3>. QED  BY <1>2, <3>1, <3>2, <3>3
  <2>3. /\ DOMAIN jobs' = DOMAIN jobs
        /\ \A i \in 1 .. Len(jobs) : i # current => jobs'[i] = jobs[i]
        /\ jobs'[current].kind = job.kind /\ jobs'[current].todo = todo
    BY <2>1, <2>2, CurrentJob, Advances
  <2>4. CASE j # current
    BY <2>1, <2>3, <2>4 DEF Due
  <2>5. CASE j = current
    <3>1. Stopping(job) /\ Has(job.todo, s)
      BY <2>5
    <3>2. step = "loopStop"
      <4>1. step \in StopSteps
        <5>1. 1 \in DOMAIN job.todo
          BY <2>1, LenProperties, EmptySeq
        <5>. QED  BY <2>1, <2>2, <3>1, <5>1 DEF JobFits, Stopping
      <4>. QED  BY <2>2, <3>1, <4>1 DEF Stopping, StopSteps
    <3>3. todo = Rest(job.kind, job.todo, "ok")
      BY <2>2, <3>2 DEF Rest
    <3>4. Has(todo, s)
      <4>1. job.kind # "client" /\ s # job.todo[1]
        BY <1>0, <2>2, <3>1 DEF Stopping, StopKinds
      <4>. QED  BY <2>1, <3>1, <3>3, <4>1, RestHas
    <3>5. JobFits(jobs'[current])
      <4>1. job.todo[1] # "stopGuard"
        BY <3>1 DEF Stopping
      <4> HIDE DEF job
      <4>. QED  BY <2>1, <2>3, <3>3, <4>1, JobGoesOn
    <3>6. jobs'[current].kind \in StopKinds /\ jobs'[current].todo = todo
      BY <2>3, <3>1 DEF Stopping
    <3>7. ~Has(todo, "stopGuard")
      <4>1. ~Has(job.todo, "stopGuard")
        BY <2>1, <3>1, StopLists DEF JobFits, Stopping
      <4>. QED  BY <2>1, <3>3, <4>1, RestHas
    <3>8. Stopping(jobs'[current])
      <4>1. todo # << >> /\ 1 \in DOMAIN todo
        BY <2>2, <3>4, LenProperties, EmptySeq DEF Has
      <4>. QED  BY <3>6, <3>7, <4>1 DEF Stopping, Has
    <3>. QED  BY <2>1, <2>3, <3>4, <3>6, <3>8 DEF Due
  <2>. QED  BY <2>4, <2>5
<1>3. CASE UNCHANGED jobs
  BY <1>3 DEF Due
<1>4. CASE JobComes \/ CliQuit
  <2>1. j \in DOMAIN jobs' /\ jobs'[j] = jobs[j]
    BY <1>4, NewJobsFit
  <2>. QED  BY <2>1 DEF Due
<1>6. CASE JobReads
  <2>1. j \in DOMAIN jobs' /\ jobs'[j] = jobs[j]
    BY <1>6, ReadJobsFit
  <2>. QED  BY <2>1 DEF Due
<1>5. \/ \E i \in DOMAIN jobs : Resume(i)
      \/ StopGuard \/ LoopStop \/ Block
      \/ UNCHANGED jobs
      \/ JobReads
      \/ JobComes \/ CliQuit
  <2>1. CASE LoopStep
    BY <2>1 DEF LoopStep, LoopEnds, ScanEnds, loopVars
  <2>2. CASE MainStep
    BY <2>2 DEF MainStep, Started, CliStep, CliDone, Joined, Drained, loopVars
  <2>3. CASE Threads \/ UNCHANGED vars \/ \E v \in Services : CliStart(v)
    BY <2>3 DEF Threads, vars, loopVars, CliStart
  <2>. QED  BY <2>1, <2>2, <2>3, Arrivals, Reads DEF Next, Verbs
<1>. QED  BY <1>1, <1>2, <1>3, <1>4, <1>5, <1>6

\* A step of a service that stop() does is all that is no longer due, and the
\* second half of what had nothing to do.
LEMMA ServiceLeavesDue ==
    ASSUME TypeInv, JobsInv, ServiceStep, jobs[current].kind \in StopKinds
    PROVE  \E step \in StopSteps, outcome \in Outcomes :
              /\ ServiceDoes(step, "main", outcome)
              /\ \A s \in DownSteps : Due(s) =>
                    \/ Due(s)'
                    \/ s = step
                    \/ s = "apiGone" /\ step = "apiClose" /\ outcome \notin {"ok", "logged"}
                    \/ s = "ctrUnmount" /\ step = "ctrStop" /\ outcome \notin {"ok", "logged"}
              /\ step = "ctrStop" /\ outcome = "ok" => Due("ctrUnmount")'
<1> DEFINE job == jobs[current]
           next == jobs'[current]
<1>0. /\ current # 0 /\ current \in 1 .. Len(jobs) /\ DOMAIN jobs = 1 .. Len(jobs)
      /\ job.todo \in Seq(Steps) /\ job.todo # << >> /\ JobFits(job) /\ Paired(job.todo)
  BY CurrentJob DEF ServiceStep
<1>1. PICK outcome \in Outcomes :
         LET todo == Rest(job.kind, job.todo, outcome)
         IN  /\ job.todo[1] \in ServiceSteps
             /\ ServiceDoes(job.todo[1], "main", outcome)
             /\ Advance(job.todo[1], todo, outcome)
             /\ todo \in Seq(Steps) /\ next.todo = todo
             /\ next.kind = job.kind
             /\ JobFits(next)
  BY ServiceStepJobs
<1> DEFINE step == job.todo[1]
           todo == Rest(job.kind, job.todo, outcome)
<1>2. /\ DOMAIN jobs' = DOMAIN jobs
      /\ \A j \in 1 .. Len(jobs) : j # current => jobs'[j] = jobs[j]
  BY <1>0, <1>1, CurrentJob, Advances
<1>3. 1 \in DOMAIN job.todo /\ DOMAIN job.todo = 1 .. Len(job.todo) /\ Len(job.todo) \in Nat
  BY <1>0, LenProperties, EmptySeq
<1>4. step \in StopSteps
  BY <1>0, <1>3 DEF JobFits
<1>5. ~Has(todo, "stopGuard")
  <2>1. ~Has(job.todo, "stopGuard")
    <3>1. step # "stopGuard"
      BY <1>1 DEF ServiceSteps
    <3>. QED  BY <1>0, <3>1, StopLists DEF JobFits
  <2>. QED  BY <1>0, <2>1, RestHas
<1>6. ASSUME NEW s, Has(todo, s)
      PROVE  Due(s)'
  <2>1. todo # << >> /\ 1 \in DOMAIN todo
    BY <1>1, <1>6, LenProperties, EmptySeq DEF Has
  <2>2. todo[1] # "stopGuard"
    BY <1>5, <2>1 DEF Has
  <2>3. Stopping(next)
    BY <1>1, <2>1, <2>2 DEF Stopping
  <2>. QED  BY <1>0, <1>1, <1>2, <1>6, <2>3 DEF Due
<1>7. ASSUME NEW s \in DownSteps, Due(s)
      PROVE  \/ Due(s)'
             \/ s = step
             \/ s = "apiGone" /\ step = "apiClose" /\ outcome \notin {"ok", "logged"}
             \/ s = "ctrUnmount" /\ step = "ctrStop" /\ outcome \notin {"ok", "logged"}
  <2> PICK j \in DOMAIN jobs : Stopping(jobs[j]) /\ Has(jobs[j].todo, s)
    BY <1>7 DEF Due
  <2>1. CASE j # current
    BY <1>0, <1>2, <2>1 DEF Due
  <2>2. CASE j = current
    <3>1. Has(job.todo, s) /\ job.kind # "client"
      BY <2>2 DEF StopKinds
    <3>2. \/ Has(todo, s)
          \/ s = step
          \/ /\ Len(job.todo) > 1 /\ s = job.todo[2] /\ s \in Seconds
             /\ outcome \notin {"ok", "logged"}
      BY <1>0, <3>1, RestHas
    <3>3. ASSUME Len(job.todo) > 1, s = job.todo[2], s \in Seconds
          PROVE  (s = "apiGone" /\ step = "apiClose") \/ (s = "ctrUnmount" /\ step = "ctrStop")
      <4>1. 1 \in 1 .. Len(job.todo) - 1
        BY <1>3, <3>3
      <4>2. s \in {"apiGone", "ctrUnmount"}
        BY <3>3 DEF DownSteps, Downs, Seconds
      <4>3. /\ step = "apiClose" <=> job.todo[1 + 1] = "apiGone"
            /\ step = "ctrStop" <=> job.todo[1 + 1] = "ctrUnmount"
        BY <1>0, <4>1 DEF Paired, Pair
      <4>. QED  BY <3>3, <4>2, <4>3
    <3>. QED  BY <1>6, <3>2, <3>3
  <2>. QED  BY <2>1, <2>2
<1>8. ASSUME step = "ctrStop", outcome = "ok"
      PROVE  Due("ctrUnmount")'
  <2>1. Next1(todo) = "ctrUnmount"
    BY <1>0, <1>8, RestPaired
  <2>2. Has(todo, "ctrUnmount")
    <3>1. todo # << >> /\ todo[1] = "ctrUnmount"
      BY <2>1 DEF Next1
    <3>2. 1 \in DOMAIN todo
      BY <1>1, <3>1, LenProperties, EmptySeq
    <3>. QED  BY <3>1, <3>2 DEF Has
  <2>. QED  BY <1>6, <2>2
<1> HIDE DEF step, todo
<1>. QED  BY <1>1, <1>4, <1>7, <1>8 DEF step

LEMMA NextDown ==
    ASSUME TypeInv, JobsInv, DownInv, [Next]_vars
    PROVE  DownInv'
<1> DEFINE Goal == /\ syncRunning' => Due("syncStop")'
                   /\ rnsRunning' => Due("rnsStop")'
                   /\ i2pRunning' \/ process' \in daemons' => Due("i2pHalt")'
                   /\ containerState' # "stopped" => Due("ctrStop")' \/ Due("ctrUnmount")'
                   /\ apiPath' => Due("apiGone")'
<1> SUFFICES ASSUME ~running', ~meddled'
             PROVE  Goal
  BY DEF DownInv
<1>0. meddled \in BOOLEAN /\ running \in BOOLEAN
  BY DEF TypeInv, TypeOK
<1>1. ~meddled
  <2>1. CASE LoopStep
    BY <1>0, <2>1 DEF LoopStep, Resume, ServiceStep, StopGuard, LoopStop, Block, LoopEnds, ScanEnds
  <2>2. CASE MainStep
    BY <1>0, <2>2 DEF MainStep, Started, CliStep, CliDone, Joined, Drained
  <2>3. CASE JobComes \/ (\E s \in Services : CliStart(s)) \/ CliQuit \/ Threads \/ UNCHANGED vars
    BY <2>3 DEF JobComes, CliStart, CliQuit, Threads, vars
  <2>4. CASE JobReads
    BY <2>4 DEF JobReads, ReadReturns
  <2>. QED  BY <2>1, <2>2, <2>3, <2>4, Arrivals, Reads DEF Next, Verbs
<1>2. /\ "syncStop" \in DownSteps /\ "rnsStop" \in DownSteps /\ "i2pHalt" \in DownSteps
      /\ "ctrStop" \in DownSteps /\ "ctrUnmount" \in DownSteps /\ "apiGone" \in DownSteps
  BY DEF DownSteps, Downs
<1>3. CASE StopGuard /\ running
  <2> DEFINE job == jobs[current]
             next == jobs'[current]
  <2>1. /\ current # 0 /\ current \in 1 .. Len(jobs) /\ DOMAIN jobs = 1 .. Len(jobs)
        /\ job.todo \in Seq(Steps) /\ job.todo # << >>
        /\ job.todo[1] = "stopGuard" /\ JobFits(job)
    BY <1>3, CurrentJob DEF StopGuard
  <2>2. Advance("stopGuard", Tail(job.todo), "ok") /\ Tail(job.todo) \in Seq(Steps)
    BY <1>3, <2>1, TailIs DEF StopGuard
  <2>3. /\ DOMAIN jobs' = DOMAIN jobs
        /\ next.todo = Tail(job.todo) /\ next.kind = job.kind
    BY <2>1, <2>2, CurrentJob, Advances
  <2>4. Stopping(next) /\ \A s \in Downs : Has(next.todo, s)
    <3> HIDE DEF job, next
    <3>. QED  BY <2>1, <2>3, GuardLeaves
  <2>5. \A s \in Downs : Due(s)'
    BY <2>1, <2>3, <2>4 DEF Due
  <2>. QED  BY <2>5 DEF Downs
<1>4. CASE ~ServiceActs /\ ~(StopGuard /\ running)
  <2>1. ~running
    <3>1. CASE LoopStep
      BY <1>4, <3>1 DEF LoopStep, ServiceActs, Resume, StopGuard, LoopStop, Block, LoopEnds, ScanEnds
    <3>2. CASE MainStep
      BY <1>4, <3>2 DEF MainStep, ServiceActs, Started, CliDone, Joined, Drained
    <3>3. CASE JobComes \/ (\E s \in Services : CliStart(s)) \/ Threads \/ UNCHANGED vars
      BY <3>3 DEF JobComes, CliStart, Threads, vars
    <3>4. CASE CliQuit
      BY <3>4 DEF CliQuit, JobsInv
    <3>5. CASE JobReads
      BY <3>5 DEF JobReads, ReadReturns
    <3>. QED  BY <3>1, <3>2, <3>3, <3>4, <3>5, Arrivals, Reads DEF Next, Verbs
  <2>2. /\ UNCHANGED <<i2pRunning, process, containerState, rnsRunning, syncRunning, apiPath>>
        /\ daemons' \subseteq daemons
    BY <1>4, OthersLeaveScans DEF ServicesSeen
  <2>3. \A s \in DownSteps : Due(s) => Due(s)'
    BY <1>4, OthersLeaveDue DEF ServiceActs
  <2>. QED  BY <1>1, <1>2, <2>1, <2>2, <2>3 DEF DownInv
<1>5. CASE CliStep
  BY <1>5 DEF CliStep
<1>6. CASE ServiceStep
  <2>1. ~running /\ jobs[current].kind \in StopKinds
    BY <1>6 DEF ServiceStep, StopKinds
  <2>2. PICK step \in StopSteps, outcome \in Outcomes :
              /\ ServiceDoes(step, "main", outcome)
              /\ \A s \in DownSteps : Due(s) =>
                    \/ Due(s)'
                    \/ s = step
                    \/ s = "apiGone" /\ step = "apiClose" /\ outcome \notin {"ok", "logged"}
                    \/ s = "ctrUnmount" /\ step = "ctrStop" /\ outcome \notin {"ok", "logged"}
              /\ step = "ctrStop" /\ outcome = "ok" => Due("ctrUnmount")'
    BY <1>6, <2>1, ServiceLeavesDue
  <2>3. /\ syncRunning => Due("syncStop")
        /\ rnsRunning => Due("rnsStop")
        /\ i2pRunning \/ process \in daemons => Due("i2pHalt")
        /\ containerState # "stopped" => Due("ctrStop") \/ Due("ctrUnmount")
        /\ apiPath => Due("apiGone")
    BY <1>1, <2>1 DEF DownInv
  <2>4. CASE I2PDoes(step, outcome)
    <3>1. step \in {"i2pHalt", "i2pClear"} /\ UNCHANGED <<shellVars, peerSyncVars, apiVars>>
          /\ (step = "i2pHalt" => Terminate) /\ (step = "i2pClear" => MarkGone)
      BY <2>4 DEF I2PDoes, StopSteps
    <3>2. \A s \in DownSteps : Due(s) => Due(s)' \/ s = step
      BY <2>2, <3>1
    <3>3. /\ step = "i2pHalt" => ~i2pRunning' /\ process' \notin daemons'
          /\ step = "i2pClear" => UNCHANGED <<i2pRunning, process, daemons>>
      BY <3>1 DEF Terminate, MarkGone
    <3>4. UNCHANGED <<containerState, rnsRunning, syncRunning, apiPath>>
      BY <3>1 DEF shellVars, peerSyncVars, apiVars
    <3>. QED  BY <1>2, <2>3, <3>1, <3>2, <3>3, <3>4
  <2>5. CASE ContainerDoes(step, outcome)
    <3>1. step \in {"ctrStop", "ctrUnmount"} /\ UNCHANGED <<i2pVars, peerSyncVars, apiVars>>
          /\ (step = "ctrStop" => containerState' = "stopped" \/ outcome = "ok")
          /\ (step = "ctrUnmount" => containerState' = "stopped")
      BY <2>5 DEF ContainerDoes, StopSteps, Closed, SetState, shellVars
    <3>2. \A s \in DownSteps \ {"ctrStop", "ctrUnmount"} : Due(s) => Due(s)'
      BY <2>2, <3>1
    <3>3. UNCHANGED <<i2pRunning, process, daemons, rnsRunning, syncRunning, apiPath>>
      BY <3>1 DEF i2pVars, peerSyncVars, apiVars
    <3>4. containerState' # "stopped" => Due("ctrUnmount")'
      BY <2>2, <3>1
    <3>. QED  BY <1>2, <2>3, <3>2, <3>3, <3>4
  <2>6. CASE PeersDo(step, outcome)
    <3>1. step = "rnsStop" /\ rnsRunning' = FALSE /\ UNCHANGED <<i2pVars, shellVars, syncRunning, apiVars>>
      BY <2>6 DEF PeersDo, StopSteps
    <3>2. \A s \in DownSteps : Due(s) => Due(s)' \/ s = step
      BY <2>2, <3>1
    <3>. QED  BY <1>2, <2>3, <3>1, <3>2 DEF i2pVars, shellVars, apiVars
  <2>7. CASE SyncDoes(step, "main", outcome)
    <3>1. /\ step \in {"syncStop", "syncUnlink"} /\ UNCHANGED <<i2pVars, shellVars, rnsRunning, apiVars>>
          /\ step = "syncStop" => ~syncRunning'
          /\ step = "syncUnlink" => UNCHANGED syncRunning
      BY <2>7 DEF SyncDoes, StopSteps
    <3>2. \A s \in DownSteps : Due(s) => Due(s)' \/ s = step
      BY <2>2, <3>1
    <3>. QED  BY <1>2, <2>3, <3>1, <3>2 DEF i2pVars, shellVars, apiVars
  <2>8. CASE ApiDoes(step, outcome)
    <3>1. /\ step \in {"apiClose", "apiGone"} /\ outcome = "ok"
          /\ UNCHANGED <<i2pVars, shellVars, peerSyncVars>>
          /\ step = "apiGone" => ~apiPath'
          /\ step = "apiClose" => UNCHANGED apiPath
      BY <2>8 DEF ApiDoes, StopSteps
    <3>2. \A s \in DownSteps : Due(s) => Due(s)' \/ s = step
      BY <2>2, <3>1
    <3>. QED  BY <1>2, <2>3, <3>1, <3>2 DEF i2pVars, shellVars, peerSyncVars
  <2>. QED  BY <2>2, <2>4, <2>5, <2>6, <2>7, <2>8 DEF ServiceDoes
<1>. QED  BY <1>3, <1>4, <1>5, <1>6 DEF ServiceActs

\* However many requests, signals and uses of the tray's Quit there were, and
\* whatever failed: when the process is gone and its stop() was not cut short,
\* nothing that it had started is left behind.
THEOREM AppExitsOrderly == Spec => []OrderlyExit
<1>1. TypeInv /\ JobsInv /\ ShellInv /\ ScansInv /\ I2PInv /\ DownInv => OrderlyExit
  <2> SUFFICES ASSUME TypeInv, JobsInv, ShellInv, ScansInv, I2PInv, DownInv, StoppedInOrder, ~meddled
               PROVE  ServicesDown
    BY DEF OrderlyExit
  <2>1. \A s \in DownSteps : ~Due(s)
    <3> SUFFICES ASSUME NEW j \in DOMAIN jobs, Stopping(jobs[j]) PROVE FALSE
      BY DEF Due
    <3>1. jobs[j].kind \in {"stop", "tray"} /\ ~Ended(j) /\ jobs[j].todo[1] # "stopGuard"
      BY DEF Stopping, StopKinds, Ended
    <3>2. Head(jobs[j].todo) = jobs[j].todo[1]
      BY <3>1, CurrentJob, TailIs DEF Ended
    <3>. QED  BY <3>1, <3>2 DEF StoppedInOrder
  <2>2. ~running /\ OneAtATime
    BY DEF StoppedInOrder, OneAtATime
  <2>3. /\ ~syncRunning /\ ~rnsRunning /\ ~i2pRunning /\ process \notin daemons
        /\ containerState = "stopped" /\ ~apiPath
    BY <2>1, <2>2 DEF DownInv, DownSteps, Downs
  <2>4. shellPath = 0
    BY <2>2, <2>3 DEF ShellInv
  <2>5. \A k \in DOMAIN scans : scans[k].at # "live"
    BY <2>2, <2>3 DEF ScansInv
  <2>6. startedTwice \/ daemons = {}
    BY <2>2, <2>3 DEF I2PInv
  <2>. QED  BY <2>3, <2>4, <2>5, <2>6 DEF ServicesDown
<1>2. Init => DownInv /\ I2PInv
  BY InvariantsStart
<1>3. TypeInv /\ JobsInv /\ DownInv /\ I2PInv /\ [Next]_vars => DownInv' /\ I2PInv'
  BY NextDown, NextI2P
<1>. QED  BY <1>1, <1>2, <1>3, FormKept, ShellScansKept, PTL DEF Spec

-----------------------------------------------------------------------------
(* The screen of the prompt: the input line never points outside its       *)
(* history, and no printed line is forgotten, for any number of printing   *)
(* threads.                                                                *)
(*                                                                         *)
(* NoLineForgotten is inductive once lines are counted right, which is the *)
(* type invariant: a line that is appended either finds its printer still  *)
(* to set the event, or sets it at once; only ClearRedraw resets it, and a *)
(* drawing follows that.                                                   *)

LEMMA DrawingTypes ==
    ASSUME ScreenTypeOK, Drawing, lines' = lines
    PROVE  drawn' \in 0 .. lines' /\ spoilt' \in 0 .. lines'
BY ScreenAssumption DEF ScreenTypeOK, Drawing

LEMMA ScreenTypes ==
    ASSUME ScreenTypeOK, [ScreenNext]_screenVars
    PROVE  ScreenTypeOK'
<1>0. Len(history) \in Nat /\ DOMAIN history = 1 .. Len(history)
  BY LenProperties DEF ScreenTypeOK
<1>1. ASSUME NEW w \in Printers, WriteLine(w)
      PROVE  ScreenTypeOK'
  BY <1>1, ScreenAssumption DEF WriteLine, ScreenTypeOK, inputVars
<1>2. ASSUME NEW w \in Printers, SetRedraw(w)
      PROVE  ScreenTypeOK'
  BY <1>2 DEF SetRedraw, ScreenTypeOK, inputVars
<1>3. CASE TestRedraw
  BY <1>3 DEF TestRedraw, ScreenTypeOK, inputVars, UIStages
<1>4. CASE ClearRedraw
  BY <1>4 DEF ClearRedraw, ScreenTypeOK, inputVars, UIStages
<1>5. CASE DrawOutput
  BY <1>5, DrawingTypes DEF DrawOutput, ScreenTypeOK, inputVars, UIStages
<1>6. CASE NoKey
  BY <1>6 DEF NoKey, ScreenTypeOK, inputVars, UIStages
<1>7. CASE Resize
  BY <1>7, DrawingTypes DEF Resize, ScreenTypeOK, inputVars, UIStages
<1>8. CASE Enter
  <2>1. keys' \in 0 .. MaxKeys /\ inputBuf' = Blank /\ historyIdx' = -1
        /\ UNCHANGED <<drawn, spoilt, printers>>
    BY <1>8, ScreenAssumption DEF Enter, ScreenTypeOK
  <2>2. CASE uiAt' = "test" /\ UNCHANGED <<lines, redraw, history>>
    BY <1>0, <2>1, <2>2 DEF ScreenTypeOK, UIStages
  <2>3. CASE /\ inputBuf # Blank /\ lines < MaxLines /\ uiAt' = "run"
             /\ lines' = lines + 1 /\ redraw' = TRUE
             /\ history' = Append(history, inputBuf)
    <3>1. history' \in Seq(Texts) /\ Len(history') = Len(history) + 1
      BY <2>3 DEF ScreenTypeOK
    <3>2. /\ lines' \in 0 .. MaxLines
          /\ drawn' \in 0 .. lines' /\ spoilt' \in 0 .. lines'
      BY <2>1, <2>3, ScreenAssumption DEF ScreenTypeOK
    <3>3. historyIdx' \in -1 .. Len(history') - 1
      BY <1>0, <2>1, <3>1
    <3>. QED  BY <2>1, <2>3, <3>1, <3>2, <3>3 DEF ScreenTypeOK, UIStages
  <2>. QED  BY <1>8, <2>2, <2>3 DEF Enter
<1>9. CASE CommandPrints
  BY <1>9, ScreenAssumption DEF CommandPrints, ScreenTypeOK, inputVars, UIStages
<1>10. CASE CommandReturns
  BY <1>10 DEF CommandReturns, ScreenTypeOK, inputVars, UIStages
<1>11. CASE CommandEnds
  BY <1>11, DrawingTypes DEF CommandEnds, ScreenTypeOK, inputVars, UIStages
<1>12. ASSUME Key, UNCHANGED history,
              inputBuf' \in Texts \cup {Blank}, historyIdx' \in -1 .. Len(history) - 1
       PROVE  ScreenTypeOK'
  BY <1>12, ScreenAssumption DEF Key, ScreenTypeOK, UIStages
<1>13. CASE KeyUp
  <2>1. CASE history = <<>> /\ UNCHANGED <<historyIdx, inputBuf>>
    BY <1>12, <1>13, <2>1 DEF KeyUp, ScreenTypeOK
  <2>2. CASE /\ history # <<>>
             /\ historyIdx' = IF historyIdx + 1 < Len(history) THEN historyIdx + 1
                                                              ELSE Len(history) - 1
             /\ inputBuf' = history[Len(history) - historyIdx']
    <3>1. Len(history) > 0
      BY <1>0, <2>2, EmptySeq DEF ScreenTypeOK
    <3>2. historyIdx' \in 0 .. Len(history) - 1
      BY <1>0, <2>2, <3>1 DEF ScreenTypeOK
    <3>3. inputBuf' \in Texts
      BY <1>0, <2>2, <3>2, ElementOfSeq DEF ScreenTypeOK
    <3>. QED  BY <1>0, <1>12, <1>13, <3>2, <3>3 DEF KeyUp
  <2>. QED  BY <1>13, <2>1, <2>2 DEF KeyUp
<1>14. CASE KeyDown
  <2>1. historyIdx' \in -1 .. Len(history) - 1
    BY <1>0, <1>14 DEF KeyDown, ScreenTypeOK
  <2>2. CASE historyIdx > 0
    <3>1. /\ inputBuf' = history[Len(history) - historyIdx']
          /\ Len(history) - historyIdx' \in 1 .. Len(history)
      BY <1>0, <1>14, <2>2 DEF KeyDown, ScreenTypeOK
    <3>2. inputBuf' \in Texts
      BY <1>0, <3>1, ElementOfSeq DEF ScreenTypeOK
    <3>. QED  BY <1>12, <1>14, <2>1, <3>2 DEF KeyDown
  <2>3. CASE ~(historyIdx > 0)
    <3>1. inputBuf' \in Texts \cup {Blank}
      BY <1>0, <1>14, <2>3 DEF KeyDown, ScreenTypeOK
    <3>. QED  BY <1>12, <1>14, <2>1, <3>1 DEF KeyDown
  <2>. QED  BY <2>2, <2>3
<1>15. ASSUME NEW text \in Texts \cup {Blank}, Edit(text)
       PROVE  ScreenTypeOK'
  BY <1>12, <1>15 DEF Edit, ScreenTypeOK
<1>16. CASE UNCHANGED screenVars
  BY <1>16 DEF screenVars, ScreenTypeOK
<1>. QED  BY <1>1, <1>2, <1>3, <1>4, <1>5, <1>6, <1>7, <1>8, <1>9, <1>10, <1>11, <1>13,
             <1>14, <1>15, <1>16 DEF ScreenNext

LEMMA LinesRemembered ==
    ASSUME ScreenTypeOK, NoLineForgotten, [ScreenNext]_screenVars
    PROVE  NoLineForgotten'
<1>1. ASSUME NEW w \in Printers, WriteLine(w) \/ SetRedraw(w)
      PROVE  NoLineForgotten'
  BY <1>1 DEF WriteLine, SetRedraw, NoLineForgotten
<1>2. CASE TestRedraw \/ ClearRedraw \/ NoKey
  BY <1>2 DEF TestRedraw, ClearRedraw, NoKey, NoLineForgotten
<1>3. CASE DrawOutput \/ Resize \/ CommandEnds
  BY <1>3 DEF DrawOutput, Resize, CommandEnds, Drawing, ScreenTypeOK, NoLineForgotten
<1>4. CASE Enter \/ CommandPrints
  BY <1>4 DEF Enter, CommandPrints, NoLineForgotten
<1>5. CASE CommandReturns
  BY <1>5 DEF CommandReturns, NoLineForgotten
<1>6. CASE Key
  BY <1>6 DEF Key, NoLineForgotten
<1>7. CASE UNCHANGED screenVars
  BY <1>7 DEF screenVars, NoLineForgotten
<1>. QED  BY <1>1, <1>2, <1>3, <1>4, <1>5, <1>6, <1>7
          DEF ScreenNext, KeyUp, KeyDown, Edit

LEMMA ScreenStart == ScreenInit => ScreenTypeOK /\ NoLineForgotten
BY ScreenAssumption, EmptySeq DEF ScreenInit, ScreenTypeOK, NoLineForgotten, UIStages

\* However often Up and Down are pressed, whatever is typed in between and
\* however many threads print, _history_idx is that of an entry or -1.
THEOREM ScreenTypeCorrect == ScreenSpec => []ScreenTypeOK
BY ScreenStart, ScreenTypes, PTL DEF ScreenSpec

\* Whenever threads print while the loop tests, clears and draws, a line that
\* is not on the screen will be drawn, unless drawing it has failed.
THEOREM LinesReachScreen == ScreenSpec => []NoLineForgotten
BY ScreenStart, ScreenTypes, LinesRemembered, PTL DEF ScreenSpec
===============================================================================
