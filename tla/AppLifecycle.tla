----------------------------- MODULE AppLifecycle -----------------------------
(***************************************************************************)
(* The life of the process of src/main.py: services started and stopped by *)
(* the application itself, by the requests of the socket API, by the       *)
(* commands of the prompt, by signals and by the tray icon.                *)
(*                                                                         *)
(* What runs on the event loop is a job: a list of steps, each of which    *)
(* other threads can see the effect of.  The loop runs the steps of one    *)
(* job after the other until the job ends or waits; only then does another *)
(* job run.  The prompt is on the main thread, and runs the steps of its   *)
(* start command itself, on a temporary loop, at the same time.            *)
(***************************************************************************)
EXTENDS I2PManager, ContainerShell, Sequences, FiniteSets

CONSTANTS
    Setups,         \* how the process is run, and what may happen to it
    Services        \* the services that requests and commands name

Modes == {"background", "tray", "cli"}

\* mode: how the process is run; i2pd: is there one?  Bounds: requests to the
\* socket API, start commands at the prompt, signals and uses of the tray's
\* Quit, and services that fail to start.
Setup == [mode : Modes, i2pd : BOOLEAN,
          requests : Nat, starts : Nat, signals : Nat, faults : Nat]

ASSUME AppAssumption ==
    /\ Setups \subseteq Setup
    /\ Services \subseteq {"peers", "sync", "container", "i2p", "all"}

VARIABLES
    mode,           \* how the process is run
    left,           \* what may still happen to it: the bounds, counted down
    mainAt,         \* where its main thread is in run()
    loopState,      \* what the event loop does
    running,        \* PersonalCloudOS._running
    rnsRunning,     \* ReticulumPeerService._running
    rnsMade,        \* has this process made its one RNS.Reticulum?
    syncRunning,    \* SyncEngine._running
    scans,          \* the scan tasks made so far; the last one is _scan_task
    server,         \* SocketAPI.server
    apiPath,        \* does the path of the API lead to its server?
    jobs,           \* what was given to the loop, in this order
    current,        \* the job the loop is in, 0: none
    cliTodo,        \* the steps the prompt has to do before it returns
    meddled         \* did others than stop() change services after it began, or the
                    \* prompt while a job was under way?

peerSyncVars == <<rnsRunning, rnsMade, syncRunning, scans>>
apiVars == <<server, apiPath>>
serviceVars == <<i2pVars, shellVars, peerSyncVars, apiVars>>
loopVars == <<loopState, jobs, current>>
vars == <<mode, left, mainAt, running, serviceVars, loopVars, cliTodo, meddled>>

Steps == {"i2pProbe", "i2pLaunch", "i2pHalt", "i2pClear", "rnsStart", "rnsStop",
          "syncStart", "syncScan", "syncStop", "syncUnlink",
          "ctrStart", "ctrServe", "ctrStop", "ctrUnmount",
          "apiBind", "apiServe", "apiClose", "apiGone",
          "stopGuard", "loopStop", "block", "read"}

Job == [kind : {"app", "stop", "tray", "client", "quit"}, todo : Seq(Steps), waitsFor : Nat]
Scan == [on : {"main", "temp"}, at : {"live", "cancelled", "ended"}]

TypeOK ==
    /\ I2PType
    /\ ShellType
    /\ mode \in Modes
    /\ left \in [requests : Nat, starts : Nat, signals : Nat, faults : Nat]
    /\ mainAt \in {"starting", "up", "joining", "draining", "exited"}
    /\ loopState \in {"running", "stopping", "stopped", "blocked"}
    /\ {running, rnsRunning, rnsMade, syncRunning, apiPath, meddled} \subseteq BOOLEAN
    /\ scans \in Seq(Scan)
    /\ server \in {"none", "bound", "open", "closed"}
    /\ jobs \in Seq(Job)
    /\ current \in 0 .. Len(jobs)
    /\ cliTodo \in Seq(Steps)

-----------------------------------------------------------------------------
(* What start() and stop() of the application, the requests and the        *)
(* commands do, as lists of steps.                                         *)

I2PStart == <<"i2pProbe", "i2pLaunch">>
I2PStop == <<"i2pHalt", "i2pClear">>
SyncStart == <<"syncStart", "syncScan">>
SyncStop == <<"syncStop", "syncUnlink">>
ContainerStart == <<"ctrStart", "ctrServe">>
ContainerStop == <<"ctrStop", "ctrUnmount">>

AppStart == I2PStart \o <<"rnsStart">> \o ContainerStart \o SyncStart
            \o <<"apiBind", "apiServe">>

\* stop() after its guard.
StopAll == SyncStop \o <<"rnsStop">> \o I2PStop \o ContainerStop \o <<"apiClose", "apiGone">>

AppStop == <<"stopGuard">> \o StopAll

\* Seeded fault: the loop is not stopped.
StopWithoutExit == AppStop

StopAndExit == <<"stopGuard">> \o (StopAll \o <<"loopStop">>)

ServiceStart(s) ==
    CASE s = "peers" -> <<"rnsStart">>
      [] s = "sync" -> SyncStart
      [] s = "container" -> ContainerStart
      [] s = "i2p" -> I2PStart
      [] s = "all" -> <<"rnsStart">> \o SyncStart \o ContainerStart \o I2PStart

ServiceStop(s) ==
    CASE s = "peers" -> <<"rnsStop">>
      [] s = "sync" -> SyncStop
      [] s = "container" -> ContainerStop
      [] s = "i2p" -> I2PStop
      [] s = "all" -> I2PStop \o SyncStop \o <<"rnsStop">> \o ContainerStop

Handler(verb, s) ==
    CASE verb = "service_start" -> ServiceStart(s)
      [] verb = "service_stop" -> ServiceStop(s)
      [] verb = "service_restart" -> ServiceStop(s) \o ServiceStart(s)

\* Second steps of a start() or stop(), left out when it returned early.
Seconds == {"i2pLaunch", "i2pClear", "syncScan", "syncUnlink", "ctrServe",
            "ctrUnmount", "apiServe", "apiGone"}

\* How a step ended.  skip: start() or stop() had nothing to do and returned;
\* fail: it raised; fault: it raised, for no reason that is modelled; logged:
\* the same, but the exception was caught.
Outcomes == {"ok", "skip", "fail", "fault", "logged"}

\* What is left of the list after the first step: start() and stop() of the
\* application log what a service raises and go on with the next service, a
\* request and a command give up.
Rest(kind, todo, outcome) ==
    CASE outcome \in {"ok", "logged"} -> Tail(todo)
      [] outcome \in {"fail", "fault"} /\ kind = "client" -> << >>
      [] OTHER -> IF Len(todo) > 1 /\ todo[2] \in Seconds
                  THEN Tail(Tail(todo)) ELSE Tail(todo)

-----------------------------------------------------------------------------
Spend(bound) == left[bound] > 0 /\ left' = [left EXCEPT ![bound] = @ - 1]

Pay(outcome) == IF outcome \in {"fault", "logged"} THEN Spend("faults") ELSE UNCHANGED left

Ended(j) == jobs[j].todo = << >>
NewJob(kind, todo) == [kind |-> kind, todo |-> todo, waitsFor |-> 0]

Init ==
    /\ I2PInit
    /\ ShellInit
    /\ \E setup \in Setups :
          /\ mode = setup.mode
          /\ installed = setup.i2pd
          /\ left = [b \in {"requests", "starts", "signals", "faults"} |-> setup[b]]
    /\ mainAt = "starting"
    /\ loopState = "running"
    /\ running = TRUE
    /\ rnsRunning = FALSE
    /\ rnsMade = FALSE
    /\ syncRunning = FALSE
    /\ scans = << >>
    /\ server = "none"
    /\ apiPath = FALSE
    /\ jobs = <<NewJob("app", AppStart)>>
    /\ current = 0
    /\ cliTodo = << >>
    /\ meddled = FALSE

-----------------------------------------------------------------------------
(* The steps of the services, on the event loop ("main") or on the         *)
(* temporary loop of a command ("temp").                                   *)

I2PDoes(step, outcome) ==
    /\ \/ \E samReachable \in BOOLEAN :
             /\ step = "i2pProbe"
             /\ Probe(samReachable)
             /\ outcome = IF NothingToLaunch(samReachable) THEN "skip" ELSE "ok"
       \/ step = "i2pLaunch" /\ Launch /\ outcome = "ok"
       \/ step = "i2pLaunch" /\ UNCHANGED i2pVars /\ outcome = "logged"
       \/ step = "i2pHalt" /\ Terminate /\ outcome = "ok"
       \/ step = "i2pClear" /\ MarkGone /\ outcome = "ok"
    /\ UNCHANGED <<shellVars, peerSyncVars, apiVars>>

ContainerDoes(step, outcome) ==
    /\ \/ /\ step = "ctrStart"
          /\ containerState = "running"
          /\ outcome = "skip"
          /\ UNCHANGED shellVars
       \/ step = "ctrStart" /\ containerState # "running" /\ Starting /\ outcome = "ok"
       \/ step = "ctrServe" /\ Serving /\ outcome = "ok"
       \/ step = "ctrServe" /\ ServingFails /\ outcome = "fault"
       \/ /\ step = "ctrStop"
          /\ containerState = "stopped"
          /\ outcome = "skip"
          /\ UNCHANGED shellVars
       \/ step = "ctrStop" /\ containerState # "stopped" /\ Closing /\ outcome = "ok"
       \/ step = "ctrUnmount" /\ Closed /\ outcome = "ok"
    /\ UNCHANGED <<i2pVars, peerSyncVars, apiVars>>

\* RNS allows one RNS.Reticulum in the life of a process and raises when a
\* second one is made, after _running was set.  The first may fail as well.
PeersDo(step, outcome) ==
    /\ \/ /\ step = "rnsStart"
          /\ rnsRunning
          /\ outcome = "ok"
          /\ UNCHANGED <<rnsRunning, rnsMade>>
       \/ /\ step = "rnsStart"
          /\ ~rnsRunning
          /\ rnsRunning' = TRUE
          /\ rnsMade' \in {rnsMade, TRUE}
          /\ outcome = CASE rnsMade -> "fail"
                         [] ~rnsMade' -> "fault"
                         [] OTHER -> "ok"
       \/ /\ step = "rnsStop"
          /\ rnsRunning' = FALSE
          /\ outcome = "ok"
          /\ UNCHANGED rnsMade
    /\ UNCHANGED <<i2pVars, shellVars, syncRunning, scans, apiVars>>

LastScan == scans[Len(scans)]
ScanUnderWay == scans # << >> /\ LastScan.at # "ended"

\* Seeded fault: the scan task is left to find out by itself.
NotCancelled == scans

Cancelled == IF ScanUnderWay THEN [scans EXCEPT ![Len(scans)].at = "cancelled"] ELSE scans

\* stop() cannot wait for a task of another loop: it raises.
SyncDoes(step, on, outcome) ==
    /\ \/ /\ step = "syncStart"
          /\ syncRunning' = TRUE
          /\ outcome = IF syncRunning THEN "skip" ELSE "ok"
          /\ UNCHANGED scans
       \/ /\ step = "syncScan"
          /\ scans' = Append(scans, [on |-> on, at |-> "live"])
          /\ outcome = "ok"
          /\ UNCHANGED syncRunning
       \/ /\ step = "syncStop"
          /\ syncRunning' = FALSE
          /\ scans' = Cancelled
          /\ outcome = IF ScanUnderWay /\ LastScan.on # on THEN "fail" ELSE "ok"
       \/ /\ step = "syncUnlink"
          /\ outcome = "ok"
          /\ UNCHANGED <<syncRunning, scans>>
    /\ UNCHANGED <<i2pVars, shellVars, rnsRunning, rnsMade, apiVars>>

\* SocketAPI.start() sets server once the path is bound, then raises if the
\* path is gone; stop() closes what server says.
ApiDoes(step, outcome) ==
    /\ \/ step = "apiBind" /\ server' = "bound" /\ apiPath' = TRUE /\ outcome = "ok"
       \/ /\ step = "apiServe"
          /\ server' = "open"
          /\ outcome = IF apiPath THEN "ok" ELSE "fail"
          /\ UNCHANGED apiPath
       \/ /\ step = "apiClose"
          /\ server' = IF server = "open" THEN "closed" ELSE server
          /\ outcome = "ok"
          /\ UNCHANGED apiPath
       \/ step = "apiGone" /\ apiPath' = FALSE /\ outcome = "ok" /\ UNCHANGED server
    /\ UNCHANGED <<i2pVars, shellVars, peerSyncVars>>

ServiceDoes(step, on, outcome) ==
    \/ I2PDoes(step, outcome)
    \/ ContainerDoes(step, outcome)
    \/ PeersDo(step, outcome)
    \/ SyncDoes(step, on, outcome)
    \/ ApiDoes(step, outcome)

-----------------------------------------------------------------------------
(* The event loop.                                                         *)

LoopRuns == loopState \in {"running", "stopping"} /\ mainAt # "exited"

\* A connection to the API is open until its client is answered or leaves.
Connected == \E k \in DOMAIN jobs : jobs[k].kind = "client" /\ ~Ended(k)

\* Jobs wait for a scan task to end; stop(), in wait_closed(), for the last
\* connection to close; a connection for its client to ask; and a job that is
\* new to the loop for the callback of the quit command that was there first.
CanRun(j) ==
    /\ ~Ended(j)
    /\ jobs[j].waitsFor # 0 => scans[jobs[j].waitsFor].at = "ended"
    /\ Head(jobs[j].todo) = "apiGone" => ~Connected
    /\ Head(jobs[j].todo) # "read"
    /\ \A k \in 1 .. j - 1 : jobs[k].kind = "quit" => Ended(k)

Resume(j) ==
    /\ LoopRuns
    /\ current = 0
    /\ CanRun(j)
    /\ current' = j
    /\ jobs' = [jobs EXCEPT ![j].waitsFor = 0]
    /\ UNCHANGED <<mode, mainAt, running, serviceVars, loopState, cliTodo, left, meddled>>

\* After a step the current job goes on with todo, ends, or waits: for the scan
\* task it has cancelled, until its socket is served, or until the connections
\* to the server it has closed are closed.
Advance(step, todo, outcome) ==
    LET cancels == step = "syncStop" /\ outcome = "ok" /\ ScanUnderWay
        closes == step = "apiClose" /\ server \in {"open", "closed"} /\ Connected
        waits == cancels \/ closes \/ step = "apiBind" IN
    /\ jobs' = [jobs EXCEPT ![current].todo = todo,
                            ![current].waitsFor = IF cancels THEN Len(scans) ELSE 0]
    /\ current' = IF todo = << >> \/ waits THEN 0 ELSE current

ServiceStep ==
    /\ LoopRuns
    /\ current # 0
    /\ LET step == Head(jobs[current].todo) IN
       \E outcome \in Outcomes :
          /\ ServiceDoes(step, "main", outcome)
          /\ Advance(step, Rest(jobs[current].kind, jobs[current].todo, outcome), outcome)
          /\ Pay(outcome)
    /\ meddled' = (\/ meddled
                   \/ ~running /\ jobs[current].kind \notin {"stop", "tray"}
                   \/ cliTodo # << >>)
    /\ UNCHANGED <<mode, mainAt, loopState, running, cliTodo>>

\* stop() returns at once when the application is not running; who awaited it may
\* stop the loop all the same.
WithoutStop(todo) == IF todo[Len(todo)] = "loopStop" THEN <<"loopStop">> ELSE << >>

StopGuard ==
    /\ LoopRuns
    /\ current # 0
    /\ Head(jobs[current].todo) = "stopGuard"
    /\ Advance("stopGuard", IF running THEN Tail(jobs[current].todo)
                            ELSE WithoutStop(jobs[current].todo), "ok")
    /\ running' = FALSE
    /\ UNCHANGED <<mode, mainAt, loopState, serviceVars, cliTodo, left, meddled>>

\* loop.stop(): what is ready may still run.
LoopStop ==
    /\ LoopRuns
    /\ current # 0
    /\ Head(jobs[current].todo) = "loopStop"
    /\ Advance("loopStop", Tail(jobs[current].todo), "ok")
    /\ loopState' = "stopping"
    /\ UNCHANGED <<mode, mainAt, running, serviceVars, cliTodo, left, meddled>>

\* run_stop of the quit command, a callback on the loop, waits for a coroutine
\* that only the loop could run.
Block ==
    /\ LoopRuns
    /\ current # 0
    /\ Head(jobs[current].todo) = "block"
    /\ Advance("block", << >>, "ok")
    /\ loopState' = "blocked"
    /\ UNCHANGED <<mode, mainAt, running, serviceVars, cliTodo, left, meddled>>

\* A cancelled scan task of this loop gets its turn, and ends.
ScanEnds(k) ==
    /\ LoopRuns
    /\ current = 0
    /\ scans[k] = [on |-> "main", at |-> "cancelled"]
    /\ scans' = [scans EXCEPT ![k].at = "ended"]
    /\ UNCHANGED <<mode, mainAt, running, i2pVars, shellVars, rnsRunning, rnsMade,
                   syncRunning, apiVars, loopVars, cliTodo, left, meddled>>

\* run_until_complete() raises when the loop stops before start() is over; the
\* process does not survive that.
LoopEnds ==
    /\ loopState = "stopping"
    /\ current = 0
    /\ mainAt \notin {"draining", "exited"}
    /\ loopState' = IF mainAt = "up" /\ mode # "cli" THEN "stopping" ELSE "stopped"
    /\ mainAt' = CASE mainAt = "starting" -> "exited"
                   [] mainAt = "up" /\ mode # "cli" -> "draining"
                   [] OTHER -> mainAt
    /\ UNCHANGED <<mode, running, serviceVars, jobs, current, cliTodo, left, meddled>>

LoopStep ==
    \/ \E j \in DOMAIN jobs : Resume(j)
    \/ ServiceStep
    \/ StopGuard
    \/ LoopStop
    \/ Block
    \/ LoopEnds
    \/ \E k \in DOMAIN scans : ScanEnds(k)

-----------------------------------------------------------------------------
(* The main thread: run() and the prompt.                                  *)

\* start() is over: the loop runs on, in CLI mode on a thread of its own.
Started ==
    /\ mainAt = "starting"
    /\ Ended(1)
    /\ mainAt' = "up"
    /\ UNCHANGED <<mode, running, serviceVars, loopVars, cliTodo, left, meddled>>

\* A command at the prompt is over when its temporary loop is closed.
TempTasks == \E k \in DOMAIN scans : scans[k].on = "temp" /\ scans[k].at # "ended"
Prompt == mainAt = "up" /\ mode = "cli" /\ cliTodo = << >> /\ ~TempTasks

\* cmd_start
CliStart(s) ==
    /\ Prompt
    /\ Spend("starts")
    /\ cliTodo' = ServiceStart(s)
    /\ UNCHANGED <<mode, mainAt, running, serviceVars, loopVars, meddled>>

\* When asyncio.run() is over, the tasks made meanwhile are.
EndTempTasks(ss) ==
    [k \in DOMAIN ss |-> IF ss[k].on = "temp" THEN [ss[k] EXCEPT !.at = "ended"] ELSE ss[k]]

CliStep ==
    /\ mainAt = "up"
    /\ cliTodo # << >>
    /\ \E outcome \in Outcomes :
          /\ ServiceDoes(Head(cliTodo), "temp", outcome)
          /\ cliTodo' = Rest("client", cliTodo, outcome)
          /\ Pay(outcome)
    /\ meddled' = (meddled \/ ~running \/ \E j \in DOMAIN jobs : ~Ended(j))
    /\ UNCHANGED <<mode, mainAt, running, loopVars>>

CliDone ==
    /\ mainAt = "up"
    /\ cliTodo = << >>
    /\ TempTasks
    /\ scans' = EndTempTasks(scans)
    /\ UNCHANGED <<mode, mainAt, running, i2pVars, shellVars, rnsRunning, rnsMade,
                   syncRunning, apiVars, loopVars, cliTodo, left, meddled>>

\* cmd_exit, or the end of the prompt's input: stop() is scheduled on the loop.
CliExit ==
    /\ Prompt
    /\ mainAt' = "joining"
    /\ jobs' = Append(jobs, NewJob("stop", StopAndExit))
    /\ UNCHANGED <<mode, running, serviceVars, loopState, current, cliTodo, left, meddled>>

\* cmd_quit: a callback that waits for stop() first, unless the loop has ended.
CliQuit ==
    /\ Prompt
    /\ mainAt' = "joining"
    /\ IF loopState = "stopped"
       THEN running' = FALSE /\ UNCHANGED jobs
       ELSE /\ jobs' = jobs \o <<NewJob("quit", <<"block">>), NewJob("stop", StopAndExit)>>
            /\ UNCHANGED running
    /\ UNCHANGED <<mode, serviceVars, loopState, current, cliTodo, left, meddled>>

\* loop_thread.join(timeout=10): the thread may take longer.  loop.close()
\* raises in that case; either way the process ends.
Joined ==
    /\ mainAt = "joining"
    /\ mainAt' = "exited"
    /\ UNCHANGED <<mode, running, serviceVars, loopVars, cliTodo, left, meddled>>

\* run_until_complete(self.stop()) after run_forever(): stop() returns at once,
\* but what is ready on the loop may get another turn.
Drained ==
    /\ mainAt = "draining"
    /\ current = 0
    /\ mainAt' = "exited"
    /\ loopState' = "stopped"
    /\ UNCHANGED <<mode, running, serviceVars, jobs, current, cliTodo, left, meddled>>

MainStep == Started \/ CliStep \/ CliDone \/ Joined \/ Drained

-----------------------------------------------------------------------------
(* What comes from outside.                                                *)

\* A client reaches a server that listens where the path leads; _handle_client
\* and _handle_request are a job of their own for each connection.
Connects(todo) ==
    /\ server \in {"bound", "open"}
    /\ apiPath
    /\ mainAt # "exited"
    /\ Spend("requests")
    /\ jobs' = Append(jobs, NewJob("client", todo))
    /\ UNCHANGED <<mode, mainAt, running, serviceVars, loopState, current, cliTodo, meddled>>

\* _socket_query sends its request at once.  The caller waits for the answer,
\* or gives up after 30 s; the request is served all the same.
SocketQuery(verb, s) == Connects(Handler(verb, s))

\* cmd_stop and cmd_restart go through the socket of their own process.
CliRequest(verb, s) == Prompt /\ verb # "service_start" /\ SocketQuery(verb, s)

\* Another process may ask for anything.
OtherRequest(verb, s) == SocketQuery(verb, s)

\* It may also connect and take its time.
OtherConnects == Connects(<<"read">>)

\* reader.read() returns, between two jobs of the loop: with a request, or with
\* nothing or one that changes no service.  It has no timeout.
ReadReturns(j, todo) ==
    /\ LoopRuns
    /\ current = 0
    /\ jobs[j].todo = <<"read">>
    /\ jobs' = [jobs EXCEPT ![j].todo = todo]
    /\ UNCHANGED <<mode, mainAt, running, serviceVars, loopState, current, cliTodo, left, meddled>>

LateRequest(j, verb, s) == ReadReturns(j, Handler(verb, s))

HangsUp(j) == ReadReturns(j, << >>)

Interrupt(kind, todo) ==
    /\ loopState = "running"
    /\ mainAt # "exited"
    /\ Spend("signals")
    /\ jobs' = Append(jobs, NewJob(kind, todo))
    /\ UNCHANGED <<mode, mainAt, running, serviceVars, loopState, current, cliTodo, meddled>>

Signal == Interrupt("stop", StopAndExit)

\* Quit of the tray icon stops the services, but not the loop.
TrayQuit == mode = "tray" /\ Interrupt("tray", AppStop)

\* The threads of the services.
Threads ==
    /\ mainAt # "exited"
    /\ \/ I2PStep /\ UNCHANGED shellVars
       \/ ShellStep /\ UNCHANGED i2pVars
    /\ UNCHANGED <<mode, mainAt, running, peerSyncVars, apiVars, loopVars, cliTodo, left, meddled>>

Next ==
    \/ LoopStep
    \/ MainStep
    \/ \E s \in Services : CliStart(s)
    \/ CliExit
    \/ CliQuit
    \/ \E verb \in {"service_start", "service_stop", "service_restart"}, s \in Services :
          \/ CliRequest(verb, s) \/ OtherRequest(verb, s)
          \/ \E j \in DOMAIN jobs : LateRequest(j, verb, s)
    \/ OtherConnects
    \/ \E j \in DOMAIN jobs : HangsUp(j)
    \/ Signal
    \/ TrayQuit
    \/ Threads

\* The loop and the main thread are running; nobody has to use the program.
Fairness == WF_vars(LoopStep) /\ WF_vars(MainStep)

Spec == Init /\ [][Next]_vars /\ Fairness

-----------------------------------------------------------------------------
(* Properties.                                                             *)

\* stop() began, and no call of it was cut short by the end of the loop.
StoppedInOrder ==
    /\ ~running
    /\ \A j \in DOMAIN jobs :
          jobs[j].kind \in {"stop", "tray"} => Ended(j) \/ Head(jobs[j].todo) = "stopGuard"

ServicesDown ==
    /\ ~syncRunning
    /\ \A k \in DOMAIN scans : scans[k].at # "live"
    /\ ~rnsRunning
    /\ ~i2pRunning
    /\ process \notin daemons
    /\ startedTwice \/ daemons = {}
    /\ containerState = "stopped"
    /\ shellPath = 0
    /\ ~apiPath

\* The process leaves no service running and no socket behind, whether it ends by
\* a signal or by the end of the prompt (after `exit' too, which says that the
\* application runs on, but run() stops it): neither a request that stops or
\* restarts a service before or while the application stops, nor a service that
\* failed to start, nor a signal during start() makes stop() miss one.  Three
\* things may make it: a stop() that was cut short (a second signal, a join that
\* timed out); a request or command whose steps come after stop() has begun, or a
\* command of the prompt that overlaps a request; and, for i2pd, a second start()
\* of its manager, which forgets the i2pd it launched first.
OrderlyExit ==
    mainAt = "exited" /\ StoppedInOrder /\ ~meddled => ServicesDown

\* A start command at the prompt may run at the same time as a request or as
\* stop(), and then overwrite what they are about to use.
OneAtATime == mode # "cli" \/ ~meddled

\* SyncEngine.stop() waits for the task it cancelled, and start() may run
\* meanwhile: there is never more than one scan loop, and an engine that says
\* it runs has one.  (One started at the prompt has not: its scan loop ends
\* with the command.)
OneScanLoop ==
    OneAtATime =>
        /\ Cardinality({k \in DOMAIN scans : scans[k] = [on |-> "main", at |-> "live"]}) <= 1
        /\ mode # "cli" /\ current = 0 /\ syncRunning => scans # << >> /\ LastScan.at = "live"

\* Whatever stops, restarts and failures came before, the container is running
\* exactly when its shell server is, and then the path leads to it; otherwise
\* there is no path.
ShellMatchesState ==
    OneAtATime =>
        /\ (containerState = "running") <=> shellRunning
        /\ shellPath = IF shellRunning THEN shellSocket ELSE 0
        /\ shellRunning => shellSocket # 0

\* A signal ends a process that runs in the background, whatever the loop is
\* doing and whoever else stops services, unless some client stays connected
\* to the API for ever and never asks for anything.
Signalled == \E j \in DOMAIN jobs : jobs[j].kind = "stop" /\ ~Ended(j)
IdleClient == \E j \in DOMAIN jobs : jobs[j].todo = <<"read">>

SignalsEndTheProcess ==
    \/ <>[]IdleClient
    \/ (mode # "cli" /\ Signalled) ~> (mainAt = "exited")

\* cmd_quit says that it stops the application and exits: by the time the
\* process is gone the services are down, unless the loop takes more than the
\* ten seconds it is given or a signal came as well.
QuitStopsServices ==
    mainAt = "exited" /\ loopState # "running" /\ ~meddled
        /\ (\E j \in DOMAIN jobs : jobs[j].kind = "quit") => ServicesDown

\* _stop_and_exit says that it stops all services, then the event loop: once it
\* is under way, the loop stops.
StopEndsTheLoop == Signalled ~> (loopState \in {"stopping", "stopped"})
=============================================================================
