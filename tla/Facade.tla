------------------------------- MODULE Facade -------------------------------
(***************************************************************************)
(* The life of one Facade: the thread that owns it (main), the thread that *)
(* stopAsync creates (stopper), a Ctrl-C handler (handler), and the flows   *)
(* of the time domains with their sources.                                 *)
(*                                                                         *)
(* A time domain's scheduler is here what module EventPipeline shows it to *)
(* be: a queue of events that the components see one after the other, the  *)
(* first RingSize of them in time steps.  A frame stays in its time step   *)
(* until each of its sources has delivered or moved on, so a source that   *)
(* has ended holds up everything behind the frame.  Non-data events set    *)
(* the flags that start() and stop() wait for.                             *)
(*                                                                         *)
(* stop_lock_ is held only inside a single action.  The handler runs on    *)
(* the main thread, which makes no step until it returns.                  *)
(***************************************************************************)
EXTENDS GlobalPlayer, Sequences, FiniteSets

CONSTANTS
  TimeDomainCount,  \* the time domains of the graph, 0 .. TimeDomainCount - 1
  Programs,         \* what the owner may do, see MainPc
  Finishing,        \* the time domains with a source that calls setSourceFinished
  Players,          \* the time domains with a FilePlayer
  SignalPhases,     \* where main may be when Ctrl-C arrives
  RingSize,         \* ringbuffer_size, the time steps of a time domain
  MaxFrames,        \* bound on the events of a time domain that opens a frame
  MaxParams,        \* bound on the calls of parameterChanged
  StopTimeouts      \* may kDataflowStopTimeout expire in stop()

ASSUME FacadeAssumption ==
  /\ TimeDomainCount \in Nat
  /\ Finishing \subseteq 0 .. TimeDomainCount - 1
  /\ Players \subseteq 0 .. TimeDomainCount - 1
  /\ Programs \subseteq {"console", "application", "test"}
  /\ RingSize \in Nat \ {0}
  /\ MaxFrames \in Nat
  /\ MaxParams \in Nat
  /\ StopTimeouts \in BOOLEAN

TimeDomains == 0 .. TimeDomainCount - 1
Threads == {"main", "stopper", "handler"}

VARIABLES
  program,     \* the owner's program
  main,        \* where the owner is in it
  call,        \* per thread, its call of stop() or of network_->stop()
  shouldStop,  \* should_stop_
  isRunning,   \* running_ of the Facade
  promises,    \* how often finished_promise_ was set
  stopThread,  \* stop_thread_
  network,     \* network_ and the owner's pointer to the Facade
  domain,      \* per time domain, TaskFlowTimeDomain's flags, and gaveUp: its
               \* stop() returned while the taskflow was running
  flow,        \* per time domain, its taskflow
  made,        \* how many time domains init() has created
  queue,       \* per time domain, the events whose time step has not ended
  finished,    \* per time domain, configure_finished_ to teardown_finished_
  source,      \* per time domain, its source that may call setSourceFinished
  player,      \* per time domain, running_ and thread_ of its FilePlayer
  params       \* how often parameterChanged was called

facadeVars == <<shouldStop, isRunning, promises, stopThread, network>>
domainVars == <<domain, flow, made, queue, finished>>
sourceVars == <<source, player>>
vars == <<program, main, call, facadeVars, domainVars, sourceVars, params, playerVars>>

\* "console" and "application" delete the facade when its future is ready;
\* "test" deletes it after stop(), its sources never finish by themselves.
MainPc == {"load", "failed", "create", "start", "configuring", "starting",
           "waiting", "working", "stopping", "delete", "releasing", "joining",
           "deleted", "crashed"}
CallPc == {"idle", "lock", "check", "set", "STOP", "cancelled", "TEARDOWN",
           "DATAFLOW_STOP", "flag"}
Flagged == {"CONFIGURE", "START", "STOP", "TEARDOWN"}
EventType == Flagged \cup {"DATA", "PARAMETER_CHANGE", "DATAFLOW_STOP"}

\* The sources of a time domain that frames wait for, and an event in the queue:
\* "owed" are the sources whose input is missing in its frame.
Source == {"player", "source"}
Message == [type : EventType, owed : SUBSET Source]

SourcesOf(d) ==
  (IF d \in Players THEN {"player"} ELSE {})
    \cup (IF d \in Finishing THEN {"source"} ELSE {})

TypeOK ==
  /\ program \in Programs
  /\ main \in [pc : MainPc, at : 0 .. TimeDomainCount]
  /\ call \in [Threads -> [pc : CallPc, at : Nat, end : Nat]]
  /\ shouldStop \in BOOLEAN
  /\ isRunning \in BOOLEAN
  /\ promises \in Nat
  /\ stopThread \in {"none", "running", "ended", "joined"}
  /\ network \in {"alive", "reset", "deleted"}
  /\ domain \in [TimeDomains ->
                  [running : BOOLEAN, stopCalled : BOOLEAN, gaveUp : BOOLEAN]]
  /\ flow \in [TimeDomains -> {"none", "running", "ended"}]
  /\ made \in 0 .. TimeDomainCount
  /\ queue \in [TimeDomains -> Seq(Message)]
  /\ finished \in [TimeDomains -> SUBSET Flagged]
  /\ source \in [TimeDomains -> {"off", "on", "finished", "stopped"}]
  /\ player \in [TimeDomains ->
                  [run : BOOLEAN, joins : BOOLEAN,
                   thread : {"none", "loop", "ended", "joined"}]]
  /\ params \in Nat
  /\ PlayerTypeOK

Idle == [pc |-> "idle", at |-> 0, end |-> 0]

Init ==
  /\ program \in Programs
  /\ main = [pc |-> "load", at |-> 0]
  /\ call = [t \in Threads |-> Idle]
  /\ shouldStop = FALSE
  /\ isRunning = FALSE
  /\ promises = 0
  /\ stopThread = "none"
  /\ network = "alive"
  /\ domain = [d \in TimeDomains |->
                 [running |-> FALSE, stopCalled |-> FALSE, gaveUp |-> FALSE]]
  /\ flow = [d \in TimeDomains |-> "none"]
  /\ made = 0
  /\ queue = [d \in TimeDomains |-> <<>>]
  /\ finished = [d \in TimeDomains |-> {}]
  /\ source = [d \in TimeDomains |-> "off"]
  /\ player = [d \in TimeDomains |->
                 [run |-> FALSE, joins |-> FALSE, thread |-> "none"]]
  /\ params = 0
  /\ PlayerInit

MainStep(from, to) ==
  /\ call["handler"].pc = "idle"
  /\ call["main"].pc = "idle"
  /\ main.pc = from
  /\ main' = [main EXCEPT !.pc = to]

Messages(n, type) == [i \in 1 .. n |-> [type |-> type, owed |-> {}]]
Schedule(d, n, type) == queue' = [queue EXCEPT ![d] = @ \o Messages(n, type)]

-----------------------------------------------------------------------------
(* loadDataflow, start and blockingStart *)

\* A graph that cannot run, or a pattern that cannot be instantiated: the
\* exception ends the program or leaves a facade that is only deleted.
loadDataflow ==
  /\ MainStep("load", "create") \/ MainStep("load", "failed")
  /\ UNCHANGED <<program, call, facadeVars, domainVars, sourceVars, params, playerVars>>

Abandon ==
  /\ program # "console"
  /\ MainStep("failed", "delete")
  /\ UNCHANGED <<program, call, facadeVars, domainVars, sourceVars, params, playerVars>>

\* Mutant: the loop does not end.
CreateNext_unbounded == made' = made + 1

CreateNext == made < TimeDomainCount /\ made' = made + 1

\* TaskFlowNetwork::init creates the time domains one after the other ...
CreateTimeDomain ==
  /\ MainStep("create", "create")
  /\ CreateNext
  /\ UNCHANGED <<program, call, facadeVars, domain, flow, queue, finished, sourceVars,
                 params, playerVars>>

\* ... then builds their taskflows.
InitTimeDomains ==
  /\ made = TimeDomainCount
  /\ MainStep("create", "start")
  /\ UNCHANGED <<program, call, facadeVars, domainVars, sourceVars, params, playerVars>>

\* TaskFlowTimeDomain::start: running_ is set before the scheduler launches the
\* taskflow and waits for two events, without limit.
StartTimeDomain ==
  /\ main.at < TimeDomainCount
  /\ MainStep("start", "configuring")
  /\ domain' = [domain EXCEPT ![main.at].running = TRUE]
  /\ flow' = [flow EXCEPT ![main.at] = "running"]
  /\ Schedule(main.at, 1, "CONFIGURE")
  /\ UNCHANGED <<program, call, facadeVars, made, finished, sourceVars, params, playerVars>>

SchedulerConfigured ==
  /\ main.pc = "configuring"
  /\ "CONFIGURE" \in finished[main.at]
  /\ MainStep("configuring", "starting")
  /\ Schedule(main.at, 1, "START")
  /\ UNCHANGED <<program, call, facadeVars, domain, flow, made, finished,
                 sourceVars, params, playerVars>>

SchedulerStarted ==
  /\ main.pc = "starting"
  /\ "START" \in finished[main.at]
  /\ call["handler"].pc = "idle"
  /\ main' = [pc |-> "start", at |-> main.at + 1]
  /\ UNCHANGED <<program, call, facadeVars, domainVars, sourceVars, params, playerVars>>

\* start() returns; blockingStart goes on to wait for the future.
StartReturns ==
  /\ main.at = TimeDomainCount
  /\ MainStep("start", IF program = "console" THEN "waiting" ELSE "working")
  /\ isRunning' = TRUE
  /\ UNCHANGED <<program, call, shouldStop, promises, stopThread, network,
                 domainVars, sourceVars, params, playerVars>>

-----------------------------------------------------------------------------
(* stop, on any of the threads *)

CallAt(t, pc) == call' = [call EXCEPT ![t].pc = pc]

\* network_->stop() of thread t, over the time domains that exist by now.
NetworkStop(t) ==
  call' = [call EXCEPT ![t] = [pc |-> "check", at |-> 0, end |-> made]]

\* The owner asks for the stop ...
OwnerStops ==
  /\ MainStep("working", "stopping")
  /\ CallAt("main", "lock")
  /\ UNCHANGED <<program, facadeVars, domainVars, sourceVars, params, playerVars>>

\* ... and waits for the future, which a test does not.
OwnerStopped ==
  /\ IF program = "test" THEN MainStep("stopping", "delete")
     ELSE MainStep("stopping", "waiting")
  /\ UNCHANGED <<program, call, facadeVars, domainVars, sourceVars, params, playerVars>>

\* ctrlC
Signal ==
  /\ program = "console"
  /\ main.pc \in SignalPhases
  /\ call["handler"] = Idle
  /\ ~shouldStop
  /\ CallAt("handler", "lock")
  /\ UNCHANGED <<program, main, facadeVars, domainVars, sourceVars, params, playerVars>>

\* Mutant: should_stop_ is tested and not set.
StopOnce_noSet(t) ==
  /\ call[t].pc = "lock"
  /\ IF shouldStop THEN call' = [call EXCEPT ![t] = Idle] ELSE NetworkStop(t)
  /\ UNCHANGED shouldStop

\* Only the first call of stop() goes on.
StopOnce(t) ==
  /\ call[t].pc = "lock"
  /\ IF shouldStop THEN call' = [call EXCEPT ![t] = Idle] ELSE NetworkStop(t)
  /\ shouldStop' = TRUE

StopLocked(t) ==
  /\ StopOnce(t)
  /\ UNCHANGED <<program, main, isRunning, promises, stopThread, network,
                 domainVars, sourceVars, params, playerVars>>

NextDomain(t) ==
  [call EXCEPT ![t] = [pc |-> "check", at |-> call[t].at + 1, end |-> call[t].end]]

MustStop(d) == ~domain[d].stopCalled /\ domain[d].running

\* TaskFlowTimeDomain::stop reads the two flags ...
CheckTimeDomain(t) ==
  /\ call[t].pc = "check"
  /\ call[t].at < call[t].end
  /\ IF MustStop(call[t].at) THEN CallAt(t, "set") ELSE call' = NextDomain(t)
  /\ UNCHANGED <<program, main, facadeVars, domainVars, sourceVars, params, playerVars>>

\* ... sets one of them and calls the scheduler, which opens no frames any more.
SetStopCalled(t) ==
  /\ call[t].pc = "set"
  /\ CallAt(t, "STOP")
  /\ domain' = [domain EXCEPT ![call[t].at].stopCalled = TRUE]
  /\ Schedule(call[t].at, 1, "STOP")
  /\ UNCHANGED <<program, main, facadeVars, flow, made, finished, sourceVars,
                 params, playerVars>>

\* Mutant: the timeout only moves on.
CancelSources_none(d) == UNCHANGED queue

\* Whatever frames of d still wait for is given up, for every source.
CancelSources(d) ==
  queue' = [queue EXCEPT ![d] =
              [i \in DOMAIN queue[d] |-> [queue[d][i] EXCEPT !.owed = {}]]]

\* The flag of STOP was not set within kDataflowStopTimeout.
StopTimesOut(t) ==
  LET d == call[t].at IN
  /\ StopTimeouts
  /\ call[t].pc = "STOP"
  /\ "STOP" \notin finished[d]
  /\ CallAt(t, "cancelled")
  /\ CancelSources(d)
  /\ UNCHANGED domain

\* TEARDOWN follows, whether STOP was handled or not, ...
Teardown(t) ==
  LET d == call[t].at IN
  /\ \/ call[t].pc = "STOP" /\ "STOP" \in finished[d]
     \/ call[t].pc = "cancelled"
  /\ CallAt(t, "TEARDOWN")
  /\ Schedule(d, 1, "TEARDOWN")
  /\ UNCHANGED domain

\* ... and is waited for without limit.
EndFlow(t) ==
  LET d == call[t].at IN
  /\ call[t].pc = "TEARDOWN"
  /\ "TEARDOWN" \in finished[d]
  /\ CallAt(t, "DATAFLOW_STOP")
  /\ Schedule(d, RingSize, "DATAFLOW_STOP")
  /\ UNCHANGED domain

\* The taskflow has ended, or has not within kDataflowStopTimeout.  The future of
\* the thread that waits for STOP is destroyed, which joins it.
FlowAwaited(t) ==
  LET d == call[t].at IN
  /\ call[t].pc = "DATAFLOW_STOP"
  /\ flow[d] = "ended" \/ StopTimeouts
  /\ "STOP" \in finished[d]
  /\ call' = NextDomain(t)
  /\ domain' = [domain EXCEPT ![d].running = FALSE,
                              ![d].gaveUp = (flow[d] = "running")]
  /\ UNCHANGED queue

SchedulerStop(t) ==
  /\ StopTimesOut(t) \/ Teardown(t) \/ EndFlow(t) \/ FlowAwaited(t)
  /\ UNCHANGED <<program, main, facadeVars, flow, made, finished, sourceVars,
                 params, playerVars>>

NetworkStopped(t) == call[t].pc = "check" /\ call[t].at = call[t].end

\* finished_promise_.set_value()
SetPromise(t) ==
  /\ NetworkStopped(t)
  /\ promises' = promises + 1
  /\ CallAt(t, "flag")

StopNotifies(t) ==
  /\ ~(t = "main" /\ main.pc = "delete")
  /\ SetPromise(t)
  /\ UNCHANGED <<program, main, shouldStop, isRunning, stopThread, network,
                 domainVars, sourceVars, params, playerVars>>

StopReturns(t) ==
  /\ call[t].pc = "flag"
  /\ isRunning' = FALSE
  /\ call' = [call EXCEPT ![t] = Idle]
  /\ UNCHANGED <<program, main, shouldStop, promises, stopThread, network,
                 domainVars, sourceVars, params, playerVars>>

\* The thread of stopAsync ends when its stop() has returned.
StopperEnds ==
  /\ stopThread = "running"
  /\ call["stopper"].pc = "idle"
  /\ stopThread' = "ended"
  /\ UNCHANGED <<program, main, call, shouldStop, isRunning, promises, network,
                 domainVars, sourceVars, params, playerVars>>

-----------------------------------------------------------------------------
(* The taskflows, their sources, and parameter changes *)

\* A source that runs asks for frames and delivers them; one that has ended does
\* neither.
Delivers(d, c) ==
  IF c = "player" THEN player[d].thread = "loop"
  ELSE d \in Finishing /\ source[d] = "on"

\* Source c sets its input of frame k, and gives up that of all older ones.
SetInput(q, k, c) ==
  [i \in DOMAIN q |-> IF i <= k THEN [q[i] EXCEPT !.owed = @ \ {c}] ELSE q[i]]

\* A source asks for a frame that is not there yet; none is opened once STOP is
\* scheduled.
OpenFrame(d, c) ==
  /\ flow[d] = "running"
  /\ Delivers(d, c)
  /\ ~domain[d].stopCalled
  /\ Len(queue[d]) < MaxFrames
  /\ queue' = [queue EXCEPT ![d] =
                 Append(SetInput(@, Len(@), c),
                        [type |-> "DATA", owed |-> SourcesOf(d) \ {c}])]
  /\ UNCHANGED <<program, main, call, facadeVars, domain, flow, made, finished,
                 sourceVars, params, playerVars>>

\* A source delivers for a frame that is there, or moves on beyond it.
Deliver(d, k, c) ==
  /\ flow[d] = "running"
  /\ Delivers(d, c)
  /\ c \in queue[d][k].owed
  /\ queue' = [queue EXCEPT ![d] = SetInput(@, k, c)]
  /\ UNCHANGED <<program, main, call, facadeVars, domain, flow, made, finished,
                 sourceVars, params, playerVars>>

\* START has reached the sources: from now on they ask for frames.  A finishing
\* source lives until STOP; a START behind STOP starts it again, and the player with
\* it once its thread was joined.
StartSources(d) ==
  /\ flow[d] = "running"
  /\ queue[d] # <<>> /\ Head(queue[d]).type = "START"
  /\ source[d] \in {"off", "stopped"}
  /\ player[d].thread \in {"none", "joined"}
  /\ source' = [source EXCEPT ![d] = "on"]
  /\ player' = IF d \in Players
               THEN [player EXCEPT ![d] =
                       [run |-> TRUE, joins |-> FALSE, thread |-> "loop"]]
               ELSE player
  /\ UNCHANGED <<program, main, call, facadeVars, domainVars, params, playerVars>>

\* FilePlayer::stop, when STOP is in a time step and the player is in none before
\* it: running_ is cleared before the join.
PlayerStop(d) ==
  /\ flow[d] = "running"
  /\ player[d].run
  /\ \E k \in DOMAIN queue[d] :
       /\ k <= RingSize
       /\ queue[d][k].type = "STOP"
       /\ \A i \in 1 .. k : "player" \notin queue[d][i].owed
  /\ player' = [player EXCEPT ![d].run = FALSE, ![d].joins = TRUE]
  /\ UNCHANGED <<program, main, call, facadeVars, domainVars, source, params, playerVars>>

\* The end of the file, or running_ seen cleared: threadLoop returns.
PlayerEnds(d) ==
  /\ player[d].thread = "loop"
  /\ player' = [player EXCEPT ![d].run = FALSE, ![d].thread = "ended"]
  /\ UNCHANGED <<program, main, call, facadeVars, domainVars, source, params, playerVars>>

\* stop() joins the thread only when it has cleared running_ itself; an early end
\* of the file may make it skip that.
JoinPlayer(d) ==
  \/ ~player[d].run /\ ~player[d].joins /\ UNCHANGED player
  \/ /\ player[d].joins /\ player[d].thread = "ended"
     /\ player' = [player EXCEPT ![d].thread = "joined"]

\* Every source task of the frame has its input, an event without data none to
\* wait for.
InputsSet(m) == m.owed = {}

\* timeStepEnded frees the time step first, which loads the next event into it if
\* one is waiting: the flag is then that event's.
FlagOf(q) ==
  IF Len(q) > RingSize THEN q[RingSize + 1].type ELSE Head(q).type

\* All components of d have seen the oldest event, and its time step ends; the
\* first of the DATAFLOW_STOP events ends the taskflow.
FlowRuns(d) ==
  /\ flow[d] = "running"
  /\ queue[d] # <<>>
  /\ InputsSet(Head(queue[d]))
  /\ LET e == Head(queue[d]).type IN
     /\ e = "START" => source[d] \in {"on", "finished"}
     /\ IF e = "STOP" THEN JoinPlayer(d) ELSE UNCHANGED player
     /\ source' = [source EXCEPT ![d] = IF e = "STOP" THEN "stopped" ELSE @]
     /\ flow' = [flow EXCEPT ![d] = IF e = "DATAFLOW_STOP" THEN "ended" ELSE @]
     /\ IF d = 0 THEN ModuleComponent(e) ELSE UNCHANGED playerVars
  /\ finished' = [finished EXCEPT ![d] = @ \cup ({FlagOf(queue[d])} \cap Flagged)]
  /\ queue' = [queue EXCEPT ![d] = Tail(@)]
  /\ UNCHANGED <<program, main, call, facadeVars, domain, made, params>>

\* The thread of the global player, whose components are in time domain 0.
GlobalPlayerRuns ==
  /\ ReplayNext
  /\ UNCHANGED <<program, main, call, facadeVars, domainVars, sourceVars, params>>

\* stopAsync creates the thread only once.
CreateStopThread ==
  IF stopThread = "none"
  THEN /\ stopThread' = "running"
       /\ call' = [call EXCEPT !["stopper"] = [Idle EXCEPT !.pc = "lock"]]
  ELSE UNCHANGED <<stopThread, call>>

\* The source of d reaches its end and calls setSourceFinished, that is stopAsync.
SourceFinished(d) ==
  /\ d \in Finishing
  /\ program # "test"
  /\ source[d] = "on"
  /\ source' = [source EXCEPT ![d] = "finished"]
  /\ CreateStopThread
  /\ UNCHANGED <<program, main, shouldStop, isRunning, promises, network,
                 domainVars, player, params, playerVars>>

\* Facade::parameterChanged of a running application reaches every scheduler.  No
\* parameter is changed once DATAFLOW_STOP is scheduled.
parameterChanged ==
  /\ main.pc = "working"
  /\ \A t \in Threads : call[t].pc # "DATAFLOW_STOP"
  /\ params < MaxParams
  /\ params' = params + 1
  /\ queue' = [d \in TimeDomains |->
                 IF d < made THEN queue[d] \o Messages(1, "PARAMETER_CHANGE")
                 ELSE queue[d]]
  /\ UNCHANGED <<program, main, call, facadeVars, domain, flow, made, finished,
                 sourceVars, playerVars>>

-----------------------------------------------------------------------------
(* The end of the owner's program *)

\* The future is ready.
FutureReady ==
  /\ promises > 0
  /\ MainStep("waiting", "delete")
  /\ UNCHANGED <<program, call, facadeVars, domainVars, sourceVars, params, playerVars>>

\* blockingStart looks at the future once a second.
WaitTimeout == main.pc = "waiting" /\ promises = 0 /\ UNCHANGED vars

\* Mutant: the destructor leaves the network alone.
DestructorNetworkStop_none ==
  call' = [call EXCEPT !["main"] = [pc |-> "check", at |-> 0, end |-> 0]]

DestructorNetworkStop == NetworkStop("main")

\* ~Facade stops the network itself ...
DestructorStops ==
  /\ main.pc = "delete"
  /\ call["main"] = Idle
  /\ call["handler"] = Idle
  /\ DestructorNetworkStop
  /\ UNCHANGED <<program, main, facadeVars, domainVars, sourceVars, params, playerVars>>

\* Mutant: ~FilePlayer does not join.
JoinPlayers_none == UNCHANGED player

\* ~FilePlayer joins a thread that stop() has not joined.
JoinPlayers ==
  /\ \A d \in TimeDomains : player[d].thread # "loop"
  /\ player' = [d \in TimeDomains |->
                  IF player[d].thread = "ended"
                  THEN [player[d] EXCEPT !.thread = "joined"] ELSE player[d]]

\* ... begins to release it ...
DestructorReleases ==
  /\ main.pc = "delete"
  /\ NetworkStopped("main")
  /\ network' = "reset"
  /\ main' = [main EXCEPT !.pc = "releasing"]
  /\ call' = [call EXCEPT !["main"] = Idle]
  /\ UNCHANGED <<program, shouldStop, isRunning, promises, stopThread, domainVars,
                 sourceVars, params, playerVars>>

\* ... where a taskflow that still runs uses mutexes and a queue that are gone: the
\* program crashes, or it goes on, ...
ReleaseCrashes ==
  /\ main.pc = "releasing"
  /\ \E d \in TimeDomains : flow[d] = "running"
  /\ main' = [main EXCEPT !.pc = "crashed"]
  /\ UNCHANGED <<program, call, facadeVars, domainVars, sourceVars, params, playerVars>>

\* ... waits for the end of the taskflow, which executor_ does, and releases the
\* component graph with its players ...
DestructorResets ==
  /\ main.pc = "releasing"
  /\ \A d \in TimeDomains : flow[d] # "running"
  /\ JoinPlayers
  /\ main' = [main EXCEPT !.pc = "joining"]
  /\ UNCHANGED <<program, call, facadeVars, domainVars, source, params, playerVars>>

JoinStopThread ==
  \/ stopThread = "none" /\ UNCHANGED stopThread
  \/ stopThread = "ended" /\ stopThread' = "joined"

\* ... and joins stop_thread_, if there is one.
DestructorJoins ==
  /\ MainStep("joining", "deleted")
  /\ JoinStopThread
  /\ network' = "deleted"
  /\ UNCHANGED <<program, call, shouldStop, isRunning, promises, domainVars,
                 sourceVars, params, playerVars>>

Terminated ==
  /\ \/ main.pc \in {"deleted", "crashed"}
     \/ main.pc = "failed" /\ program = "console"
  /\ UNCHANGED vars

Alive == main.pc # "crashed"

MainNext ==
  \/ loadDataflow \/ Abandon \/ CreateTimeDomain \/ InitTimeDomains
  \/ StartTimeDomain \/ SchedulerConfigured \/ SchedulerStarted \/ StartReturns
  \/ OwnerStops \/ OwnerStopped \/ FutureReady
  \/ DestructorStops \/ DestructorReleases \/ DestructorResets \/ DestructorJoins

StopNext(t) ==
  \/ StopLocked(t) \/ CheckTimeDomain(t) \/ SetStopCalled(t) \/ SchedulerStop(t)
  \/ StopNotifies(t) \/ StopReturns(t)

FlowNext(d) ==
  \/ FlowRuns(d) \/ StartSources(d) \/ PlayerStop(d) \/ PlayerEnds(d)
  \/ SourceFinished(d)
  \/ \E c \in SourcesOf(d) :
       OpenFrame(d, c) \/ \E k \in DOMAIN queue[d] : Deliver(d, k, c)

Next ==
  \/ /\ Alive
     /\ \/ MainNext
        \/ \E t \in Threads : StopNext(t)
        \/ StopperEnds
        \/ Signal
        \/ \E d \in TimeDomains : FlowNext(d)
        \/ GlobalPlayerRuns
        \/ parameterChanged
        \/ ReleaseCrashes
        \/ WaitTimeout
  \/ Terminated

Spec == Init /\ [][Next]_vars

\* Every thread and every taskflow runs, and a source that has not ended delivers or
\* moves on; nothing obliges the application to stop, a source to end or the user
\* to press Ctrl-C.
Fairness ==
  /\ WF_vars(MainNext /\ main.pc \notin {"load", "working"})
  /\ \A t \in Threads : WF_vars(Alive /\ StopNext(t))
  /\ WF_vars(Alive /\ StopperEnds)
  /\ \A d \in TimeDomains :
       /\ WF_vars(Alive /\ FlowRuns(d))
       /\ WF_vars(Alive /\ (StartSources(d) \/ PlayerStop(d)))
       /\ WF_vars(Alive /\ PlayerEnds(d) /\ ~player[d].run)
       /\ \A c \in SourcesOf(d) :
            WF_vars(Alive /\ queue[d] # <<>> /\ Deliver(d, 1, c))

FairSpec == Spec /\ Fairness

-----------------------------------------------------------------------------
(* Properties *)

\* finished_promise_ is set at most once: a second set_value would throw
\* std::future_error (Facade::stop may run on three threads).
PromiseSetOnce == promises <= 1

\* When ~Facade releases the network no thread is inside network_->stop(), and a
\* taskflow that still runs is one that its stop() gave up, after
\* kDataflowStopTimeout.
NoUseAfterReset ==
  network # "alive" =>
    /\ \A t \in Threads : call[t].pc \in {"idle", "lock", "flag"}
    /\ \A d \in TimeDomains : flow[d] = "running" => domain[d].gaveUp

\* When ~Facade has returned, no taskflow runs, the thread of stopAsync and those of
\* the file players were joined, no thread is inside stop(), and no source is left
\* that could call stopAsync.  (The thread of the global player is never joined; it
\* is not among those meant here.)
NoThreadLeft ==
  network = "deleted" =>
    /\ stopThread \in {"none", "joined"}
    /\ \A t \in Threads : call[t].pc = "idle"
    /\ \A d \in TimeDomains :
         /\ flow[d] # "running"
         /\ source[d] \in {"off", "stopped"}
         /\ player[d].thread \in {"none", "joined"}

\* The taskflow of d stands still behind a frame that waits for a source which has
\* ended.
Silenced(d) ==
  /\ flow[d] = "running" /\ queue[d] # <<>>
  /\ \E c \in Head(queue[d]).owed : ~Delivers(d, c)

\* No event is left that could set the flag of d.
FlagLost(d, flag) ==
  flag \notin finished[d] /\ \A i \in DOMAIN queue[d] : queue[d][i].type # flag

\* Where stop() and ~Facade wait without limit for what never comes: for TEARDOWN
\* behind a frame that nobody cancelled since STOP has its flag already, for the end
\* of a taskflow that stands still, or for a flag that another event took.
Stuck ==
  \/ \E t \in Threads :
       LET d == call[t].at IN
       \/ /\ call[t].pc = "TEARDOWN"
          /\ \/ "STOP" \in finished[d] /\ Silenced(d)
             \/ FlagLost(d, "TEARDOWN")
       \/ call[t].pc = "DATAFLOW_STOP" /\ FlagLost(d, "STOP")
  \/ main.pc = "releasing" /\ \E d \in TimeDomains : domain[d].gaveUp /\ Silenced(d)

\* Once the owner waits for the future and somebody has asked for a stop, by
\* stop(), stopAsync() or Ctrl-C, the owner's program ends, whichever sources have
\* ended or end meanwhile: behind a frame whose source has ended, the timeout of
\* stop() helps.  The exceptions are those of Stuck, which the code allows.
StopEndsProgram ==
  main.pc = "waiting" /\ (shouldStop \/ stopThread # "none")
    ~> main.pc \in {"deleted", "crashed"} \/ Stuck
=============================================================================
