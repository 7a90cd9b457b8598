----------------------------- MODULE TimeDomain -----------------------------
(***************************************************************************)
(* One running time domain: the scheduler, the threads of its source       *)
(* components, the tasks of its taskflow and the application thread that    *)
(* starts and stops it, interleaved.                                       *)
(*                                                                         *)
(* An action is what one thread does while it holds request_mutex_ or      *)
(* flow_mutex_, or one task of the taskflow.  request_mutex_ is held across *)
(* several actions only while a source schedules padding events, see       *)
(* RequestMutexFree.  The components are SERIAL, as every source and sink  *)
(* of the repository is: the task of a component in a time step follows    *)
(* its task in the previous time step of the ring.  One sink stands for    *)
(* everything downstream of the sources.                                   *)
(*                                                                         *)
(* Application sources call newValue from a thread of the application;     *)
(* Players (FilePlayer) run a thread of their own between START and STOP.  *)
(***************************************************************************)
EXTENDS TaskFlowInFlowScheduler

CONSTANTS
  Players,                \* the sources that are FilePlayers
  SourceMode,             \* "WAIT_FOR_BUFFER" or "IMMEDIATE_RETURN"
  MissingSourceEventMode, \* "WAIT_FOR_EVENT" or "CANCEL_OLDEST"
  \* what the sensors and the application may do
  Timestamps,             \* the timestamps that sources request
  MinGap,                 \* a source's next timestamp is at least this later
  MaxSkip,                \* frames that all sources may miss in a row
  Persistent,             \* applications that go on requesting after the stop
  RequestPhases,          \* when application sources deliver values
  MaxParams,              \* bound on the number of parameter changes
  ParamPhases,            \* when parameters are changed
  StopTimeouts,           \* whether kDataflowStopTimeout may expire
  Now                     \* the wall clock when it does

ASSUME TimeDomainAssumption ==
  /\ Sources \cap {"sink", "end"} = {}   \* the names of the other task chains
  /\ Players \subseteq Sources
  /\ Persistent \subseteq Sources
  /\ SourceMode \in {"WAIT_FOR_BUFFER", "IMMEDIATE_RETURN"}
  /\ MissingSourceEventMode \in {"WAIT_FOR_EVENT", "CANCEL_OLDEST"}
  /\ Timestamps \subseteq Nat
  /\ \A ts \in Timestamps : ts > 2 * MaxOffset
  /\ MinGap \in Nat
  /\ MaxSkip \in Nat
  /\ MaxParams \in Nat
  /\ StopTimeouts \in BOOLEAN
  /\ Now \in Nat

VARIABLES
  sched,         \* the scheduler's data, see TaskFlowInFlowScheduler
  clock,         \* time_domain_clock_
  latestComponentTs, \* latest_scheduled_component_timestamp_
  stopScheduled, \* stop_scheduled_
  finished,      \* which of the ..._finished_ flags are set
  phase,         \* per time step, where its control flow is
  done,          \* per time step, the sources whose task has run this round
  sourceTurn,    \* per source, the time step of its next task
  sinkTurn,      \* the time step of the sink's next task
  endTurn,       \* the time step whose end task is next
  cut,           \* the rings of tasks that a seam has ended, see SerialSeam
  sink,          \* the last event the sink was called with, its last frame
  src,           \* per source, its thread
  app,           \* the application thread in start() or stop()
  flushed,       \* how many DATAFLOW_STOP events stop() has scheduled
  params         \* how many parameter changes were scheduled

requestVars == <<clock, latestComponentTs>>
schedVars == <<sched, requestVars, stopScheduled, finished>>
ringVars == <<sourceTurn, sinkTurn, endTurn, cut>>
taskVars == <<phase, done, ringVars, sink>>
appVars == <<app, flushed, params>>
vars == <<schedVars, taskVars, src, appVars>>

AppPhase == {"new", "launched", "configuring", "starting", "running",
             "stopping", "cancelled", "tearing", "flushing", "done"}
SourcePc == {"off", "idle", "refused", "pad", "padded", "waiting", "found",
             "holding"}

\* The chains of a serial task through the time steps.
Rings == Sources \cup {"sink", "end"}

TypeOK ==
  /\ sched \in Scheduler
  /\ clock \in Clock
  /\ latestComponentTs \in [Sources -> Int]
  /\ stopScheduled \in BOOLEAN
  /\ finished \subseteq EventType
  /\ phase \in [Steps -> {"seam", "run", "end", "stopped"}]
  /\ done \in [Steps -> SUBSET Sources]
  /\ sourceTurn \in [Sources -> Steps]
  /\ sinkTurn \in Steps
  /\ endTurn \in Steps
  /\ cut \subseteq Rings
  /\ sink \in [type : EventType, ts : Int]
  /\ src \in [Sources -> [pc : SourcePc, ts : Int, step : Steps, run : BOOLEAN]]
  /\ app \in AppPhase
  /\ flushed \in 0..TimeStepCount
  /\ params \in Nat

Init ==
  /\ sched = InitialScheduler
  /\ clock = InitialClock
  /\ latestComponentTs = [s \in Sources |-> kTimestampZero]
  /\ stopScheduled = FALSE
  /\ finished = {}
  /\ phase = [i \in Steps |-> "seam"]
  /\ done = [i \in Steps |-> {}]
  /\ sourceTurn = [s \in Sources |-> 0]
  /\ sinkTurn = 0
  /\ endTurn = 0
  /\ cut = {}
  /\ sink = [type |-> "INVALID", ts |-> kTimestampZero]
  /\ src = [s \in Sources |->
              [pc |-> IF s \in Players THEN "off" ELSE "idle",
               ts |-> kTimestampZero, step |-> 0, run |-> FALSE]]
  /\ app = "new"
  /\ flushed = 0
  /\ params = 0

\* A source that schedules padding events is inside requestSourceBuffer.
RequestMutexFree == \A s \in Sources : src[s].pc \notin {"pad", "padded"}

-----------------------------------------------------------------------------
(* A source requests the buffer of a timestamp. *)

\* The timestamps of one sensor increase; a new frame is at most MaxSkip
\* frames later than it should be.
SensorTimestamp(s, ts) ==
  /\ ts >= src[s].ts + MinGap
  /\ \/ \A r \in Sources : src[r].ts = kTimestampZero
     \/ \E r \in Sources :
          ts <= src[r].ts + (MaxSkip + 1) * SensorDelta + 2 * MaxOffset

CanRequest(s, ts) ==
  /\ src[s].pc = "idle"
  /\ IF s \in Players THEN src[s].run ELSE app \in RequestPhases
  /\ SensorTimestamp(s, ts)
  /\ RequestMutexFree

SourceAt(s, pc, ts, step) ==
  src' = [src EXCEPT ![s].pc = pc, ![s].ts = ts, ![s].step = step]

isInvalidNextRequestedTimeStamp(s, ts) ==
  \/ ts + MaxOffset < clock.init - MaxOffset
  \/ ts + MaxOffset <= latestComponentTs[s] - MaxOffset

\* Mutant: the missing source event mode is ignored.
cancelOlderEvents_all(s, ts) == cancelSources(sched, Sources, ts)

cancelOlderEvents(s, ts) ==
  cancelSources(sched,
                IF MissingSourceEventMode = "WAIT_FOR_EVENT" THEN {s} ELSE Sources,
                ts)

\* Older than the first frame or than the source's own last frame.
RequestInvalid(s, ts) ==
  /\ isInvalidNextRequestedTimeStamp(s, ts)
  /\ SourceAt(s, "idle", ts, src[s].step)
  /\ UNCHANGED <<sched, requestVars>>

IsRunning(ts) == RunningSteps(sched, ts) # {}

\* Whether the frame is neither in a time step nor in the queue.
IsNewTimestamp(s, ts) ==
  /\ ~isInvalidNextRequestedTimeStamp(s, ts)
  /\ ~IsRunning(ts)
  /\ ~(SourceMode = "WAIT_FOR_BUFFER" /\ isTimestampScheduled(sched, ts))

\* The frame is in a time step: the source gets that step's buffer.
RequestRunning(s, ts) ==
  /\ ~isInvalidNextRequestedTimeStamp(s, ts)
  /\ clock' = newTimestamp(clock, ts)
  /\ \E i \in Steps :
       /\ isTimestampRunning(sched, ts, i)
       /\ sched' = [cancelOlderEvents(s, ts) EXCEPT !.setInput[i] = @ \cup {s}]
       /\ SourceAt(s, "holding", ts, i)
  /\ UNCHANGED latestComponentTs

\* The frame is queued: the source will wait until it is in a time step.
RequestScheduled(s, ts) ==
  /\ ~isInvalidNextRequestedTimeStamp(s, ts)
  /\ ~IsRunning(ts)
  /\ SourceMode = "WAIT_FOR_BUFFER"
  /\ isTimestampScheduled(sched, ts)
  /\ clock' = newTimestamp(clock, ts)
  /\ sched' = cancelOlderEvents(s, ts)
  /\ SourceAt(s, "waiting", ts, src[s].step)
  /\ UNCHANGED latestComponentTs

\* A new frame, but the stop event is already scheduled.  A player just goes on.
RequestAfterStop(s, ts) ==
  /\ IsNewTimestamp(s, ts)
  /\ stopScheduled
  /\ clock' = newTimestamp(clock, ts)
  /\ sched' = cancelOlderEvents(s, ts)
  /\ latestComponentTs' = [latestComponentTs EXCEPT ![s] = ts]
  /\ SourceAt(s, IF s \in Players \cup Persistent THEN "idle" ELSE "refused",
              ts, src[s].step)

\* A new frame in mode WAIT_FOR_BUFFER: the next one is scheduled, a later one
\* after padding events, any other timestamp is refused.
RequestNewTimestampWait(s, ts) ==
  LET c == newTimestamp(clock, ts)
      d == cancelOlderEvents(s, ts)
  IN /\ IsNewTimestamp(s, ts)
     /\ ~stopScheduled
     /\ SourceMode = "WAIT_FOR_BUFFER"
     /\ latestComponentTs' = [latestComponentTs EXCEPT ![s] = ts]
     /\ \/ /\ isNextExpectedTimestamp(c, ts)
           /\ clock' = advanceTimeStep(c)
           /\ sched' = scheduleEvent(d, "DATA", c.expected)
           /\ SourceAt(s, "waiting", ts, src[s].step)
        \/ /\ isFurtherAheadThenNextExpectedTimestamp(c, ts)
           /\ clock' = c
           /\ sched' = d
           /\ SourceAt(s, "pad", ts, src[s].step)
        \/ /\ ~isNextExpectedTimestamp(c, ts)
           /\ ~isFurtherAheadThenNextExpectedTimestamp(c, ts)
           /\ clock' = c
           /\ sched' = d
           /\ SourceAt(s, "idle", ts, src[s].step)

\* A new frame in mode IMMEDIATE_RETURN: it takes a free time step or is lost.
RequestNewTimestampImmediate(s, ts) ==
  LET d == cancelOlderEvents(s, ts)
      i == NextTimeStep(sched.latest)
  IN /\ IsNewTimestamp(s, ts)
     /\ ~stopScheduled
     /\ SourceMode = "IMMEDIATE_RETURN"
     /\ latestComponentTs' = [latestComponentTs EXCEPT ![s] = ts]
     /\ clock' = newTimestamp(clock, ts)
     /\ \/ /\ sched.free > 0
           /\ sched' = [scheduleDataEventImmediately(d, ts) EXCEPT
                          !.setInput[i] = @ \cup {s}]
           /\ SourceAt(s, "holding", ts, i)
        \/ /\ sched.free = 0
           /\ sched' = d
           /\ SourceAt(s, "idle", ts, src[s].step)

RequestSourceBuffer(s, ts) ==
  /\ CanRequest(s, ts)
  /\ \/ RequestInvalid(s, ts)
     \/ RequestRunning(s, ts)
     \/ RequestScheduled(s, ts)
     \/ RequestAfterStop(s, ts)
     \/ RequestNewTimestampWait(s, ts)
     \/ RequestNewTimestampImmediate(s, ts)
  /\ UNCHANGED <<stopScheduled, finished, taskVars, appVars>>

\* One iteration of the padding loop of requestSourceBufferNewTimestampWait.
Padding(s) ==
  /\ src[s].pc = "pad"
  /\ clock' = advanceTimeStep(clock)
  /\ sched' = schedulePaddingEvent(sched, clock.expected, s)
  /\ src' = [src EXCEPT ![s].pc =
               IF isNextExpectedTimestampOrBigger(clock', src[s].ts)
               THEN "padded" ELSE "pad"]
  /\ UNCHANGED <<latestComponentTs, stopScheduled, finished,
                 taskVars, appVars>>

\* After the loop the source's own frame is scheduled.
PaddingDone(s) ==
  /\ src[s].pc = "padded"
  /\ clock' = advanceTimeStep(clock)
  /\ sched' = scheduleEvent(sched, "DATA", clock.expected)
  /\ src' = [src EXCEPT ![s].pc = "waiting"]
  /\ UNCHANGED <<latestComponentTs, stopScheduled, finished,
                 taskVars, appVars>>

\* Mutant: the thread waits for a frame after its own.
WaitForRunning_later(s) ==
  /\ src[s].pc = "waiting"
  /\ sched.latestRunning > src[s].ts + 2 * MaxOffset
  /\ src' = [src EXCEPT ![s].pc = "idle"]
  /\ UNCHANGED <<schedVars, taskVars, appVars>>

\* The deferred part of requestSourceBufferScheduled, before flow_mutex_.
WaitForRunning(s) ==
  /\ src[s].pc = "waiting"
  /\ sched.latestRunning >= src[s].ts - 2 * MaxOffset
  /\ \/ /\ ~IsRunning(src[s].ts)
        /\ src' = [src EXCEPT ![s].pc = "idle"]
     \/ \E i \in Steps :
          /\ isTimestampRunning(sched, src[s].ts, i)
          /\ src' = [src EXCEPT ![s].pc = "found", ![s].step = i]
  /\ UNCHANGED <<schedVars, taskVars, appVars>>

\* ... and under flow_mutex_, where a cancelled buffer is refused.
ClaimSourceBuffer(s) ==
  LET i == src[s].step
  IN /\ src[s].pc = "found"
     /\ IF s \in sched.setInput[i]
        THEN /\ src' = [src EXCEPT ![s].pc = "idle"]
             /\ UNCHANGED sched
        ELSE /\ src' = [src EXCEPT ![s].pc = "holding"]
             /\ sched' = [sched EXCEPT !.setInput[i] = @ \cup {s}]
     /\ UNCHANGED <<requestVars, stopScheduled, finished,
                    taskVars, appVars>>

\* The source writes its value and commits the buffer.
Commit(s) ==
  /\ src[s].pc = "holding"
  /\ sched' = commit(sched, s, src[s].step, src[s].ts)
  /\ src' = [src EXCEPT ![s].pc = "idle"]
  /\ UNCHANGED <<requestVars, stopScheduled, finished,
                 taskVars, appVars>>

\* The loop of a player ends: running_ was cleared, or the end of its file.
PlayerExit(s) ==
  /\ s \in Players
  /\ src[s].pc = "idle"
  /\ src' = [src EXCEPT ![s].pc = "off", ![s].run = FALSE]
  /\ UNCHANGED <<schedVars, taskVars, appVars>>

-----------------------------------------------------------------------------
(* The tasks of the taskflow. *)

\* The condition task between two rounds of a time step.
SeamEntry(i) ==
  /\ app # "new"
  /\ phase[i] = "seam"
  /\ phase' = [phase EXCEPT ![i] =
                 IF sched.event[i].type = "DATAFLOW_STOP" THEN "stopped" ELSE "run"]
  /\ UNCHANGED <<schedVars, done, ringVars, sink, src, appVars>>

\* Mutant: the seam looks at the time step that was loaded last.
Stopped_latest(d) ==
  \E i \in Steps : i = d.latest /\ d.event[i].type = "DATAFLOW_STOP"

Stopped(d) == d.event[0].type = "DATAFLOW_STOP"

\* The chain of a serial task goes from the last time step back to the first
\* through a seam of its own, which ends the chain when it finds a
\* DATAFLOW_STOP in time step 0.  It does so at once ...
AfterTask(d, r, i) ==
  IF i = TimeStepCount - 1 /\ Stopped(d) THEN cut \cup {r} ELSE cut

\* ... or, as the seam is a task that may be delayed, some time later.
SerialSeam(r) ==
  /\ Stopped(sched)
  /\ r \notin cut
  /\ CASE r = "sink" -> sinkTurn = 0
       [] r = "end" -> endTurn = 0
       [] OTHER -> sourceTurn[r] = 0
  /\ cut' = cut \cup {r}
  /\ UNCHANGED <<schedVars, phase, done, sourceTurn, sinkTurn, endTurn, sink,
                 src, appVars>>

\* The same seam of the start tasks, which do nothing else.
StartSeam ==
  /\ Stopped(sched)
  /\ phase[0] = "run"
  /\ done[0] = {}
  /\ phase' = [phase EXCEPT ![0] = "stopped"]
  /\ UNCHANGED <<schedVars, done, ringVars, sink, src, appVars>>

\* The source task of s in time step i has been started.
SourceActive(s, i) ==
  /\ phase[i] = "run"
  /\ s \notin done[i]
  /\ sourceTurn[s] = i
  /\ s \notin cut

SinkActive(i) ==
  /\ phase[i] = "run"
  /\ done[i] = Sources
  /\ sinkTurn = i
  /\ "sink" \notin cut

EndActive(i) ==
  /\ phase[i] = "end"
  /\ endTurn = i
  /\ "end" \notin cut

\* ... and has its lock.
SourceReady(s, i) == SourceActive(s, i) /\ s \in sched.lock[i]

\* FilePlayer::stop clears running_ and then joins the thread.
StopPlayer(s, i) ==
  /\ SourceReady(s, i)
  /\ s \in Players
  /\ sched.event[i].type = "STOP"
  /\ src[s].run
  /\ src' = [src EXCEPT ![s].run = FALSE]
  /\ UNCHANGED <<schedVars, taskVars, appVars>>

\* The call of the component.  START creates a player's thread (over a running
\* one that would be std::terminate), STOP has joined it.
SourceTask(s, i) ==
  /\ SourceReady(s, i)
  /\ s \in Players /\ sched.event[i].type \in {"START", "STOP"} => src[s].pc = "off"
  /\ done' = [done EXCEPT ![i] = @ \cup {s}]
  /\ sourceTurn' = [sourceTurn EXCEPT ![s] = NextTimeStep(i)]
  /\ cut' = AfterTask(sched, s, i)
  /\ src' = IF s \in Players /\ sched.event[i].type = "START"
            THEN [src EXCEPT ![s].pc = "idle", ![s].run = TRUE] ELSE src
  /\ UNCHANGED <<schedVars, phase, sinkTurn, endTurn, sink, appVars>>

\* The sink is called when every source of the time step has delivered.
SinkTask(i) ==
  /\ SinkActive(i)
  /\ phase' = [phase EXCEPT ![i] = "end"]
  /\ sinkTurn' = NextTimeStep(i)
  /\ cut' = AfterTask(sched, "sink", i)
  /\ sink' = IF sched.event[i].type = "DATAFLOW_STOP" THEN sink
             ELSE [type |-> sched.event[i].type,
                   ts |-> IF sched.event[i].type = "DATA"
                          THEN sched.event[i].ts ELSE sink.ts]
  /\ UNCHANGED <<schedVars, done, sourceTurn, endTurn, src, appVars>>

\* Mutants: a case of the switch is missing.
FinishedEvent_noStart(d, i) ==
  {d.event[i].type} \cap {"CONFIGURE", "STOP", "TEARDOWN"}
FinishedEvent_noStop(d, i) ==
  {d.event[i].type} \cap {"CONFIGURE", "START", "TEARDOWN"}

\* The flag timeStepEnded sets; it looks at the event after freeing the step.
FinishedEvent(d, i) ==
  {d.event[i].type} \cap {"CONFIGURE", "START", "STOP", "TEARDOWN"}

timeStepEnded(i) ==
  /\ EndActive(i)
  /\ RequestMutexFree
  /\ sched' = freeTimeStep(sched, i)
  /\ finished' = finished \cup FinishedEvent(sched', i)
  /\ phase' = [phase EXCEPT ![i] = "seam"]
  /\ done' = [done EXCEPT ![i] = {}]
  /\ endTurn' = NextTimeStep(i)
  /\ cut' = AfterTask(sched', "end", i)
  /\ UNCHANGED <<requestVars, stopScheduled, sourceTurn, sinkTurn,
                 sink, src, appVars>>

-----------------------------------------------------------------------------
(* The application: start(), stop(), and parameter changes from anywhere. *)

AppStep(from, to) == app = from /\ app' = to

\* Mutant: stop_scheduled_ is not set.
scheduleNonDataEvent_noFlag(type) ==
  /\ RequestMutexFree
  /\ sched' = scheduleEvent(sched, type, kTimestampZero)
  /\ UNCHANGED <<stopScheduled, requestVars, finished, taskVars, src, flushed, params>>

scheduleNonDataEvent(type) ==
  /\ RequestMutexFree
  /\ sched' = scheduleEvent(sched, type, kTimestampZero)
  /\ stopScheduled' = (stopScheduled \/ type = "STOP")
  /\ UNCHANGED <<requestVars, finished, taskVars, src, flushed, params>>

\* executor_.run
AppLaunch ==
  /\ AppStep("new", "launched")
  /\ UNCHANGED <<schedVars, taskVars, src, flushed, params>>

AppConfigure ==
  AppStep("launched", "configuring") /\ scheduleNonDataEvent("CONFIGURE")

AppStart ==
  /\ "CONFIGURE" \in finished
  /\ AppStep("configuring", "starting") /\ scheduleNonDataEvent("START")

\* start() returns.
AppStarted ==
  /\ "START" \in finished
  /\ AppStep("starting", "running")
  /\ UNCHANGED <<schedVars, taskVars, src, flushed, params>>

AppStop ==
  AppStep("running", "stopping") /\ scheduleNonDataEvent("STOP")

\* STOP did not finish in time: the input of every source is cancelled.
AppStopTimeout ==
  /\ StopTimeouts
  /\ "STOP" \notin finished
  /\ AppStep("stopping", "cancelled")
  /\ sched' = cancelSources(sched, Sources, Now)
  /\ UNCHANGED <<requestVars, stopScheduled, finished, taskVars,
                 src, flushed, params>>

AppTeardown ==
  /\ \/ AppStep("cancelled", "tearing")
     \/ AppStep("stopping", "tearing") /\ "STOP" \in finished
  /\ scheduleNonDataEvent("TEARDOWN")

AppTornDown ==
  /\ "TEARDOWN" \in finished
  /\ AppStep("tearing", "flushing")
  /\ UNCHANGED <<schedVars, taskVars, src, flushed, params>>

\* One DATAFLOW_STOP for every time step, without request_mutex_.
AppFlush ==
  /\ app = "flushing"
  /\ flushed < TimeStepCount
  /\ sched' = scheduleEvent(sched, "DATAFLOW_STOP", kTimestampZero)
  /\ flushed' = flushed + 1
  /\ UNCHANGED <<requestVars, stopScheduled, finished, taskVars,
                 src, app, params>>

\* The executor has no task left that runs or could run; a source task that
\* waits for its lock runs.
TaskflowFinished ==
  /\ app # "new"
  /\ \A i \in Steps :
       /\ phase[i] # "seam"
       /\ ~SinkActive(i)
       /\ ~EndActive(i)
       /\ \A s \in Sources : ~SourceActive(s, i)

\* stop() returns: the taskflow has ended or not within kDataflowStopTimeout; the
\* thread that waits for the STOP event has ended, its future's destructor joins.
AppFinish ==
  /\ flushed = TimeStepCount
  /\ TaskflowFinished \/ StopTimeouts
  /\ "STOP" \in finished
  /\ AppStep("flushing", "done")
  /\ UNCHANGED <<schedVars, taskVars, src, flushed, params>>

\* parameterChanged takes flow_mutex_ only.
ParameterChanged ==
  /\ app \in ParamPhases
  /\ params < MaxParams
  /\ sched' = scheduleEvent(sched, "PARAMETER_CHANGE", kTimestampZero)
  /\ params' = params + 1
  /\ UNCHANGED <<requestVars, stopScheduled, finished, taskVars,
                 src, app, flushed>>

-----------------------------------------------------------------------------

SourceNext(s) ==
  \/ \E ts \in Timestamps : RequestSourceBuffer(s, ts)
  \/ Padding(s) \/ PaddingDone(s)
  \/ WaitForRunning(s) \/ ClaimSourceBuffer(s) \/ Commit(s)
  \/ PlayerExit(s)

TaskflowNext(i) ==
  \/ SeamEntry(i)
  \/ \E s \in Sources : StopPlayer(s, i) \/ SourceTask(s, i)
  \/ SinkTask(i)
  \/ timeStepEnded(i)

AppNext ==
  \/ AppLaunch \/ AppConfigure \/ AppStart \/ AppStarted
  \/ AppStop \/ AppStopTimeout \/ AppTeardown \/ AppTornDown \/ AppFlush
  \/ AppFinish

\* A future_error is only recorded (sched.thrown): what the program does after
\* one that leaves the taskflow is not modelled.
Next ==
  \/ \E s \in Sources : SourceNext(s)
  \/ \E i \in Steps : TaskflowNext(i)
  \/ \E r \in Rings : SerialSeam(r)
  \/ StartSeam
  \/ AppNext
  \/ ParameterChanged

Spec == Init /\ [][Next]_vars

-----------------------------------------------------------------------------
(* Fairness.  The executor runs every task that can run (the seams need no *)
(* fairness: SerialSeam and StartSeam are the late reads).  A thread inside a *)
(* request, and the application inside start() and stop(), go on whenever   *)
(* what they wait for has happened; kDataflowStopTimeout expires.  Nothing  *)
(* makes the application stop, change parameters, or a sensor deliver.      *)

SourceProgress(s) ==
  \/ Padding(s) \/ PaddingDone(s)
  \/ WaitForRunning(s) \/ ClaimSourceBuffer(s) \/ Commit(s)
  \/ ~src[s].run /\ PlayerExit(s)

AppProgress ==
  \/ AppLaunch \/ AppConfigure \/ AppStart \/ AppStarted
  \/ AppStopTimeout \/ AppTeardown \/ AppTornDown \/ AppFlush \/ AppFinish

Fairness ==
  /\ \A i \in Steps : WF_vars(TaskflowNext(i))
  /\ \A s \in Sources : WF_vars(SourceProgress(s))
  /\ WF_vars(AppProgress)

FairSpec == Spec /\ Fairness

\* Sensors that deliver as long as there are timestamps to deliver.
LiveSensors ==
  \A s \in Sources :
    WF_vars(\E ts \in Timestamps : RequestSourceBuffer(s, ts))

LiveSpec == FairSpec /\ LiveSensors
-----------------------------------------------------------------------------
(* What the time domain promises. *)

\* The distance from time step e to time step i along the ring.
RingDistance(e, i) == IF i >= e THEN i - e ELSE i - e + TimeStepCount

InUse(d) == TimeStepCount - d.free

\* The running time steps are the InUse(d) steps that follow each other from e,
\* the next one is loaded next, and messages queue only when all are in use.
Window(d, e) ==
  /\ \A i \in Steps : d.running[i] <=> RingDistance(e, i) < InUse(d)
  /\ RingDistance(e, NextTimeStep(d.latest)) = IF d.free = 0 THEN 0 ELSE InUse(d)
  /\ d.queue # <<>> => d.free = 0

\* The asserts of runTaskFlowFromQueue and scheduleDataEventImmediately never
\* fail: no event is loaded into a time step that still runs another one.
NeverOverrun == ~sched.overrun

\* The running time steps are one window of the ring that begins at the step
\* whose end task is next (timeStepEnded) and ends before the one that is loaded
\* next, its length is what free_taskflows_semaphore_ says, and events only queue
\* when it is full.
RingWindow == Window(sched, endTurn)

\* No promise of a source buffer is set twice (SourceComponentBuffer::commit):
\* nothing in the taskflow or in a source thread throws std::future_error.
NoFutureError == ~sched.thrown

\* A source that was given a buffer still has it: its time step runs the frame
\* that the source asked for, and nobody else has committed the buffer.
BufferMatchesRequest ==
  \A s \in Sources : src[s].pc = "holding" =>
    LET i == src[s].step
    IN /\ sched.running[i]
       /\ sched.event[i].type = "DATA"
       /\ isWithinRange(sched.event[i].ts, src[s].ts)
       /\ s \notin sched.lock[i]

\* A source that waits for its frame (requestSourceBufferScheduled) waits for
\* something that will happen: the frame is queued, or the wait is over.
WaitingIsScheduled ==
  \A s \in Sources : src[s].pc = "waiting" =>
    \/ sched.latestRunning >= src[s].ts - 2 * MaxOffset
    \/ isTimestampScheduled(sched, src[s].ts)

\* All the data that the components see in one time step belongs to the frame
\* of that time step, whatever order the sources delivered in.
FrameSynchronised ==
  \A i \in Steps : \A s \in done[i] :
    \/ sched.event[i].type # "DATA"
    \/ sched.data[i][s] = kTimestampZero
    \/ isWithinRange(sched.event[i].ts, sched.data[i][s])

\* MissingSourceEventMode::WAIT_FOR_EVENT: a frame goes ahead without the data
\* of a source only when that source has moved on to a later frame.
OnlySelfCancel ==
  \A i \in Steps : \A s \in done[i] :
    sched.event[i].type = "DATA" /\ sched.data[i][s] = kTimestampZero
      => IsOlder(sched.event[i].ts, src[s].ts)

\* The padding loop does not run past the timestamp it is looking for.
PaddingNeverOvershoots ==
  \A s \in Sources : src[s].pc = "pad" =>
    src[s].ts + MaxOffset >= clock.expected - MaxOffset

\* A call of the sink, after the last one.
SinkCalled ==
  LET before == sink.type
      after == sink'.type
  IN CASE after = "CONFIGURE" -> before = "INVALID"
       [] after = "START" -> before = "CONFIGURE"
       [] after = "DATA" -> before \in {"START", "DATA", "PARAMETER_CHANGE"}
                            /\ sink'.ts > sink.ts
       [] after = "PARAMETER_CHANGE" -> before \in {"START", "DATA", "PARAMETER_CHANGE"}
       [] after = "STOP" -> before \in {"START", "DATA", "PARAMETER_CHANGE"}
       [] after = "TEARDOWN" -> before = "STOP"

\* The sink is configured, started, given frames in the order of their
\* timestamps, stopped and torn down, in this order and each once.
SinkOrder == [][sink' # sink => SinkCalled]_vars

\* The taskflow does not end before the sink is torn down, although the seams
\* of the task chains all look at the event of time step 0 only.
EndsAfterTeardown == TaskflowFinished => sink.type = "TEARDOWN"

\* start() returns.
StartReturns == app = "starting" ~> app = "running"

\* stop() returns, with the taskflow ended.
StopReturns == app = "stopping" ~> app = "done"

\* Once stop() was called the taskflow comes to its end.
TaskflowEnds == app = "stopping" ~> TaskflowFinished

\* Every request is answered, with a buffer or a refusal.
RequestAnswered ==
  \A s \in Sources : src[s].pc \in {"pad", "waiting"} ~> src[s].pc \in {"idle", "holding"}
=============================================================================
