# A TLA+ verification of traact_core

traact_core runs graphs of components (sensors, filters, sinks) over
synchronised frames of sensor data.  An application describes a dataflow; the
facade loads it, makes a taskflow of it for each *time domain*, and starts, feeds
and stops it from several threads.  Inside a time domain several source threads ask
for buffers of a frame, a scheduler assigns frames to a ring of time steps, and the
taskflow works on all time steps of the ring in parallel while every component must
still see its frames in order.  This directory models the way from the description
of a dataflow to the end of its life, checks it with TLC and proves its main safety
properties with TLAPS for any size.

Paths below are relative to `src/src/traact/` unless they begin with `include/`
(then `src/include/`).

## 1. Inventory

| Component | State | Operations | Interacts with | Module |
|---|---|---|---|---|
| patterns (`pattern/Pattern`) | ports, port groups, parameters, type, concurrency | the calls of a `GetPattern` | graph instance | `Pattern` |
| graph instance (`pattern/instance`, `component/ComponentGraph`) | instances, connections, parameters | `addPattern`, `addPortGroup`, `setParameter`, `connect`, `checkRunnable` | facade, buffers | `GraphInstance` |
| serialization (`serialization`) | | write, read | graph instance | `JsonGraph` |
| time domain buffer, time step buffers, component buffers (`buffer`) | slots, index tables, validity, event, locks | `init`, `resetNewEvent`, views | graph builders, tasks | `GraphInstance`, `TaskFlowGraph`, `TaskFlowInFlowScheduler` |
| source buffers (`buffer/SourceComponentBuffer`) | promise, port state | `commit`, `cancel`, `resetLock` | sources, source tasks | `TaskFlowInFlowScheduler` |
| task graph builders (`dataflow/graph`) | tasks and dependencies | build | taskflow builder | `TaskFlowGraph` |
| taskflow of a time domain (`dataflow/taskflow/builder`) | nodes, seams, condition tasks | the tasks | executor | `TaskFlowGraph`, `TimeDomain` |
| in-flow scheduler (`dataflow/taskflow/TaskFlowInFlowScheduler`) | message queue, semaphore of free time steps, running flags and timestamps, claimed inputs, finished flags, `stop_scheduled_` | `start`, `stop`, `requestSourceBuffer`, `timeStepEnded`, `parameterChanged` | sources, tasks, application | `TaskFlowInFlowScheduler`, `TimeDomain` |
| time domain clock (`dataflow/taskflow/TimeDomainClock`) | initial, current and expected timestamp, frame distance | `newTimestamp`, `advanceTimeStep`, three classifications | scheduler | `TimeDomainClock` |
| synchronisation primitives (`include/traact/util/Semaphore.h`) | counts, flags, latest timestamp | notify, wait | scheduler | as the scheduler uses them |
| taskflow time domain and network (`dataflow/taskflow`) | time domains, `running_`, `stop_called_` | start, stop | facade | `Facade` |
| facade (`facade/Facade`) | `should_stop_`, `running_`, `stop_thread_`, the finished promise, the network | load, `start`, `blockingStart`, `stop`, `stopAsync`, destructor | owner, sources, signal handler | `Facade` |
| application sources, file players (`include/traact/component/generic`) | thread, `running_` | `newValue`, thread loop, join | scheduler | `TimeDomain`, `Facade` |
| global player, modules (`component/PlayerBaseComponent`, `component/ModuleComponent`) | thread, `outputs_`, `events_` | init, start, stop, thread loop | taskflow | `GlobalPlayer` |
| user events, file readers and writers, application sinks (`userEvent`, `include/traact/component/generic`) | `event_`, `value_`, files | fire, process, configure, stop | taskflow, application | `GenericComponents` |
| dataflow state and profiler, circular buffer (`dataflow/state`) | event lists per worker, task states, measurements | observer, `getData`, `update` | executor | `Profiler` |
| TBB backend, plugin factory, utilities, console | | | | not modelled |

What is hard here:

* **Interleaving.**  Two mutexes (`request_mutex_`, `flow_mutex_`) guard the
  scheduler, but a buffer is filled after both are released, in a deferred future.
* **Ordering.**  Ring, queue, semaphore, promises and chains of serial tasks must
  together act as one queue.
* **Life cycle.**  CONFIGURE, START, STOP and TEARDOWN travel through the same ring
  as frames; the taskflow ends only when each of its condition tasks has seen a
  DATAFLOW_STOP.
* **Time.**  Frames are identified by intervals of timestamps, expected timestamps
  are predicted, missing frames are padded.
* **Construction.**  Indices of ports, slots and tasks are computed in several places
  and must agree; the dependencies of a component must survive its move into a module
  or a CUDA graph.
* **Ending.**  stop() may be called by the owner, by a source, by a signal and by the
  destructor, while player threads still run.
* **Giving up.**  A source that moves on, a CANCEL_OLDEST domain and a stop that
  times out hand over buffers on behalf of a source.  A stop that times out again
  returns while the taskflow runs, and what it runs on is then destroyed.

`PROJECT.json` lists each hazard at its line with the properties that cover it.

## 2. Modules

| Module | Models |
|---|---|
| `TimeDomainClock` | the class of that name, as operators on a record |
| `TaskFlowInFlowScheduler` | the data of the scheduler and the bodies of its critical sections, as operators on a record |
| `TimeDomain` | the running system: source threads, tasks, application; its properties |
| `EventPipeline` | the abstract specification: a bounded queue of events |
| `TimeDomainRefinement` | the mapping under which `TimeDomain` implements `EventPipeline` |
| `TimeDomainInvariant` | the inductive invariant `BufferInv`, and those of padding and cancelling |
| `TimeDomainOrder` | the inductive invariants behind the order of frames and events |
| `TimeDomainProofs` | type correctness |
| `BufferSafetyProofs` | ring and buffer safety, padding, cancelled inputs |
| `PipelineProofs` | `TimeDomain` implements `EventPipeline`, step by step; the order of the sink's events and the end of the taskflow |
| `FrameProofs` | no source waits in vain, no promise is set twice |
| `MCTimeDomain` | model values and symmetry for TLC |
| `GlobalPlayer` | the thread that replays the recordings of all player components |
| `Facade` | the life of a facade with its threads; contains `GlobalPlayer` |
| `FacadeProofs` | the order and completeness of a replay, the safety of stopping, the end of all threads but the global player's |
| `Pattern` | building a pattern |
| `GraphInstance` | describing a dataflow, and the buffers made from it |
| `JsonGraph` | writing and reading a dataflow |
| `TaskFlowGraph` | building the taskflow of a dataflow, and executing it |
| `GraphProofs` | connections form no loop, a written dataflow is read back |
| `FlowProofs` | the safety of executing any dataflow |
| `MCTaskFlowGraph` | the patterns and dataflows for TLC |
| `GenericComponents` | components that keep data between frames, over several runs of a program |
| `GenericProofs` | what they keep, for any ring and any number of frames |
| `Profiler`, `MCProfiler` | the profiler beside its workers |

`GlobalPlayer` is extended by `Facade`, whose taskflow calls its operations.  `Pattern`,
`GraphInstance`, `JsonGraph` and `TaskFlowGraph` extend one another in this order: the
last one executes what the others describe.  `Facade`, `GenericComponents` and
`TaskFlowGraph` see a time domain as what the more detailed module shows it to be: a
queue of events (`EventPipeline`) that serial components handle one after the other
(`SerialInOrder`).

### How the model corresponds to the code: the time domain

*State.*  `sched` has the members `flow_mutex_` guards and the part of the buffers
the scheduler writes, field by field (the list is at the head of
`TaskFlowInFlowScheduler`).  `src[s]` is the thread of a source: `pc` is where it
is in a request, `ts` the last timestamp it asked for, `step` the time step it was
given, `run` a player's `running_`.  `phase`, `done`, `sourceTurn`, `sinkTurn`,
`endTurn` and `cut` are the progress of the tasks.  `app` is where the application
is in `start()` or `stop()`.

*Data.*  A value is the timestamp it was requested for; `kTimestampZero` is an
invalid port.  A time step's event is its type and timestamp.

*Actions.*  An action is a critical section or a task:

* `requestSourceBuffer` holds `request_mutex_` throughout, and takes `flow_mutex_`
  for each part.  No time step is freed in between, as `timeStepEnded` takes
  `request_mutex_` too.  What takes only `flow_mutex_` (a claim, a parameter change,
  a DATAFLOW_STOP, the cancellation after a timeout) and falls between two parts has
  the same effect before the request: it loads or queues events without a
  timestamp, which no look-up finds, or adds to the inputs that are set.  A request is
  therefore one action per outcome (`RequestInvalid`, `RequestRunning`, `RequestScheduled`,
  `RequestAfterStop`, `RequestNewTimestampWait`, `RequestNewTimestampImmediate`).
  Only the padding loop is split, one action per iteration, with the mutex held.
* `WaitForRunning`, `ClaimSourceBuffer` and `Commit` are the deferred future and the
  caller's commit: waiting and searching happen without a lock, claiming under
  `flow_mutex_`, committing without a lock again.
* `SeamEntry`, `SourceTask`, `SinkTask` and `timeStepEnded` are the tasks of a time
  step.  A serial component has a chain of tasks through the ring, closed by a
  condition task (*seam*) that reads the event of time step 0.  The seam runs right
  after the task of the last time step (`AfterTask`) or is delayed and reads a
  DATAFLOW_STOP that arrived meanwhile (`SerialSeam`, `StartSeam`).  At the launch
  the buffers are INVALID, so no chain starts cut.  Start tasks do nothing and need
  no turn of their own: the sources' turns imply theirs.
* A flag is set in the action of `timeStepEnded`, from the event that the time step
  has *after* `freeTimeStep`, as in the code.  Between the two `flow_mutex_` is free,
  and a parameter change could take the time step; the runs change parameters only
  while the application is in neither `start()` nor `stop()`, when no flag is due.
* `AppStop` schedules STOP at once; a timeout that expires while the thread of
  `std::async` is still waiting for `request_mutex_` is not modelled.
* `StopPlayer` and `SourceTask` are the two halves of `FilePlayer::stop`: clear
  `running_`, join.  A START over a player thread that still exists would be
  `std::terminate`; the model waits instead.
* `AppFinish` is the end of `stop()`: it waits for the taskflow with a timeout, and
  the destructor of the `std::async` future joins the thread that waits for STOP.

*One sink* stands for everything downstream of the sources: components between
source and sink are called in the same order by the same kind of chain.

*Left out:* DATAFLOW_NO_OP (never scheduled), logging, statistics, the callback
that only logs.  After a `std::future_error` the run goes on with `sched.thrown`
set; what the program does after one leaves the taskflow is not modelled.

*Environment.*  `Timestamps`, `MinGap`, `MaxSkip` say what sensors deliver,
`Persistent` which applications go on after a refusal at the stop (players always
do, their loop ends with `running_` or with the file), `RequestPhases` when
application sources call `newValue`, `ParamPhases` and `MaxParams` parameter
changes, `StopTimeouts` and `Now` whether `kDataflowStopTimeout` may expire and the
time at which it does.  Timestamps are larger than `2 * MaxOffset`, as a wall clock
is: otherwise they would match the zero timestamp of an empty time step.

### How the model corresponds to the code: the other modules

*`Facade`.*  `main` is where the owner's program is: `blockingStart` (the console),
`start()` with the future (an application), or start, stop and delete (the tests).
`call[t]` is thread `t` inside `stop()` or `network_->stop()`: "lock" is the critical
section of `stop_lock_`, "check" and "set" the flags of `TaskFlowTimeDomain::stop`, "flag"
the rest of `stop()`; the others are inside `TaskFlowInFlowScheduler::stop`.  The handler of
Ctrl-C runs on the main thread, which stands still meanwhile; it calls `stop()` on a
facade that exists.

A time domain is a queue of events (`queue[d]`), of which the first `RingSize` are in time
steps.  A frame `owed` by a source has no input from it yet.  `OpenFrame` and `Deliver` are a
source's request and commit for a new frame and for one that is there; a request gives up what
the source owes to older frames (`SetInput`), and opens nothing once STOP is scheduled.  A source
that has ended, by `setSourceFinished` or at the end of a player's file, never delivers again.
`FlowRuns` ends the oldest time step when nothing is owed in it: the components have then
seen its event.  The flag that `start()` or `stop()` waits for is set by `FlagOf` as
`timeStepEnded` does it, from the event that the time step has after `freeTimeStep`, so it is set
when an event is loaded into a full ring, and may be set for the event behind the one that is meant.
`StartSources` and `PlayerStop` are what START and STOP do to the sources before their
time step ends; `FilePlayer::stop` is two steps, clearing `running_` and joining.

`TaskFlowInFlowScheduler::stop` is `SetStopCalled` (which schedules STOP), then four steps:

* `StopTimesOut`: `kDataflowStopTimeout` expires before the flag of STOP is set, and whatever
  the frames owe is given up for every source (lines 137-147);
* `Teardown`: TEARDOWN is scheduled, after the flag of STOP or after that timeout;
* `EndFlow`: the flag of TEARDOWN, which is waited for without limit, is set and the DATAFLOW_STOP
  events are scheduled;
* `FlowAwaited`: the taskflow has ended, or it has not and `kDataflowStopTimeout` expires (lines
  160-166); `domain[d].gaveUp` notes the second case.  The thread of `std::async` is joined when
  its future is destroyed, which needs the flag of STOP.

`~Facade` begins to release the network (`DestructorReleases`).  Mutexes and queue of a
scheduler are destroyed before its `executor_`, whose destructor waits for the taskflow; a
taskflow that still runs may use them.  That is undefined: the program crashes
(`ReleaseCrashes`) or goes on, and then the destructor waits (`DestructorResets`) and goes on to
the components and `stop_thread_`.  `Stuck` names the states in which `stop()` or the destructor
waits for what never comes.

*Environment.*  Finishing sources are in the last time domain; one that ends while a later time
domain has not yet been started is described below.  Parameters are changed while the
application works, also during a stop that a source has asked for, but no longer once
DATAFLOW_STOP is scheduled (hazard at `:718`).  A START over a player's thread that was not
joined would be `std::terminate`; the model waits instead.  A player's thread may end at any
moment, with its file (`PlayerEnds`), and does end after `running_` was cleared: by then every
frame before STOP is in a time step, so it waits for none.

*`GlobalPlayer`.*  A recording is a set of timestamps, the queue `events_` a set; of
equal timestamps any may be first.  The clock is abstracted to "the event is sent at
its time".

*`Pattern` to `JsonGraph`.*  An action is one call of the application.  A port is its
place (instance, group, number in the group, direction, position), the slot of a
producer port is its number in the time step's buffer.  `loadDataflow` reads the
written form back; it is enabled for graphs with at least `LoadedWith`, and executes
those with exactly the links of `Executed`.  Coordinate systems are not written by the
code and left out.

*`TaskFlowGraph`.*  `Tasks` and `TaskEdges` (with `ModuleEdges` and `CudaEdges`) are the
graph of one time step; `FlowEdges`, `Rings` and `FlowSeams` copy it through the ring, as
edges between nodes.  The library taskflow counts strong predecessors; a condition task (a
seam) has weak successors.  `start` launches the taskflow, `LoadEvent` is the scheduler,
`RunNode` and `SeamEntry` are the tasks, `Deliver` is a source.  `LoadEvent` pauses only
for the end of CONFIGURE, which is less than the scheduler pauses, so every order of
events that `TimeDomain` has is there.  A task that waits for its source
(`WaitForSource`, code `TaskFlowSourceTask`) keeps its worker.

*`Profiler`.*  Events of the observer are appended to the list of the worker; `update`
is split at the lock of each worker.  No two timestamps are equal.

*`GenericComponents`.*  One dataflow with each kind of component; `Restart` ends the
program anywhere and begins a new one with the files as they are.  A reader overlapping
with a writer may see either value.

## 3. Runs

The runs of the time domain instantiate `MCTimeDomain` with two sources and (but for one) two time
steps, which is the least for which two sources differ, the ring wraps and a time
step can be freed while another runs.  Three frames suffice to have one in each
time step and one in the queue; each of these runs fills the ring, queues, wraps and
goes through the whole life cycle.  Where a cfg says `CHECK_DEADLOCK FALSE` the system
stops, or, in `facade` and `replay`, may hang in `start()` or `stop()` as the code does
(see below); `generic` checks for deadlock.

| Run | Setting | Properties |
|---|---|---|
| `frames` | exact timestamps, WAIT_FOR_BUFFER, WAIT_FOR_EVENT, one frame may be missed; sensors go on delivering | `TypeOK`, `NoFutureError`, `OnlySelfCancel`, `PaddingNeverOvershoots`, `EndsAfterTeardown`, `SinkOrder`, `StartReturns`, `StopReturns`, `RequestAnswered` |
| `jitter` | a file player and an application source, timestamps off by `max_offset`, four frames, so that each time step is used twice for frames | `BufferInv`, `BufferMatchesRequest`, `FrameSynchronised`, `ImplementsPipeline` |
| `immediate` | IMMEDIATE_RETURN, four frames, a parameter change | `NeverOverrun`, `RingWindow` |
| `cancelled` | CANCEL_OLDEST and a stop that times out | `WaitingIsScheduled` |
| `facade` | two time domains of three time steps, the second with a file player and a source that ends; three frames; all three programs; Ctrl-C while loading, creating, starting or waiting; a parameter change; both stop timeouts may expire | `TypeOK`, `PromiseSetOnce`, `NoUseAfterReset`, `NoThreadLeft`, `StopEndsProgram` |
| `replay` | one time domain, two recordings with timestamps out of two | `SameOffset`, `ReplayComplete`, `ReplayOrder` |
| `dataflow` | six instances (camera, mixer with a port group, two CUDA filters, clock, display), added in any order and with any legal links; two time steps, two workers, one frame | `TypeOK`, `NoLoop`, `RoundTrip`, `Wired`, `OwnSourceBuffer`, `InputsStable`, `SerialInOrder`, `StepComplete`, `FreshData`, `FlowEnds` |
| `profiler` | two workers, a time step and its seams three times, three events per update | `TypeOK`, `LatestMeasurements`, `Recovers` |
| `generic` | two time steps, two frames, two user events, a parameter change, two runs of the program | `EventOnce`, `ReadWindow`, `Recorded` |

Properties in words:

* `NeverOverrun`, `RingWindow`: the scheduler's assertions hold, and the semaphore,
  the running flags, the index of the latest time step and the end task's turn
  always describe the same window of the ring.
* `BufferMatchesRequest`: a source that was given a buffer has it until it commits.
* `FrameSynchronised`: no component sees data of two frames in one time step.
* `NoFutureError`: no promise is set twice.
* `WaitingIsScheduled`: a source waits only for a frame that will be loaded.
* `OnlySelfCancel`: in WAIT_FOR_EVENT a frame lacks a source's data only if that
  source moved on.
* `PaddingNeverOvershoots`: the padding loop stays behind the timestamp it is for.
* `SinkOrder`, `ImplementsPipeline`: components see every event once and in order.
* `EndsAfterTeardown`: the taskflow cannot end early although its seams read only
  time step 0.
* `StartReturns`, `StopReturns`, `RequestAnswered`: nobody waits forever.
* `PromiseSetOnce`: however a dataflow is stopped, `finished_promise_` is set once.
* `NoUseAfterReset`: when the destructor releases the network nobody is inside
  `network_->stop()`, and a taskflow that still runs is one that its own `stop()` gave up.
* `NoThreadLeft`: a destructor that returns has left no taskflow running, no source on and no
  thread of `stopAsync` or of a file player unjoined.  The global player's thread, which
  nothing joins, is not meant.
* `StopEndsProgram`: a program that waits for the future and was asked to stop ends, also when
  the source that asked is the one that frames are waiting for, unless it is `Stuck`.
* `ReplayOrder`, `SameOffset`, `ReplayComplete`: recordings are merged in order, at
  their distances, to the last value.
* `NoLoop`: `connect` accepts no loop.  `RoundTrip`: a dataflow that is written and read
  back is the same.
* `Wired`: an input reads the slot of the port it is connected to, for every order of
  adding instances, groups and links.  `OwnSourceBuffer`: the index of a source component
  is its index in the list of source buffers.
* `InputsStable`: while a component runs, nobody writes what it reads.  `SerialInOrder`:
  a serial component sees one time step after the other.  `StepComplete`: a time step
  ends after all its components.  `FreshData`: an input is valid only if it was written
  for this event.  `FlowEnds`: the taskflow ends.
* `LatestMeasurements`: the measurements of a task are those of its last executions, each
  from its own start to its own end, unless a worker noted an event while `update` took
  the lists.  `Recovers`: after that a task is shown in its real state again as soon as its
  time step has been started anew.
* `EventOnce`: the application gets a fired event back at most once, in the order of
  firing.  `ReadWindow`: a reader that nothing orders behind the writer sees a value at
  most a ring away from its own frame.  `Recorded`: a recording holds every frame with a
  value once, in order.

Three runs show where the code does not do what it says.  They state a comment or
contract of the repository as the property; the findings in `PROJECT.json` quote
the lines.

| Run | Violates | What happens |
|---|---|---|
| `stale_commit` | `FrameSynchronised` | CANCEL_OLDEST: a cancelled buffer is handed out and filled after its time step was freed |
| `stop_hangs` | `TaskflowEnds` | `stop_finished_` is set when STOP is loaded, so the timeout that would cancel a silent sensor's input is skipped |
| `module_never_runs` | `ModuleRuns` | the end task of a module that constrains its components precedes itself, and precedes the start task of its own time step |

Met while modelling, without a run of their own.  The first five can be seen by giving
the constants of the run that is named other values and checking the property that is
named:

* *Padding* (`frames` with `MaxSkip = 2` and four timestamps,
  `WaitingIsScheduled`).  When all sources miss two
  frames in a row one padding event is scheduled, and the source waits for a frame that
  nobody scheduled (`TaskFlowInFlowScheduler.cpp:539`).
* *Retry after a refusal* (`frames` with `TimeStepCount = 1`, four timestamps and
  `Persistent` the sources, `NoFutureError`).  A
  source that tries again after a refusal, as `Component.h:120` tells it to, cancels the
  queued frames a second time and the promise is set twice (`:358`).
* *The same timestamp twice* (`frames` with `MinGap = 0`, `NoFutureError`).  The check for
  increasing timestamps ignores frames that another source opened (`:240`).
* *A player during START* (`frames` with `Players = {a}`, `StartReturns`).  Its frame is loaded
  into the time step of START before the flag is set, and start() waits forever (`:110`).
* *Too few workers* (`dataflow` with `Workers = 1`, `FlowEnds`).  Source tasks block the
  workers that execute them; with one worker the source task of the second time step
  keeps it while CONFIGURE waits in the first one.  `cpu_count` is used when it is
  positive, so one source and `cpu_count = 1` is enough.
* *Several time domains* (`facade` with other values of `Finishing` and `SignalPhases`).  A
  source that ends while start() has reached only the first time domain stops a later one
  between its CONFIGURE and its START (`Finishing = {0}`): start() waits forever for an event that
  no taskflow handles, or START is handled after STOP and the sources are left on (`NoThreadLeft`).
  A Ctrl-C while a time domain is being configured (`"configuring"` in `SignalPhases`) makes
  start() wait forever likewise.  Patterns index their own lists of types and
  concurrencies by the global time
  domain (`PatternInstance.cpp:111`, `:125`), `addTimeDomain` adds no concurrency
  (`Pattern.cpp:205`), and `PortInstance.cpp:46` refuses ports of a second time domain.
* *Release under a running taskflow* (within `facade`; `main.pc = "crashed"` is reached).  A
  source ends beside a player that goes on, and asks for the stop.  STOP is loaded when the first of
  three frames ends, and its flag is set then; TEARDOWN likewise with the second.  The third frame
  waits for the source that has ended, the wait of `TaskFlowInFlowScheduler.cpp:160` expires,
  and stop() returns with STOP not delivered.  The promise is set, the owner deletes the facade, and
  the network is released under the taskflow.  `NoUseAfterReset` states what is left: nothing else
  is used, and only when that wait has expired (`NothingRunsAfterReset`).  If the program survives,
  the destructor waits for that taskflow, in the model until its frame is complete, which may
  be never (`Stuck`).
* *stop() waits forever* (within `facade`, see `Stuck`).  With two frames in the way instead of
  three, it is TEARDOWN that stands behind the source that has ended; this is `stop_hangs` with a
  source that the program itself has told to end.  After a stop that timed out, STOP and
  TEARDOWN are in the ring together, the flag of STOP may be lost to the event loaded next,
  and the thread of `std::async` is joined forever.  As many parameter changes as there are
  time steps (`MaxParams >= RingSize`) while TEARDOWN is at work take its flag.
* *Frames during START* (within `facade`).  start() waits forever when the frames of a source
  take the flag of START, or wait for a source that has ended before the flag is set.
* *Facade.*  start() may overwrite the FALSE that a stop on another thread put into
  `running_`.  With a source that finishes while the owner is in `start(); stop();` and
  deletes the facade without waiting for the future, stop() returns at once and the
  destructor releases the network while the other thread is in it: the program `test`
  has no finishing source.  The console's Ctrl-C handler keeps a pointer to a deleted
  facade.  An exception in `loadDataflow` leaves a partial component graph.
* *Global player.*  Its thread is never joined and `running_` never cleared by stop(), so
  a module that is destroyed while it replays ends the program; a parameter change lists
  the component in `outputs_` twice; its first value may be sent before another
  component was started.
* *Buffers.*  `isInputGroupValid` uses the offset of the output groups
  (`ComponentBuffer.cpp:79`; nothing calls it).  An unknown data type adds no buffer and
  shifts the indices behind it.  A file reader marks its output valid without a value.
* *CUDA.*  A component that lies between two components of one CUDA graph, but is not part
  of it, makes a cycle of tasks (`CudaGraphBuilder.cpp:59`); a constrained module beside a
  CUDA graph throws.
* *Profiler.*  `resetTimeStep` also resets seam tasks that are running; their end is then
  reported as an error although nothing was wrong.
* The clock has weight 1.0 on its own frame distance.  A sensor a little slower than
  `sensor_frequency` leaves `max_offset` in the end; its timestamp then lies between
  two expected ones, the padding loop jumps over it and does not end, with
  `request_mutex_` held.
* IMMEDIATE_RETURN may refuse a frame to one source and accept it from the next, and
  may open an older frame after a newer one.  The code's comment names the missing
  bookkeeping; nothing promises more, so neither is stated as a property.

### Fairness

`Fairness` says that the executor runs tasks that can run (one weak fairness per
time step: taskflow's workers never leave a ready task), that a thread inside a
request and the application inside `start()` and `stop()` go on when what they wait
for has happened (condition variables and futures that are notified under their
mutex), and that a timeout expires.  Nothing makes a sensor deliver, a parameter
change or the application stop.  `LiveSpec` adds `LiveSensors`: sensors deliver while
the model has timestamps left.  Without it `stop()` rightly waits for a silent
sensor; only the timeout can end that, and `stop_hangs` is about it.

In `Facade` every thread goes on and the taskflow ends the oldest time step when nothing is owed in
it (operating system threads and workers).  A source that has not ended delivers to the oldest
frame or moves on; nothing makes one that has ended deliver.  START and STOP in a time step
reach the sources, and a player's thread that was told to end does.  Both stop timeouts may expire
at any time and, as the thread inside `stop()` goes on, the first one does while the flag of STOP is
not set.  Nothing makes the owner stop, a source end or a user press Ctrl-C, so `StopEndsProgram`
only speaks of programs that were asked to stop.  `Stuck` excepts four ways of waiting forever, all
of them possible in the code: for TEARDOWN behind a source that has ended when STOP has its flag
(then the timeout that would cancel is skipped), for a lost flag of TEARDOWN or of STOP, and, in the
destructor, for a taskflow that was given up.  What is left is the way the timeout of stop() is
for: without `CancelSources` the property fails.

In `dataflow` the workers and the scheduler go on, and sources deliver: `FlowEnds` is about
the taskflow alone.

### Bounds

* `facade`: two time domains are the least for which one is stopped while another starts
  or runs; a finishing source in the second one only, and no Ctrl-C while a time domain is
  being configured, see above.  `RingSize` and `MaxFrames` are three because that is the least
  for which STOP and TEARDOWN are both loaded while a frame is still incomplete, so that stop()
  gives up; with fewer time steps it only hangs.  `MaxFrames` bounds the events in the queue when
  a frame is opened, not the frames of a run.  One parameter change adds an event to every
  queue; three would be needed to take TEARDOWN's flag.  The second time domain has a source of
  each kind, the first has none and handles its events at once.  `PlayerComponents` is empty.
* `replay`: the thread of the global player does not depend on the sources, so one time step, one
  frame and no timeout suffice.
* `dataflow`: all descriptions of a dataflow are explored; those with at least the five
  instances of `LoadedWith` are loaded and those with the links `Executed` executed, as the
  execution does not depend on the order of the description.  Parameters are set when all
  is connected.  `Workers` is the number of sources plus one, the least with which the
  taskflow does not starve.  Two time steps have a ring, a seam and overlapping events.
* `profiler`: three rounds fill the buffer of two measurements and wrap it; `MaxPending`
  bounds what the workers do during one update.
* `generic`: two frames in two time steps overlap, two events make one replace the other,
  the second run of the program starts from the files of the first.

## 4. Proofs

Every theorem holds for every value of the constants that the modules' assumptions allow;
a hypothesis beyond these is part of the statement and is explained here.  The inductive
invariants were checked by TLC on the runs' instances before they were proved.

### The time domain

    TypeCorrect            Spec => []TypeOK
    BufferInvariant        Disciplined => (Spec => []BufferInv)
    RingIsSafe             Disciplined => (Spec => []NeverOverrun)
    RingStaysContiguous    Disciplined => (Spec => []RingWindow)
    BuffersMatchRequests   Disciplined => (Spec => []BufferMatchesRequest)
    FramesAreSynchronised  Disciplined => (Spec => []FrameSynchronised)
    PaddingStops           Disciplined /\ Synchronised => (Spec => []PaddingNeverOvershoots)
    OnlyTheSourceCancels   Disciplined => (Spec /\ []PaddingNeverOvershoots => []OnlySelfCancel)
    PipelineIsImplemented  Disciplined => (Spec => ImplementsPipeline)
    SinkIsOrdered          Disciplined /\ Orderly /\ SourceMode = "WAIT_FOR_BUFFER"
                             /\ PreciseClock => (Spec => SinkOrder)
    SinkIsTornDown         Disciplined /\ Orderly => (Spec => []EndsAfterTeardown)
    NobodyWaitsInVain      SteadyClock /\ Synchronised /\ MaxSkip <= 1
                             /\ FramesApart /\ PreciseClock
                             => (Spec => []WaitingIsScheduled)
    PromisesAreSetOnce     Disciplined /\ (SourceMode = "WAIT_FOR_BUFFER" =>
                             Synchronised /\ RefusalIsFinal /\ PreciseClock)
                             => (Spec => []NoFutureError)

`Disciplined` is what the safety rests on: WAIT_FOR_EVENT, no expired stop timeout
(`stale_commit` shows that giving up another source's input breaks it), timestamps
of one sensor more than `4 * MaxOffset` apart (*the same timestamp twice*, above, shows why
some distance is needed), and the clock's weight 1.0, which the scheduler passes.  The
`jitter` run satisfies it.

*Buffers.*  None of the properties is inductive.  A time step is freed because all its
source tasks ran; they ran because the locks were set; a lock that is set while its source
still wants the buffer would break everything.  `BufferInv` closes this circle: the ring's
window (`RingInv`), tasks only behind locks (`TasksFollowLocks`), found and held time steps
run the frame asked for (`StepMatchesRequest`), and `GivenUpIsLeftBehind`: every frame in
which a source's input was given up lies before every timestamp the source will still ask
for.  Padding needs care (`PaddingAhead`, `OnePads`), as it gives up frames on behalf of
the source that pads while that source is still on its way to a later one; a loop that
overshot never hands out a buffer, and is exempt.  The lemmas follow the code: what each
scheduler operation does to the fields (`...Loads`, `...Cases`), that it keeps `RingInv`
(`...KeepsRing`) and what was given up (`...Keeps`), then one lemma per group of actions
(`...Inv`).

*Padding.*  The loop advances the expected timestamp by one frame distance until it matches
the timestamp that was asked for.  `Synchronised` says that the timestamps of all sensors
lie on one grid of frames, up to `MaxOffset`; the invariant `ClockOnGrid` says that the clock
expects a frame of that grid, so the loop meets the timestamp.  Without `Synchronised` it
may jump over it: that is the sensor that is a little slower than `sensor_frequency`, in
section 3.  `OnlyTheSourceCancels` has `[]PaddingNeverOvershoots` as a hypothesis instead of
`Synchronised`, which is weaker: a loop that overshoots gives up frames that its source
could still ask for.  `PaddingStops` gives the hypothesis for synchronised sensors.

*Refinement.*  `PipelineIsImplemented` shows that every step of a time domain is a step of
`EventPipeline` under the mapping of `TimeDomainRefinement` or leaves it alone.  The abstract
queue is what the ring's window and the message queue hold, from the time step whose end
task is next (`PendingAt`).  That the sink's progress maps to a number of delivered events
needs `SinkWindow`: the time steps in which the sink was called are the first ones of the
window.  The lemmas say what each scheduler operation does to the pending events (it leaves
them, appends one, or removes the first), then which abstract step each action is.

*Order.*  `EventPipeline` admits any sequence of events, so the order that `SinkOrder` asks for
is not a consequence of the refinement; it comes from what the application and the sources
schedule.  `OrderInv` says that the types of the events that were scheduled and not yet
shown follow each other (`Follows`), beginning with what the sink saw last and ending with what
`start()` or `stop()` has scheduled so far (`LastOf`); `FramesShownInOrder` that the timestamps
of the frames among them rise and lie a frame distance before the one the clock expects.
An operation of the scheduler appends one event, removes the first or keeps them
(`AddsInOrder`, `CalmInOrder` and `timeStepEnded`), and the sink is called for the first one that
it has not seen.  `Orderly` says that applications deliver values after `start()` returned
and change parameters between `start()` and `stop()`: a value that comes earlier may be shown before
START, as the code does not check.  With IMMEDIATE_RETURN a late source may open an older frame
after a newer one, so the theorem is about WAIT_FOR_BUFFER.  `PreciseClock` says that the
clock's double keeps the frame of a timestamp (half the distance of two doubles is at most
`MaxOffset`: 128 ns for a wall clock of today; nothing for timestamps below 2^53 ns).

*End.*  A seam cuts its chain when it reads DATAFLOW_STOP in time step 0, whatever the other time
steps hold.  `SeamInv` says why nothing is missed: a DATAFLOW_STOP is the last but for others of its
kind, in the ring and after it has been finished (`StopsAreLast`), so a chain that is cut has
only DATAFLOW_STOP events ahead (`CutLate`, per chain, as each has its own progress through the
window).  When all chains are cut the last type shown is then, by `OrderInv`, TEARDOWN.

*Waiting.*  A source waits for a frame that is queued or was loaded.  Frames are loaded in the
order of the queue and their timestamps rise (`FrameInv`), so a frame that leaves the queue
raises `latest_running_ts_` above all that wait for it.  What has to be shown is that
the frame is there when the source begins to wait: with `WaitInv` the clock is one frame ahead
of every source that does not pad (`ClockAhead`), and a source that pads misses one frame
(`OneIsMissing`), so the one event that the code schedules for all missing frames is
enough.  `MaxSkip <= 1` and `Synchronised` are needed: *Padding*, in section 3, is what
happens otherwise.  `FramesApart` (a frame distance of more than `6 * MaxOffset`) lets the jitter of the
first, the asked for and the expected timestamp not be taken for a frame.  The theorem needs neither
`Disciplined` nor a bound on timeouts: it holds for CANCEL_OLDEST and when `stop()` gives up.

*Promises.*  Loading a message cancels the input of each source that is marked invalid in it,
as often as it is marked, and a source that is marked must not come back for the frame.
`MarkedOnce` says that a source is marked at most once in a queued frame and has gone on to a
later timestamp, or was refused; `NoneMissing` that the queue has a frame for each timestamp of
the grid from its first frame on, so a source that comes back for one finds it scheduled
and does not cancel again.  Here `RefusalIsFinal` is needed (*Retry after a refusal*, in section 3),
which excludes players: they go on with the next value of their file.
With IMMEDIATE_RETURN no frame is ever queued, and `Disciplined` is enough.

The configuration `frames` satisfies the hypotheses of the four theorems, `cancelled`
those of `NobodyWaitsInVain`.

### The facade and the players

    PromiseOnce            Spec => []PromiseSetOnce
    NetworkReleasedLast    Spec => []NoUseAfterReset
    NothingRunsAfterReset  ~StopTimeouts => (Spec => [](network # "alive" =>
                             \A d \in TimeDomains : flow[d] # "running"))
    FacadeTypes            Spec => []TypeOK
    ThreadsAreJoined       OnlyTheLastFinishes => (Spec => []NoThreadLeft)

for any number of time domains, time steps, frames, parameter changes, sources and places of
Ctrl-C, and with both stop timeouts (but for `NothingRunsAfterReset`).  No
fairness is assumed; the environment is the one described in section 2.

`should_stop_` admits one caller to `network_->stop()` (`OneStop`), but the destructor
enters it too, without the lock.  That it never meets another call, and that no taskflow runs but
those that were given up, needs the rest of `StopInv`: the owner deletes the facade when the future
is ready, that is after the one caller has left (`OneStop`, `CallsInPlace`), or when nothing
was started and nobody can stop it any more (`NothingStarted`, from `StartOrder`); a time
domain whose `stop_called_` is set has `running_` only while some call is inside its `stop()`
(`StopUnderWay`); a taskflow runs only in a time domain that has `running_` or was given up
(`FlowsKnown`); so the destructor, being the only one, passes by none that was not
(`DeleteAfterStop`).  When the timeout never expires `FlowAwaited` has seen the taskflow end, and
nothing is given up (`NoneGivenUp`).

`ThreadsAreJoined` adds `ThreadInv` about the events in the queues.  The destructor waits for every
taskflow, and a taskflow ends with DATAFLOW_STOP; that no source is on by then is a matter of
order.  `start()` and `stop()` alone schedule START and STOP (`EventsScheduled`, `StopsScheduled`);
in every queue DATAFLOW_STOP lies behind STOP, and START before STOP or behind
DATAFLOW_STOP, where no component sees it (`EventsOrdered`).  So a source that is on has a
taskflow that runs (`SourcesBetween`), however long after `stop()` that is.  `Joined` is what the
destructor has waited for: the taskflows, the players' threads that STOP did not join, and
`stop_thread_`.  `OnlyTheLastFinishes` says that only the last
time domain has a source that ends by itself; *Several time domains*, in section 3, is what
happens otherwise.

The first part of `FacadeProofs` proves, for any number of components and any recordings,

    DistancesAreKept      Spec => []SameOffset
    ReplayIsOrdered       Spec => ReplayOrder
    ReplayIsComplete      Spec => []ReplayComplete

`ReplayInv` says that the queue holds the earliest value of each component that has one
left (`InQueue`, `OnePerComponent`), nothing older than what was sent (`NotOlder`), and
that the thread is created after every component was listed (`Listed`).  That a recording
with values left has an earliest one (`MinOfTimes`) follows from the well-foundedness of
strict inclusion between finite sets.

### Dataflows

    ConnectionsFormNoLoop         Spec => []NoLoop
    FilesAreReadBack              PatternsFinished => (Spec => []RoundTrip)
    InputsAreStable               WellBuilt => (Spec => []InputsStable)
    SerialComponentsKeepTheOrder  WellBuilt => (Spec => []SerialInOrder)
    TimeStepsAreComplete          WellBuilt => (Spec => []StepComplete)
    PortsAreFresh                 WellBuilt => (Spec => []FreshData)
    TaskFlowTypes                 WellBuilt => (Spec => []TypeOK)

for any patterns, instances, port groups and connections, CUDA graphs and time steps.

*Describing.*  `GoodGraph` is the invariant of editing.  Its heart is that every set of
components has one without a link from the set, and one without a link into it
(`SomeSource`, `SomeSink`).  A new connection could break that for a set with both of its
ends; the set of components that the depth first search of `connect` has seen splits such
a set.  `RoundTrip` needs `PatternsFinished`: of a pattern that is left inside `addPortGroup`
the flag `is_group_port` is not written.  That reading finds every instance again rests on
the lists being indexed by number (`...RoundTrip` lemmas, one per level of the file).

*Executing.*  `FlowInv` follows, per node, the last event it has handled, and which seams
were passed since their target ran.  A counter of the library is the number of
predecessors that are not ahead plus the seams not passed (`Counted`, kept by counting
arguments over finite sets).  So a node that is due has only predecessors that have handled
the next event, and the chain of a serial component through the ring is due in one time
step only.  `WellBuilt` names the dataflows that are meant: without constrained modules,
whose tasks never start (`module_never_runs`); every component is a source or has an input
in its default port group, which `checkRunnable` demands to be connected (so not
`RawApplicationSyncSink`, whose pattern has no ports); asynchronous sources have no inputs
and are in no CUDA graph; and no CUDA graph waits for itself through other components (the
*CUDA* cycle in section 3).  TLC checks that the dataflows of `dataflow`
satisfy it (`DataflowAssumption`).

### Generic components

    EventsComeBackOnce    Spec => []EventOnce
    FramesAreRecorded     Spec => []Recorded
    ReadsStayInWindow     Spec => []ReadWindow

for any ring size, any number of frames, user events, parameter changes and restarts.
`GenericInv` says that no component is a ring behind the events that were loaded
(`OneRing`), that the source's part of a time step is that of its event (`SourceData`), and
that user events in the time steps between sending and showing are in order, newer than what
was shown and older than what is pending (`EventsInOrder`).  For the file: it holds the last
value that writer has passed (`FileIsLatest`), which lies in the window of every event that a
time step holds, as writer is less than a ring away from it (`NowInWindow`).  What was read
before stays in the window of its own event, since that window only grows (`ExtendsKeeps`).

### Model-checked only

* `StartReturns`, `StopReturns`, `RequestAnswered`, `StopEndsProgram`, `FlowEnds`, `Recovers`:
  liveness under fairness is outside the prover's logic.
* `Wired`, `OwnSourceBuffer`: buffers are numbered by a recursive function over the list of
  components (`ComponentOrders`), and what it computes for lists of any length needs an
  induction that the installed provers cannot instantiate.
* `TypeOK`, `LatestMeasurements` of `Profiler`: the lists of events are sorted and evaluated by
  folds of any length, with the same difficulty.

## 5. Plan

Done: the time domain with its refinement and proofs, all its safety properties included; the facade, the players and their
proofs; the description, serialization, construction and execution of dataflows, with
proofs for dataflows of any size; the generic components and their proofs; the profiler.
What would come next:

1. A driver for `TimeDomainClock` alone with weights below 1 and the rounding of `Grid`,
   which the runs here keep at 1.
2. A parameter change between the DATAFLOW_STOP events, and one of the global player.
3. What a scheduler's ring and clock do (`TimeDomain`) for several time domains at once: `Facade` has
   the queue and the flags of each, with frames that are owed by sources but have no timestamps.

Not modelled on purpose: the plugin factory (loading of libraries), file access, logging
and the console's argument handling (pure I/O); the TBB backend (about 4,000 lines that
the build does not compile); capturing and launching CUDA graphs (needs the CUDA runtime);
`Gate` and `Buffer`, whose patterns need two time domains, which `PortInstance` refuses;
`RawApplicationSyncSink`, whose pattern declares no ports, so that nothing orders its
calls; the statistics the profiler computes for display; `CircularBuffer`'s accessors that
nothing calls.
