----------------------- MODULE TaskFlowInFlowScheduler -----------------------
(***************************************************************************)
(* The data of the scheduler and the critical sections that change it.     *)
(*                                                                         *)
(* The scheduler owns a ring of TimeStepCount time steps.  An event (DATA  *)
(* of a frame, or a CONFIGURE, START, PARAMETER_CHANGE, STOP, TEARDOWN,    *)
(* DATAFLOW_STOP for every component) is queued and loaded into the next   *)
(* time step of the ring as soon as one is free.                           *)
(*                                                                         *)
(* The members that flow_mutex_ guards, and the part of the time step      *)
(* buffers the scheduler writes, are the fields of one record.  Every      *)
(* operator below is one member function or the body of one critical       *)
(* section; it takes the record and returns the changed one, so that       *)
(* composing operators is running them one after the other.                *)
(*                                                                         *)
(*   queue          queued_messages_                                       *)
(*   free           the count of free_taskflows_semaphore_                 *)
(*   latest         time_step_latest_                                      *)
(*   running[i]     running_taskflows_                                     *)
(*   runningTs[i]   running_timestamps_                                    *)
(*   setInput[i]    the sources with source_set_input_[s][i] = true        *)
(*   event[i]       timestamp and event type in the time step's buffer     *)
(*   lock[i]        the sources whose source_lock_ promise is set          *)
(*   data[i]        per source, the timestamp its data in the buffer was   *)
(*                  requested for; kTimestampZero is PortState::INVALID    *)
(*   latestRunning  latest_running_ts_                                     *)
(*   thrown         a promise was set twice: std::future_error             *)
(*   overrun        assert(!running_taskflows_[time_step_latest_]) failed  *)
(***************************************************************************)
EXTENDS TimeDomainClock, Sequences, FiniteSets

CONSTANTS
  Sources,        \* the source components of the time domain
  TimeStepCount   \* TimeDomainManagerConfig::ringbuffer_size

ASSUME SchedulerAssumption ==
  /\ Sources # {}
  /\ TimeStepCount \in Nat \ {0}

Steps == 0..(TimeStepCount - 1)

EventType == {"INVALID", "CONFIGURE", "START", "DATA", "PARAMETER_CHANGE",
              "STOP", "TEARDOWN", "DATAFLOW_STOP"}

\* A queued message; invalid counts how often a source is in invalid_sources.
ScheduledEvent(type, ts) ==
  [type |-> type, ts |-> ts, invalid |-> [s \in Sources |-> 0]]

Message == [type : EventType, ts : Int, invalid : [Sources -> Nat]]

Scheduler ==
  [queue : Seq(Message), free : 0..TimeStepCount, latest : -1..(TimeStepCount - 1),
   running : [Steps -> BOOLEAN], runningTs : [Steps -> Int],
   setInput : [Steps -> SUBSET Sources],
   event : [Steps -> [type : EventType, ts : Int]],
   lock : [Steps -> SUBSET Sources], data : [Steps -> [Sources -> Int]],
   latestRunning : Int, thrown : BOOLEAN, overrun : BOOLEAN]

InitialScheduler ==
  [queue |-> <<>>, free |-> TimeStepCount, latest |-> -1,
   running |-> [i \in Steps |-> FALSE],
   runningTs |-> [i \in Steps |-> kTimestampZero],
   setInput |-> [i \in Steps |-> {}],
   event |-> [i \in Steps |-> [type |-> "INVALID", ts |-> kTimestampZero]],
   lock |-> [i \in Steps |-> {}],
   data |-> [i \in Steps |-> [s \in Sources |-> kTimestampZero]],
   latestRunning |-> kTimestampZero, thrown |-> FALSE, overrun |-> FALSE]

-----------------------------------------------------------------------------
(* The buffers of a time step. *)

\* Mutants: only one of the two is reset.
resetNewEvent_keepsLock(d, i) ==
  [d EXCEPT !.data[i] = [s \in Sources |-> kTimestampZero]]
resetNewEvent_keepsData(d, i) == [d EXCEPT !.lock[i] = {}]

\* Fresh promises for the sources, every port invalid.
resetNewEvent(d, i) ==
  [d EXCEPT !.lock[i] = {}, !.data[i] = [s \in Sources |-> kTimestampZero]]

\* A source has filled its ports and hands the time step over.
commit(d, s, i, ts) ==
  [d EXCEPT !.data[i][s] = ts, !.lock[i] = @ \cup {s},
            !.thrown = @ \/ s \in d.lock[i]]

-----------------------------------------------------------------------------
(* The ring of time steps. *)

NextTimeStep(i) == (i + 1) % TimeStepCount

\* Mutant: the waiting sources are not told.
takeTaskflow_silent(d, i, m, done) ==
  [d EXCEPT !.latest = i, !.running[i] = TRUE, !.runningTs[i] = m.ts,
            !.event[i] = [type |-> m.type, ts |-> m.ts],
            !.setInput[i] = done, !.lock[i] = @ \cup done,
            !.overrun = @ \/ d.running[i]]

\* takeTaskflow and setEvent: time step i now runs the event m; the sources in
\* done are committed for it at once.
takeTaskflow(d, i, m, done) ==
  [d EXCEPT !.latest = i, !.running[i] = TRUE, !.runningTs[i] = m.ts,
            !.event[i] = [type |-> m.type, ts |-> m.ts],
            !.setInput[i] = done, !.lock[i] = @ \cup done,
            !.latestRunning = IF m.type = "DATA" THEN m.ts ELSE @,
            !.overrun = @ \/ d.running[i]]

\* A DATA event waits for its sources, except for those marked invalid; every
\* other event is committed for all of them.
CommittedSources(m) ==
  IF m.type = "DATA" THEN {s \in Sources : m.invalid[s] > 0} ELSE Sources

\* Mutant: the message stays in the queue.
runTaskFlowFromQueue_again(d) ==
  LET m == Head(d.queue)
      i == NextTimeStep(d.latest)
  IN takeTaskflow(d, i, m, CommittedSources(m))

runTaskFlowFromQueue(d) ==
  LET m == Head(d.queue)
      i == NextTimeStep(d.latest)
  IN [takeTaskflow(d, i, m, CommittedSources(m)) EXCEPT
        !.queue = Tail(d.queue),
        !.thrown = \/ @
                   \/ CommittedSources(m) \cap d.lock[i] # {}
                   \/ m.type = "DATA" /\ \E s \in Sources : m.invalid[s] > 1]

\* Mutant: the semaphore is not asked.
Enqueue_always(d, m) ==
  runTaskFlowFromQueue([d EXCEPT !.queue = Append(@, m), !.free = @ - 1])

\* Appends a message and runs it when a time step is free.
Enqueue(d, m) ==
  LET q == [d EXCEPT !.queue = Append(@, m)]
  IN IF d.free > 0
     THEN runTaskFlowFromQueue([q EXCEPT !.free = @ - 1])
     ELSE q

scheduleEvent(d, type, ts) == Enqueue(d, ScheduledEvent(type, ts))

schedulePaddingEvent(d, ts, s) ==
  Enqueue(d, [ScheduledEvent("DATA", ts) EXCEPT !.invalid[s] = 1])

\* The caller has checked that a time step is free.
scheduleDataEventImmediately(d, ts) ==
  takeTaskflow([d EXCEPT !.free = @ - 1], NextTimeStep(d.latest),
               ScheduledEvent("DATA", ts), {})

\* Mutant: the semaphore is not notified.
setTaskflowFree_silent(d, i) ==
  [d EXCEPT !.running[i] = FALSE, !.runningTs[i] = kTimestampZero]

setTaskflowFree(d, i) ==
  [d EXCEPT !.running[i] = FALSE, !.runningTs[i] = kTimestampZero,
            !.free = IF @ < TimeStepCount THEN @ + 1 ELSE @]

\* Mutant: the semaphore is notified although the next message takes the step.
freeTimeStep_notifies(d, i) ==
  LET r == setTaskflowFree(resetNewEvent(d, i), i)
  IN IF d.queue = <<>> THEN r ELSE runTaskFlowFromQueue(r)

freeTimeStep(d, i) ==
  LET r == [resetNewEvent(d, i) EXCEPT !.running[i] = FALSE]
  IN IF d.queue = <<>> THEN setTaskflowFree(r, i) ELSE runTaskFlowFromQueue(r)

-----------------------------------------------------------------------------
(* Looking up and cancelling frames. *)

\* The time steps whose running timestamp matches; a free step has timestamp 0.
RunningSteps(d, ts) == {i \in Steps : isWithinRange(ts, d.runningTs[i])}

\* The search for ts returns time step i, the first that matches.
isTimestampRunning(d, ts, i) ==
  /\ i \in RunningSteps(d, ts)
  /\ \A j \in RunningSteps(d, ts) : i <= j

isTimestampScheduled(d, ts) ==
  \E k \in 1..Len(d.queue) : isWithinRange(d.queue[k].ts, ts)

\* Mutant: the frame itself counts as older.
IsOlder_orEqual(old, ts) == old <= ts

IsOlder(old, ts) == old + MaxOffset < ts - MaxOffset

\* The sources of C that still owe their input to an older running time step.
Cancelled(d, C, ts, i) ==
  IF d.running[i] /\ IsOlder(d.runningTs[i], ts) THEN C \ d.setInput[i] ELSE {}

\* The message with the sources of C added to its invalid_sources.
MarkInvalid(m, C) ==
  [m EXCEPT !.invalid = [s \in Sources |-> IF s \in C THEN @[s] + 1 ELSE @[s]]]

CancelledQueue(d, C, ts) ==
  [k \in 1..Len(d.queue) |->
     IF d.queue[k].type = "DATA" /\ IsOlder(d.queue[k].ts, ts)
     THEN MarkInvalid(d.queue[k], C) ELSE d.queue[k]]

\* cancelSourceWaitForEvent for every source of C: running time steps are
\* committed without data, queued DATA messages are marked.
cancelSources(d, C, ts) ==
  [d EXCEPT !.setInput = [i \in Steps |-> @[i] \cup Cancelled(d, C, ts, i)],
            !.lock = [i \in Steps |-> @[i] \cup Cancelled(d, C, ts, i)],
            !.queue = CancelledQueue(d, C, ts)]
=============================================================================
