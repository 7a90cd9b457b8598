---------------------------- MODULE TimeDomainOrder ----------------------------
(***************************************************************************)
(* Why frames and events keep their order: the inductive invariants behind *)
(* WaitingIsScheduled, NoFutureError, SinkOrder and EndsAfterTeardown.     *)
(*                                                                         *)
(* The first part is about frames and the clock.  Every frame is scheduled *)
(* for the timestamp that the clock expects, and the clock goes on from    *)
(* there, so the frames in the ring and in the queue rise (FrameInv).      *)
(*                                                                         *)
(* The second part is about events and tasks.  The application schedules   *)
(* its events in one order, each task chain handles them in that order,    *)
(* and a chain that a seam has ended has only DATAFLOW_STOP events ahead.  *)
(***************************************************************************)
EXTENDS TimeDomainInvariant, TimeDomainRefinement

-----------------------------------------------------------------------------
(* Frames. *)

\* A timestamp keeps its frame when the clock converts it to a double.
PreciseClock == Grid \div 2 <= MaxOffset

\* Frames are far enough apart to tell the jitter of three timestamps from one
\* frame distance.
FramesApart == SensorDelta > 6 * MaxOffset

\* A source that was refused does not ask again.
RefusalIsFinal == Players = {} /\ Persistent = {}

\* The frames in the queue rise, come after those that were loaded, and all lie
\* at least one frame distance before the one the clock expects.
FramesInOrder(d, c) ==
  /\ d.latestRunning >= 0
  /\ d.latestRunning > 0 => d.latestRunning + SensorDelta <= c.expected
  /\ \A i \in Steps : d.runningTs[i] <= d.latestRunning
  /\ \A k \in 1..Len(d.queue) :
       IF d.queue[k].type = "DATA"
       THEN /\ d.latestRunning < d.queue[k].ts
            /\ d.queue[k].ts + SensorDelta <= c.expected
       ELSE d.queue[k].ts = kTimestampZero
  /\ \A k, l \in 1..Len(d.queue) :
       k < l /\ d.queue[k].type = "DATA" /\ d.queue[l].type = "DATA"
         => d.queue[k].ts < d.queue[l].ts

\* The clock starts once, with the first timestamp, before any source pads.
ClockStarts ==
  /\ clock.delta = SensorDelta
  /\ IF clock.init = kTimestampZero
     THEN clock.expected = kTimestampZero /\ RequestMutexFree
     ELSE clock.init >= Grid /\ clock.expected > 0

FrameInv ==
  /\ TypeOK
  /\ sched.queue # <<>> => sched.free = 0
  /\ ClockStarts
  /\ FramesInOrder(sched, clock)

\* Unless the dataflow stops, the clock is one frame ahead of every source that
\* does not pad, and of its own first timestamp.
ClockAhead ==
  /\ \A x \in {clock.init, AsDouble(clock.init)} :
       x + SensorDelta <= clock.expected + MaxOffset
  /\ \A s \in Sources : src[s].pc \notin {"pad", "padded"} =>
       src[s].ts + SensorDelta <= clock.expected + 2 * MaxOffset

\* A source pads for one missing frame: then its own one is expected.
OneIsMissing ==
  \A s \in Sources :
    /\ src[s].pc = "pad" => isWithinRange(clock.expected + SensorDelta, src[s].ts)
    /\ src[s].pc = "padded" => isWithinRange(clock.expected, src[s].ts)

\* The timestamps of the sources and the clock belong together.
ClockFollows ==
  /\ \A s \in Sources : latestComponentTs[s] <= src[s].ts /\ src[s].ts >= 0
  /\ IF clock.init = kTimestampZero
     THEN \A s \in Sources : src[s].ts = 0
     ELSE /\ \E s \in Sources : src[s].ts > 0
          /\ \A u \in Timestamps : SameGrid(clock.expected, u)
          /\ ~stopScheduled => ClockAhead

\* The inductive invariant of waiting sources.
WaitInv ==
  /\ FrameInv
  /\ OnePads
  /\ RequestsHaveTimestamp
  /\ ClockFollows
  /\ OneIsMissing
  /\ WaitingIsScheduled

\* A source is marked invalid once in a queued frame, and will not ask for a
\* timestamp before the frame is in a time step.
MarkedOnce ==
  \A k \in 1..Len(sched.queue), s \in Sources :
    LET m == sched.queue[k]
    IN m.type = "DATA" /\ m.invalid[s] > 0 =>
         /\ m.invalid[s] = 1
         /\ \/ src[s].pc = "refused"
            \/ /\ src[s].pc \in {"pad", "padded", "waiting"}
               /\ IsOlder(m.ts, src[s].ts)

\* From the first queued frame to the expected one no frame of the grid is
\* missing in the queue.
NoneMissing ==
  \A u \in Timestamps, k \in 1..Len(sched.queue) :
    /\ sched.queue[k].type = "DATA"
    /\ IsOlder(sched.queue[k].ts, u)
    /\ IsOlder(u, clock.expected)
    => isTimestampScheduled(sched, u)

MarkInv == MarkedOnce /\ NoneMissing

-----------------------------------------------------------------------------
(* Events. *)

\* Applications deliver values after start(), and change parameters between
\* start() and stop().
Orderly ==
  /\ ParamPhases \subseteq {"running"}
  /\ RequestPhases \cap {"new", "launched", "configuring", "starting"} = {}

\* The time step of the k-th event in a window that begins at e.
StepAt(e, k) == (e + k - 1) % TimeStepCount

\* The sink was called in the first n time steps from e, and comes to the next.
CalledIn(n) ==
  /\ \A i \in Steps : phase[i] = "end" <=> RingDistance(endTurn, i) < n
  /\ sinkTurn = StepAt(endTurn, n + 1)

SinkWindow == \E n \in 0..TimeStepCount : CalledIn(n)

\* The event type b may come after the type a.
Follows(a, b) ==
  \/ a = "INVALID" /\ b = "CONFIGURE"
  \/ a = "CONFIGURE" /\ b = "START"
  \/ /\ a \in {"START", "DATA", "PARAMETER_CHANGE"}
     /\ b \in {"DATA", "PARAMETER_CHANGE", "STOP"}
  \/ a = "STOP" /\ b = "TEARDOWN"
  \/ a \in {"TEARDOWN", "DATAFLOW_STOP"} /\ b = "DATAFLOW_STOP"

\* The types of the events p behind the first n of them, when t was shown last,
\* follow each other.
InSuccession(p, n, t) ==
  /\ n <= Len(p)
  /\ \A k \in 1..Len(p) :
       k > n => Follows(IF k = n + 1 THEN t ELSE p[k - 1].type, p[k].type)

\* The type that was scheduled last.
LastType(p, n, t) == IF Len(p) = n THEN t ELSE p[Len(p)].type

\* What the application in its phase has scheduled last.
LastOf(a) ==
  CASE a \in {"new", "launched"} -> {"INVALID"}
    [] a = "configuring" -> {"CONFIGURE"}
    [] a \in {"starting", "running"} -> {"START", "DATA", "PARAMETER_CHANGE"}
    [] a \in {"stopping", "cancelled"} -> {"STOP"}
    [] a = "tearing" -> {"TEARDOWN"}
    [] a \in {"flushing", "done"} -> {"TEARDOWN", "DATAFLOW_STOP"}

EventsInSuccession ==
  \E n \in 0..TimeStepCount :
    /\ CalledIn(n)
    /\ InSuccession(PendingEvents, n, sink.type)
    /\ LastType(PendingEvents, n, sink.type) \in LastOf(app)

\* All events in the time steps and in the queue are of the types T.
TypesIn(d, T) ==
  /\ \A i \in Steps : d.event[i].type \in T
  /\ \A k \in 1..Len(d.queue) : d.queue[k].type \in T

\* No event comes before the application in its phase schedules it.
TimelyTypes(a) ==
  {type \in EventType :
     /\ type = "START" => a \notin {"new", "launched", "configuring"}
     /\ type = "DATAFLOW_STOP" => a \in {"flushing", "done"}}

EventsTimely == TypesIn(sched, TimelyTypes(app))

\* Players run and sources pad only while the dataflow runs.
SourcesTimely ==
  /\ stopScheduled
       <=> app \in {"stopping", "cancelled", "tearing", "flushing", "done"}
  /\ \A s \in Sources :
       /\ src[s].run => app \notin {"new", "launched", "configuring"}
       /\ src[s].pc \in {"pad", "padded"} => app \in {"starting", "running"}

\* The inductive invariant of the events' order.
OrderInv ==
  /\ EventsInSuccession
  /\ EventsTimely
  /\ SourcesTimely
  /\ sink.type # "DATAFLOW_STOP"

\* The frames among the pending events rise, from the last one shown on.
FramesRise(p, n, t, c) ==
  /\ t >= 0 /\ (t > 0 => t + SensorDelta <= c.expected)
  /\ \A k \in 1..Len(p) : p[k].type = "DATA" =>
       /\ p[k].ts > 0
       /\ p[k].ts + SensorDelta <= c.expected
       /\ k > n => p[k].ts > t
  /\ \A k, l \in 1..Len(p) :
       k < l /\ p[k].type = "DATA" /\ p[l].type = "DATA" => p[k].ts < p[l].ts

FramesShownInOrder ==
  /\ ClockStarts
  /\ \E n \in 0..TimeStepCount :
       CalledIn(n) /\ FramesRise(PendingEvents, n, sink.ts, clock)

\* All events of p behind the first n only end the taskflow.
OnlyStops(p, n) == \A k \in 1..Len(p) : k > n => p[k].type = "DATAFLOW_STOP"

\* Nothing comes after an event that ends the taskflow, in the ring or finished.
StopsAreLast(d, p) ==
  /\ \A k \in 1..Len(p) : p[k].type = "DATAFLOW_STOP" => OnlyStops(p, k)
  /\ \A i \in Steps :
       ~d.running[i] /\ d.event[i].type = "DATAFLOW_STOP" => OnlyStops(p, 0)

\* The tasks of source s have run in the first n time steps of the window.
DoneIn(s, n) ==
  /\ \A i \in Steps : s \in done[i] <=> RingDistance(endTurn, i) < n
  /\ sourceTurn[s] = StepAt(endTurn, n + 1)

\* A chain of tasks that is cut after n time steps misses nothing.
CutLate(r, n) ==
  r \in cut => app \in {"flushing", "done"} /\ OnlyStops(PendingEvents, n)

\* The inductive invariant of the seams.
SeamInv ==
  /\ StopsAreLast(sched, PendingEvents)
  /\ \A i \in Steps : phase[i] = "stopped" => sched.event[i].type = "DATAFLOW_STOP"
  /\ CutLate("end", 0)
  /\ \E n \in 0..TimeStepCount : CalledIn(n) /\ CutLate("sink", n)
  /\ \A s \in Sources : \E n \in 0..TimeStepCount : DoneIn(s, n) /\ CutLate(s, n)
=============================================================================
