------------------------ MODULE TimeDomainInvariant ------------------------
(***************************************************************************)
(* Why the buffers of a time domain are safe: the inductive invariant.     *)
(*                                                                         *)
(* NeverOverrun, RingWindow, BufferMatchesRequest and FrameSynchronised    *)
(* are not inductive.  A time step may be freed only because every source  *)
(* task of it has run, a source task runs only because its lock is set,    *)
(* and the lock of a source is set while the source is still going to use  *)
(* the buffer only if somebody cancelled it for a frame that the source    *)
(* has left behind.  Each conjunct below is one link of this chain.        *)
(*                                                                         *)
(* PaddingNeverOvershoots and OnlySelfCancel need two invariants more: the *)
(* clock stays on the grid of frames that the sensors share (ClockOnGrid), *)
(* and no frame goes without a source that may still send data for it      *)
(* (LeavesItselfOut).                                                      *)
(***************************************************************************)
EXTENDS TimeDomain

\* The clock keeps the frame distance, as the scheduler's does.
SteadyClock == AlphaNum = 1 /\ AlphaDen = 1

\* The settings under which the buffers are safe: only a source itself gives up
\* its input, the timestamps of one sensor are far enough apart to be told from
\* each other, and the clock keeps the frame distance.
Disciplined ==
  /\ MissingSourceEventMode = "WAIT_FOR_EVENT"
  /\ ~StopTimeouts
  /\ MinGap > 4 * MaxOffset
  /\ SteadyClock

\* The event of a time step and the scheduler's notes about it agree; only DATA
\* events have a timestamp.
StepConsistent(d, i) ==
  IF d.running[i]
  THEN /\ d.event[i].ts = d.runningTs[i]
       /\ d.event[i].type # "DATA" => d.runningTs[i] = kTimestampZero
  ELSE d.runningTs[i] = kTimestampZero

EventsConsistent(d) ==
  /\ \A i \in Steps : StepConsistent(d, i)
  /\ \A k \in 1..Len(d.queue) :
       d.queue[k].type # "DATA" => d.queue[k].ts = kTimestampZero

\* Data in a buffer belongs to the frame that the time step runs.
DataBelongs(d) ==
  \A i \in Steps, s \in Sources : d.data[i][s] # kTimestampZero =>
    /\ d.running[i]
    /\ d.event[i].type = "DATA"
    /\ isWithinRange(d.event[i].ts, d.data[i][s])

\* Locks are set only in a running time step.
LocksRun(d) == \A i \in Steps : d.lock[i] # {} => d.running[i]

\* What the scheduler's operations keep up among themselves.
RingInv(d, e) ==
  /\ d \in Scheduler
  /\ ~d.overrun
  /\ Window(d, e)
  /\ EventsConsistent(d)
  /\ DataBelongs(d)
  /\ LocksRun(d)

\* Source tasks run only where their lock is set; the end task of a time step
\* comes after all of them.
TasksFollowLocks ==
  \A i \in Steps :
    /\ done[i] \subseteq sched.lock[i]
    /\ phase[i] = "end" => done[i] = Sources

\* The time step a source has found or holds runs the frame it asked for.
StepMatchesRequest ==
  \A s \in Sources : src[s].pc \in {"found", "holding"} =>
    LET i == src[s].step
    IN /\ sched.running[i]
       /\ sched.event[i].type = "DATA"
       /\ isWithinRange(sched.event[i].ts, src[s].ts)

\* The padding loop has run past the timestamp: it will not end.
Overshot(s) == src[s].pc = "pad" /\ clock.expected > src[s].ts + 2 * MaxOffset

\* A source will ask only for frames that are not before this time.
Horizon(s) ==
  IF src[s].pc \in {"off", "idle", "refused"} THEN src[s].ts + MinGap ELSE src[s].ts

\* Every frame in which the input of s is given up lies before the time b.
GivenUpBefore(d, s, b) ==
  /\ \A i \in Steps :
       d.event[i].type = "DATA" /\ s \in d.lock[i]
         => d.event[i].ts + 2 * MaxOffset < b
  /\ \A k \in 1..Len(d.queue) :
       d.queue[k].type = "DATA" /\ d.queue[k].invalid[s] > 0
         => d.queue[k].ts + 2 * MaxOffset < b

\* Where the input of a source is given up, the source has left the frame behind.
GivenUpIsLeftBehind ==
  \A s \in Sources : Overshot(s) \/ GivenUpBefore(sched, s, Horizon(s))

\* The padding loop starts before the timestamp, and the clock runs forward.
PaddingAhead ==
  /\ clock.delta >= 0
  /\ \A s \in Sources :
       src[s].pc = "pad" => Overshot(s) \/ clock.expected + 2 * MaxOffset < src[s].ts

\* One source at a time is inside the padding loop, which holds request_mutex_.
OnePads ==
  \A r, s \in Sources :
    src[r].pc \in {"pad", "padded"} /\ src[s].pc \in {"pad", "padded"} => r = s

\* A source inside a request has a timestamp that no empty time step matches.
RequestsHaveTimestamp ==
  \A s \in Sources : src[s].pc \notin {"off", "idle"} => src[s].ts > 2 * MaxOffset

\* The inductive invariant.
BufferInv ==
  /\ TypeOK
  /\ RingInv(sched, endTurn)
  /\ TasksFollowLocks
  /\ StepMatchesRequest
  /\ GivenUpIsLeftBehind
  /\ PaddingAhead
  /\ OnePads
  /\ RequestsHaveTimestamp

\* Two timestamps lie on one grid of frames, up to the offset.
SameGrid(t, u) == \E k \in Int : isWithinRange(t + k * SensorDelta, u)

\* Sensors that are synchronised: their timestamps lie on one grid.
Synchronised == \A t, u \in Timestamps : SameGrid(t, u)

\* The clock expects a frame of that grid, once it has seen a timestamp.
ClockOnGrid ==
  /\ clock.delta = SensorDelta
  /\ \/ \A u \in Timestamps : SameGrid(clock.expected, u)
     \/ clock.init = kTimestampZero /\ RequestMutexFree
  /\ \A s \in Sources : src[s].pc = "pad" => src[s].ts \in Timestamps

\* Every frame that goes without the data of s lies before the time b.
LeftOutBefore(d, s, b) ==
  /\ \A i \in Steps :
       d.event[i].type = "DATA" /\ s \in d.lock[i] /\ d.data[i][s] = kTimestampZero
         => d.event[i].ts + 2 * MaxOffset < b
  /\ \A k \in 1..Len(d.queue) :
       d.queue[k].type = "DATA" /\ d.queue[k].invalid[s] > 0
         => d.queue[k].ts + 2 * MaxOffset < b

\* A source is left out only of frames it has left behind.
LeavesItselfOut == \A s \in Sources : LeftOutBefore(sched, s, src[s].ts)
=============================================================================
