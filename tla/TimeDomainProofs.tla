-------------------------- MODULE TimeDomainProofs --------------------------
(***************************************************************************)
(* Type correctness of module TimeDomain, for every value of its constants. *)
(* First the operators of the scheduler and of the clock, each of which     *)
(* returns a record of its type; then one lemma per group of actions.       *)
(***************************************************************************)
EXTENDS TimeDomain, SequenceTheorems, TLAPS

\* The time step after the latest one is a time step; the ring wraps at its end.
LEMMA NextTimeStepType ==
  /\ NextTimeStep(-1) = 0
  /\ \A i \in Steps : NextTimeStep(i) = IF i = TimeStepCount - 1 THEN 0 ELSE i + 1
  /\ \A i \in -1..(TimeStepCount - 1) : NextTimeStep(i) \in Steps
<1>1. \A j \in 0..(TimeStepCount - 1) : j % TimeStepCount = j
  BY SchedulerAssumption
<1>2. TimeStepCount % TimeStepCount = 0
  BY SchedulerAssumption
<1> QED BY <1>1, <1>2, SchedulerAssumption DEF NextTimeStep, Steps

\* What the schedule... functions put into the queue are messages.
LEMMA MessageType ==
  /\ \A type \in EventType, ts \in Int : ScheduledEvent(type, ts) \in Message
  /\ \A ts \in Int, s \in Sources :
       [ScheduledEvent("DATA", ts) EXCEPT !.invalid[s] = 1] \in Message
BY DEF ScheduledEvent, Message, EventType

\* takeTaskflow and setEvent return a scheduler record.
LEMMA TakeTaskflowType ==
  ASSUME NEW d \in Scheduler, NEW i \in Steps, NEW m \in Message,
         NEW C \in SUBSET Sources
  PROVE  takeTaskflow(d, i, m, C) \in Scheduler
<1>1. i \in -1..(TimeStepCount - 1) BY SchedulerAssumption DEF Steps
<1> QED BY <1>1, ZenonT(30) DEF takeTaskflow, Scheduler, Message

\* Running the head of a non-empty queue returns a scheduler record.
LEMMA RunFromQueueType ==
  ASSUME NEW d \in Scheduler, d.queue # <<>>
  PROVE  runTaskFlowFromQueue(d) \in Scheduler
<1>1. Head(d.queue) \in Message /\ Tail(d.queue) \in Seq(Message)
  BY DEF Scheduler
<1>2. NextTimeStep(d.latest) \in Steps
  BY NextTimeStepType DEF Scheduler
<1>3. CommittedSources(Head(d.queue)) \in SUBSET Sources
  BY DEF CommittedSources
<1>4. takeTaskflow(d, NextTimeStep(d.latest), Head(d.queue),
                   CommittedSources(Head(d.queue))) \in Scheduler
  BY <1>1, <1>2, <1>3, TakeTaskflowType
<1> QED BY <1>1, <1>4 DEF runTaskFlowFromQueue, Scheduler

\* Queueing a message, and running it when a time step is free, keeps the types:
\* the semaphore's count is only taken when it is positive.
LEMMA EnqueueType ==
  ASSUME NEW d \in Scheduler, NEW m \in Message
  PROVE  Enqueue(d, m) \in Scheduler
<1> DEFINE a == Append(d.queue, m)
           q == [d EXCEPT !.queue = a]
           r == [q EXCEPT !.free = @ - 1]
<1>1. a \in Seq(Message) /\ a # <<>>
  <2>1. d.queue \in Seq(Message) BY DEF Scheduler
  <2> QED BY <2>1
<1>2. Enqueue(d, m) = IF d.free > 0 THEN runTaskFlowFromQueue(r) ELSE q
  BY DEF Enqueue
<1> HIDE DEF a
<1>3. q \in Scheduler /\ q.queue = a /\ q.free = d.free
  BY <1>1 DEF Scheduler
<1> HIDE DEF q
<1>4. d.free > 0 => r \in Scheduler /\ r.queue = a
  <2>1. d.free > 0 => q.free - 1 \in 0..TimeStepCount
    BY <1>3, SchedulerAssumption DEF Scheduler
  <2> QED BY <1>3, <2>1 DEF Scheduler
<1> HIDE DEF r
<1>5. d.free > 0 => runTaskFlowFromQueue(r) \in Scheduler
  BY <1>1, <1>4, RunFromQueueType
<1> QED BY <1>2, <1>3, <1>5

\* Clearing the buffers of a time step keeps the types and the queue.
LEMMA ResetType ==
  ASSUME NEW d \in Scheduler, NEW i \in Steps
  PROVE  resetNewEvent(d, i) \in Scheduler /\ resetNewEvent(d, i).queue = d.queue
<1> DEFINE none == [s \in Sources |-> kTimestampZero]
<1>1. none \in [Sources -> Int]
  BY DEF kTimestampZero
<1>2. resetNewEvent(d, i) = [d EXCEPT !.lock[i] = {}, !.data[i] = none]
  BY DEF resetNewEvent
<1> HIDE DEF none
<1>3. [d EXCEPT !.lock[i] = {}, !.data[i] = none] \in Scheduler
  BY <1>1 DEF Scheduler
<1> QED BY <1>2, <1>3 DEF Scheduler

\* freeTimeStep keeps the types: the semaphore's count stays within its limit.
LEMMA FreeTimeStepType ==
  ASSUME NEW d \in Scheduler, NEW i \in Steps
  PROVE  freeTimeStep(d, i) \in Scheduler
<1> DEFINE r == [resetNewEvent(d, i) EXCEPT !.running[i] = FALSE]
<1>1. r \in Scheduler /\ r.queue = d.queue
  <2>1. resetNewEvent(d, i) \in Scheduler /\ resetNewEvent(d, i).queue = d.queue
    BY ResetType
  <2> QED BY <2>1 DEF Scheduler
<1>2. freeTimeStep(d, i) = IF d.queue = <<>> THEN setTaskflowFree(r, i)
                           ELSE runTaskFlowFromQueue(r)
  BY DEF freeTimeStep
<1> HIDE DEF r
<1>3. setTaskflowFree(r, i) \in Scheduler
  <2> DEFINE f == IF r.free < TimeStepCount THEN r.free + 1 ELSE r.free
  <2>0. r.free \in 0..TimeStepCount
    BY <1>1 DEF Scheduler
  <2>1. f \in 0..TimeStepCount
    BY <2>0, SchedulerAssumption
  <2>2. setTaskflowFree(r, i) = [r EXCEPT !.running[i] = FALSE,
                                          !.runningTs[i] = 0, !.free = f]
    BY DEF setTaskflowFree, kTimestampZero
  <2> HIDE DEF f
  <2>3. /\ [r.running EXCEPT ![i] = FALSE] \in [Steps -> BOOLEAN]
        /\ [r.runningTs EXCEPT ![i] = 0] \in [Steps -> Int]
    BY <1>1 DEF Scheduler
  <2> QED BY <1>1, <2>1, <2>2, <2>3 DEF Scheduler
<1>4. d.queue # <<>> => runTaskFlowFromQueue(r) \in Scheduler
  BY <1>1, RunFromQueueType
<1> QED BY <1>2, <1>3, <1>4

\* Marking queued messages as invalid for sources returns a queue of the same
\* length.
LEMMA CancelledQueueType ==
  ASSUME NEW d \in Scheduler, NEW C \in SUBSET Sources, NEW ts \in Int
  PROVE  /\ CancelledQueue(d, C, ts) \in Seq(Message)
         /\ Len(CancelledQueue(d, C, ts)) = Len(d.queue)
<1>1. d.queue \in Seq(Message)
  BY DEF Scheduler
<1>2. \A m \in Message : MarkInvalid(m, C) \in Message
  BY DEF Message, MarkInvalid
<1>3. \A k \in 1..Len(d.queue) : CancelledQueue(d, C, ts)[k] \in Message
  <2>1. \A k \in 1..Len(d.queue) : d.queue[k] \in Message
    BY <1>1
  <2> QED BY <1>2, <2>1 DEF CancelledQueue
<1>4. CancelledQueue(d, C, ts) \in [1..Len(d.queue) -> Message]
  BY <1>3 DEF CancelledQueue
<1> QED BY <1>1, <1>4, SeqDef

\* Cancelling sources in running time steps and in the queue keeps the types.
LEMMA CancelSourcesType ==
  ASSUME NEW d \in Scheduler, NEW C \in SUBSET Sources, NEW ts \in Int
  PROVE  cancelSources(d, C, ts) \in Scheduler
<1> DEFINE q == CancelledQueue(d, C, ts)
           si == [i \in Steps |-> d.setInput[i] \cup Cancelled(d, C, ts, i)]
           lk == [i \in Steps |-> d.lock[i] \cup Cancelled(d, C, ts, i)]
<1>1. si \in [Steps -> SUBSET Sources] /\ lk \in [Steps -> SUBSET Sources]
  <2>1. \A i \in Steps : Cancelled(d, C, ts, i) \subseteq Sources
    BY DEF Cancelled
  <2>2. d.setInput \in [Steps -> SUBSET Sources] /\ d.lock \in [Steps -> SUBSET Sources]
    BY DEF Scheduler
  <2> QED BY <2>1, <2>2
<1>2. q \in Seq(Message)
  BY CancelledQueueType
<1>3. cancelSources(d, C, ts) = [d EXCEPT !.setInput = si, !.lock = lk, !.queue = q]
  BY DEF cancelSources
<1> HIDE DEF q, si, lk
<1> QED BY <1>1, <1>2, <1>3 DEF Scheduler

\* Committing a buffer, and marking the input of a source as taken.
LEMMA CommitType ==
  ASSUME NEW d \in Scheduler, NEW s \in Sources, NEW i \in Steps, NEW ts \in Int
  PROVE  /\ commit(d, s, i, ts) \in Scheduler
         /\ [d EXCEPT !.setInput[i] = @ \cup {s}] \in Scheduler
<1>1. commit(d, s, i, ts) \in Scheduler
  BY ZenonT(30) DEF commit, Scheduler
<1>2. [d EXCEPT !.setInput[i] = @ \cup {s}] \in Scheduler
  BY DEF Scheduler
<1> QED BY <1>1, <1>2

\* scheduleEvent and schedulePaddingEvent keep the types.
LEMMA ScheduleType ==
  ASSUME NEW d \in Scheduler, NEW ts \in Int, NEW s \in Sources
  PROVE  /\ \A type \in EventType : scheduleEvent(d, type, ts) \in Scheduler
         /\ schedulePaddingEvent(d, ts, s) \in Scheduler
BY MessageType, EnqueueType DEF scheduleEvent, schedulePaddingEvent

\* scheduleDataEventImmediately keeps the types when a time step is free.
LEMMA ImmediateType ==
  ASSUME NEW d \in Scheduler, NEW ts \in Int, d.free > 0
  PROVE  scheduleDataEventImmediately(d, ts) \in Scheduler
<1> DEFINE q == [d EXCEPT !.free = @ - 1]
<1>1. q \in Scheduler
  <2>1. d.free - 1 \in 0..TimeStepCount
    BY SchedulerAssumption DEF Scheduler
  <2> QED BY <2>1 DEF Scheduler
<1>2. scheduleDataEventImmediately(d, ts)
        = takeTaskflow(q, NextTimeStep(d.latest), ScheduledEvent("DATA", ts), {})
  BY DEF scheduleDataEventImmediately
<1> HIDE DEF q
<1>3. NextTimeStep(d.latest) \in Steps
  BY NextTimeStepType DEF Scheduler
<1>4. ScheduledEvent("DATA", ts) \in Message
  BY MessageType DEF EventType
<1> QED BY <1>1, <1>2, <1>3, <1>4, TakeTaskflowType

\* newTimestamp and advanceTimeStep return clocks, whatever the rounding does.
LEMMA ClockType ==
  ASSUME NEW c \in Clock, NEW ts \in Int
  PROVE  newTimestamp(c, ts) \in Clock /\ advanceTimeStep(c) \in Clock
<1>1. InitialMean(c, ts) \in Int
  <2>1. \A x \in Int : AsDouble(x) \in Int
    BY ClockAssumption DEF AsDouble
  <2>2. \A x \in Int : x \div AlphaDen \in Int
    BY ClockAssumption
  <2>3. c.init \in Int
    BY DEF Clock
  <2>4. AsDouble(c.init) * AlphaNum \in Int /\ AsDouble(ts) * (AlphaDen - AlphaNum) \in Int
    BY <2>1, <2>3, ClockAssumption
  <2> QED BY <2>2, <2>4 DEF InitialMean
<1>2. newTimestamp(c, ts) \in Clock
  <2> DEFINE m == InitialMean(c, ts)
             next == [c EXCEPT !.sum = @ + ts, !.n = @ + 1]
  <2>1. [c EXCEPT !.init = ts, !.expected = ts, !.current = ts] \in Clock
    BY DEF Clock
  <2>2. \A x \in Int : [c EXCEPT !.init = x, !.current = x] \in Clock
    BY DEF Clock
  <2>3. next \in Clock
    <3>1. c.sum + ts \in Int /\ c.n + 1 \in Nat
      BY DEF Clock
    <3> QED BY <3>1 DEF Clock
  <2>4. newTimestamp(c, ts) \in
          {[c EXCEPT !.init = ts, !.expected = ts, !.current = ts],
           [c EXCEPT !.init = m, !.current = m], next, c}
    BY DEF newTimestamp
  <2> HIDE DEF m, next
  <2> QED BY <1>1, <2>1, <2>2, <2>3, <2>4 DEF m
<1>3. MeanDelta(c) \in Int
  <2>1. \A x \in Int : x \div AlphaDen \in Int
    BY ClockAssumption
  <2>2. c.n # 0 => c.sum \div c.n \in Int
    BY DEF Clock
  <2>3. c.n # 0 => c.delta * AlphaNum
          + ((c.sum \div c.n) - c.current) * (AlphaDen - AlphaNum) \in Int
    BY <2>2, ClockAssumption DEF Clock
  <2> QED BY <2>1, <2>3 DEF MeanDelta, Clock
<1>4. advanceTimeStep(c) \in Clock
  <2>1. c.init \in Int /\ c.expected \in Int /\ c.expected + MeanDelta(c) \in Int
    BY <1>3 DEF Clock
  <2> QED BY <1>3, <2>1 DEF advanceTimeStep, Clock
<1> QED BY <1>2, <1>4

\* The record of a source thread after a step of it.
LEMMA SourceRecordType ==
  ASSUME TypeOK, NEW s \in Sources, NEW pc \in SourcePc, NEW ts \in Int,
         NEW i \in Steps, NEW b \in BOOLEAN
  PROVE  LET S == [Sources -> [pc : SourcePc, ts : Int, step : Steps, run : BOOLEAN]]
         IN /\ src[s].ts \in Int /\ src[s].step \in Steps
            /\ [src EXCEPT ![s].pc = pc] \in S
            /\ [src EXCEPT ![s].run = b] \in S
            /\ [src EXCEPT ![s].pc = pc, ![s].run = b] \in S
            /\ [src EXCEPT ![s].pc = pc, ![s].step = i] \in S
            /\ [src EXCEPT ![s].pc = pc, ![s].ts = ts, ![s].step = i] \in S
<1> DEFINE R == [pc : SourcePc, ts : Int, step : Steps, run : BOOLEAN]
           S == [Sources -> R]
<1>1. src \in S
  BY DEF TypeOK
<1>2. src[s] \in R
  BY <1>1
<1>3. \A r \in R : [src EXCEPT ![s] = r] \in S
  BY <1>1
<1>4. src[s].ts \in Int /\ src[s].step \in Steps
  BY <1>2
<1>5. [src[s] EXCEPT !.pc = pc] \in R /\ [src[s] EXCEPT !.run = b] \in R
      /\ [src[s] EXCEPT !.pc = pc, !.run = b] \in R
      /\ [src[s] EXCEPT !.pc = pc, !.step = i] \in R
      /\ [src[s] EXCEPT !.pc = pc, !.ts = ts, !.step = i] \in R
  BY <1>2
<1> HIDE DEF R
<1>6. /\ [src EXCEPT ![s].pc = pc] = [src EXCEPT ![s] = [src[s] EXCEPT !.pc = pc]]
      /\ [src EXCEPT ![s].run = b] = [src EXCEPT ![s] = [src[s] EXCEPT !.run = b]]
      /\ [src EXCEPT ![s].pc = pc, ![s].run = b]
           = [src EXCEPT ![s] = [src[s] EXCEPT !.pc = pc, !.run = b]]
      /\ [src EXCEPT ![s].pc = pc, ![s].step = i]
           = [src EXCEPT ![s] = [src[s] EXCEPT !.pc = pc, !.step = i]]
      /\ [src EXCEPT ![s].pc = pc, ![s].ts = ts, ![s].step = i]
           = [src EXCEPT ![s] = [src[s] EXCEPT !.pc = pc, !.ts = ts, !.step = i]]
  BY <1>1
<1> QED BY <1>3, <1>4, <1>5, <1>6 DEF R

\* A request of a source keeps the types.
LEMMA RequestType ==
  ASSUME TypeOK, NEW s \in Sources, NEW ts \in Timestamps, RequestSourceBuffer(s, ts)
  PROVE  TypeOK'
<1>1. ts \in Int
  BY TimeDomainAssumption
<1>2. src[s].step \in Steps
  BY DEF TypeOK
<1>3. \A pc \in SourcePc, i \in Steps : SourceAt(s, pc, ts, i) =>
        src' \in [Sources -> [pc : SourcePc, ts : Int, step : Steps, run : BOOLEAN]]
  <2> TAKE pc \in SourcePc, i \in Steps
  <2>1. [src EXCEPT ![s].pc = pc, ![s].ts = ts, ![s].step = i] \in
          [Sources -> [pc : SourcePc, ts : Int, step : Steps, run : BOOLEAN]]
    BY <1>1, SourceRecordType
  <2> QED BY <2>1 DEF SourceAt
<1>4. sched \in Scheduler /\ clock \in Clock
  BY DEF TypeOK
<1> DEFINE c == newTimestamp(clock, ts)
           d == cancelOlderEvents(s, ts)
<1>5. c \in Clock /\ advanceTimeStep(c) \in Clock /\ c.expected \in Int
  <2>1. c \in Clock BY <1>1, <1>4, ClockType
  <2> HIDE DEF c
  <2>2. advanceTimeStep(c) \in Clock BY <1>1, <2>1, ClockType
  <2> QED BY <2>1, <2>2 DEF Clock
<1>6. d \in Scheduler
  BY <1>1, <1>4, CancelSourcesType DEF cancelOlderEvents
<1>7. \A i \in Steps : [d EXCEPT !.setInput[i] = @ \cup {s}] \in Scheduler
  BY <1>1, <1>6, CommitType
<1>8. latestComponentTs' \in [Sources -> Int] =>
        ( /\ sched' \in Scheduler /\ clock' \in Clock
          /\ src' \in [Sources -> [pc : SourcePc, ts : Int, step : Steps, run : BOOLEAN]]
          => TypeOK' )
  BY DEF RequestSourceBuffer, TypeOK, taskVars, ringVars, appVars
<1>9. [latestComponentTs EXCEPT ![s] = ts] \in [Sources -> Int]
      /\ latestComponentTs \in [Sources -> Int]
  BY <1>1 DEF TypeOK
<1>10. "idle" \in SourcePc /\ "refused" \in SourcePc /\ "pad" \in SourcePc
       /\ "waiting" \in SourcePc /\ "holding" \in SourcePc
  BY DEF SourcePc
<1> HIDE DEF c, d
<1>11. CASE RequestInvalid(s, ts)
  BY <1>2, <1>3, <1>4, <1>8, <1>9, <1>10, <1>11 DEF RequestInvalid, requestVars
<1>12. CASE RequestRunning(s, ts)
  BY <1>3, <1>5, <1>7, <1>8, <1>9, <1>10, <1>12 DEF RequestRunning, c, d
<1>13. CASE RequestScheduled(s, ts)
  BY <1>2, <1>3, <1>5, <1>6, <1>8, <1>9, <1>10, <1>13 DEF RequestScheduled, c, d
<1>14. CASE RequestAfterStop(s, ts)
  BY <1>2, <1>3, <1>5, <1>6, <1>8, <1>9, <1>10, <1>14 DEF RequestAfterStop, c, d
<1>15. CASE RequestNewTimestampWait(s, ts)
  <2>1. scheduleEvent(d, "DATA", c.expected) \in Scheduler
    BY <1>5, <1>6, ScheduleType DEF EventType
  <2> QED BY <1>2, <1>3, <1>5, <1>6, <1>8, <1>9, <1>10, <1>15, <2>1
          DEF RequestNewTimestampWait, c, d
<1>16. CASE RequestNewTimestampImmediate(s, ts)
  <2> DEFINE i == NextTimeStep(sched.latest)
             r == scheduleDataEventImmediately(d, ts)
  <2>1. i \in Steps
    BY <1>4, NextTimeStepType DEF Scheduler
  <2>2. d.free = sched.free
    BY <1>4 DEF d, cancelOlderEvents, cancelSources, Scheduler
  <2>3. sched.free > 0 => r \in Scheduler
    BY <1>1, <1>6, <2>2, ImmediateType
  <2> HIDE DEF r
  <2>4. sched.free > 0 => [r EXCEPT !.setInput[i] = @ \cup {s}] \in Scheduler
    BY <1>1, <2>1, <2>3, CommitType
  <2> HIDE DEF i
  <2> QED BY <1>2, <1>3, <1>5, <1>6, <1>8, <1>9, <1>10, <1>16, <2>1, <2>4
          DEF RequestNewTimestampImmediate, c, d, i, r
<1> QED BY <1>11, <1>12, <1>13, <1>14, <1>15, <1>16 DEF RequestSourceBuffer

\* The steps of a source thread outside a request.
LEMMA SourceStepType ==
  ASSUME TypeOK, NEW s \in Sources,
         \/ Padding(s) \/ PaddingDone(s) \/ WaitForRunning(s)
         \/ ClaimSourceBuffer(s) \/ Commit(s) \/ PlayerExit(s)
  PROVE  TypeOK'
<1> DEFINE S == [Sources -> [pc : SourcePc, ts : Int, step : Steps, run : BOOLEAN]]
<1>1. sched \in Scheduler /\ clock \in Clock /\ clock.expected \in Int
  BY DEF TypeOK, Clock
<1>2. src[s].ts \in Int /\ src[s].step \in Steps
  BY DEF TypeOK
<1>3. \A pc \in SourcePc : /\ [src EXCEPT ![s].pc = pc] \in S
                           /\ [src EXCEPT ![s].pc = pc, ![s].run = FALSE] \in S
  BY <1>2, SourceRecordType
<1>4. \A pc \in SourcePc, i \in Steps : [src EXCEPT ![s].pc = pc, ![s].step = i] \in S
  BY <1>2, SourceRecordType
<1>5. advanceTimeStep(clock) \in Clock
  BY <1>1, ClockType
<1>6. ( /\ sched' \in Scheduler /\ clock' \in Clock /\ src' \in S
        /\ UNCHANGED <<latestComponentTs, stopScheduled, finished,
                       taskVars, appVars>> ) => TypeOK'
  BY DEF TypeOK, taskVars, ringVars, appVars
<1>7. {"off", "idle", "pad", "padded", "waiting", "found", "holding"} \subseteq SourcePc
  BY DEF SourcePc
<1>8. src \in S
  BY DEF TypeOK
<1> HIDE DEF S
<1>11. CASE Padding(s)
  <2>1. schedulePaddingEvent(sched, clock.expected, s) \in Scheduler
    BY <1>1, ScheduleType
  <2> QED BY <1>3, <1>5, <1>6, <1>7, <1>11, <2>1 DEF Padding
<1>12. CASE PaddingDone(s)
  <2>1. scheduleEvent(sched, "DATA", clock.expected) \in Scheduler
    BY <1>1, ScheduleType DEF EventType
  <2> QED BY <1>3, <1>5, <1>6, <1>7, <1>12, <2>1 DEF PaddingDone
<1>13. CASE WaitForRunning(s)
  BY <1>1, <1>3, <1>4, <1>6, <1>7, <1>13 DEF WaitForRunning, schedVars, requestVars
<1>14. CASE ClaimSourceBuffer(s)
  <2>1. [sched EXCEPT !.setInput[src[s].step] = @ \cup {s}] \in Scheduler
    BY <1>1, <1>2, CommitType
  <2> QED BY <1>1, <1>3, <1>6, <1>7, <1>14, <2>1 DEF ClaimSourceBuffer, requestVars
<1>15. CASE Commit(s)
  <2>1. commit(sched, s, src[s].step, src[s].ts) \in Scheduler
    BY <1>1, <1>2, CommitType
  <2> QED BY <1>1, <1>3, <1>6, <1>7, <1>15, <2>1 DEF Commit, requestVars
<1>16. CASE PlayerExit(s)
  BY <1>1, <1>3, <1>6, <1>7, <1>16 DEF PlayerExit, schedVars, requestVars
<1> QED BY <1>11, <1>12, <1>13, <1>14, <1>15, <1>16

\* The tasks of the taskflow.
LEMMA TaskflowType ==
  ASSUME TypeOK,
         \/ \E i \in Steps : TaskflowNext(i)
         \/ \E r \in Rings : SerialSeam(r)
         \/ StartSeam
  PROVE  TypeOK'
<1>1. \A r \in Rings, i \in Steps, d \in Scheduler : AfterTask(d, r, i) \subseteq Rings
  BY DEF AfterTask, TypeOK
<1>2. \A s \in Sources : s \in Rings
  BY DEF Rings
<1>3. "sink" \in Rings /\ "end" \in Rings
  BY DEF Rings
<1>4. sched \in Scheduler
  BY DEF TypeOK
<1>5. \A i \in Steps : NextTimeStep(i) \in Steps
  BY NextTimeStepType, SchedulerAssumption DEF Steps
<1>6. ASSUME NEW i \in Steps, SeamEntry(i) PROVE TypeOK'
  BY <1>6 DEF SeamEntry, TypeOK, schedVars, requestVars, ringVars, appVars
<1>7. ASSUME NEW i \in Steps, NEW s \in Sources, StopPlayer(s, i) PROVE TypeOK'
  <2>1. [src EXCEPT ![s].run = FALSE] \in
          [Sources -> [pc : SourcePc, ts : Int, step : Steps, run : BOOLEAN]]
    BY DEF TypeOK
  <2> QED BY <1>7, <2>1
          DEF StopPlayer, TypeOK, schedVars, requestVars, taskVars, ringVars, appVars
<1>8. ASSUME NEW i \in Steps, NEW s \in Sources, SourceTask(s, i) PROVE TypeOK'
  <2>1. [src EXCEPT ![s].pc = "idle", ![s].run = TRUE] \in
          [Sources -> [pc : SourcePc, ts : Int, step : Steps, run : BOOLEAN]]
    BY ZenonT(30) DEF TypeOK, SourcePc
  <2>2. cut' \subseteq Rings
    BY <1>1, <1>2, <1>4, <1>8 DEF SourceTask
  <2>3. src' \in [Sources -> [pc : SourcePc, ts : Int, step : Steps, run : BOOLEAN]]
    BY <1>8, <2>1 DEF SourceTask, TypeOK
  <2>4. done' \in [Steps -> SUBSET Sources] /\ sourceTurn' \in [Sources -> Steps]
    BY <1>5, <1>8 DEF SourceTask, TypeOK
  <2> QED BY <1>8, <2>2, <2>3, <2>4
          DEF SourceTask, TypeOK, schedVars, requestVars, appVars
<1>9. ASSUME NEW i \in Steps, SinkTask(i) PROVE TypeOK'
  <2>1. cut' \subseteq Rings /\ sinkTurn' \in Steps
    BY <1>1, <1>3, <1>4, <1>5, <1>9 DEF SinkTask
  <2>2. sink' \in [type : EventType, ts : Int]
    BY <1>9 DEF SinkTask, TypeOK, Scheduler
  <2>3. phase' \in [Steps -> {"seam", "run", "end", "stopped"}]
    BY <1>9 DEF SinkTask, TypeOK
  <2> QED BY <1>9, <2>1, <2>2, <2>3
          DEF SinkTask, TypeOK, schedVars, requestVars, appVars
<1>10. ASSUME NEW i \in Steps, timeStepEnded(i) PROVE TypeOK'
  <2>1. sched' \in Scheduler
    BY <1>4, <1>10, FreeTimeStepType DEF timeStepEnded
  <2>2. cut' \subseteq Rings /\ endTurn' \in Steps
    BY <1>1, <1>3, <1>5, <1>10, <2>1 DEF timeStepEnded
  <2>3. finished' \subseteq EventType
    BY <1>10 DEF timeStepEnded, FinishedEvent, TypeOK, EventType
  <2>4. /\ phase' \in [Steps -> {"seam", "run", "end", "stopped"}]
        /\ done' \in [Steps -> SUBSET Sources]
    BY <1>10 DEF timeStepEnded, TypeOK
  <2> QED BY <1>10, <2>1, <2>2, <2>3, <2>4
          DEF timeStepEnded, TypeOK, requestVars, appVars
<1>11. ASSUME NEW r \in Rings, SerialSeam(r) PROVE TypeOK'
  BY <1>11 DEF SerialSeam, TypeOK, schedVars, requestVars, appVars
<1>12. ASSUME StartSeam PROVE TypeOK'
  BY <1>12, SchedulerAssumption
     DEF StartSeam, TypeOK, schedVars, requestVars, ringVars, appVars
<1> QED BY <1>6, <1>7, <1>8, <1>9, <1>10, <1>11, <1>12 DEF TaskflowNext

\* The application.
LEMMA AppType ==
  ASSUME TypeOK, AppNext \/ ParameterChanged
  PROVE  TypeOK'
<1>1. sched \in Scheduler /\ kTimestampZero \in Int
  BY DEF TypeOK, kTimestampZero
<1>2. \A type \in EventType : scheduleEvent(sched, type, kTimestampZero) \in Scheduler
  BY <1>1, ScheduleType, SchedulerAssumption
<1>3. cancelSources(sched, Sources, Now) \in Scheduler
  BY <1>1, CancelSourcesType, TimeDomainAssumption
<1>4. \A type \in EventType : scheduleNonDataEvent(type) /\ app' \in AppPhase => TypeOK'
  BY <1>2 DEF scheduleNonDataEvent, TypeOK, requestVars, taskVars, ringVars
<1>5. CASE AppLaunch \/ AppStarted \/ AppTornDown \/ AppFinish
  BY <1>5 DEF AppLaunch, AppStarted, AppTornDown, AppFinish, AppStep, AppPhase,
              TypeOK, schedVars, requestVars, taskVars, ringVars
<1>6. CASE AppConfigure \/ AppStart \/ AppStop \/ AppTeardown
  BY <1>4, <1>6 DEF AppConfigure, AppStart, AppStop, AppTeardown, AppStep, AppPhase,
                    EventType
<1>7. CASE AppStopTimeout
  BY <1>3, <1>7 DEF AppStopTimeout, AppStep, AppPhase,
                    TypeOK, requestVars, taskVars, ringVars
<1>8. CASE AppFlush
  <2>1. scheduleEvent(sched, "DATAFLOW_STOP", kTimestampZero) \in Scheduler
    BY <1>2 DEF EventType
  <2>2. flushed' \in 0..TimeStepCount
    BY <1>8, SchedulerAssumption DEF AppFlush, TypeOK
  <2> QED BY <1>8, <2>1, <2>2 DEF AppFlush, TypeOK, requestVars, taskVars, ringVars
<1>9. CASE ParameterChanged
  <2>1. scheduleEvent(sched, "PARAMETER_CHANGE", kTimestampZero) \in Scheduler
    BY <1>2 DEF EventType
  <2>2. params' \in Nat
    BY <1>9 DEF ParameterChanged, TypeOK
  <2> QED BY <1>9, <2>1, <2>2 DEF ParameterChanged, TypeOK, requestVars, taskVars, ringVars
<1> QED BY <1>5, <1>6, <1>7, <1>8, <1>9 DEF AppNext

\* No step leaves the types.
LEMMA TypeStep ==
  ASSUME TypeOK, [Next]_vars
  PROVE  TypeOK'
<1>1. CASE UNCHANGED vars
  BY <1>1 DEF vars, schedVars, requestVars, taskVars, ringVars, appVars, TypeOK
<1>2. ASSUME NEW s \in Sources, SourceNext(s) PROVE TypeOK'
  BY <1>2, RequestType, SourceStepType DEF SourceNext
<1> QED BY <1>1, <1>2, TaskflowType, AppType DEF Next

\* The initial state is well typed.
LEMMA TypeInit ==
  ASSUME Init
  PROVE  TypeOK
<1>1. 0 \in Steps /\ TimeStepCount \in 0..TimeStepCount /\ 0 \in 0..TimeStepCount
      /\ -1 \in -1..(TimeStepCount - 1)
  BY SchedulerAssumption DEF Steps
<1>2. <<>> \in Seq(Message)
  OBVIOUS
<1>3. InitialScheduler \in Scheduler
  BY <1>1, <1>2 DEF InitialScheduler, Scheduler, EventType, kTimestampZero
<1>4. InitialClock \in Clock
  BY ClockAssumption DEF InitialClock, Clock, kTimestampZero
<1>5. src \in [Sources -> [pc : SourcePc, ts : Int, step : Steps, run : BOOLEAN]]
  BY <1>1 DEF Init, kTimestampZero, SourcePc
<1>6. sink \in [type : EventType, ts : Int] /\ latestComponentTs \in [Sources -> Int]
  BY DEF Init, kTimestampZero, EventType
<1>7. /\ phase \in [Steps -> {"seam", "run", "end", "stopped"}]
      /\ done \in [Steps -> SUBSET Sources] /\ sourceTurn \in [Sources -> Steps]
  BY <1>1 DEF Init
<1>8. app \in AppPhase /\ flushed \in 0..TimeStepCount /\ params \in Nat
  BY <1>1 DEF Init, AppPhase
<1>9. finished \subseteq EventType /\ cut \subseteq Rings
      /\ stopScheduled \in BOOLEAN /\ sinkTurn \in Steps /\ endTurn \in Steps
  BY <1>1 DEF Init
<1> QED BY <1>3, <1>4, <1>5, <1>6, <1>7, <1>8, <1>9 DEF Init, TypeOK

\* Every reachable state of the time domain is well typed.
THEOREM TypeCorrect == Spec => []TypeOK
<1>1. Init => TypeOK
  BY TypeInit
<1>2. TypeOK /\ [Next]_vars => TypeOK'
  BY TypeStep
<1> QED BY <1>1, <1>2, PTL DEF Spec
=============================================================================
