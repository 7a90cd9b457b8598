------------------------- MODULE BufferSafetyProofs -------------------------
(***************************************************************************)
(* The buffers of a time domain are safe, for any number of sources and    *)
(* time steps, any timestamps and both source modes: BufferInv of module   *)
(* TimeDomainInvariant is inductive under the settings Disciplined.        *)
(*                                                                         *)
(* The first part is about the scheduler's operators alone: each keeps     *)
(* RingInv, leaves the running time steps as they are (Keeps) and gives up *)
(* the input of a source only where it should (GivenUpBefore).  The second *)
(* part combines these facts, one lemma for each group of actions.  The    *)
(* third is about the frames that go ahead without the data of a source    *)
(* (LeavesItselfOut) and about the clock's padding (ClockOnGrid).          *)
(***************************************************************************)
EXTENDS TimeDomainInvariant, TimeDomainProofs

-----------------------------------------------------------------------------
(* The ring. *)

\* Distances along the ring, and how they change from one step to the next.
LEMMA RingArithmetic ==
  ASSUME NEW e \in Steps
  PROVE  /\ RingDistance(e, e) = 0
         /\ \A i \in Steps : RingDistance(e, i) \in 0..(TimeStepCount - 1)
         /\ \A i, j \in Steps : RingDistance(e, i) = RingDistance(e, j) => i = j
         /\ \A i \in Steps : RingDistance(NextTimeStep(e), i)
              = IF i = e THEN TimeStepCount - 1 ELSE RingDistance(e, i) - 1
         /\ \A i \in Steps : RingDistance(e, NextTimeStep(i))
              = IF RingDistance(e, i) = TimeStepCount - 1 THEN 0
                ELSE RingDistance(e, i) + 1
BY SchedulerAssumption, NextTimeStepType DEF RingDistance, Steps

\* Time step i of d is loaded with the message m, the result is r.
Loads(d, r, i, m, C) ==
  /\ r.latest = i
  /\ r.running = [d.running EXCEPT ![i] = TRUE]
  /\ r.runningTs = [d.runningTs EXCEPT ![i] = m.ts]
  /\ r.event = [d.event EXCEPT ![i] = [type |-> m.type, ts |-> m.ts]]
  /\ r.lock = [d.lock EXCEPT ![i] = @ \cup C]
  /\ r.data = d.data
  /\ r.latestRunning = IF m.type = "DATA" THEN m.ts ELSE d.latestRunning
  /\ r.overrun = (d.overrun \/ d.running[i])

\* A promise is set twice when the message m is taken from the queue.
Throws(d, i, m) ==
  \/ d.thrown
  \/ CommittedSources(m) \cap d.lock[i] # {}
  \/ m.type = "DATA" /\ \E s \in Sources : m.invalid[s] > 1

\* takeTaskflow loads.
LEMMA TakeLoads ==
  ASSUME NEW d \in Scheduler, NEW i \in Steps, NEW m \in Message,
         NEW C \in SUBSET Sources
  PROVE  /\ Loads(d, takeTaskflow(d, i, m, C), i, m, C)
         /\ takeTaskflow(d, i, m, C).queue = d.queue
         /\ takeTaskflow(d, i, m, C).free = d.free
         /\ takeTaskflow(d, i, m, C).thrown = d.thrown
BY DEF takeTaskflow, Loads, Scheduler

\* runTaskFlowFromQueue loads the head of the queue.
LEMMA RunFromQueueLoads ==
  ASSUME NEW d \in Scheduler, d.queue # <<>>
  PROVE  LET r == runTaskFlowFromQueue(d)
             m == Head(d.queue)
         IN /\ Loads(d, r, NextTimeStep(d.latest), m, CommittedSources(m))
            /\ r.queue = Tail(d.queue)
            /\ r.free = d.free
            /\ r.thrown = Throws(d, NextTimeStep(d.latest), m)
<1> DEFINE m == Head(d.queue)
           i == NextTimeStep(d.latest)
           t == takeTaskflow(d, i, m, CommittedSources(m))
           q == Tail(d.queue)
           r == runTaskFlowFromQueue(d)
<1>1. m \in Message /\ i \in Steps /\ CommittedSources(m) \in SUBSET Sources
  BY NextTimeStepType DEF Scheduler, CommittedSources
<1>2. t \in Scheduler
  BY <1>1, TakeTaskflowType
<1>3. /\ Loads(d, t, i, m, CommittedSources(m)) /\ t.free = d.free
      /\ t.thrown = d.thrown
  BY <1>1, TakeLoads
<1>4. PICK b : /\ r = [t EXCEPT !.queue = q, !.thrown = b]
               /\ b = Throws(d, i, m)
  <2>1. r = [t EXCEPT !.queue = q,
                      !.thrown = \/ t.thrown
                                 \/ CommittedSources(m) \cap d.lock[i] # {}
                                 \/ m.type = "DATA" /\ \E s \in Sources : m.invalid[s] > 1]
    BY DEF runTaskFlowFromQueue
  <2> HIDE DEF t, q, r, m, i
  <2> QED BY <1>3, <2>1 DEF Throws
<1> HIDE DEF t, q, r
<1>5. /\ r.queue = q /\ r.free = t.free /\ r.latest = t.latest
      /\ r.running = t.running /\ r.runningTs = t.runningTs /\ r.event = t.event
      /\ r.lock = t.lock /\ r.data = t.data /\ r.overrun = t.overrun
      /\ r.latestRunning = t.latestRunning /\ r.thrown = Throws(d, i, m)
  BY <1>2, <1>4 DEF Scheduler
<1> HIDE DEF m, i
<1>6. Loads(d, r, i, m, CommittedSources(m))
  BY <1>3, <1>5 DEF Loads
<1> QED BY <1>3, <1>5, <1>6 DEF r, q, m, i

\* A message is appended to the queue, or loaded when a time step is free.
LEMMA EnqueueCases ==
  ASSUME NEW d \in Scheduler, NEW m \in Message, d.queue # <<>> => d.free = 0
  PROVE  LET r == Enqueue(d, m)
         IN \/ /\ d.free = 0
               /\ r = [d EXCEPT !.queue = Append(d.queue, m)]
            \/ /\ d.free > 0
               /\ Loads(d, r, NextTimeStep(d.latest), m, CommittedSources(m))
               /\ r.queue = <<>>
               /\ r.free = d.free - 1
               /\ r.thrown = Throws(d, NextTimeStep(d.latest), m)
<1>1. CASE d.free = 0
  BY <1>1 DEF Enqueue
<1>2. CASE d.free > 0
  <2> DEFINE a == Append(d.queue, m)
             q == [d EXCEPT !.queue = a]
             z == [q EXCEPT !.free = @ - 1]
             r == runTaskFlowFromQueue(z)
  <2>1. Enqueue(d, m) = r
    BY <1>2 DEF Enqueue
  <2>2. a = <<m>>
    <3>1. d.queue = <<>>
      BY <1>2
    <3>2. Append(<<>>, m) = <<m>>
      OBVIOUS
    <3> QED BY <3>1, <3>2
  <2>3. a \in Seq(Message) /\ a # <<>> /\ Head(a) = m /\ Tail(a) = <<>>
    BY <2>2
  <2> HIDE DEF a
  <2>4. q \in Scheduler /\ q.queue = a /\ q.free = d.free
    BY <2>3 DEF Scheduler
  <2>5. d.free - 1 \in 0..TimeStepCount
    BY <1>2, SchedulerAssumption DEF Scheduler
  <2>6. /\ z \in Scheduler /\ z.queue = a /\ z.free = d.free - 1
        /\ z.latest = d.latest /\ z.running = d.running
        /\ z.runningTs = d.runningTs /\ z.event = d.event /\ z.lock = d.lock
        /\ z.data = d.data /\ z.overrun = d.overrun
        /\ z.latestRunning = d.latestRunning /\ z.thrown = d.thrown
    BY <2>4, <2>5 DEF Scheduler
  <2> HIDE DEF z
  <2>7. /\ Loads(z, r, NextTimeStep(z.latest), m, CommittedSources(m))
        /\ r.queue = <<>> /\ r.free = z.free
        /\ r.thrown = Throws(z, NextTimeStep(z.latest), m)
    BY <2>3, <2>6, RunFromQueueLoads
  <2> HIDE DEF r
  <2>8. Loads(d, r, NextTimeStep(d.latest), m, CommittedSources(m))
    BY <2>6, <2>7 DEF Loads
  <2>9. r.thrown = Throws(d, NextTimeStep(d.latest), m)
    BY <2>6, <2>7 DEF Throws
  <2> QED BY <1>2, <2>1, <2>6, <2>7, <2>8, <2>9
<1> QED BY <1>1, <1>2, SchedulerAssumption DEF Scheduler

\* scheduleDataEventImmediately loads a DATA event.
LEMMA ImmediateLoads ==
  ASSUME NEW d \in Scheduler, NEW ts \in Int, d.free > 0
  PROVE  LET r == scheduleDataEventImmediately(d, ts)
         IN /\ Loads(d, r, NextTimeStep(d.latest), ScheduledEvent("DATA", ts), {})
            /\ r.queue = d.queue
            /\ r.free = d.free - 1
            /\ r.thrown = d.thrown
<1> DEFINE z == [d EXCEPT !.free = @ - 1]
           m == ScheduledEvent("DATA", ts)
           r == scheduleDataEventImmediately(d, ts)
<1>1. d.free - 1 \in 0..TimeStepCount
  BY SchedulerAssumption DEF Scheduler
<1>2. /\ z \in Scheduler /\ z.queue = d.queue /\ z.free = d.free - 1
      /\ z.latest = d.latest /\ z.running = d.running
      /\ z.runningTs = d.runningTs /\ z.event = d.event /\ z.lock = d.lock
      /\ z.data = d.data /\ z.overrun = d.overrun
      /\ z.latestRunning = d.latestRunning /\ z.thrown = d.thrown
  BY <1>1 DEF Scheduler
<1>3. r = takeTaskflow(z, NextTimeStep(d.latest), m, {})
  BY DEF scheduleDataEventImmediately
<1>4. NextTimeStep(d.latest) \in Steps /\ m \in Message
  BY NextTimeStepType, MessageType DEF Scheduler, EventType
<1> HIDE DEF z, m, r
<1>5. /\ Loads(z, r, NextTimeStep(d.latest), m, {})
      /\ r.queue = z.queue /\ r.free = z.free /\ r.thrown = z.thrown
  BY <1>2, <1>3, <1>4, TakeLoads
<1>6. Loads(d, r, NextTimeStep(d.latest), m, {})
  BY <1>2, <1>5 DEF Loads
<1> QED BY <1>2, <1>5, <1>6 DEF m, r

-----------------------------------------------------------------------------
(* RingInv is kept. *)

\* Loading the next time step keeps RingInv.
LEMMA LoadKeepsRing ==
  ASSUME NEW d \in Scheduler, NEW r \in Scheduler, NEW e \in Steps,
         NEW i \in Steps, NEW m \in Message, NEW C \in SUBSET Sources,
         Loads(d, r, i, m, C),
         ~d.overrun, ~d.running[i], DataBelongs(d), LocksRun(d),
         \A j \in Steps \ {i} : StepConsistent(d, j),
         \A j \in Steps : d.running[j] <=> RingDistance(e, j) < InUse(r) - 1,
         RingDistance(e, i) = InUse(r) - 1,
         m.type # "DATA" => m.ts = kTimestampZero,
         r.queue # <<>> => r.free = 0,
         \A k \in 1..Len(r.queue) :
           r.queue[k].type # "DATA" => r.queue[k].ts = kTimestampZero
  PROVE  RingInv(r, e)
<1>1. ~r.overrun
  BY DEF Loads
<1>2. Window(r, e)
  <2>1. r.free \in 0..TimeStepCount /\ TimeStepCount \in Nat \ {0}
    BY SchedulerAssumption DEF Scheduler
  <2>2. \A j \in Steps : RingDistance(e, j) \in 0..(TimeStepCount - 1)
    BY RingArithmetic
  <2>3. \A j \in Steps : r.running[j] <=> (j = i \/ d.running[j])
    <3>1. d.running \in [Steps -> BOOLEAN] /\ r.running = [d.running EXCEPT ![i] = TRUE]
      BY DEF Loads, Scheduler
    <3> QED BY <3>1
  <2>4. \A j \in Steps : r.running[j] <=> RingDistance(e, j) < InUse(r)
    <3>1. \A j \in Steps : RingDistance(e, j) = RingDistance(e, i) => j = i
      BY RingArithmetic
    <3> QED BY <2>1, <2>2, <2>3, <3>1 DEF InUse
  <2>5. RingDistance(e, NextTimeStep(r.latest)) = IF r.free = 0 THEN 0 ELSE InUse(r)
    <3>1. r.latest = i
      BY DEF Loads
    <3>2. RingDistance(e, NextTimeStep(i))
            = IF RingDistance(e, i) = TimeStepCount - 1 THEN 0
              ELSE RingDistance(e, i) + 1
      BY RingArithmetic
    <3> QED BY <2>1, <3>1, <3>2 DEF InUse
  <2> QED BY <2>4, <2>5 DEF Window
<1>3. EventsConsistent(r)
  <2>1. \A j \in Steps : j # i =>
          /\ r.running[j] = d.running[j] /\ r.event[j] = d.event[j]
          /\ r.runningTs[j] = d.runningTs[j]
    BY DEF Loads, Scheduler
  <2>2. r.running[i] /\ r.event[i].type = m.type /\ r.event[i].ts = m.ts
        /\ r.runningTs[i] = m.ts
    <3>1. /\ d.running \in [Steps -> BOOLEAN]
          /\ DOMAIN d.event = Steps
          /\ DOMAIN d.runningTs = Steps
      BY DEF Scheduler
    <3>2. /\ r.running = [d.running EXCEPT ![i] = TRUE]
          /\ r.runningTs = [d.runningTs EXCEPT ![i] = m.ts]
          /\ r.event = [d.event EXCEPT ![i] = [type |-> m.type, ts |-> m.ts]]
      BY DEF Loads
    <3> QED BY ONLY <3>1, <3>2, i \in Steps
  <2> QED BY <2>1, <2>2 DEF EventsConsistent, StepConsistent
<1>4. DataBelongs(r)
  <2>1. \A j \in Steps : j # i => r.running[j] = d.running[j] /\ r.event[j] = d.event[j]
    BY DEF Loads, Scheduler
  <2>2. \A s \in Sources : r.data[i][s] = kTimestampZero
    BY DEF Loads, DataBelongs
  <2> QED BY <2>1, <2>2 DEF DataBelongs, Loads
<1>5. LocksRun(r)
  BY DEF LocksRun, Loads, Scheduler
<1> QED BY <1>1, <1>2, <1>3, <1>4, <1>5 DEF RingInv

\* Scheduling a message keeps RingInv.
LEMMA EnqueueKeepsRing ==
  ASSUME NEW d, NEW e \in Steps, NEW m \in Message, RingInv(d, e),
         m.type # "DATA" => m.ts = kTimestampZero
  PROVE  RingInv(Enqueue(d, m), e)
<1> DEFINE r == Enqueue(d, m)
           i == NextTimeStep(d.latest)
<1>1. d \in Scheduler /\ r \in Scheduler /\ i \in Steps
  BY EnqueueType, NextTimeStepType DEF RingInv, Scheduler
<1>2. d.queue # <<>> => d.free = 0
  BY DEF RingInv, Window
<1>3. CASE d.free = 0 /\ r = [d EXCEPT !.queue = Append(d.queue, m)]
  <2> DEFINE a == Append(d.queue, m)
  <2>1. d.queue \in Seq(Message)
    BY <1>1 DEF Scheduler
  <2>2. a # <<>> /\ Len(a) = Len(d.queue) + 1 /\ a[Len(d.queue) + 1] = m
        /\ \A k \in 1..Len(d.queue) : a[k] = d.queue[k]
    BY <2>1
  <2>3. \A k \in 1..Len(a) : a[k].type # "DATA" => a[k].ts = kTimestampZero
    <3>1. \A k \in 1..Len(d.queue) :
            d.queue[k].type # "DATA" => d.queue[k].ts = kTimestampZero
      BY DEF RingInv, EventsConsistent, StepConsistent
    <3>2. Len(d.queue) \in Nat
      BY <2>1
    <3>3. \A k \in 1..Len(a) : k \in 1..Len(d.queue) \/ k = Len(d.queue) + 1
      BY <2>2, <3>2
    <3> QED BY <2>2, <3>1, <3>3
  <2> HIDE DEF a
  <2>4. /\ r.queue = a /\ r.free = d.free /\ r.latest = d.latest
        /\ r.running = d.running /\ r.runningTs = d.runningTs /\ r.event = d.event
        /\ r.lock = d.lock /\ r.data = d.data /\ r.overrun = d.overrun
    BY <1>1, <1>3 DEF Scheduler, a
  <2> HIDE DEF r
  <2>5. Window(r, e)
    BY <1>3, <2>4 DEF RingInv, Window, InUse
  <2>6. EventsConsistent(r)
    BY <2>3, <2>4 DEF RingInv, EventsConsistent, StepConsistent
  <2>7. DataBelongs(r) /\ LocksRun(r) /\ ~r.overrun
    BY <2>4 DEF RingInv, DataBelongs, LocksRun
  <2>8. RingInv(r, e)
    BY <1>1, <2>5, <2>6, <2>7 DEF RingInv, r
  <2> QED BY <2>8 DEF r
<1>4. CASE /\ d.free > 0 /\ Loads(d, r, i, m, CommittedSources(m))
           /\ r.queue = <<>> /\ r.free = d.free - 1
  <2>1. CommittedSources(m) \in SUBSET Sources
    BY DEF CommittedSources
  <2> HIDE DEF r, i
  <2>2. /\ RingDistance(e, i) = InUse(d) /\ InUse(d) = InUse(r) - 1
        /\ \A j \in Steps : d.running[j] <=> RingDistance(e, j) < InUse(d)
    <3>1. RingDistance(e, i) = InUse(d)
      BY <1>1, <1>4 DEF RingInv, Window, i
    <3>2. InUse(d) = InUse(r) - 1
      <4>1. d.free \in 0..TimeStepCount
        BY <1>1 DEF Scheduler
      <4> QED BY <1>4, <4>1, SchedulerAssumption DEF InUse
    <3> QED BY <3>1, <3>2 DEF RingInv, Window
  <2>3. ~d.running[i]
    <3>1. InUse(d) \in Int
      BY <1>1, SchedulerAssumption DEF InUse, Scheduler
    <3> QED BY <1>1, <2>2, <3>1
  <2>4. \A k \in 1..Len(r.queue) :
          r.queue[k].type # "DATA" => r.queue[k].ts = kTimestampZero
    <3>1. Len(r.queue) = 0
      BY <1>4
    <3> QED BY <3>1
  <2>5. /\ ~d.overrun /\ DataBelongs(d) /\ LocksRun(d)
        /\ \A j \in Steps \ {i} : StepConsistent(d, j)
    BY DEF RingInv, EventsConsistent
  <2>6. RingInv(r, e)
    BY <1>1, <1>4, <2>1, <2>2, <2>3, <2>4, <2>5, LoadKeepsRing
  <2> QED BY <2>6 DEF r
<1> QED BY <1>1, <1>2, <1>3, <1>4, EnqueueCases

\* Taking a free time step for a DATA event keeps RingInv.
LEMMA ImmediateKeepsRing ==
  ASSUME NEW d, NEW e \in Steps, NEW ts \in Int, RingInv(d, e), d.free > 0
  PROVE  RingInv(scheduleDataEventImmediately(d, ts), e)
<1> DEFINE r == scheduleDataEventImmediately(d, ts)
           i == NextTimeStep(d.latest)
           m == ScheduledEvent("DATA", ts)
<1>1. d \in Scheduler /\ r \in Scheduler /\ i \in Steps /\ m \in Message
  BY ImmediateType, NextTimeStepType, MessageType DEF RingInv, Scheduler, EventType
<1>2. Loads(d, r, i, m, {}) /\ r.queue = d.queue /\ r.free = d.free - 1
  BY <1>1, ImmediateLoads
<1>3. m.type = "DATA"
  BY DEF ScheduledEvent
<1> HIDE DEF r, i, m
<1>4. RingDistance(e, i) = InUse(d) /\ r.queue = <<>>
  BY <1>1, <1>2 DEF RingInv, Window, i
<1>5. InUse(d) = InUse(r) - 1 /\ InUse(d) \in Int
  <2>1. d.free \in 0..TimeStepCount
    BY <1>1 DEF Scheduler
  <2> QED BY <1>2, <2>1, SchedulerAssumption DEF InUse
<1>6. /\ \A j \in Steps : d.running[j] <=> RingDistance(e, j) < InUse(d)
      /\ ~d.overrun /\ DataBelongs(d) /\ LocksRun(d)
      /\ \A j \in Steps \ {i} : StepConsistent(d, j)
  BY DEF RingInv, Window, EventsConsistent
<1>7. ~d.running[i]
  BY <1>1, <1>4, <1>5, <1>6
<1>8. \A k \in 1..Len(r.queue) :
        r.queue[k].type # "DATA" => r.queue[k].ts = kTimestampZero
  <2>1. Len(r.queue) = 0
    BY <1>4
  <2> QED BY <2>1
<1>9. {} \in SUBSET Sources
  OBVIOUS
<1>10. RingInv(r, e)
  BY <1>1, <1>2, <1>3, <1>4, <1>5, <1>6, <1>7, <1>8, <1>9, LoadKeepsRing
<1> QED BY <1>10 DEF r

\* What cancelSources changes: the locks of older running time steps and the
\* invalid sources of older messages, both for the sources of C only.
Cancels(d, r, C, ts) ==
  /\ r.free = d.free /\ r.latest = d.latest /\ r.running = d.running
  /\ r.runningTs = d.runningTs /\ r.event = d.event /\ r.data = d.data
  /\ r.overrun = d.overrun /\ r.latestRunning = d.latestRunning /\ r.thrown = d.thrown
  /\ \A i \in Steps : d.lock[i] \subseteq r.lock[i]
  /\ \A i \in Steps : \A s \in r.lock[i] \ d.lock[i] :
       s \in C /\ d.running[i] /\ IsOlder(d.runningTs[i], ts)
  /\ Len(r.queue) = Len(d.queue)
  /\ r.queue # <<>> => d.queue # <<>>
  /\ \A k \in 1..Len(d.queue) :
       /\ r.queue[k].type = d.queue[k].type
       /\ r.queue[k].ts = d.queue[k].ts
       /\ \A s \in Sources :
            \/ r.queue[k].invalid[s] = d.queue[k].invalid[s]
            \/ /\ s \in C /\ d.queue[k].type = "DATA" /\ IsOlder(d.queue[k].ts, ts)
               /\ r.queue[k].invalid[s] = d.queue[k].invalid[s] + 1

\* cancelSources cancels.
LEMMA CancelSourcesCancels ==
  ASSUME NEW d \in Scheduler, NEW C \in SUBSET Sources, NEW ts \in Int
  PROVE  Cancels(d, cancelSources(d, C, ts), C, ts)
<1> DEFINE r == cancelSources(d, C, ts)
           q == CancelledQueue(d, C, ts)
           lk == [i \in Steps |-> d.lock[i] \cup Cancelled(d, C, ts, i)]
           si == [i \in Steps |-> d.setInput[i] \cup Cancelled(d, C, ts, i)]
<1>1. r = [d EXCEPT !.setInput = si, !.lock = lk, !.queue = q]
  BY DEF cancelSources
<1> HIDE DEF r, q, lk, si
<1>2. /\ r.free = d.free /\ r.latest = d.latest /\ r.running = d.running
      /\ r.runningTs = d.runningTs /\ r.event = d.event /\ r.data = d.data
      /\ r.overrun = d.overrun /\ r.lock = lk /\ r.queue = q
      /\ r.latestRunning = d.latestRunning /\ r.thrown = d.thrown
  BY <1>1 DEF Scheduler
<1>3. \A i \in Steps : lk[i] = d.lock[i] \cup Cancelled(d, C, ts, i)
  BY DEF lk
<1>4. \A i \in Steps : \A s \in Cancelled(d, C, ts, i) :
        s \in C /\ d.running[i] /\ IsOlder(d.runningTs[i], ts)
  BY DEF Cancelled
<1>5. d.queue \in Seq(Message) /\ q \in Seq(Message) /\ Len(q) = Len(d.queue)
  BY CancelledQueueType DEF Scheduler, q
<1>6. q # <<>> => d.queue # <<>>
  BY <1>5
<1>7. ASSUME NEW k \in 1..Len(d.queue)
      PROVE  /\ q[k].type = d.queue[k].type
             /\ q[k].ts = d.queue[k].ts
             /\ \A s \in Sources :
                  \/ q[k].invalid[s] = d.queue[k].invalid[s]
                  \/ /\ s \in C /\ d.queue[k].type = "DATA" /\ IsOlder(d.queue[k].ts, ts)
                     /\ q[k].invalid[s] = d.queue[k].invalid[s] + 1
  <2> DEFINE m == d.queue[k]
  <2>1. m \in Message
    BY <1>5
  <2>2. q[k] = IF m.type = "DATA" /\ IsOlder(m.ts, ts) THEN MarkInvalid(m, C) ELSE m
    BY DEF q, CancelledQueue
  <2> HIDE DEF m
  <2>3. /\ MarkInvalid(m, C).type = m.type /\ MarkInvalid(m, C).ts = m.ts
        /\ \A s \in Sources : MarkInvalid(m, C).invalid[s] =
             IF s \in C THEN m.invalid[s] + 1 ELSE m.invalid[s]
    BY <2>1 DEF MarkInvalid, Message
  <2> QED BY <2>2, <2>3 DEF m
<1>8. Cancels(d, r, C, ts)
  BY <1>2, <1>3, <1>4, <1>5, <1>6, <1>7 DEF Cancels
<1> QED BY <1>8 DEF r

\* Cancelling keeps RingInv.
LEMMA CancelKeepsRing ==
  ASSUME NEW d, NEW e \in Steps, NEW C \in SUBSET Sources, NEW ts \in Int, RingInv(d, e)
  PROVE  RingInv(cancelSources(d, C, ts), e)
<1> DEFINE r == cancelSources(d, C, ts)
<1>1. d \in Scheduler /\ r \in Scheduler
  BY CancelSourcesType DEF RingInv
<1>2. Cancels(d, r, C, ts)
  BY <1>1, CancelSourcesCancels
<1> HIDE DEF r
<1>3. Window(r, e)
  BY <1>2 DEF RingInv, Window, InUse, Cancels
<1>4. EventsConsistent(r)
  BY <1>2 DEF RingInv, EventsConsistent, StepConsistent, Cancels
<1>5. DataBelongs(r) /\ ~r.overrun
  BY <1>2 DEF RingInv, DataBelongs, Cancels
<1>6. LocksRun(r)
  BY <1>2 DEF RingInv, LocksRun, Cancels
<1>9. RingInv(r, e)
  BY <1>1, <1>3, <1>4, <1>5, <1>6 DEF RingInv
<1> QED BY <1>9 DEF r

\* What a commit changes.
LEMMA CommitFields ==
  ASSUME NEW d \in Scheduler, NEW s \in Sources, NEW i \in Steps, NEW ts \in Int
  PROVE  LET r == commit(d, s, i, ts)
         IN /\ r.free = d.free /\ r.latest = d.latest /\ r.running = d.running
            /\ r.runningTs = d.runningTs /\ r.event = d.event /\ r.queue = d.queue
            /\ r.overrun = d.overrun /\ r.latestRunning = d.latestRunning
            /\ r.thrown = (d.thrown \/ s \in d.lock[i])
            /\ r.lock = [d.lock EXCEPT ![i] = @ \cup {s}]
            /\ r.data = [d.data EXCEPT ![i][s] = ts]
BY DEF commit, Scheduler

\* Committing data that belongs to the time step keeps RingInv.
LEMMA CommitKeepsRing ==
  ASSUME NEW d, NEW e \in Steps, NEW s \in Sources, NEW i \in Steps, NEW ts \in Int,
         RingInv(d, e), d.running[i], d.event[i].type = "DATA",
         isWithinRange(d.event[i].ts, ts)
  PROVE  RingInv(commit(d, s, i, ts), e)
<1> DEFINE r == commit(d, s, i, ts)
<1>1. d \in Scheduler /\ r \in Scheduler
  BY CommitType DEF RingInv
<1>2. /\ r.free = d.free /\ r.latest = d.latest /\ r.running = d.running
      /\ r.runningTs = d.runningTs /\ r.event = d.event /\ r.queue = d.queue
      /\ r.overrun = d.overrun
      /\ r.lock = [d.lock EXCEPT ![i] = @ \cup {s}]
      /\ r.data = [d.data EXCEPT ![i][s] = ts]
  BY <1>1, CommitFields
<1> HIDE DEF r
<1>3. Window(r, e)
  BY <1>2 DEF RingInv, Window, InUse
<1>4. EventsConsistent(r) /\ ~r.overrun
  BY <1>2 DEF RingInv, EventsConsistent, StepConsistent
<1>5. DataBelongs(r)
  <2>1. d.data \in [Steps -> [Sources -> Int]]
    BY <1>1 DEF Scheduler
  <2>2. \A j \in Steps, t \in Sources :
          r.data[j][t] = IF j = i /\ t = s THEN ts ELSE d.data[j][t]
    BY <1>2, <2>1
  <2> QED BY <1>2, <2>2 DEF RingInv, DataBelongs
<1>6. LocksRun(r)
  <2>1. \A j \in Steps : j # i => r.lock[j] = d.lock[j]
    BY <1>1, <1>2 DEF Scheduler
  <2> QED BY <1>2, <2>1 DEF RingInv, LocksRun
<1>7. RingInv(r, e)
  BY <1>1, <1>3, <1>4, <1>5, <1>6 DEF RingInv
<1> QED BY <1>7 DEF r

\* Marking the input of a source as taken changes nothing that matters here.
LEMMA SetInputKeepsRing ==
  ASSUME NEW d, NEW e \in Steps, NEW s \in Sources, NEW i \in Steps, RingInv(d, e)
  PROVE  LET r == [d EXCEPT !.setInput[i] = @ \cup {s}]
         IN /\ RingInv(r, e) /\ r.running = d.running /\ r.event = d.event
            /\ r.lock = d.lock /\ r.queue = d.queue
<1> DEFINE r == [d EXCEPT !.setInput[i] = @ \cup {s}]
<1>1. d \in Scheduler /\ r \in Scheduler
  <2>1. 0 \in Int
    OBVIOUS
  <2> QED BY <2>1, CommitType DEF RingInv
<1>2. /\ r.free = d.free /\ r.latest = d.latest /\ r.running = d.running
      /\ r.runningTs = d.runningTs /\ r.event = d.event /\ r.queue = d.queue
      /\ r.overrun = d.overrun /\ r.lock = d.lock /\ r.data = d.data
  BY <1>1 DEF Scheduler
<1> HIDE DEF r
<1>3. Window(r, e) /\ EventsConsistent(r) /\ ~r.overrun
  BY <1>2 DEF RingInv, Window, InUse, EventsConsistent, StepConsistent
<1>4. DataBelongs(r) /\ LocksRun(r)
  BY <1>2 DEF RingInv, DataBelongs, LocksRun
<1> QED BY <1>1, <1>2, <1>3, <1>4 DEF RingInv, r

\* A time step without its event: its locks and data are reset.
Cleared(d, z, e) ==
  /\ z \in Scheduler
  /\ z.free = d.free /\ z.latest = d.latest /\ z.event = d.event
  /\ z.queue = d.queue /\ z.overrun = d.overrun /\ z.runningTs = d.runningTs
  /\ z.latestRunning = d.latestRunning /\ z.thrown = d.thrown
  /\ z.running = [d.running EXCEPT ![e] = FALSE]
  /\ z.lock = [d.lock EXCEPT ![e] = {}]
  /\ z.data = [d.data EXCEPT ![e] = [s \in Sources |-> kTimestampZero]]

\* freeTimeStep clears the time step and then frees it or loads it again.
LEMMA FreeCases ==
  ASSUME NEW d \in Scheduler, NEW e \in Steps
  PROVE  LET r == freeTimeStep(d, e)
         IN \E z : /\ Cleared(d, z, e)
                   /\ \/ d.queue = <<>> /\ r = setTaskflowFree(z, e)
                      \/ d.queue # <<>> /\ r = runTaskFlowFromQueue(z)
<1> DEFINE y == resetNewEvent(d, e)
           z == [y EXCEPT !.running[e] = FALSE]
           none == [s \in Sources |-> kTimestampZero]
<1>1. y = [d EXCEPT !.lock[e] = {}, !.data[e] = none]
  BY DEF resetNewEvent
<1>2. y \in Scheduler
  BY ResetType
<1> HIDE DEF y, none
<1>3. /\ y.free = d.free /\ y.latest = d.latest /\ y.event = d.event
      /\ y.queue = d.queue /\ y.overrun = d.overrun /\ y.runningTs = d.runningTs
      /\ y.running = d.running /\ y.latestRunning = d.latestRunning /\ y.thrown = d.thrown
      /\ y.lock = [d.lock EXCEPT ![e] = {}] /\ y.data = [d.data EXCEPT ![e] = none]
  BY <1>1 DEF Scheduler
<1>4. /\ z \in Scheduler
      /\ z.free = y.free /\ z.latest = y.latest /\ z.event = y.event
      /\ z.queue = y.queue /\ z.overrun = y.overrun /\ z.runningTs = y.runningTs
      /\ z.running = [y.running EXCEPT ![e] = FALSE]
      /\ z.latestRunning = y.latestRunning /\ z.thrown = y.thrown
      /\ z.lock = y.lock /\ z.data = y.data
  BY <1>2 DEF Scheduler
<1>5. freeTimeStep(d, e) = IF d.queue = <<>> THEN setTaskflowFree(z, e)
                           ELSE runTaskFlowFromQueue(z)
  BY DEF freeTimeStep, y
<1> HIDE DEF z
<1>6. Cleared(d, z, e)
  BY <1>3, <1>4 DEF Cleared, none
<1> QED BY <1>5, <1>6

\* The window of running time steps after its first step was cleared.
LEMMA ClearedWindow ==
  ASSUME NEW d, NEW z, NEW e \in Steps, RingInv(d, e), d.running[e], Cleared(d, z, e)
  PROVE  /\ InUse(d) \in 1..TimeStepCount
         /\ \A j \in Steps :
              z.running[j] <=> RingDistance(NextTimeStep(e), j) < InUse(d) - 1
         /\ DataBelongs(z) /\ LocksRun(z) /\ ~z.overrun
         /\ \A j \in Steps \ {e} : StepConsistent(z, j)
         /\ \A s \in Sources : z.data[e][s] = kTimestampZero
         /\ z.lock[e] = {}
<1>1. d \in Scheduler
  BY DEF RingInv
<1>2. InUse(d) \in 1..TimeStepCount
  <2>1. d.free \in 0..TimeStepCount
    BY <1>1 DEF Scheduler
  <2>2. RingDistance(e, e) = 0 /\ RingDistance(e, e) < InUse(d)
    BY RingArithmetic DEF RingInv, Window
  <2> QED BY <2>1, <2>2, SchedulerAssumption DEF InUse
<1>3. \A j \in Steps : z.running[j] <=> (j # e /\ d.running[j])
  <2>1. d.running \in [Steps -> BOOLEAN] /\ z.running = [d.running EXCEPT ![e] = FALSE]
    BY <1>1 DEF Scheduler, Cleared
  <2> QED BY <2>1
<1>4. \A j \in Steps :
        z.running[j] <=> RingDistance(NextTimeStep(e), j) < InUse(d) - 1
  <2>1. \A j \in Steps : d.running[j] <=> RingDistance(e, j) < InUse(d)
    BY DEF RingInv, Window
  <2>2. \A j \in Steps : RingDistance(NextTimeStep(e), j)
              = IF j = e THEN TimeStepCount - 1 ELSE RingDistance(e, j) - 1
    BY RingArithmetic
  <2>3. \A j \in Steps : RingDistance(e, j) \in 0..(TimeStepCount - 1)
    BY RingArithmetic
  <2> QED BY <1>2, <1>3, <2>1, <2>2, <2>3, SchedulerAssumption
<1>5. /\ z.lock[e] = {} /\ \A s \in Sources : z.data[e][s] = kTimestampZero
      /\ \A j \in Steps \ {e} : z.lock[j] = d.lock[j] /\ z.data[j] = d.data[j]
  BY <1>1 DEF Cleared, Scheduler
<1>6. z.event = d.event /\ z.runningTs = d.runningTs /\ z.overrun = d.overrun
  BY DEF Cleared
<1>7. LocksRun(z)
  BY <1>3, <1>5 DEF LocksRun, RingInv
<1>8. DataBelongs(z)
  BY <1>3, <1>5, <1>6 DEF DataBelongs, RingInv
<1>9. \A j \in Steps \ {e} : StepConsistent(z, j)
  BY <1>3, <1>6 DEF StepConsistent, EventsConsistent, RingInv
<1> QED BY <1>2, <1>4, <1>5, <1>6, <1>7, <1>8, <1>9 DEF RingInv

\* The time step is put back to the free ones.
Freed(d, r, e) ==
  /\ d.queue = <<>> /\ r.queue = <<>>
  /\ r.free = d.free + 1 /\ r.latest = d.latest /\ r.event = d.event
  /\ r.running = [d.running EXCEPT ![e] = FALSE]
  /\ r.lock = [d.lock EXCEPT ![e] = {}]

\* The time step is loaded with the head of the queue.
Reloaded(d, r, e) ==
  /\ d.queue # <<>>
  /\ r.queue = Tail(d.queue)
  /\ r.free = d.free
  /\ r.running = [d.running EXCEPT ![e] = TRUE]
  /\ r.event = [d.event EXCEPT ![e] = [type |-> Head(d.queue).type,
                                       ts |-> Head(d.queue).ts]]
  /\ r.lock = [d.lock EXCEPT ![e] = CommittedSources(Head(d.queue))]

\* Freeing the first time step of the window keeps RingInv; with messages in the
\* queue it is that very time step which is loaded again.
LEMMA FreeKeepsRing ==
  ASSUME NEW d, NEW e \in Steps, RingInv(d, e), d.running[e]
  PROVE  LET r == freeTimeStep(d, e)
         IN /\ RingInv(r, NextTimeStep(e))
            /\ Freed(d, r, e) \/ Reloaded(d, r, e)
<1> DEFINE r == freeTimeStep(d, e)
           n == NextTimeStep(e)
<1>1. d \in Scheduler /\ r \in Scheduler /\ n \in Steps
  BY FreeTimeStepType, NextTimeStepType, SchedulerAssumption DEF RingInv, Steps
<1>2. PICK z : /\ Cleared(d, z, e)
               /\ \/ d.queue = <<>> /\ r = setTaskflowFree(z, e)
                  \/ d.queue # <<>> /\ r = runTaskFlowFromQueue(z)
  BY <1>1, FreeCases
<1> HIDE DEF r, n
<1>3. /\ InUse(d) \in 1..TimeStepCount
      /\ \A j \in Steps : z.running[j] <=> RingDistance(n, j) < InUse(d) - 1
      /\ DataBelongs(z) /\ LocksRun(z) /\ ~z.overrun
      /\ \A j \in Steps \ {e} : StepConsistent(z, j)
      /\ z.lock[e] = {}
  BY <1>2, ClearedWindow DEF n
<1>4. /\ z \in Scheduler /\ z.queue = d.queue /\ z.free = d.free
      /\ z.latest = d.latest /\ z.event = d.event
      /\ z.running = [d.running EXCEPT ![e] = FALSE]
      /\ z.lock = [d.lock EXCEPT ![e] = {}]
  BY <1>2 DEF Cleared
<1>5. d.free \in 0..TimeStepCount /\ d.free + InUse(d) = TimeStepCount
  BY <1>1, SchedulerAssumption DEF Scheduler, InUse
<1>6. /\ RingDistance(n, e) = TimeStepCount - 1
      /\ \A j \in Steps \ {e} : RingDistance(n, j) = RingDistance(e, j) - 1
      /\ RingDistance(e, e) = 0
      /\ \A j \in Steps : RingDistance(e, j) = 0 => j = e
  BY RingArithmetic DEF n
<1>7. RingDistance(e, NextTimeStep(d.latest)) = IF d.free = 0 THEN 0 ELSE InUse(d)
  BY DEF RingInv, Window
<1>8. NextTimeStep(d.latest) \in Steps
  BY <1>1, NextTimeStepType DEF Scheduler
<1>9. CASE d.queue = <<>> /\ r = setTaskflowFree(z, e)
  <2>1. z.free < TimeStepCount
    BY <1>3, <1>4, <1>5, SchedulerAssumption
  <2>2. r = [z EXCEPT !.running[e] = FALSE, !.runningTs[e] = 0, !.free = z.free + 1]
    BY <1>9, <2>1 DEF setTaskflowFree, kTimestampZero
  <2>3. /\ r.queue = z.queue /\ r.free = z.free + 1 /\ r.latest = z.latest
        /\ r.event = z.event /\ r.lock = z.lock /\ r.data = z.data
        /\ r.overrun = z.overrun
    BY <1>4, <2>2 DEF Scheduler
  <2>4. /\ r.running = [z.running EXCEPT ![e] = FALSE]
        /\ r.runningTs = [z.runningTs EXCEPT ![e] = 0]
    BY <1>4, <2>2 DEF Scheduler
  <2>5. r.running = z.running /\ r.running = [d.running EXCEPT ![e] = FALSE]
        /\ ~r.running[e]
    <3>1. d.running \in [Steps -> BOOLEAN]
      BY <1>1 DEF Scheduler
    <3> QED BY <1>4, <2>4, <3>1
  <2>6. Freed(d, r, e)
    BY <1>4, <1>9, <2>3, <2>5 DEF Freed
  <2>7. Window(r, n)
    <3>1. InUse(r) = InUse(d) - 1 /\ r.free # 0
      BY <1>4, <1>5, <2>3, SchedulerAssumption DEF InUse
    <3>2. RingDistance(n, NextTimeStep(d.latest)) = InUse(d) - 1
      <4>1. CASE d.free = 0
        BY <1>3, <1>5, <1>6, <1>7, <1>8, <4>1, SchedulerAssumption
      <4>2. CASE d.free # 0
        BY <1>3, <1>5, <1>6, <1>7, <1>8, <4>2, SchedulerAssumption
      <4> QED BY <4>1, <4>2
    <3> QED BY <1>3, <1>4, <1>9, <2>3, <2>5, <3>1, <3>2 DEF Window
  <2>8. EventsConsistent(r)
    <3>1. r.runningTs[e] = kTimestampZero
      BY <1>4, <2>4 DEF Scheduler, kTimestampZero
    <3>2. \A j \in Steps \ {e} : r.runningTs[j] = z.runningTs[j]
      BY <1>4, <2>4 DEF Scheduler
    <3>3. Len(r.queue) = 0
      BY <1>4, <1>9, <2>3
    <3> QED BY <1>3, <2>3, <2>5, <3>1, <3>2, <3>3 DEF EventsConsistent, StepConsistent
  <2>9. DataBelongs(r) /\ LocksRun(r) /\ ~r.overrun
    BY <1>3, <2>3, <2>5 DEF DataBelongs, LocksRun
  <2>10. RingInv(r, n)
    BY <1>1, <2>7, <2>8, <2>9 DEF RingInv
  <2> QED BY <2>6, <2>10 DEF r, n
<1>10. CASE d.queue # <<>> /\ r = runTaskFlowFromQueue(z)
  <2> DEFINE m == Head(d.queue)
             C == CommittedSources(m)
  <2>1. d.free = 0 /\ NextTimeStep(d.latest) = e
    BY <1>6, <1>7, <1>8, <1>10 DEF RingInv, Window
  <2>2. Loads(z, r, e, m, C) /\ r.queue = Tail(d.queue) /\ r.free = d.free
    BY <1>4, <1>10, <2>1, RunFromQueueLoads
  <2>3. d.queue \in Seq(Message)
    BY <1>1 DEF Scheduler
  <2>4. m \in Message /\ C \in SUBSET Sources
    BY <1>10, <2>3 DEF CommittedSources
  <2>5. \A k \in 1..Len(d.queue) :
          d.queue[k].type # "DATA" => d.queue[k].ts = kTimestampZero
    BY DEF RingInv, EventsConsistent
  <2>6. m.type # "DATA" => m.ts = kTimestampZero
    <3>1. m = d.queue[1] /\ 1 \in 1..Len(d.queue)
      BY <1>10, <2>3
    <3> QED BY <2>5, <3>1
  <2>7. \A k \in 1..Len(r.queue) :
          r.queue[k].type # "DATA" => r.queue[k].ts = kTimestampZero
    <3>1. \A k \in 1..Len(Tail(d.queue)) :
            Tail(d.queue)[k] = d.queue[k + 1] /\ k + 1 \in 1..Len(d.queue)
      BY <1>10, <2>3
    <3> QED BY <2>2, <2>5, <3>1
  <2> HIDE DEF m, C
  <2>8. InUse(r) - 1 = InUse(d) - 1 /\ RingDistance(n, e) = InUse(r) - 1
    BY <1>5, <1>6, <2>1, <2>2, SchedulerAssumption DEF InUse
  <2>9. ~z.running[e]
    BY <1>1, <1>4 DEF Scheduler
  <2>10. RingInv(r, n)
    BY <1>1, <1>3, <1>4, <2>1, <2>2, <2>4, <2>6, <2>7, <2>8, <2>9, LoadKeepsRing
  <2>11. Reloaded(d, r, e)
    <3>1. d.running \in [Steps -> BOOLEAN] /\ d.lock \in [Steps -> SUBSET Sources]
      BY <1>1 DEF Scheduler
    <3>2. r.running = [d.running EXCEPT ![e] = TRUE]
      BY <1>4, <2>2, <3>1 DEF Loads
    <3>3. r.lock = [d.lock EXCEPT ![e] = C]
      BY <1>4, <2>2, <2>4, <3>1 DEF Loads
    <3> QED BY <1>4, <1>10, <2>2, <3>2, <3>3 DEF Reloaded, Loads, m, C
  <2> QED BY <2>10, <2>11 DEF r, n
<1> QED BY <1>2, <1>9, <1>10

-----------------------------------------------------------------------------
(* Running time steps are left alone, and inputs given up only in the past. *)

\* The running time steps of d go on in r, and no lock is taken back.
Keeps(d, r) ==
  \A i \in Steps :
    /\ d.running[i] => r.running[i] /\ r.event[i] = d.event[i]
    /\ d.lock[i] \subseteq r.lock[i]

\* The time step that is loaded next is not in use when one is free.
LEMMA NextIsFree ==
  ASSUME NEW d, NEW e \in Steps, RingInv(d, e), d.free > 0
  PROVE  LET i == NextTimeStep(d.latest)
         IN i \in Steps /\ ~d.running[i] /\ d.lock[i] = {}
<1> DEFINE i == NextTimeStep(d.latest)
<1>1. d \in Scheduler
  BY DEF RingInv
<1>2. i \in Steps /\ d.free \in 0..TimeStepCount
  BY <1>1, NextTimeStepType DEF Scheduler
<1> HIDE DEF i
<1>3. RingDistance(e, i) = InUse(d) /\ InUse(d) \in Int
  BY <1>2, SchedulerAssumption DEF RingInv, Window, i, InUse
<1>4. ~d.running[i]
  BY <1>2, <1>3 DEF RingInv, Window
<1>5. d.lock[i] = {}
  BY <1>2, <1>4 DEF RingInv, LocksRun
<1> QED BY <1>2, <1>4, <1>5 DEF i

\* Loading a time step that is not in use leaves the others alone.
LEMMA LoadKeeps ==
  ASSUME NEW d \in Scheduler, NEW r, NEW i \in Steps, NEW m \in Message,
         NEW C \in SUBSET Sources, ~d.running[i], Loads(d, r, i, m, C)
  PROVE  Keeps(d, r)
<1>1. \A j \in Steps : j # i =>
        r.running[j] = d.running[j] /\ r.event[j] = d.event[j] /\ r.lock[j] = d.lock[j]
  BY DEF Loads, Scheduler
<1>2. d.lock[i] \subseteq r.lock[i]
  BY DEF Loads, Scheduler
<1> QED BY <1>1, <1>2 DEF Keeps

\* Loading a message gives up the input of a source in one more time step, for
\* the frame of the message.
LEMMA LoadGivenUp ==
  ASSUME NEW d \in Scheduler, NEW r, NEW i \in Steps, NEW m \in Message,
         NEW C \in SUBSET Sources, Loads(d, r, i, m, C), d.lock[i] = {},
         NEW s \in Sources, NEW b \in Int,
         \A j \in Steps : d.event[j].type = "DATA" /\ s \in d.lock[j]
           => d.event[j].ts + 2 * MaxOffset < b,
         m.type = "DATA" /\ s \in C => m.ts + 2 * MaxOffset < b,
         \A k \in 1..Len(r.queue) :
           r.queue[k].type = "DATA" /\ r.queue[k].invalid[s] > 0
             => r.queue[k].ts + 2 * MaxOffset < b
  PROVE  GivenUpBefore(r, s, b)
<1>1. \A j \in Steps : j # i => r.event[j] = d.event[j] /\ r.lock[j] = d.lock[j]
  BY DEF Loads, Scheduler
<1>2. r.lock[i] = C /\ r.event[i].type = m.type /\ r.event[i].ts = m.ts
  BY DEF Loads, Scheduler
<1> QED BY <1>1, <1>2 DEF GivenUpBefore

\* Scheduling a message.
LEMMA EnqueueKeeps ==
  ASSUME NEW d, NEW e \in Steps, NEW m \in Message, RingInv(d, e)
  PROVE  /\ Keeps(d, Enqueue(d, m))
         /\ \A s \in Sources, b \in Int :
              /\ GivenUpBefore(d, s, b)
              /\ m.type = "DATA" /\ m.invalid[s] > 0 => m.ts + 2 * MaxOffset < b
              => GivenUpBefore(Enqueue(d, m), s, b)
<1> DEFINE r == Enqueue(d, m)
           i == NextTimeStep(d.latest)
           C == CommittedSources(m)
<1>1. d \in Scheduler /\ (d.queue # <<>> => d.free = 0)
  BY DEF RingInv, Window
<1>2. C \in SUBSET Sources /\ \A s \in C : m.type = "DATA" => m.invalid[s] > 0
  BY DEF CommittedSources
<1>3. CASE d.free = 0 /\ r = [d EXCEPT !.queue = Append(d.queue, m)]
  <2> DEFINE a == Append(d.queue, m)
  <2>1. d.queue \in Seq(Message)
    BY <1>1 DEF Scheduler
  <2>2. /\ \A k \in 1..Len(d.queue) : a[k] = d.queue[k]
        /\ \A k \in 1..Len(a) : k \in 1..Len(d.queue) \/ a[k] = m
    BY <2>1
  <2> HIDE DEF a
  <2>3. r.running = d.running /\ r.event = d.event /\ r.lock = d.lock /\ r.queue = a
    BY <1>1, <1>3 DEF Scheduler, a
  <2> HIDE DEF r
  <2>4. Keeps(d, r)
    BY <2>3 DEF Keeps
  <2>5. ASSUME NEW s \in Sources, NEW b \in Int, GivenUpBefore(d, s, b),
               m.type = "DATA" /\ m.invalid[s] > 0 => m.ts + 2 * MaxOffset < b
        PROVE  GivenUpBefore(r, s, b)
    <3>1. \A k \in 1..Len(r.queue) :
            r.queue[k].type = "DATA" /\ r.queue[k].invalid[s] > 0
              => r.queue[k].ts + 2 * MaxOffset < b
      BY <2>2, <2>3, <2>5 DEF GivenUpBefore
    <3> QED BY <2>3, <2>5, <3>1 DEF GivenUpBefore
  <2> QED BY <2>4, <2>5 DEF r
<1>4. CASE /\ d.free > 0 /\ Loads(d, r, i, m, C)
           /\ r.queue = <<>> /\ r.free = d.free - 1
  <2>1. i \in Steps /\ ~d.running[i] /\ d.lock[i] = {}
    BY <1>4, NextIsFree
  <2> HIDE DEF r, i, C
  <2>2. Keeps(d, r)
    BY <1>1, <1>2, <1>4, <2>1, LoadKeeps
  <2>3. ASSUME NEW s \in Sources, NEW b \in Int, GivenUpBefore(d, s, b),
               m.type = "DATA" /\ m.invalid[s] > 0 => m.ts + 2 * MaxOffset < b
        PROVE  GivenUpBefore(r, s, b)
    <3>1. Len(r.queue) = 0
      BY <1>4
    <3>2. \A k \in 1..Len(r.queue) :
            r.queue[k].type = "DATA" /\ r.queue[k].invalid[s] > 0
              => r.queue[k].ts + 2 * MaxOffset < b
      BY <3>1
    <3>3. m.type = "DATA" /\ s \in C => m.ts + 2 * MaxOffset < b
      BY <1>2, <2>3
    <3>4. \A j \in Steps : d.event[j].type = "DATA" /\ s \in d.lock[j]
            => d.event[j].ts + 2 * MaxOffset < b
      BY <2>3 DEF GivenUpBefore
    <3> QED BY <1>1, <1>2, <1>4, <2>1, <3>2, <3>3, <3>4, LoadGivenUp
  <2> QED BY <2>2, <2>3 DEF r
<1> QED BY <1>1, <1>3, <1>4, EnqueueCases

\* Taking a free time step for a DATA event: the new step runs that event.
LEMMA ImmediateKeeps ==
  ASSUME NEW d, NEW e \in Steps, NEW ts \in Int, RingInv(d, e), d.free > 0
  PROVE  LET r == scheduleDataEventImmediately(d, ts)
             i == NextTimeStep(d.latest)
         IN /\ Keeps(d, r)
            /\ i \in Steps /\ r.running[i]
            /\ r.event[i].type = "DATA" /\ r.event[i].ts = ts
            /\ \A s \in Sources, b \in Int :
                 GivenUpBefore(d, s, b) => GivenUpBefore(r, s, b)
<1> DEFINE r == scheduleDataEventImmediately(d, ts)
           i == NextTimeStep(d.latest)
           m == ScheduledEvent("DATA", ts)
<1>1. d \in Scheduler /\ m \in Message /\ {} \in SUBSET Sources
  BY MessageType DEF RingInv, EventType
<1>2. i \in Steps /\ ~d.running[i] /\ d.lock[i] = {}
  BY NextIsFree
<1>3. Loads(d, r, i, m, {}) /\ r.queue = d.queue
  BY <1>1, ImmediateLoads
<1>4. m.type = "DATA" /\ m.ts = ts
  BY DEF ScheduledEvent
<1> HIDE DEF r, i, m
<1>5. Keeps(d, r)
  BY <1>1, <1>2, <1>3, LoadKeeps
<1>6. r.running[i] /\ r.event[i].type = "DATA" /\ r.event[i].ts = ts
  BY <1>1, <1>2, <1>3, <1>4 DEF Loads, Scheduler
<1>7. ASSUME NEW s \in Sources, NEW b \in Int, GivenUpBefore(d, s, b)
      PROVE  GivenUpBefore(r, s, b)
  <2>1. /\ \A j \in Steps : d.event[j].type = "DATA" /\ s \in d.lock[j]
             => d.event[j].ts + 2 * MaxOffset < b
        /\ \A k \in 1..Len(r.queue) :
             r.queue[k].type = "DATA" /\ r.queue[k].invalid[s] > 0
               => r.queue[k].ts + 2 * MaxOffset < b
    BY <1>3, <1>7 DEF GivenUpBefore
  <2>2. m.type = "DATA" /\ s \in {} => m.ts + 2 * MaxOffset < b
    OBVIOUS
  <2> QED BY <1>1, <1>2, <1>3, <2>1, <2>2, LoadGivenUp
<1> QED BY <1>2, <1>5, <1>6, <1>7 DEF r, i

\* Cancelling for the frames before ts.
LEMMA CancelKeeps ==
  ASSUME NEW d, NEW e \in Steps, NEW C \in SUBSET Sources, NEW ts \in Int, RingInv(d, e)
  PROVE  LET r == cancelSources(d, C, ts)
         IN /\ Keeps(d, r)
            /\ \A s \in Sources, b \in Int :
                 GivenUpBefore(d, s, b) /\ (s \in C => ts <= b)
                   => GivenUpBefore(r, s, b)
<1> DEFINE r == cancelSources(d, C, ts)
<1>1. d \in Scheduler
  BY DEF RingInv
<1>2. Cancels(d, r, C, ts)
  BY <1>1, CancelSourcesCancels
<1> HIDE DEF r
<1>3. Keeps(d, r)
  BY <1>2 DEF Keeps, Cancels
<1>4. ASSUME NEW s \in Sources, NEW b \in Int, GivenUpBefore(d, s, b), s \in C => ts <= b
      PROVE  GivenUpBefore(r, s, b)
  <2>1. \A x \in Int : IsOlder(x, ts) /\ s \in C => x + 2 * MaxOffset < b
    BY <1>4, ClockAssumption DEF IsOlder
  <2>2. ASSUME NEW i \in Steps, r.event[i].type = "DATA", s \in r.lock[i]
        PROVE  r.event[i].ts + 2 * MaxOffset < b
    <3>1. r.event[i] = d.event[i]
      BY <1>2 DEF Cancels
    <3>2. CASE s \in d.lock[i]
      BY <1>4, <2>2, <3>1, <3>2 DEF GivenUpBefore
    <3>3. CASE s \notin d.lock[i]
      <4>1. s \in C /\ d.running[i] /\ IsOlder(d.runningTs[i], ts)
        BY <1>2, <2>2, <3>3 DEF Cancels
      <4>2. d.runningTs[i] = d.event[i].ts
        BY <4>1 DEF RingInv, EventsConsistent, StepConsistent
      <4>3. d.runningTs[i] \in Int
        BY <1>1 DEF Scheduler
      <4> QED BY <2>1, <3>1, <4>1, <4>2, <4>3
    <3> QED BY <3>2, <3>3
  <2>3. ASSUME NEW k \in 1..Len(r.queue), r.queue[k].type = "DATA",
               r.queue[k].invalid[s] > 0
        PROVE  r.queue[k].ts + 2 * MaxOffset < b
    <3>1. /\ k \in 1..Len(d.queue)
          /\ r.queue[k].type = d.queue[k].type /\ r.queue[k].ts = d.queue[k].ts
          /\ d.queue[k].invalid[s] > 0 \/ (s \in C /\ IsOlder(d.queue[k].ts, ts))
      BY <1>2, <2>3 DEF Cancels
    <3>2. d.queue[k].ts \in Int
      <4>1. d.queue \in Seq(Message)
        BY <1>1 DEF Scheduler
      <4>2. d.queue[k] \in Message
        BY <3>1, <4>1
      <4> QED BY <4>2 DEF Message
    <3> QED BY <1>4, <2>1, <2>3, <3>1, <3>2 DEF GivenUpBefore
  <2> QED BY <2>2, <2>3 DEF GivenUpBefore
<1> QED BY <1>3, <1>4 DEF r

\* Committing the buffer of s in time step i.
LEMMA CommitKeeps ==
  ASSUME NEW d \in Scheduler, NEW s \in Sources, NEW i \in Steps, NEW ts \in Int
  PROVE  LET r == commit(d, s, i, ts)
         IN /\ Keeps(d, r)
            /\ \A t \in Sources, b \in Int :
                 GivenUpBefore(d, t, b) /\ (t = s => d.event[i].ts + 2 * MaxOffset < b)
                   => GivenUpBefore(r, t, b)
<1> DEFINE r == commit(d, s, i, ts)
<1>1. /\ r.free = d.free /\ r.latest = d.latest /\ r.running = d.running
      /\ r.runningTs = d.runningTs /\ r.event = d.event /\ r.queue = d.queue
      /\ r.overrun = d.overrun
      /\ r.lock = [d.lock EXCEPT ![i] = @ \cup {s}]
      /\ r.data = [d.data EXCEPT ![i][s] = ts]
  BY CommitFields
<1>2. d.lock \in [Steps -> SUBSET Sources]
  BY DEF Scheduler
<1> HIDE DEF r
<1>3. \A j \in Steps : r.lock[j] = IF j = i THEN d.lock[j] \cup {s} ELSE d.lock[j]
  BY <1>1, <1>2
<1>4. Keeps(d, r)
  BY <1>1, <1>3 DEF Keeps
<1>5. \A t \in Sources, b \in Int :
        GivenUpBefore(d, t, b) /\ (t = s => d.event[i].ts + 2 * MaxOffset < b)
          => GivenUpBefore(r, t, b)
  BY <1>1, <1>3 DEF GivenUpBefore
<1> QED BY <1>4, <1>5 DEF r

\* Freeing time step e.
LEMMA FreeKeeps ==
  ASSUME NEW d, NEW e \in Steps, RingInv(d, e), d.running[e]
  PROVE  LET r == freeTimeStep(d, e)
         IN /\ \A i \in Steps \ {e} :
                 /\ r.running[i] = d.running[i] /\ r.event[i] = d.event[i]
                 /\ r.lock[i] = d.lock[i]
            /\ \A s \in Sources, b \in Int :
                 GivenUpBefore(d, s, b) => GivenUpBefore(r, s, b)
<1> DEFINE r == freeTimeStep(d, e)
<1>1. d \in Scheduler /\ (Freed(d, r, e) \/ Reloaded(d, r, e))
  BY FreeKeepsRing DEF RingInv
<1>2. /\ d.running \in [Steps -> BOOLEAN] /\ d.lock \in [Steps -> SUBSET Sources]
      /\ d.event \in [Steps -> [type : EventType, ts : Int]]
      /\ d.queue \in Seq(Message)
  BY <1>1 DEF Scheduler
<1> HIDE DEF r
<1>3. \A i \in Steps \ {e} :
        /\ r.running[i] = d.running[i] /\ r.event[i] = d.event[i]
        /\ r.lock[i] = d.lock[i]
  <2>1. CASE Freed(d, r, e)
    BY <1>2, <2>1 DEF Freed
  <2>2. CASE Reloaded(d, r, e)
    BY <1>2, <2>2 DEF Reloaded
  <2> QED BY <1>1, <2>1, <2>2
<1>4. ASSUME NEW s \in Sources, NEW b \in Int, GivenUpBefore(d, s, b)
      PROVE  GivenUpBefore(r, s, b)
  <2>1. CASE Freed(d, r, e)
    <3>1. r.lock[e] = {} /\ Len(r.queue) = 0
      BY <1>2, <2>1 DEF Freed
    <3> QED BY <1>3, <1>4, <3>1 DEF GivenUpBefore
  <2>2. CASE Reloaded(d, r, e)
    <3> DEFINE m == Head(d.queue)
    <3>1. r.lock[e] = CommittedSources(m) /\ r.event[e].type = m.type
          /\ r.event[e].ts = m.ts
      BY <1>2, <2>2 DEF Reloaded
    <3>2. m = d.queue[1] /\ 1 \in 1..Len(d.queue)
      BY <1>2, <2>2 DEF Reloaded
    <3>3. \A k \in 1..Len(r.queue) : r.queue[k] = d.queue[k + 1] /\ k + 1 \in 1..Len(d.queue)
      BY <1>2, <2>2 DEF Reloaded
    <3> HIDE DEF m
    <3>4. m.type = "DATA" /\ s \in CommittedSources(m) => m.invalid[s] > 0
      BY DEF CommittedSources
    <3>5. m.type = "DATA" /\ s \in CommittedSources(m) => m.ts + 2 * MaxOffset < b
      BY <1>4, <3>2, <3>4 DEF GivenUpBefore
    <3>6. \A k \in 1..Len(r.queue) :
            r.queue[k].type = "DATA" /\ r.queue[k].invalid[s] > 0
              => r.queue[k].ts + 2 * MaxOffset < b
      BY <1>4, <3>3 DEF GivenUpBefore
    <3> QED BY <1>3, <1>4, <3>1, <3>5, <3>6 DEF GivenUpBefore
  <2> QED BY <1>1, <2>1, <2>2
<1> QED BY <1>3, <1>4 DEF r

\* A later bound.
LEMMA GivenUpLater ==
  ASSUME NEW d \in Scheduler, NEW s \in Sources, NEW b \in Int, NEW c \in Int, b <= c,
         GivenUpBefore(d, s, b)
  PROVE  GivenUpBefore(d, s, c)
<1>1. \A i \in Steps : d.event[i].ts \in Int
  BY DEF Scheduler
<1>2. \A k \in 1..Len(d.queue) : d.queue[k].ts \in Int
  <2>1. d.queue \in Seq(Message)
    BY DEF Scheduler
  <2>2. \A k \in 1..Len(d.queue) : d.queue[k] \in Message
    BY <2>1
  <2> QED BY <2>2 DEF Message
<1> QED BY <1>1, <1>2, ClockAssumption DEF GivenUpBefore

-----------------------------------------------------------------------------
(* The actions. *)

\* The clock keeps its frame distance.
LEMMA SteadyForward ==
  ASSUME SteadyClock, NEW c \in Clock, NEW ts \in Int
  PROVE  /\ newTimestamp(c, ts).delta = c.delta
         /\ advanceTimeStep(c).delta = c.delta
         /\ advanceTimeStep(c).expected = c.expected + c.delta
<1>1. MeanDelta(c) = c.delta
  <2>1. c.n # 0 => c.sum \div c.n \in Int
    BY DEF Clock
  <2>2. c.delta \in Int /\ c.current \in Int
    BY DEF Clock
  <2>3. \A x \in Int : x \div 1 = x
    OBVIOUS
  <2>4. c.n # 0 => c.delta * 1 + ((c.sum \div c.n) - c.current) * (1 - 1) = c.delta
    BY <2>1, <2>2
  <2> QED BY <2>2, <2>3, <2>4 DEF MeanDelta, SteadyClock
<1>2. newTimestamp(c, ts).delta = c.delta
  BY DEF newTimestamp, Clock
<1> QED BY <1>1, <1>2 DEF advanceTimeStep

LEMMA ClockForward ==
  ASSUME Disciplined, NEW c \in Clock, NEW ts \in Int
  PROVE  /\ newTimestamp(c, ts).delta = c.delta
         /\ advanceTimeStep(c).delta = c.delta
         /\ advanceTimeStep(c).expected = c.expected + c.delta
BY SteadyForward DEF Disciplined

\* The types of a source thread and of its horizon.
LEMMA SourceFields ==
  ASSUME TypeOK, NEW s \in Sources
  PROVE  /\ src[s].ts \in Int /\ src[s].step \in Steps /\ Horizon(s) \in Int
         /\ clock.expected \in Int /\ clock.delta \in Int
BY TimeDomainAssumption DEF TypeOK, Horizon, Clock

\* A step of source s that leaves the running time steps alone: what remains to
\* be shown is about s.
LEMMA SourceStepKeepsInv ==
  ASSUME BufferInv, TypeOK', NEW s \in Sources,
         \A r \in Sources \ {s} : src'[r] = src[r],
         UNCHANGED <<phase, done, endTurn>>,
         RingInv(sched', endTurn'),
         Keeps(sched, sched'),
         \A r \in Sources \ {s}, b \in Int :
           GivenUpBefore(sched, r, b) => GivenUpBefore(sched', r, b),
         src'[s].pc \in {"found", "holding"} =>
           /\ sched'.running[src'[s].step]
           /\ sched'.event[src'[s].step].type = "DATA"
           /\ isWithinRange(sched'.event[src'[s].step].ts, src'[s].ts),
         Overshot(s)' \/ GivenUpBefore(sched', s, Horizon(s)'),
         clock'.delta >= 0,
         clock' = clock \/ \A r \in Sources \ {s} : src[r].pc # "pad",
         src'[s].pc = "pad" =>
           Overshot(s)' \/ clock'.expected + 2 * MaxOffset < src'[s].ts,
         src'[s].pc \in {"pad", "padded"} =>
           \A r \in Sources \ {s} : src[r].pc \notin {"pad", "padded"},
         src'[s].pc \notin {"off", "idle"} => src'[s].ts > 2 * MaxOffset
  PROVE  BufferInv'
<1>1. TypeOK
  BY DEF BufferInv
<1>2. TasksFollowLocks'
  BY DEF BufferInv, TasksFollowLocks, Keeps
<1>3. StepMatchesRequest'
  <2>1. \A r \in Sources \ {s} : src[r].step \in Steps
    BY <1>1, SourceFields
  <2> QED BY <2>1 DEF BufferInv, StepMatchesRequest, Keeps
<1>4. \A r \in Sources \ {s} : Overshot(r) => Overshot(r)'
  BY DEF Overshot
<1>5. GivenUpIsLeftBehind'
  <2>1. \A r \in Sources \ {s} : Horizon(r)' = Horizon(r) /\ Horizon(r) \in Int
    BY <1>1, SourceFields DEF Horizon
  <2>2. \A r \in Sources \ {s} : Overshot(r)' \/ GivenUpBefore(sched', r, Horizon(r)')
    BY <1>4, <2>1 DEF BufferInv, GivenUpIsLeftBehind
  <2> QED BY <2>2 DEF GivenUpIsLeftBehind
<1>6. PaddingAhead'
  BY <1>4 DEF BufferInv, PaddingAhead
<1>7. OnePads'
  BY DEF BufferInv, OnePads
<1>8. RequestsHaveTimestamp'
  BY DEF BufferInv, RequestsHaveTimestamp
<1> QED BY <1>2, <1>3, <1>5, <1>6, <1>7, <1>8 DEF BufferInv

\* What a request cancels: only inputs of its own source, for earlier frames.
LEMMA RequestCancels ==
  ASSUME Disciplined, BufferInv, NEW s \in Sources, NEW ts \in Timestamps,
         CanRequest(s, ts)
  PROVE  LET d == cancelOlderEvents(s, ts)
         IN /\ RingInv(d, endTurn)
            /\ Keeps(sched, d)
            /\ d.latest = sched.latest /\ d.free = sched.free
            /\ \A r \in Sources \ {s}, b \in Int :
                 GivenUpBefore(sched, r, b) => GivenUpBefore(d, r, b)
            /\ GivenUpBefore(sched, s, ts)
            /\ GivenUpBefore(d, s, ts)
<1> DEFINE d == cancelOlderEvents(s, ts)
<1>1. d = cancelSources(sched, {s}, ts)
  BY DEF cancelOlderEvents, Disciplined
<1>2. ts \in Int /\ {s} \in SUBSET Sources
  BY TimeDomainAssumption
<1>3. RingInv(sched, endTurn) /\ endTurn \in Steps /\ TypeOK
  BY DEF BufferInv, TypeOK
<1>4. sched \in Scheduler
  BY <1>3 DEF RingInv
<1>5. GivenUpBefore(sched, s, ts)
  <2>1. Horizon(s) <= ts /\ Horizon(s) \in Int
    BY <1>3, SourceFields DEF CanRequest, SensorTimestamp, Horizon
  <2>2. GivenUpBefore(sched, s, Horizon(s))
    BY DEF BufferInv, GivenUpIsLeftBehind, Overshot, CanRequest
  <2> QED BY <1>2, <1>4, <2>1, <2>2, GivenUpLater
<1>6. RingInv(d, endTurn)
  BY <1>1, <1>2, <1>3, CancelKeepsRing
<1>7. /\ Keeps(sched, d)
      /\ \A r \in Sources, b \in Int :
           GivenUpBefore(sched, r, b) /\ (r \in {s} => ts <= b) => GivenUpBefore(d, r, b)
  BY <1>1, <1>2, <1>3, CancelKeeps
<1>8. d.latest = sched.latest /\ d.free = sched.free
  <2>1. Cancels(sched, d, {s}, ts)
    BY <1>1, <1>2, <1>4, CancelSourcesCancels
  <2> QED BY <2>1 DEF Cancels
<1> HIDE DEF d
<1>9. GivenUpBefore(d, s, ts)
  BY <1>2, <1>5, <1>7
<1> QED BY <1>5, <1>6, <1>7, <1>8, <1>9 DEF d

\* The time step in which a request finds its frame runs that frame.
LEMMA FoundStepMatches ==
  ASSUME RingInv(sched, endTurn), NEW ts \in Int, ts > 2 * MaxOffset,
         NEW i \in Steps, isTimestampRunning(sched, ts, i)
  PROVE  /\ sched.running[i]
         /\ sched.event[i].type = "DATA"
         /\ isWithinRange(sched.event[i].ts, ts)
<1>1. sched.runningTs[i] \in Int
  BY DEF RingInv, Scheduler
<1>2. isWithinRange(ts, sched.runningTs[i])
  BY DEF isTimestampRunning, RunningSteps
<1>3. sched.runningTs[i] # kTimestampZero /\ isWithinRange(sched.runningTs[i], ts)
  BY <1>1, <1>2, ClockAssumption DEF isWithinRange, kTimestampZero
<1>4. StepConsistent(sched, i)
  BY DEF RingInv, EventsConsistent
<1> QED BY <1>3, <1>4 DEF StepConsistent

\* The horizon of a source after a request.
LEMMA RequestHorizon ==
  ASSUME TypeOK, NEW s \in Sources, NEW ts \in Int, NEW pc, NEW i,
         SourceAt(s, pc, ts, i)
  PROVE  /\ src'[s].pc = pc /\ src'[s].ts = ts /\ src'[s].step = i
         /\ \A r \in Sources \ {s} : src'[r] = src[r]
         /\ Horizon(s)' \in Int /\ ts <= Horizon(s)'
<1>1. /\ src'[s].pc = pc /\ src'[s].ts = ts /\ src'[s].step = i
      /\ \A r \in Sources \ {s} : src'[r] = src[r]
  BY DEF TypeOK, SourceAt
<1>2. Horizon(s)' \in Int /\ ts <= Horizon(s)'
  BY <1>1, TimeDomainAssumption DEF Horizon
<1> QED BY <1>1, <1>2

\* A request keeps the invariant, if what it makes of the scheduler does.
LEMMA RequestKeepsInv ==
  ASSUME Disciplined, BufferInv, TypeOK', NEW s \in Sources, NEW ts \in Timestamps,
         CanRequest(s, ts), UNCHANGED <<phase, done, endTurn>>,
         RingInv(sched', endTurn),
         Keeps(sched, sched'),
         \A r \in Sources \ {s}, b \in Int :
           GivenUpBefore(sched, r, b) => GivenUpBefore(sched', r, b),
         GivenUpBefore(sched', s, ts),
         NEW pc, NEW i, SourceAt(s, pc, ts, i),
         pc \in {"found", "holding"} =>
           /\ sched'.running[i]
           /\ sched'.event[i].type = "DATA"
           /\ isWithinRange(sched'.event[i].ts, ts),
         clock'.delta = clock.delta,
         pc = "pad" => clock'.expected + 2 * MaxOffset < ts
  PROVE  BufferInv'
<1>1. ts \in Int /\ TypeOK /\ sched' \in Scheduler
  BY TimeDomainAssumption DEF BufferInv, TypeOK
<1>2. /\ src'[s].pc = pc /\ src'[s].ts = ts /\ src'[s].step = i
      /\ \A r \in Sources \ {s} : src'[r] = src[r]
      /\ Horizon(s)' \in Int /\ ts <= Horizon(s)'
  BY <1>1, RequestHorizon
<1>3. GivenUpBefore(sched', s, Horizon(s)')
  BY <1>1, <1>2, GivenUpLater
<1>4. clock'.delta >= 0
  BY DEF BufferInv, PaddingAhead
<1>5. \A r \in Sources \ {s} : src[r].pc \notin {"pad", "padded"}
  BY DEF CanRequest, RequestMutexFree
<1>6. src'[s].ts > 2 * MaxOffset
  BY <1>2, TimeDomainAssumption
<1> QED BY <1>2, <1>3, <1>4, <1>5, <1>6, SourceStepKeepsInv

\* Every outcome of requestSourceBuffer keeps the invariant.
LEMMA RequestInv ==
  ASSUME Disciplined, BufferInv, TypeOK', NEW s \in Sources, NEW ts \in Timestamps,
         RequestSourceBuffer(s, ts)
  PROVE  BufferInv'
<1> DEFINE c == newTimestamp(clock, ts)
           d == cancelOlderEvents(s, ts)
<1>1. ts \in Int /\ ts > 2 * MaxOffset /\ TypeOK /\ endTurn \in Steps
      /\ clock \in Clock /\ RingInv(sched, endTurn)
  BY TimeDomainAssumption DEF BufferInv, TypeOK
<1>2. CanRequest(s, ts) /\ UNCHANGED <<phase, done, endTurn>>
  BY DEF RequestSourceBuffer, taskVars, ringVars
<1>3. /\ RingInv(d, endTurn) /\ Keeps(sched, d)
      /\ d.latest = sched.latest /\ d.free = sched.free
      /\ \A r \in Sources \ {s}, b \in Int :
           GivenUpBefore(sched, r, b) => GivenUpBefore(d, r, b)
      /\ GivenUpBefore(sched, s, ts)
      /\ GivenUpBefore(d, s, ts)
  BY <1>2, RequestCancels
<1>4. c \in Clock /\ c.delta = clock.delta /\ c.expected \in Int
  <2>1. c \in Clock /\ c.delta = clock.delta
    BY <1>1, ClockType, ClockForward
  <2> HIDE DEF c
  <2> QED BY <2>1 DEF Clock
<1> HIDE DEF c, d
<1>5. CASE RequestInvalid(s, ts)
  <2>1. sched' = sched /\ clock' = clock /\ SourceAt(s, "idle", ts, src[s].step)
    BY <1>5 DEF RequestInvalid, requestVars
  <2>2. Keeps(sched, sched)
    BY DEF Keeps
  <2> QED BY <1>1, <1>2, <1>3, <2>1, <2>2, RequestKeepsInv
<1>6. CASE RequestRunning(s, ts)
  <2>1. PICK i \in Steps :
          /\ isTimestampRunning(sched, ts, i)
          /\ sched' = [d EXCEPT !.setInput[i] = @ \cup {s}]
          /\ SourceAt(s, "holding", ts, i)
    BY <1>6 DEF RequestRunning, d
  <2>2. clock' = c
    BY <1>6 DEF RequestRunning, c
  <2>3. /\ sched.running[i] /\ sched.event[i].type = "DATA"
        /\ isWithinRange(sched.event[i].ts, ts)
    BY <1>1, <2>1, FoundStepMatches
  <2>4. /\ RingInv(sched', endTurn) /\ sched'.running = d.running
        /\ sched'.event = d.event /\ sched'.lock = d.lock /\ sched'.queue = d.queue
    BY <1>1, <1>3, <2>1, SetInputKeepsRing
  <2>5. Keeps(sched, sched')
    BY <1>3, <2>4 DEF Keeps
  <2>6. \A r \in Sources, b \in Int : GivenUpBefore(d, r, b) => GivenUpBefore(sched', r, b)
    BY <2>4 DEF GivenUpBefore
  <2>7. /\ sched'.running[i] /\ sched'.event[i].type = "DATA"
        /\ isWithinRange(sched'.event[i].ts, ts)
    BY <2>3, <2>5 DEF Keeps
  <2>8. /\ GivenUpBefore(sched', s, ts)
        /\ \A r \in Sources \ {s}, b \in Int :
             GivenUpBefore(sched, r, b) => GivenUpBefore(sched', r, b)
    BY <1>1, <1>3, <2>6
  <2> QED BY <1>2, <1>4, <2>1, <2>2, <2>4, <2>5, <2>7, <2>8, RequestKeepsInv
<1>7. CASE RequestScheduled(s, ts) \/ RequestAfterStop(s, ts)
  <2>1. sched' = d /\ clock' = c
    BY <1>7 DEF RequestScheduled, RequestAfterStop, c, d
  <2>2. \E pc \in {"waiting", "idle", "refused"} : SourceAt(s, pc, ts, src[s].step)
    BY <1>7 DEF RequestScheduled, RequestAfterStop
  <2> QED BY <1>2, <1>3, <1>4, <2>1, <2>2, RequestKeepsInv
<1>8. CASE RequestNewTimestampWait(s, ts)
  <2>1. CASE /\ clock' = advanceTimeStep(c)
             /\ sched' = scheduleEvent(d, "DATA", c.expected)
             /\ SourceAt(s, "waiting", ts, src[s].step)
    <3> DEFINE m == ScheduledEvent("DATA", c.expected)
    <3>1. m \in Message /\ m.type = "DATA" /\ \A r \in Sources : ~(m.invalid[r] > 0)
      BY <1>4, MessageType DEF ScheduledEvent, EventType
    <3>2. sched' = Enqueue(d, m)
      BY <2>1 DEF scheduleEvent
    <3> HIDE DEF m
    <3>3. RingInv(sched', endTurn)
      BY <1>1, <1>3, <3>1, <3>2, EnqueueKeepsRing
    <3>4. /\ Keeps(d, sched')
          /\ \A r \in Sources, b \in Int :
               GivenUpBefore(d, r, b) => GivenUpBefore(sched', r, b)
      BY <1>1, <1>3, <3>1, <3>2, EnqueueKeeps
    <3>5. Keeps(sched, sched')
      BY <1>3, <3>4 DEF Keeps
    <3>6. clock'.delta = clock.delta
      BY <1>1, <1>4, <2>1, ClockForward
    <3>7. /\ GivenUpBefore(sched', s, ts)
          /\ \A r \in Sources \ {s}, b \in Int :
               GivenUpBefore(sched, r, b) => GivenUpBefore(sched', r, b)
      BY <1>1, <1>3, <3>4
    <3> QED BY <1>2, <2>1, <3>3, <3>5, <3>6, <3>7, RequestKeepsInv
  <2>2. CASE /\ isFurtherAheadThenNextExpectedTimestamp(c, ts)
             /\ clock' = c /\ sched' = d /\ SourceAt(s, "pad", ts, src[s].step)
    <3>1. clock'.expected + 2 * MaxOffset < ts
      BY <1>1, <1>4, <2>2, ClockAssumption
         DEF isFurtherAheadThenNextExpectedTimestamp
    <3> QED BY <1>2, <1>3, <1>4, <2>2, <3>1, RequestKeepsInv
  <2>3. CASE clock' = c /\ sched' = d /\ SourceAt(s, "idle", ts, src[s].step)
    BY <1>2, <1>3, <1>4, <2>3, RequestKeepsInv
  <2> QED BY <1>8, <2>1, <2>2, <2>3 DEF RequestNewTimestampWait, c, d
<1>9. CASE RequestNewTimestampImmediate(s, ts)
  <2> DEFINE i == NextTimeStep(sched.latest)
             z == scheduleDataEventImmediately(d, ts)
  <2>1. CASE /\ sched.free > 0
             /\ sched' = [z EXCEPT !.setInput[i] = @ \cup {s}]
             /\ SourceAt(s, "holding", ts, i)
             /\ clock' = c
    <3>1. /\ Keeps(d, z) /\ i \in Steps /\ z.running[i]
          /\ z.event[i].type = "DATA" /\ z.event[i].ts = ts
          /\ \A r \in Sources, b \in Int : GivenUpBefore(d, r, b) => GivenUpBefore(z, r, b)
      BY <1>1, <1>3, <2>1, ImmediateKeeps
    <3>2. RingInv(z, endTurn)
      BY <1>1, <1>3, <2>1, ImmediateKeepsRing
    <3> HIDE DEF z, i
    <3>3. /\ RingInv(sched', endTurn) /\ sched'.running = z.running
          /\ sched'.event = z.event /\ sched'.lock = z.lock /\ sched'.queue = z.queue
      BY <1>1, <2>1, <3>1, <3>2, SetInputKeepsRing
    <3>4. Keeps(sched, sched')
      BY <1>3, <3>1, <3>3 DEF Keeps
    <3>5. \A r \in Sources, b \in Int : GivenUpBefore(d, r, b) => GivenUpBefore(sched', r, b)
      BY <3>1, <3>3 DEF GivenUpBefore
    <3>6. /\ sched'.running[i] /\ sched'.event[i].type = "DATA"
          /\ isWithinRange(sched'.event[i].ts, ts)
      BY <1>1, <3>1, <3>3, ClockAssumption DEF isWithinRange
    <3>7. /\ GivenUpBefore(sched', s, ts)
          /\ \A r \in Sources \ {s}, b \in Int :
               GivenUpBefore(sched, r, b) => GivenUpBefore(sched', r, b)
      BY <1>1, <1>3, <3>5
    <3> QED BY <1>2, <1>4, <2>1, <3>3, <3>4, <3>6, <3>7, RequestKeepsInv
  <2>2. CASE sched' = d /\ clock' = c /\ SourceAt(s, "idle", ts, src[s].step)
    BY <1>2, <1>3, <1>4, <2>2, RequestKeepsInv
  <2> QED BY <1>9, <2>1, <2>2 DEF RequestNewTimestampImmediate, c, d
<1> QED BY <1>5, <1>6, <1>7, <1>8, <1>9 DEF RequestSourceBuffer

\* One padding event, from a padding loop that has not run past its timestamp
\* or from one that never ends.
LEMMA PaddingInv ==
  ASSUME Disciplined, BufferInv, TypeOK', NEW s \in Sources, Padding(s)
  PROVE  BufferInv'
<1> DEFINE m == [ScheduledEvent("DATA", clock.expected) EXCEPT !.invalid[s] = 1]
<1>1. /\ src[s].ts \in Int /\ clock.expected \in Int /\ clock.delta \in Int
      /\ clock \in Clock /\ endTurn \in Steps /\ RingInv(sched, endTurn) /\ TypeOK
  BY SourceFields DEF BufferInv, TypeOK
<1>2. m \in Message /\ m.type = "DATA" /\ m.ts = clock.expected
      /\ \A r \in Sources \ {s} : ~(m.invalid[r] > 0)
  BY <1>1, MessageType DEF ScheduledEvent
<1>3. sched' = Enqueue(sched, m)
  BY DEF Padding, schedulePaddingEvent
<1> HIDE DEF m
<1>4. RingInv(sched', endTurn)
  BY <1>1, <1>2, <1>3, EnqueueKeepsRing
<1>5. /\ Keeps(sched, sched')
      /\ \A r \in Sources, b \in Int :
           /\ GivenUpBefore(sched, r, b)
           /\ m.type = "DATA" /\ m.invalid[r] > 0 => m.ts + 2 * MaxOffset < b
           => GivenUpBefore(sched', r, b)
  BY <1>1, <1>2, <1>3, EnqueueKeeps
<1>6. \A r \in Sources \ {s}, b \in Int :
        GivenUpBefore(sched, r, b) => GivenUpBefore(sched', r, b)
  BY <1>2, <1>5
<1>7. /\ clock'.delta = clock.delta /\ clock'.expected = clock.expected + clock.delta
      /\ clock.delta >= 0
  BY <1>1, ClockForward DEF Padding, BufferInv, PaddingAhead
<1>8. /\ src[s].pc = "pad" /\ src'[s].ts = src[s].ts
      /\ src'[s].pc = IF isNextExpectedTimestampOrBigger(clock', src[s].ts)
                      THEN "padded" ELSE "pad"
      /\ \A r \in Sources \ {s} : src'[r] = src[r]
  BY DEF Padding, BufferInv, TypeOK
<1>9. /\ UNCHANGED <<phase, done, endTurn>>
      /\ \A r \in Sources \ {s} : src[r].pc \notin {"pad", "padded"}
  BY <1>8 DEF Padding, taskVars, ringVars, BufferInv, OnePads
<1>10. src'[s].pc = "pad" => clock'.expected > src[s].ts + 2 * MaxOffset
  BY <1>1, <1>7, <1>8, ClockAssumption
     DEF isNextExpectedTimestampOrBigger, isNextExpectedTimestamp, isWithinRange
<1>11. src'[s].pc = "pad" => Overshot(s)'
  BY <1>8, <1>10 DEF Overshot
<1>12. Overshot(s)' \/ GivenUpBefore(sched', s, Horizon(s)')
  <2>1. CASE Overshot(s)
    <3>1. ~isNextExpectedTimestampOrBigger(clock', src[s].ts)
      BY <1>1, <1>7, <2>1, ClockAssumption
         DEF Overshot, isNextExpectedTimestampOrBigger, isNextExpectedTimestamp,
             isWithinRange
    <3> QED BY <1>8, <1>11, <3>1
  <2>2. CASE ~Overshot(s)
    <3>1. clock.expected + 2 * MaxOffset < src[s].ts
      BY <1>8, <2>2 DEF BufferInv, PaddingAhead
    <3>2. Horizon(s) = src[s].ts /\ Horizon(s)' = src[s].ts
      BY <1>8 DEF Horizon
    <3>3. GivenUpBefore(sched, s, src[s].ts)
      BY <2>2, <3>2 DEF BufferInv, GivenUpIsLeftBehind
    <3> QED BY <1>1, <1>2, <1>5, <3>1, <3>2, <3>3
  <2> QED BY <2>1, <2>2
<1>13. src'[s].ts > 2 * MaxOffset
  BY <1>8 DEF BufferInv, RequestsHaveTimestamp
<1> QED BY <1>4, <1>5, <1>6, <1>7, <1>8, <1>9, <1>11, <1>12, <1>13, SourceStepKeepsInv

\* The frame of a source after its padding events.
LEMMA PaddingDoneInv ==
  ASSUME Disciplined, BufferInv, TypeOK', NEW s \in Sources, PaddingDone(s)
  PROVE  BufferInv'
<1> DEFINE m == ScheduledEvent("DATA", clock.expected)
<1>1. /\ src[s].ts \in Int /\ clock.expected \in Int
      /\ clock \in Clock /\ endTurn \in Steps /\ RingInv(sched, endTurn) /\ TypeOK
  BY SourceFields DEF BufferInv, TypeOK
<1>2. m \in Message /\ m.type = "DATA" /\ \A r \in Sources : ~(m.invalid[r] > 0)
  BY <1>1, MessageType DEF ScheduledEvent, EventType
<1>3. sched' = Enqueue(sched, m)
  BY DEF PaddingDone, scheduleEvent
<1> HIDE DEF m
<1>4. RingInv(sched', endTurn)
  BY <1>1, <1>2, <1>3, EnqueueKeepsRing
<1>5. /\ Keeps(sched, sched')
      /\ \A r \in Sources, b \in Int :
           GivenUpBefore(sched, r, b) => GivenUpBefore(sched', r, b)
  BY <1>1, <1>2, <1>3, EnqueueKeeps
<1>6. clock'.delta >= 0
  BY <1>1, ClockForward DEF PaddingDone, BufferInv, PaddingAhead
<1>7. /\ src[s].pc = "padded" /\ src'[s].ts = src[s].ts /\ src'[s].pc = "waiting"
      /\ \A r \in Sources \ {s} : src'[r] = src[r]
  BY DEF PaddingDone, BufferInv, TypeOK
<1>8. /\ UNCHANGED <<phase, done, endTurn>>
      /\ \A r \in Sources \ {s} : src[r].pc # "pad"
  BY <1>7 DEF PaddingDone, taskVars, ringVars, BufferInv, OnePads
<1>9. GivenUpBefore(sched', s, Horizon(s)')
  <2>1. Horizon(s) = src[s].ts /\ Horizon(s)' = src[s].ts
    BY <1>7 DEF Horizon
  <2>2. GivenUpBefore(sched, s, src[s].ts)
    BY <1>7, <2>1 DEF BufferInv, GivenUpIsLeftBehind, Overshot
  <2> QED BY <1>1, <1>5, <2>1, <2>2
<1>10. src'[s].ts > 2 * MaxOffset
  BY <1>7 DEF BufferInv, RequestsHaveTimestamp
<1> QED BY <1>4, <1>5, <1>6, <1>7, <1>8, <1>9, <1>10, SourceStepKeepsInv

\* Steps of a source thread that change only the thread: its horizon does not
\* come closer, and it holds no time step it did not find.
LEMMA ThreadInv ==
  ASSUME Disciplined, BufferInv, TypeOK', NEW s \in Sources,
         WaitForRunning(s) \/ PlayerExit(s)
  PROVE  BufferInv'
<1>1. /\ src[s].ts \in Int /\ endTurn \in Steps /\ RingInv(sched, endTurn) /\ TypeOK
      /\ sched \in Scheduler /\ MinGap \in Nat
  BY SourceFields, TimeDomainAssumption DEF BufferInv, TypeOK
<1>2. sched' = sched /\ clock' = clock /\ UNCHANGED <<phase, done, endTurn>>
  BY DEF WaitForRunning, PlayerExit, schedVars, requestVars, taskVars, ringVars
<1>3. /\ src'[s].ts = src[s].ts /\ src[s].pc \in {"waiting", "idle", "refused"}
      /\ src'[s].pc \in {"off", "idle", "found"}
      /\ src'[s].pc = "found" => src[s].pc = "waiting"
      /\ \A r \in Sources \ {s} : src'[r] = src[r]
  BY DEF WaitForRunning, PlayerExit, BufferInv, TypeOK
<1>4. src'[s].pc = "found" =>
        /\ sched.running[src'[s].step]
        /\ sched.event[src'[s].step].type = "DATA"
        /\ isWithinRange(sched.event[src'[s].step].ts, src[s].ts)
  <2> SUFFICES ASSUME src'[s].pc = "found"
               PROVE  /\ sched.running[src'[s].step]
                      /\ sched.event[src'[s].step].type = "DATA"
                      /\ isWithinRange(sched.event[src'[s].step].ts, src[s].ts)
    OBVIOUS
  <2>1. PICK i \in Steps : /\ isTimestampRunning(sched, src[s].ts, i)
                           /\ src' = [src EXCEPT ![s].pc = "found", ![s].step = i]
    <3>1. /\ src' # [src EXCEPT ![s].pc = "idle"]
          /\ src' # [src EXCEPT ![s].pc = "off", ![s].run = FALSE]
      BY DEF BufferInv, TypeOK
    <3> QED BY <3>1 DEF WaitForRunning, PlayerExit
  <2>2. src'[s].step = i
    BY <2>1 DEF BufferInv, TypeOK
  <2>3. src[s].ts > 2 * MaxOffset
    BY <1>3 DEF BufferInv, RequestsHaveTimestamp
  <2> QED BY <1>1, <2>1, <2>2, <2>3, FoundStepMatches
<1>5. GivenUpBefore(sched, s, Horizon(s)')
  <2>1. Horizon(s) \in Int /\ Horizon(s)' \in Int /\ Horizon(s) <= Horizon(s)'
    BY <1>1, <1>3 DEF Horizon
  <2>2. GivenUpBefore(sched, s, Horizon(s))
    BY <1>3 DEF BufferInv, GivenUpIsLeftBehind, Overshot
  <2> QED BY <1>1, <2>1, <2>2, GivenUpLater
<1>6. Keeps(sched, sched')
  BY <1>2 DEF Keeps
<1>7. clock'.delta >= 0
  BY <1>2 DEF BufferInv, PaddingAhead
<1>8. src'[s].pc \notin {"off", "idle"} => src'[s].ts > 2 * MaxOffset
  BY <1>3 DEF BufferInv, RequestsHaveTimestamp
<1> QED BY <1>1, <1>2, <1>3, <1>4, <1>5, <1>6, <1>7, <1>8, SourceStepKeepsInv

\* The step that a source has found is still the one it asked for when the
\* source takes it.
LEMMA ClaimInv ==
  ASSUME Disciplined, BufferInv, TypeOK', NEW s \in Sources, ClaimSourceBuffer(s)
  PROVE  BufferInv'
<1> DEFINE i == src[s].step
<1>1. /\ src[s].ts \in Int /\ i \in Steps
      /\ endTurn \in Steps /\ RingInv(sched, endTurn) /\ TypeOK
      /\ sched' \in Scheduler /\ MinGap \in Nat
  BY SourceFields, TimeDomainAssumption DEF BufferInv, TypeOK
<1>2. clock' = clock /\ UNCHANGED <<phase, done, endTurn>>
  BY DEF ClaimSourceBuffer, requestVars, taskVars, ringVars
<1>3. /\ src[s].pc = "found" /\ src'[s].ts = src[s].ts /\ src'[s].step = i
      /\ src'[s].pc \in {"idle", "holding"}
      /\ \A r \in Sources \ {s} : src'[r] = src[r]
  BY DEF ClaimSourceBuffer, BufferInv, TypeOK
<1>4. \/ sched' = sched
      \/ sched' = [sched EXCEPT !.setInput[i] = @ \cup {s}]
  BY DEF ClaimSourceBuffer
<1> HIDE DEF i
<1>5. /\ RingInv(sched', endTurn) /\ sched'.running = sched.running
      /\ sched'.event = sched.event /\ sched'.lock = sched.lock
      /\ sched'.queue = sched.queue
  <2>1. CASE sched' = sched
    BY <1>1, <2>1
  <2>2. CASE sched' = [sched EXCEPT !.setInput[i] = @ \cup {s}]
    BY <1>1, <2>2, SetInputKeepsRing
  <2> QED BY <1>4, <2>1, <2>2
<1>6. Keeps(sched, sched')
  BY <1>5 DEF Keeps
<1>7. \A r \in Sources, b \in Int : GivenUpBefore(sched, r, b) => GivenUpBefore(sched', r, b)
  BY <1>5 DEF GivenUpBefore
<1>8. /\ sched'.running[i] /\ sched'.event[i].type = "DATA"
      /\ isWithinRange(sched'.event[i].ts, src[s].ts)
  BY <1>3, <1>5 DEF BufferInv, StepMatchesRequest, i
<1>9. GivenUpBefore(sched', s, Horizon(s)')
  <2>1. Horizon(s) \in Int /\ Horizon(s)' \in Int /\ Horizon(s) <= Horizon(s)'
    BY <1>1, <1>3 DEF Horizon
  <2>2. GivenUpBefore(sched, s, Horizon(s))
    BY <1>3 DEF BufferInv, GivenUpIsLeftBehind, Overshot
  <2>3. GivenUpBefore(sched', s, Horizon(s))
    BY <1>7, <2>1, <2>2
  <2> QED BY <1>1, <2>1, <2>3, GivenUpLater
<1>10. clock'.delta >= 0
  BY <1>2 DEF BufferInv, PaddingAhead
<1>11. src'[s].ts > 2 * MaxOffset
  BY <1>3 DEF BufferInv, RequestsHaveTimestamp
<1> QED BY <1>2, <1>3, <1>5, <1>6, <1>7, <1>8, <1>9, <1>10, <1>11, SourceStepKeepsInv

\* A commit goes to the frame that the source asked for, and that frame will
\* not be asked for again.
LEMMA CommitInv ==
  ASSUME Disciplined, BufferInv, TypeOK', NEW s \in Sources, Commit(s)
  PROVE  BufferInv'
<1> DEFINE i == src[s].step
           ts == src[s].ts
<1>1. /\ ts \in Int /\ i \in Steps
      /\ endTurn \in Steps /\ RingInv(sched, endTurn) /\ TypeOK
      /\ sched \in Scheduler /\ sched' \in Scheduler /\ MinGap \in Nat
  BY SourceFields, TimeDomainAssumption DEF BufferInv, TypeOK
<1>2. clock' = clock /\ UNCHANGED <<phase, done, endTurn>>
  BY DEF Commit, requestVars, taskVars, ringVars
<1>3. /\ src[s].pc = "holding" /\ src'[s].ts = ts /\ src'[s].pc = "idle"
      /\ \A r \in Sources \ {s} : src'[r] = src[r]
  BY DEF Commit, BufferInv, TypeOK
<1>4. sched' = commit(sched, s, i, ts)
  BY DEF Commit
<1>5. /\ sched.running[i] /\ sched.event[i].type = "DATA"
      /\ isWithinRange(sched.event[i].ts, ts)
  BY <1>3 DEF BufferInv, StepMatchesRequest
<1>6. sched.event[i].ts \in Int
  BY <1>1 DEF Scheduler
<1> HIDE DEF i
<1>7. RingInv(sched', endTurn)
  BY <1>1, <1>4, <1>5, CommitKeepsRing
<1>8. /\ Keeps(sched, sched')
      /\ \A t \in Sources, b \in Int :
           /\ GivenUpBefore(sched, t, b)
           /\ t = s => sched.event[i].ts + 2 * MaxOffset < b
           => GivenUpBefore(sched', t, b)
  BY <1>1, <1>4, CommitKeeps
<1>9. GivenUpBefore(sched', s, Horizon(s)')
  <2>1. Horizon(s) = ts /\ Horizon(s)' = ts + MinGap
    BY <1>3 DEF Horizon
  <2>2. GivenUpBefore(sched, s, ts)
    BY <1>3, <2>1 DEF BufferInv, GivenUpIsLeftBehind, Overshot
  <2> HIDE DEF ts
  <2>3. GivenUpBefore(sched, s, ts + MinGap)
    BY <1>1, <2>2, GivenUpLater
  <2>4. sched.event[i].ts + 2 * MaxOffset < ts + MinGap
    BY <1>1, <1>5, <1>6, ClockAssumption DEF isWithinRange, Disciplined
  <2>5. ts + MinGap \in Int
    BY <1>1
  <2> QED BY <1>8, <2>1, <2>3, <2>4, <2>5
<1>10. clock'.delta >= 0
  BY <1>2 DEF BufferInv, PaddingAhead
<1> QED BY <1>2, <1>3, <1>7, <1>8, <1>9, <1>10, SourceStepKeepsInv

\* Steps that change neither the scheduler nor a thread: the tasks of the
\* taskflow up to the end task.
LEMMA TaskInv ==
  ASSUME BufferInv, TypeOK', UNCHANGED <<sched, clock, endTurn>>,
         \A s \in Sources :
           \/ src'[s] = src[s]
           \/ /\ src'[s].pc = src[s].pc /\ src'[s].ts = src[s].ts
              /\ src'[s].step = src[s].step
           \/ /\ src[s].pc = "off" /\ src'[s].pc = "idle"
              /\ src'[s].ts = src[s].ts /\ src'[s].step = src[s].step,
         TasksFollowLocks'
  PROVE  BufferInv'
<1>1. StepMatchesRequest'
  BY DEF BufferInv, StepMatchesRequest
<1>2. \A s \in Sources : Overshot(s)' <=> Overshot(s)
  BY DEF Overshot
<1>3. \A s \in Sources : Horizon(s)' = Horizon(s)
  BY DEF Horizon
<1>4. GivenUpIsLeftBehind'
  BY <1>2, <1>3 DEF BufferInv, GivenUpIsLeftBehind
<1>5. PaddingAhead'
  BY <1>2 DEF BufferInv, PaddingAhead
<1>6. OnePads' /\ RequestsHaveTimestamp'
  BY DEF BufferInv, OnePads, RequestsHaveTimestamp
<1>7. RingInv(sched, endTurn)'
  BY DEF BufferInv
<1> QED BY <1>1, <1>4, <1>5, <1>6, <1>7 DEF BufferInv

\* The tasks: a source task runs with its lock, the sink after all of them.
LEMMA TaskflowTasksInv ==
  ASSUME BufferInv, TypeOK',
         \/ \E i \in Steps : SeamEntry(i) \/ SinkTask(i)
         \/ \E i \in Steps, s \in Sources : StopPlayer(s, i) \/ SourceTask(s, i)
         \/ \E r \in Rings : SerialSeam(r)
         \/ StartSeam
  PROVE  BufferInv'
<1>1. /\ phase \in [Steps -> {"seam", "run", "end", "stopped"}]
      /\ done \in [Steps -> SUBSET Sources]
      /\ src \in [Sources -> [pc : SourcePc, ts : Int, step : Steps, run : BOOLEAN]]
  BY DEF BufferInv, TypeOK
<1>2. TasksFollowLocks
  BY DEF BufferInv
<1>3. ASSUME NEW i \in Steps, SeamEntry(i) PROVE BufferInv'
  <2>1. UNCHANGED <<sched, clock, endTurn, src, done>>
    BY <1>3 DEF SeamEntry, schedVars, requestVars, ringVars
  <2>2. \A j \in Steps : phase'[j] = "end" => phase[j] = "end"
    BY <1>1, <1>3 DEF SeamEntry
  <2>3. TasksFollowLocks'
    BY <1>2, <2>1, <2>2 DEF TasksFollowLocks
  <2> QED BY <2>1, <2>3, TaskInv
<1>4. ASSUME NEW i \in Steps, SinkTask(i) PROVE BufferInv'
  <2>1. UNCHANGED <<sched, clock, endTurn, src, done>> /\ done[i] = Sources
    BY <1>4 DEF SinkTask, SinkActive, schedVars, requestVars
  <2>2. \A j \in Steps : phase'[j] = "end" => phase[j] = "end" \/ j = i
    BY <1>1, <1>4 DEF SinkTask
  <2>3. TasksFollowLocks'
    BY <1>2, <2>1, <2>2 DEF TasksFollowLocks
  <2> QED BY <2>1, <2>3, TaskInv
<1>5. ASSUME NEW i \in Steps, NEW s \in Sources, StopPlayer(s, i) PROVE BufferInv'
  <2>1. UNCHANGED <<sched, clock, endTurn, phase, done>>
    BY <1>5 DEF StopPlayer, schedVars, requestVars, taskVars, ringVars
  <2>2. \A r \in Sources : /\ src'[r].pc = src[r].pc /\ src'[r].ts = src[r].ts
                           /\ src'[r].step = src[r].step
    BY <1>1, <1>5 DEF StopPlayer
  <2>3. TasksFollowLocks'
    BY <1>2, <2>1 DEF TasksFollowLocks
  <2> QED BY <2>1, <2>2, <2>3, TaskInv
<1>6. ASSUME NEW i \in Steps, NEW s \in Sources, SourceTask(s, i) PROVE BufferInv'
  <2>1. /\ UNCHANGED <<sched, clock, endTurn, phase>>
        /\ s \in sched.lock[i] /\ phase[i] = "run"
    BY <1>6 DEF SourceTask, SourceReady, SourceActive, schedVars, requestVars
  <2>2. \A j \in Steps : done'[j] = IF j = i THEN done[j] \cup {s} ELSE done[j]
    BY <1>1, <1>6 DEF SourceTask
  <2>3. TasksFollowLocks'
    BY <1>2, <2>1, <2>2 DEF TasksFollowLocks
  <2>4. \A r \in Sources :
          \/ src'[r] = src[r]
          \/ /\ src[r].pc = "off" /\ src'[r].pc = "idle"
             /\ src'[r].ts = src[r].ts /\ src'[r].step = src[r].step
    BY <1>1, <1>6 DEF SourceTask
  <2> QED BY <2>1, <2>3, <2>4, TaskInv
<1>7. ASSUME NEW r \in Rings, SerialSeam(r) PROVE BufferInv'
  <2>1. UNCHANGED <<sched, clock, endTurn, src, phase, done>>
    BY <1>7 DEF SerialSeam, schedVars, requestVars
  <2>2. TasksFollowLocks'
    BY <1>2, <2>1 DEF TasksFollowLocks
  <2> QED BY <2>1, <2>2, TaskInv
<1>8. ASSUME StartSeam PROVE BufferInv'
  <2>1. UNCHANGED <<sched, clock, endTurn, src, done>>
    BY <1>8 DEF StartSeam, schedVars, requestVars, ringVars
  <2>2. \A j \in Steps : phase'[j] = "end" => phase[j] = "end"
    BY <1>1, <1>8 DEF StartSeam
  <2>3. TasksFollowLocks'
    BY <1>2, <2>1, <2>2 DEF TasksFollowLocks
  <2> QED BY <2>1, <2>3, TaskInv
<1> QED BY <1>3, <1>4, <1>5, <1>6, <1>7, <1>8

\* The end of a time step: nobody uses its buffers any more.
LEMMA EndInv ==
  ASSUME BufferInv, TypeOK', NEW i \in Steps, timeStepEnded(i)
  PROVE  BufferInv'
<1>1. /\ endTurn = i /\ phase[i] = "end" /\ sched' = freeTimeStep(sched, i)
      /\ endTurn' = NextTimeStep(i) /\ UNCHANGED <<clock, src>>
      /\ phase' = [phase EXCEPT ![i] = "seam"] /\ done' = [done EXCEPT ![i] = {}]
  BY DEF timeStepEnded, EndActive, requestVars
<1>2. RingInv(sched, i) /\ TypeOK
  BY <1>1 DEF BufferInv
<1>3. sched.lock[i] = Sources /\ sched.running[i]
  <2>1. Sources \subseteq sched.lock[i]
    BY <1>1 DEF BufferInv, TasksFollowLocks
  <2>2. sched.lock[i] \subseteq Sources
    BY <1>2 DEF RingInv, Scheduler
  <2>3. Sources # {}
    BY SchedulerAssumption
  <2> QED BY <1>2, <2>1, <2>2, <2>3 DEF RingInv, LocksRun
<1>4. RingInv(sched', endTurn')
  BY <1>1, <1>2, <1>3, FreeKeepsRing
<1>5. /\ \A j \in Steps \ {i} :
           /\ sched'.running[j] = sched.running[j] /\ sched'.event[j] = sched.event[j]
           /\ sched'.lock[j] = sched.lock[j]
      /\ \A s \in Sources, b \in Int :
           GivenUpBefore(sched, s, b) => GivenUpBefore(sched', s, b)
  BY <1>1, <1>2, <1>3, FreeKeeps
<1>6. TasksFollowLocks'
  <2>1. \A j \in Steps : /\ done'[j] = IF j = i THEN {} ELSE done[j]
                         /\ phase'[j] = IF j = i THEN "seam" ELSE phase[j]
    BY <1>1, <1>2 DEF TypeOK
  <2> QED BY <1>5, <2>1 DEF BufferInv, TasksFollowLocks
<1>7. \A s \in Sources : src[s].pc \in {"found", "holding"} => src[s].step # i
  <2> SUFFICES ASSUME NEW s \in Sources, src[s].pc \in {"found", "holding"},
                      src[s].step = i
               PROVE  FALSE
    OBVIOUS
  <2>1. /\ sched.event[i].type = "DATA" /\ isWithinRange(sched.event[i].ts, src[s].ts)
    BY DEF BufferInv, StepMatchesRequest
  <2>2. GivenUpBefore(sched, s, src[s].ts)
    <3>1. Horizon(s) = src[s].ts /\ ~Overshot(s)
      BY DEF Horizon, Overshot
    <3> QED BY <3>1 DEF BufferInv, GivenUpIsLeftBehind
  <2>3. sched.event[i].ts + 2 * MaxOffset < src[s].ts
    BY <1>3, <2>1, <2>2 DEF GivenUpBefore
  <2>4. sched.event[i].ts \in Int /\ src[s].ts \in Int
    BY <1>2, SourceFields DEF RingInv, Scheduler
  <2> QED BY <2>1, <2>3, <2>4, ClockAssumption DEF isWithinRange
<1>8. StepMatchesRequest'
  <2>1. \A s \in Sources : src[s].step \in Steps
    BY <1>2, SourceFields
  <2> QED BY <1>1, <1>5, <1>7, <2>1 DEF BufferInv, StepMatchesRequest
<1>9. \A s \in Sources : (Overshot(s)' <=> Overshot(s)) /\ Horizon(s)' = Horizon(s)
        /\ Horizon(s) \in Int
  BY <1>1, <1>2, SourceFields DEF Overshot, Horizon
<1>10. GivenUpIsLeftBehind'
  BY <1>5, <1>9 DEF BufferInv, GivenUpIsLeftBehind
<1>11. PaddingAhead' /\ OnePads' /\ RequestsHaveTimestamp'
  BY <1>1, <1>9 DEF BufferInv, PaddingAhead, OnePads, RequestsHaveTimestamp
<1> QED BY <1>4, <1>6, <1>8, <1>10, <1>11 DEF BufferInv

\* The application: it schedules events for all components or does nothing to
\* the scheduler (kDataflowStopTimeout does not expire).
LEMMA AppInv ==
  ASSUME Disciplined, BufferInv, TypeOK', AppNext \/ ParameterChanged
  PROVE  BufferInv'
<1>1. /\ endTurn \in Steps /\ RingInv(sched, endTurn) /\ TypeOK
  BY DEF BufferInv, TypeOK
<1>2. UNCHANGED <<clock, src, phase, done, endTurn>>
  BY DEF AppNext, ParameterChanged, AppLaunch, AppConfigure, AppStart, AppStarted,
         AppStop, AppStopTimeout, AppTeardown, AppTornDown, AppFlush, AppFinish,
         scheduleNonDataEvent, schedVars, requestVars, taskVars, ringVars
<1>3. \/ sched' = sched
      \/ \E type \in EventType \ {"DATA"} :
           sched' = scheduleEvent(sched, type, kTimestampZero)
  BY DEF AppNext, ParameterChanged, AppLaunch, AppConfigure, AppStart, AppStarted,
         AppStop, AppStopTimeout, AppTeardown, AppTornDown, AppFlush, AppFinish,
         scheduleNonDataEvent, schedVars, EventType, Disciplined
<1>4. /\ RingInv(sched', endTurn) /\ Keeps(sched, sched')
      /\ \A s \in Sources, b \in Int :
           GivenUpBefore(sched, s, b) => GivenUpBefore(sched', s, b)
  <2>1. CASE sched' = sched
    BY <1>1, <2>1 DEF Keeps
  <2>2. ASSUME NEW type \in EventType \ {"DATA"},
               sched' = scheduleEvent(sched, type, kTimestampZero)
        PROVE  /\ RingInv(sched', endTurn) /\ Keeps(sched, sched')
               /\ \A s \in Sources, b \in Int :
                    GivenUpBefore(sched, s, b) => GivenUpBefore(sched', s, b)
    <3> DEFINE m == ScheduledEvent(type, kTimestampZero)
    <3>1. m \in Message /\ m.type # "DATA" /\ m.ts = kTimestampZero
      BY MessageType DEF ScheduledEvent, kTimestampZero
    <3>2. sched' = Enqueue(sched, m)
      BY <2>2 DEF scheduleEvent
    <3> HIDE DEF m
    <3>3. RingInv(sched', endTurn)
      BY <1>1, <3>1, <3>2, EnqueueKeepsRing
    <3>4. /\ Keeps(sched, sched')
          /\ \A s \in Sources, b \in Int :
               GivenUpBefore(sched, s, b) => GivenUpBefore(sched', s, b)
      BY <1>1, <3>1, <3>2, EnqueueKeeps
    <3> QED BY <3>3, <3>4
  <2> QED BY <1>3, <2>1, <2>2
<1>5. TasksFollowLocks'
  BY <1>2, <1>4 DEF BufferInv, TasksFollowLocks, Keeps
<1>6. StepMatchesRequest'
  <2>1. \A s \in Sources : src[s].step \in Steps
    BY <1>1, SourceFields
  <2> QED BY <1>2, <1>4, <2>1 DEF BufferInv, StepMatchesRequest, Keeps
<1>7. \A s \in Sources : (Overshot(s)' <=> Overshot(s)) /\ Horizon(s)' = Horizon(s)
        /\ Horizon(s) \in Int
  BY <1>1, <1>2, SourceFields DEF Overshot, Horizon
<1>8. GivenUpIsLeftBehind'
  BY <1>4, <1>7 DEF BufferInv, GivenUpIsLeftBehind
<1>9. PaddingAhead' /\ OnePads' /\ RequestsHaveTimestamp'
  BY <1>2, <1>7 DEF BufferInv, PaddingAhead, OnePads, RequestsHaveTimestamp
<1> QED BY <1>2, <1>4, <1>5, <1>6, <1>8, <1>9 DEF BufferInv

\* The initial state satisfies the invariant.
LEMMA BufferInit ==
  ASSUME Init
  PROVE  BufferInv
<1>1. TypeOK
  BY TypeInit
<1>2. 0 \in Steps /\ NextTimeStep(-1) = 0
  BY NextTimeStepType, SchedulerAssumption DEF Steps
<1>3. sched = InitialScheduler /\ endTurn = 0
  BY DEF Init
<1>4. /\ sched.free = TimeStepCount /\ sched.latest = -1 /\ sched.queue = <<>>
      /\ ~sched.overrun
      /\ \A i \in Steps :
           /\ ~sched.running[i] /\ sched.lock[i] = {}
           /\ sched.runningTs[i] = kTimestampZero
           /\ \A s \in Sources : sched.data[i][s] = kTimestampZero
  BY <1>3 DEF InitialScheduler
<1>5. Len(sched.queue) = 0
  BY <1>4
<1>6. Window(sched, endTurn)
  <2>1. InUse(sched) = 0
    BY <1>4, SchedulerAssumption DEF InUse
  <2>2. \A i \in Steps : RingDistance(endTurn, i) \in 0..(TimeStepCount - 1)
    BY <1>2, <1>3, RingArithmetic
  <2>3. RingDistance(endTurn, 0) = 0
    BY <1>2, <1>3, RingArithmetic
  <2>4. sched.free # 0
    BY <1>4, SchedulerAssumption
  <2>5. \A i \in Steps : ~(RingDistance(endTurn, i) < InUse(sched))
    BY <2>1, <2>2, SchedulerAssumption
  <2> QED BY <1>2, <1>4, <2>1, <2>3, <2>4, <2>5 DEF Window
<1>7. EventsConsistent(sched) /\ DataBelongs(sched) /\ LocksRun(sched)
  BY <1>4, <1>5 DEF EventsConsistent, StepConsistent, DataBelongs, LocksRun
<1>8. RingInv(sched, endTurn)
  BY <1>1, <1>4, <1>6, <1>7 DEF RingInv, TypeOK
<1>9. TasksFollowLocks
  BY DEF Init, TasksFollowLocks
<1>10. \A s \in Sources : src[s].pc \in {"off", "idle"}
  BY DEF Init
<1>11. \A s \in Sources : GivenUpBefore(sched, s, Horizon(s))
  BY <1>4, <1>5 DEF GivenUpBefore
<1>12. clock.delta >= 0
  BY ClockAssumption DEF Init, InitialClock
<1>13. StepMatchesRequest /\ GivenUpIsLeftBehind
  BY <1>10, <1>11 DEF StepMatchesRequest, GivenUpIsLeftBehind
<1>14. PaddingAhead /\ OnePads /\ RequestsHaveTimestamp
  BY <1>10, <1>12 DEF PaddingAhead, OnePads, RequestsHaveTimestamp
<1> QED BY <1>1, <1>8, <1>9, <1>13, <1>14 DEF BufferInv

\* No step leaves the invariant.
LEMMA BufferStep ==
  ASSUME Disciplined, BufferInv, [Next]_vars
  PROVE  BufferInv'
<1>1. TypeOK'
  BY TypeStep DEF BufferInv
<1>2. CASE UNCHANGED vars
  <2>1. UNCHANGED <<sched, clock, endTurn, src, phase, done>>
    BY <1>2 DEF vars, schedVars, requestVars, taskVars, ringVars
  <2>2. TasksFollowLocks'
    BY <2>1 DEF BufferInv, TasksFollowLocks
  <2> QED BY <1>1, <2>1, <2>2, TaskInv
<1>3. ASSUME NEW s \in Sources, SourceNext(s) PROVE BufferInv'
  BY <1>1, <1>3, RequestInv, PaddingInv, PaddingDoneInv, ThreadInv, ClaimInv, CommitInv
     DEF SourceNext
<1>4. ASSUME NEW i \in Steps, TaskflowNext(i) PROVE BufferInv'
  BY <1>1, <1>4, TaskflowTasksInv, EndInv DEF TaskflowNext
<1>5. CASE (\E r \in Rings : SerialSeam(r)) \/ StartSeam
  BY <1>1, <1>5, TaskflowTasksInv
<1>6. CASE AppNext \/ ParameterChanged
  BY <1>1, <1>6, AppInv
<1> QED BY <1>2, <1>3, <1>4, <1>5, <1>6 DEF Next

\* What the invariant says about a source that holds a buffer.
LEMMA BufferInvMatches ==
  ASSUME BufferInv
  PROVE  BufferMatchesRequest
<1> SUFFICES ASSUME NEW s \in Sources, src[s].pc = "holding"
             PROVE  LET i == src[s].step
                    IN /\ sched.running[i]
                       /\ sched.event[i].type = "DATA"
                       /\ isWithinRange(sched.event[i].ts, src[s].ts)
                       /\ s \notin sched.lock[i]
  BY DEF BufferMatchesRequest
<1> DEFINE i == src[s].step
<1>1. /\ sched.running[i] /\ sched.event[i].type = "DATA"
      /\ isWithinRange(sched.event[i].ts, src[s].ts)
  BY DEF BufferInv, StepMatchesRequest
<1>2. i \in Steps /\ src[s].ts \in Int
  BY SourceFields DEF BufferInv
<1>3. GivenUpBefore(sched, s, src[s].ts)
  <2>1. Horizon(s) = src[s].ts /\ ~Overshot(s)
    BY DEF Horizon, Overshot
  <2> QED BY <2>1 DEF BufferInv, GivenUpIsLeftBehind
<1>4. sched.event[i].ts \in Int
  BY <1>2 DEF BufferInv, RingInv, Scheduler
<1> HIDE DEF i
<1>5. s \notin sched.lock[i]
  BY <1>1, <1>2, <1>3, <1>4, ClockAssumption, SMTT(30) DEF GivenUpBefore, isWithinRange
<1> QED BY <1>1, <1>5 DEF i

\* The inductive invariant of the buffers holds in every reachable state, for
\* every number of sources and time steps, in both source modes.
THEOREM BufferInvariant ==
  ASSUME Disciplined
  PROVE  Spec => []BufferInv
<1>1. Init => BufferInv
  BY BufferInit
<1>2. BufferInv /\ [Next]_vars => BufferInv'
  BY BufferStep
<1> QED BY <1>1, <1>2, PTL DEF Spec

\* The asserts of the scheduler hold, for every number of sources and time
\* steps, in both source modes.
THEOREM RingIsSafe ==
  ASSUME Disciplined
  PROVE  Spec => []NeverOverrun
<1>1. BufferInv => NeverOverrun
  BY DEF BufferInv, RingInv, NeverOverrun
<1> QED BY <1>1, BufferInvariant, PTL

\* The running time steps are one window of the ring, as large as the semaphore
\* says, for every number of sources and time steps, in both source modes.
THEOREM RingStaysContiguous ==
  ASSUME Disciplined
  PROVE  Spec => []RingWindow
<1>1. BufferInv => RingWindow
  BY DEF BufferInv, RingInv, RingWindow
<1> QED BY <1>1, BufferInvariant, PTL

\* A source that holds a buffer holds the buffer of the frame it asked for until
\* it commits it, for every number of sources and time steps.
THEOREM BuffersMatchRequests ==
  ASSUME Disciplined
  PROVE  Spec => []BufferMatchesRequest
<1> QED BY BufferInvariant, BufferInvMatches, PTL

\* Data of different frames never meets in one time step, for every number of
\* sources and time steps.
THEOREM FramesAreSynchronised ==
  ASSUME Disciplined
  PROVE  Spec => []FrameSynchronised
<1>1. BufferInv => FrameSynchronised
  <2>1. ASSUME BufferInv, NEW i \in Steps, NEW s \in done[i]
        PROVE  s \in Sources
    BY <2>1 DEF BufferInv, TypeOK
  <2> QED BY <2>1 DEF BufferInv, RingInv, DataBelongs, FrameSynchronised
<1> QED BY <1>1, BufferInvariant, PTL

-----------------------------------------------------------------------------
(* The frames that go without the data of a source. *)

\* A later bound.
LEMMA LeftOutLater ==
  ASSUME NEW d \in Scheduler, NEW s \in Sources, NEW b \in Int, NEW c \in Int, b <= c,
         LeftOutBefore(d, s, b)
  PROVE  LeftOutBefore(d, s, c)
<1>1. \A i \in Steps : d.event[i].ts \in Int
  BY DEF Scheduler
<1>2. \A k \in 1..Len(d.queue) : d.queue[k].ts \in Int
  <2>1. d.queue \in Seq(Message)
    BY DEF Scheduler
  <2>2. \A k \in 1..Len(d.queue) : d.queue[k] \in Message
    BY <2>1
  <2> QED BY <2>2 DEF Message
<1> QED BY <1>1, <1>2, ClockAssumption DEF LeftOutBefore

\* Loading a message leaves out the sources it is loaded without.
LEMMA LoadLeavesOut ==
  ASSUME NEW d \in Scheduler, NEW r, NEW i \in Steps, NEW m \in Message,
         NEW C \in SUBSET Sources, Loads(d, r, i, m, C), d.lock[i] = {},
         NEW s \in Sources, NEW b \in Int, LeftOutBefore(d, s, b),
         m.type = "DATA" /\ s \in C => m.ts + 2 * MaxOffset < b,
         \A k \in 1..Len(r.queue) :
           r.queue[k].type = "DATA" /\ r.queue[k].invalid[s] > 0
             => r.queue[k].ts + 2 * MaxOffset < b
  PROVE  LeftOutBefore(r, s, b)
<1>1. \A j \in Steps : j # i => r.event[j] = d.event[j] /\ r.lock[j] = d.lock[j]
  BY DEF Loads, Scheduler
<1>2. /\ r.lock[i] = C /\ r.event[i].type = m.type /\ r.event[i].ts = m.ts
      /\ r.data = d.data
  BY DEF Loads, Scheduler
<1> QED BY <1>1, <1>2 DEF LeftOutBefore

\* Scheduling a message leaves out the sources marked in it.
LEMMA EnqueueLeavesOut ==
  ASSUME NEW d, NEW e \in Steps, NEW m \in Message, RingInv(d, e),
         NEW s \in Sources, NEW b \in Int, LeftOutBefore(d, s, b),
         m.type = "DATA" /\ m.invalid[s] > 0 => m.ts + 2 * MaxOffset < b
  PROVE  LeftOutBefore(Enqueue(d, m), s, b)
<1> DEFINE r == Enqueue(d, m)
           i == NextTimeStep(d.latest)
           C == CommittedSources(m)
<1>1. d \in Scheduler /\ (d.queue # <<>> => d.free = 0)
  BY DEF RingInv, Window
<1>2. C \in SUBSET Sources /\ (m.type = "DATA" /\ s \in C => m.invalid[s] > 0)
  BY DEF CommittedSources
<1>3. CASE d.free = 0 /\ r = [d EXCEPT !.queue = Append(d.queue, m)]
  <2> DEFINE a == Append(d.queue, m)
  <2>1. d.queue \in Seq(Message)
    BY <1>1 DEF Scheduler
  <2>2. /\ \A k \in 1..Len(d.queue) : a[k] = d.queue[k]
        /\ \A k \in 1..Len(a) : k \in 1..Len(d.queue) \/ a[k] = m
    BY <2>1
  <2> HIDE DEF a
  <2>3. r.event = d.event /\ r.lock = d.lock /\ r.data = d.data /\ r.queue = a
    BY <1>1, <1>3 DEF Scheduler, a
  <2> HIDE DEF r
  <2>4. \A k \in 1..Len(r.queue) :
          r.queue[k].type = "DATA" /\ r.queue[k].invalid[s] > 0
            => r.queue[k].ts + 2 * MaxOffset < b
    BY <2>2, <2>3 DEF LeftOutBefore
  <2>5. LeftOutBefore(r, s, b)
    BY <2>3, <2>4 DEF LeftOutBefore
  <2> QED BY <2>5 DEF r
<1>4. CASE /\ d.free > 0 /\ Loads(d, r, i, m, C)
           /\ r.queue = <<>> /\ r.free = d.free - 1
  <2>1. i \in Steps /\ d.lock[i] = {}
    BY <1>4, NextIsFree
  <2> HIDE DEF r, i, C
  <2>2. Len(r.queue) = 0
    BY <1>4
  <2>3. m.type = "DATA" /\ s \in C => m.ts + 2 * MaxOffset < b
    BY <1>2
  <2>4. \A k \in 1..Len(r.queue) :
          r.queue[k].type = "DATA" /\ r.queue[k].invalid[s] > 0
            => r.queue[k].ts + 2 * MaxOffset < b
    BY <2>2
  <2>5. LeftOutBefore(r, s, b)
    BY <1>1, <1>2, <1>4, <2>1, <2>3, <2>4, LoadLeavesOut
  <2> QED BY <2>5 DEF r
<1> QED BY <1>1, <1>3, <1>4, EnqueueCases

\* A frame that takes a free time step waits for every source.
LEMMA ImmediateLeavesOut ==
  ASSUME NEW d, NEW e \in Steps, NEW ts \in Int, RingInv(d, e), d.free > 0,
         NEW s \in Sources, NEW b \in Int, LeftOutBefore(d, s, b)
  PROVE  LeftOutBefore(scheduleDataEventImmediately(d, ts), s, b)
<1> DEFINE r == scheduleDataEventImmediately(d, ts)
           i == NextTimeStep(d.latest)
           m == ScheduledEvent("DATA", ts)
<1>1. d \in Scheduler /\ m \in Message /\ {} \in SUBSET Sources
  BY MessageType DEF RingInv, EventType
<1>2. i \in Steps /\ d.lock[i] = {}
  BY NextIsFree
<1>3. Loads(d, r, i, m, {}) /\ r.queue = d.queue
  BY <1>1, ImmediateLoads
<1> HIDE DEF r, i, m
<1>4. \A k \in 1..Len(r.queue) :
        r.queue[k].type = "DATA" /\ r.queue[k].invalid[s] > 0
          => r.queue[k].ts + 2 * MaxOffset < b
  BY <1>3 DEF LeftOutBefore
<1>5. LeftOutBefore(r, s, b)
  BY <1>1, <1>2, <1>3, <1>4, LoadLeavesOut
<1> QED BY <1>5 DEF r

\* Cancelling for the frames before ts.
LEMMA CancelLeavesOut ==
  ASSUME NEW d, NEW e \in Steps, NEW C \in SUBSET Sources, NEW ts \in Int, RingInv(d, e),
         NEW s \in Sources, NEW b \in Int, LeftOutBefore(d, s, b), s \in C => ts <= b
  PROVE  LeftOutBefore(cancelSources(d, C, ts), s, b)
<1> DEFINE r == cancelSources(d, C, ts)
<1>1. d \in Scheduler
  BY DEF RingInv
<1>2. Cancels(d, r, C, ts)
  BY <1>1, CancelSourcesCancels
<1> HIDE DEF r
<1>3. \A x \in Int : IsOlder(x, ts) /\ s \in C => x + 2 * MaxOffset < b
  BY ClockAssumption DEF IsOlder
<1>4. ASSUME NEW i \in Steps, r.event[i].type = "DATA", s \in r.lock[i],
             r.data[i][s] = kTimestampZero
      PROVE  r.event[i].ts + 2 * MaxOffset < b
  <2>1. r.event[i] = d.event[i] /\ r.data[i] = d.data[i]
    BY <1>2 DEF Cancels
  <2>2. CASE s \in d.lock[i]
    BY <1>4, <2>1, <2>2 DEF LeftOutBefore
  <2>3. CASE s \notin d.lock[i]
    <3>1. s \in C /\ d.running[i] /\ IsOlder(d.runningTs[i], ts)
      BY <1>2, <1>4, <2>3 DEF Cancels
    <3>2. d.runningTs[i] = d.event[i].ts
      BY <3>1 DEF RingInv, EventsConsistent, StepConsistent
    <3>3. d.runningTs[i] \in Int
      BY <1>1 DEF Scheduler
    <3> QED BY <1>3, <2>1, <3>1, <3>2, <3>3
  <2> QED BY <2>2, <2>3
<1>5. ASSUME NEW k \in 1..Len(r.queue), r.queue[k].type = "DATA",
             r.queue[k].invalid[s] > 0
      PROVE  r.queue[k].ts + 2 * MaxOffset < b
  <2>1. /\ k \in 1..Len(d.queue)
        /\ r.queue[k].type = d.queue[k].type /\ r.queue[k].ts = d.queue[k].ts
        /\ d.queue[k].invalid[s] > 0 \/ (s \in C /\ IsOlder(d.queue[k].ts, ts))
    BY <1>2, <1>5 DEF Cancels
  <2>2. d.queue[k].ts \in Int
    <3>1. d.queue \in Seq(Message)
      BY <1>1 DEF Scheduler
    <3>2. d.queue[k] \in Message
      BY <2>1, <3>1
    <3> QED BY <3>2 DEF Message
  <2> QED BY <1>3, <1>5, <2>1, <2>2 DEF LeftOutBefore
<1>6. LeftOutBefore(r, s, b)
  BY <1>4, <1>5 DEF LeftOutBefore
<1> QED BY <1>6 DEF r

\* A commit with data leaves nobody out.
LEMMA CommitLeavesOut ==
  ASSUME NEW d \in Scheduler, NEW t \in Sources, NEW i \in Steps, NEW ts \in Int,
         ts # kTimestampZero,
         NEW s \in Sources, NEW b \in Int, LeftOutBefore(d, s, b)
  PROVE  LeftOutBefore(commit(d, t, i, ts), s, b)
<1> DEFINE r == commit(d, t, i, ts)
<1>1. /\ r.event = d.event /\ r.queue = d.queue
      /\ r.lock = [d.lock EXCEPT ![i] = @ \cup {t}]
      /\ r.data = [d.data EXCEPT ![i][t] = ts]
  BY DEF commit, Scheduler
<1>2. d.lock \in [Steps -> SUBSET Sources] /\ d.data \in [Steps -> [Sources -> Int]]
  BY DEF Scheduler
<1> HIDE DEF r
<1>3. \A j \in Steps : r.lock[j] = IF j = i THEN d.lock[j] \cup {t} ELSE d.lock[j]
  BY <1>1, <1>2
<1>4. \A j \in Steps : r.data[j][s] = IF j = i /\ s = t THEN ts ELSE d.data[j][s]
  BY <1>1, <1>2
<1>5. LeftOutBefore(r, s, b)
  BY <1>1, <1>3, <1>4 DEF LeftOutBefore
<1> QED BY <1>5 DEF r

\* Nor does taking a buffer.
LEMMA SetInputLeavesOut ==
  ASSUME NEW d \in Scheduler, NEW t \in Sources, NEW i \in Steps,
         NEW s \in Sources, NEW b \in Int, LeftOutBefore(d, s, b)
  PROVE  LeftOutBefore([d EXCEPT !.setInput[i] = @ \cup {t}], s, b)
<1> DEFINE r == [d EXCEPT !.setInput[i] = @ \cup {t}]
<1>1. r.event = d.event /\ r.queue = d.queue /\ r.lock = d.lock /\ r.data = d.data
  BY DEF Scheduler
<1> HIDE DEF r
<1>2. LeftOutBefore(r, s, b)
  BY <1>1 DEF LeftOutBefore
<1> QED BY <1>2 DEF r

\* Freeing time step e leaves the data of the others alone.
LEMMA FreeKeepsData ==
  ASSUME NEW d, NEW e \in Steps, RingInv(d, e)
  PROVE  \A i \in Steps \ {e} : freeTimeStep(d, e).data[i] = d.data[i]
<1> DEFINE r == freeTimeStep(d, e)
<1>1. d \in Scheduler
  BY DEF RingInv
<1>2. PICK z : /\ Cleared(d, z, e)
               /\ \/ d.queue = <<>> /\ r = setTaskflowFree(z, e)
                  \/ d.queue # <<>> /\ r = runTaskFlowFromQueue(z)
  BY <1>1, FreeCases
<1> HIDE DEF r
<1>3. z \in Scheduler /\ z.queue = d.queue /\ \A i \in Steps \ {e} : z.data[i] = d.data[i]
  BY <1>1, <1>2 DEF Cleared, Scheduler
<1>4. CASE d.queue = <<>> /\ r = setTaskflowFree(z, e)
  <2>1. r.data = z.data
    BY <1>3, <1>4 DEF setTaskflowFree, Scheduler
  <2> QED BY <1>3, <2>1 DEF r
<1>5. CASE d.queue # <<>> /\ r = runTaskFlowFromQueue(z)
  <2>1. r.data = z.data
    BY <1>3, <1>5, RunFromQueueLoads DEF Loads
  <2> QED BY <1>3, <2>1 DEF r
<1> QED BY <1>2, <1>4, <1>5

\* What is loaded into a freed time step leaves out the sources marked in it.
LEMMA FreeLeavesOut ==
  ASSUME NEW d, NEW e \in Steps, RingInv(d, e), d.running[e],
         NEW s \in Sources, NEW b \in Int, LeftOutBefore(d, s, b)
  PROVE  LeftOutBefore(freeTimeStep(d, e), s, b)
<1> DEFINE r == freeTimeStep(d, e)
<1>1. d \in Scheduler /\ (Freed(d, r, e) \/ Reloaded(d, r, e))
  BY FreeKeepsRing DEF RingInv
<1>2. /\ d.lock \in [Steps -> SUBSET Sources] /\ d.queue \in Seq(Message)
      /\ d.event \in [Steps -> [type : EventType, ts : Int]]
  BY <1>1 DEF Scheduler
<1>3. \A i \in Steps \ {e} :
        r.event[i] = d.event[i] /\ r.lock[i] = d.lock[i] /\ r.data[i] = d.data[i]
  BY FreeKeeps, FreeKeepsData
<1> SUFFICES LeftOutBefore(r, s, b)
  OBVIOUS
<1> HIDE DEF r
<1>4. CASE Freed(d, r, e)
  <2>1. r.lock[e] = {} /\ Len(r.queue) = 0
    BY <1>2, <1>4 DEF Freed
  <2> QED BY <1>3, <2>1 DEF LeftOutBefore
<1>5. CASE Reloaded(d, r, e)
  <2> DEFINE m == Head(d.queue)
  <2>1. /\ r.lock[e] = CommittedSources(m)
        /\ r.event[e].type = m.type /\ r.event[e].ts = m.ts
    BY <1>2, <1>5 DEF Reloaded
  <2>2. m = d.queue[1] /\ 1 \in 1..Len(d.queue)
    BY <1>2, <1>5 DEF Reloaded
  <2>3. \A k \in 1..Len(r.queue) : r.queue[k] = d.queue[k + 1] /\ k + 1 \in 1..Len(d.queue)
    BY <1>2, <1>5 DEF Reloaded
  <2> HIDE DEF m
  <2>4. m.type = "DATA" /\ s \in CommittedSources(m) => m.ts + 2 * MaxOffset < b
    BY <2>2 DEF CommittedSources, LeftOutBefore
  <2>5. \A k \in 1..Len(r.queue) :
          r.queue[k].type = "DATA" /\ r.queue[k].invalid[s] > 0
            => r.queue[k].ts + 2 * MaxOffset < b
    BY <2>3 DEF LeftOutBefore
  <2> QED BY <1>3, <2>1, <2>4, <2>5 DEF LeftOutBefore
<1> QED BY <1>1, <1>4, <1>5

-----------------------------------------------------------------------------
(* A source is left out only of frames it has left behind. *)

\* After a request of s for ts, accepted or refused, every frame that goes without
\* the data of a source still lies before what that source asks for.
LEMMA RequestLeavesOut ==
  ASSUME Disciplined, BufferInv, LeavesItselfOut,
         NEW s \in Sources, NEW ts \in Timestamps, RequestSourceBuffer(s, ts)
  PROVE  LeavesItselfOut'
<1> DEFINE c == newTimestamp(clock, ts)
           d == cancelOlderEvents(s, ts)
           B(r) == IF r = s THEN ts ELSE src[r].ts
           Good(z) == \A r \in Sources : LeftOutBefore(z, r, B(r))
<1>1. ts \in Int /\ endTurn \in Steps /\ clock \in Clock /\ RingInv(sched, endTurn)
      /\ TypeOK /\ sched \in Scheduler /\ \A r \in Sources : B(r) \in Int
  BY TimeDomainAssumption, SourceFields DEF BufferInv, TypeOK
<1>2. CanRequest(s, ts)
  BY DEF RequestSourceBuffer
<1>3. src[s].ts <= ts /\ src[s].ts \in Int
  BY <1>1, <1>2, SourceFields, TimeDomainAssumption DEF CanRequest, SensorTimestamp
<1>4. \A r \in Sources : src'[r].ts = B(r)
  <2>1. PICK pc, i : SourceAt(s, pc, ts, i)
    BY DEF RequestSourceBuffer, RequestInvalid, RequestRunning, RequestScheduled,
           RequestAfterStop, RequestNewTimestampWait, RequestNewTimestampImmediate
  <2> QED BY <1>1, <2>1, RequestHorizon
<1>5. RingInv(d, endTurn) /\ d.free = sched.free /\ d.latest = sched.latest
  BY <1>2, RequestCancels
<1>6. c.expected \in Int
  <2>1. c \in Clock
    BY <1>1, ClockType
  <2> HIDE DEF c
  <2> QED BY <2>1 DEF Clock
<1>7. Good(sched)
  <2>1. \A r \in Sources : LeftOutBefore(sched, r, src[r].ts)
    BY DEF LeavesItselfOut
  <2> QED BY <1>1, <1>3, <2>1, LeftOutLater
<1>8. Good(d)
  <2>1. d = cancelSources(sched, {s}, ts)
    BY DEF cancelOlderEvents, Disciplined
  <2>2. ASSUME NEW r \in Sources PROVE LeftOutBefore(d, r, B(r))
    <3>1. LeftOutBefore(sched, r, B(r)) /\ B(r) \in Int /\ (r \in {s} => ts <= B(r))
      BY <1>1, <1>7
    <3> HIDE DEF d, B
    <3> QED BY <1>1, <2>1, <3>1, CancelLeavesOut
  <2> QED BY <2>2
<1> SUFFICES Good(sched')
  BY <1>4 DEF LeavesItselfOut
<1> HIDE DEF c, d, B
<1>9. CASE sched' = sched \/ sched' = d
  BY <1>7, <1>8, <1>9
<1>10. ASSUME NEW i \in Steps, sched' = [d EXCEPT !.setInput[i] = @ \cup {s}]
       PROVE  Good(sched')
  BY <1>1, <1>5, <1>8, <1>10, SetInputLeavesOut DEF RingInv
<1>11. CASE sched' = scheduleEvent(d, "DATA", c.expected)
  <2> DEFINE m == ScheduledEvent("DATA", c.expected)
  <2>1. m \in Message /\ \A r \in Sources : ~(m.invalid[r] > 0)
    BY <1>6, MessageType DEF EventType, ScheduledEvent
  <2>2. sched' = Enqueue(d, m)
    BY <1>11 DEF scheduleEvent
  <2> HIDE DEF m
  <2> QED BY <1>1, <1>5, <1>8, <2>1, <2>2, EnqueueLeavesOut
<1>12. CASE /\ sched.free > 0
            /\ sched' = [scheduleDataEventImmediately(d, ts) EXCEPT
                           !.setInput[NextTimeStep(sched.latest)] = @ \cup {s}]
  <2> DEFINE z == scheduleDataEventImmediately(d, ts)
  <2>1. z \in Scheduler /\ Good(z)
    BY <1>1, <1>5, <1>8, <1>12, ImmediateKeepsRing, ImmediateLeavesOut DEF RingInv
  <2>2. NextTimeStep(sched.latest) \in Steps
    BY <1>1, NextTimeStepType DEF Scheduler
  <2> HIDE DEF z
  <2> QED BY <1>1, <1>12, <2>1, <2>2, SetInputLeavesOut DEF z
<1>13. \/ sched' = sched \/ sched' = d
       \/ \E i \in Steps : sched' = [d EXCEPT !.setInput[i] = @ \cup {s}]
       \/ sched' = scheduleEvent(d, "DATA", c.expected)
       \/ /\ sched.free > 0
          /\ sched' = [scheduleDataEventImmediately(d, ts) EXCEPT
                         !.setInput[NextTimeStep(sched.latest)] = @ \cup {s}]
  BY DEF RequestSourceBuffer, RequestInvalid, RequestRunning, RequestScheduled,
         RequestAfterStop, RequestNewTimestampWait, RequestNewTimestampImmediate,
         c, d
<1> QED BY <1>9, <1>10, <1>11, <1>12, <1>13

\* The other steps of a source; a padding event is for an earlier frame.
LEMMA SourceLeavesOut ==
  ASSUME Disciplined, BufferInv, PaddingNeverOvershoots, LeavesItselfOut,
         NEW s \in Sources, SourceNext(s)
  PROVE  LeavesItselfOut'
<1>1. /\ endTurn \in Steps /\ RingInv(sched, endTurn) /\ sched \in Scheduler
      /\ src \in [Sources -> [pc : SourcePc, ts : Int, step : Steps, run : BOOLEAN]]
      /\ \A r \in Sources : src[r].ts \in Int /\ src[r].step \in Steps
      /\ clock.expected \in Int
  BY SourceFields DEF BufferInv, TypeOK
<1>2. \A r \in Sources : LeftOutBefore(sched, r, src[r].ts)
  BY DEF LeavesItselfOut
<1>3. CASE Padding(s)
  <2> DEFINE m == [ScheduledEvent("DATA", clock.expected) EXCEPT !.invalid[s] = 1]
  <2>1. /\ m \in Message /\ m.ts = clock.expected
        /\ \A r \in Sources : m.invalid[r] > 0 => r = s
    BY <1>1, MessageType DEF EventType, ScheduledEvent
  <2>2. sched' = Enqueue(sched, m) /\ src[s].pc = "pad"
    BY <1>3 DEF Padding, schedulePaddingEvent
  <2>3. \A r \in Sources : src'[r].ts = src[r].ts
    BY <1>1, <1>3 DEF Padding
  <2>4. clock.expected + 2 * MaxOffset < src[s].ts
    <3>1. ~Overshot(s)
      BY <1>1, <2>2, ClockAssumption DEF Overshot, PaddingNeverOvershoots
    <3> QED BY <2>2, <3>1 DEF BufferInv, PaddingAhead
  <2> HIDE DEF m
  <2> QED BY <1>1, <1>2, <2>1, <2>2, <2>3, <2>4, EnqueueLeavesOut DEF LeavesItselfOut
<1>4. CASE PaddingDone(s)
  <2> DEFINE m == ScheduledEvent("DATA", clock.expected)
  <2>1. m \in Message /\ \A r \in Sources : ~(m.invalid[r] > 0)
    BY <1>1, MessageType DEF EventType, ScheduledEvent
  <2>2. sched' = Enqueue(sched, m)
    BY <1>4 DEF PaddingDone, scheduleEvent
  <2>3. \A r \in Sources : src'[r].ts = src[r].ts
    BY <1>1, <1>4 DEF PaddingDone
  <2> HIDE DEF m
  <2> QED BY <1>1, <1>2, <2>1, <2>2, <2>3, EnqueueLeavesOut DEF LeavesItselfOut
<1>5. CASE WaitForRunning(s) \/ ClaimSourceBuffer(s) \/ Commit(s) \/ PlayerExit(s)
  <2>1. \A r \in Sources : src'[r].ts = src[r].ts
    BY <1>1, <1>5 DEF WaitForRunning, ClaimSourceBuffer, Commit, PlayerExit
  <2>2. \/ sched' = sched
        \/ sched' = [sched EXCEPT !.setInput[src[s].step] = @ \cup {s}]
        \/ /\ src[s].pc = "holding"
           /\ sched' = commit(sched, s, src[s].step, src[s].ts)
    BY <1>5 DEF WaitForRunning, ClaimSourceBuffer, Commit, PlayerExit, schedVars
  <2>3. src[s].pc = "holding" => src[s].ts # kTimestampZero
    BY <1>1, ClockAssumption DEF BufferInv, RequestsHaveTimestamp, kTimestampZero
  <2>4. ASSUME NEW r \in Sources
        PROVE  LeftOutBefore(sched', r, src[r].ts)
    <3>1. CASE sched' = sched
      BY <1>2, <3>1
    <3>2. CASE sched' = [sched EXCEPT !.setInput[src[s].step] = @ \cup {s}]
      BY <1>1, <1>2, <3>2, SetInputLeavesOut
    <3>3. CASE src[s].pc = "holding" /\ sched' = commit(sched, s, src[s].step, src[s].ts)
      <4>1. src[s].ts # kTimestampZero
        BY <2>3, <3>3
      <4> QED BY <1>1, <1>2, <3>3, <4>1, CommitLeavesOut
    <3> QED BY <2>2, <3>1, <3>2, <3>3
  <2> QED BY <2>1, <2>4 DEF LeavesItselfOut
<1> QED BY <1>3, <1>4, <1>5, RequestLeavesOut DEF SourceNext

\* Events for all components leave nobody out of a frame, and the frame that is
\* loaded at the end of a time step was marked before.
LEMMA TaskLeavesOut ==
  ASSUME Disciplined, BufferInv, LeavesItselfOut,
         \/ \E i \in Steps : TaskflowNext(i)
         \/ \E r \in Rings : SerialSeam(r)
         \/ StartSeam \/ AppNext \/ ParameterChanged \/ UNCHANGED vars
  PROVE  LeavesItselfOut'
<1>1. /\ endTurn \in Steps /\ RingInv(sched, endTurn) /\ sched \in Scheduler
      /\ src \in [Sources -> [pc : SourcePc, ts : Int, step : Steps, run : BOOLEAN]]
      /\ \A r \in Sources : src[r].ts \in Int
  BY SourceFields DEF BufferInv, TypeOK
<1>2. \A r \in Sources : LeftOutBefore(sched, r, src[r].ts)
  BY DEF LeavesItselfOut
<1>3. ASSUME NEW i \in Steps, timeStepEnded(i)
      PROVE  LeavesItselfOut'
  <2>1. endTurn = i /\ phase[i] = "end" /\ sched' = freeTimeStep(sched, i) /\ src' = src
    BY <1>3 DEF timeStepEnded, EndActive
  <2>2. sched.running[i]
    <3>1. sched.lock[i] # {}
      BY <2>1, SchedulerAssumption DEF BufferInv, TasksFollowLocks
    <3> QED BY <1>1, <3>1 DEF RingInv, LocksRun
  <2> QED BY <1>1, <1>2, <2>1, <2>2, FreeLeavesOut DEF LeavesItselfOut
<1>4. ASSUME NEW type \in EventType \ {"DATA"}, src' = src,
             sched' = scheduleEvent(sched, type, kTimestampZero)
      PROVE  LeavesItselfOut'
  <2> DEFINE m == ScheduledEvent(type, kTimestampZero)
  <2>1. m \in Message /\ m.type # "DATA"
    BY MessageType DEF ScheduledEvent, kTimestampZero
  <2>2. sched' = Enqueue(sched, m)
    BY <1>4 DEF scheduleEvent
  <2> HIDE DEF m
  <2> QED BY <1>1, <1>2, <1>4, <2>1, <2>2, EnqueueLeavesOut DEF LeavesItselfOut
<1>5. CASE sched' = sched /\ \A r \in Sources : src'[r].ts = src[r].ts
  BY <1>2, <1>5 DEF LeavesItselfOut
<1>6. CASE AppNext \/ ParameterChanged
  <2>1. src' = src
    BY <1>6 DEF AppNext, ParameterChanged, AppLaunch, AppConfigure, AppStart,
         AppStarted, AppStop, AppStopTimeout, AppTeardown, AppTornDown, AppFlush,
         AppFinish, scheduleNonDataEvent
  <2>2. \/ sched' = sched
        \/ \E type \in EventType \ {"DATA"} :
             sched' = scheduleEvent(sched, type, kTimestampZero)
    BY <1>6 DEF AppNext, ParameterChanged, AppLaunch, AppConfigure, AppStart,
         AppStarted, AppStop, AppStopTimeout, AppTeardown, AppTornDown, AppFlush,
         AppFinish, scheduleNonDataEvent, schedVars, EventType, Disciplined
  <2> QED BY <1>4, <1>5, <2>1, <2>2
<1>7. CASE (\E r \in Rings : SerialSeam(r)) \/ StartSeam \/ UNCHANGED vars
  BY <1>5, <1>7 DEF SerialSeam, StartSeam, vars, schedVars
<1>8. ASSUME NEW i \in Steps, TaskflowNext(i), ~timeStepEnded(i)
      PROVE  LeavesItselfOut'
  <2>1. sched' = sched
    BY <1>8 DEF TaskflowNext, SeamEntry, StopPlayer, SourceTask, SinkTask, schedVars
  <2>2. CASE src' = src
    BY <1>5, <2>1, <2>2
  <2>3. ASSUME NEW s \in Sources, StopPlayer(s, i) \/ SourceTask(s, i)
        PROVE  \A r \in Sources : src'[r].ts = src[r].ts
    BY <1>1, <2>3 DEF StopPlayer, SourceTask
  <2> QED BY <1>5, <1>8, <2>1, <2>2, <2>3 DEF TaskflowNext, SeamEntry, SinkTask
<1> QED BY <1>3, <1>6, <1>7, <1>8

\* What the invariant says about the data of a frame.
LEMMA LeavesItselfOutMeans ==
  ASSUME BufferInv, LeavesItselfOut
  PROVE  OnlySelfCancel
<1> SUFFICES ASSUME NEW i \in Steps, NEW s \in done[i], sched.event[i].type = "DATA",
                    sched.data[i][s] = kTimestampZero
             PROVE  IsOlder(sched.event[i].ts, src[s].ts)
  BY DEF OnlySelfCancel
<1>1. s \in Sources /\ s \in sched.lock[i] /\ src[s].ts \in Int
      /\ sched.event[i].ts \in Int
  BY SourceFields DEF BufferInv, TypeOK, TasksFollowLocks, Scheduler
<1>2. sched.event[i].ts + 2 * MaxOffset < src[s].ts
  BY <1>1 DEF LeavesItselfOut, LeftOutBefore
<1> QED BY <1>1, <1>2, ClockAssumption DEF IsOlder

-----------------------------------------------------------------------------
(* Synchronised sensors. *)

\* The next frame of the grid lies on it, and does not jump over a later one.
LEMMA NextOnGrid ==
  ASSUME NEW t \in Int, NEW u \in Int, SameGrid(t, u)
  PROVE  /\ SameGrid(t + SensorDelta, u)
         /\ t + 2 * MaxOffset < u => t + SensorDelta <= u + 2 * MaxOffset
<1>1. SensorDelta \in Nat \ {0} /\ MaxOffset \in Nat
  BY ClockAssumption
<1>2. PICK k \in Int : isWithinRange(t + k * SensorDelta, u)
  BY DEF SameGrid
<1>3. (k - 1) * SensorDelta = k * SensorDelta - SensorDelta
  BY <1>1
<1>4. SameGrid(t + SensorDelta, u)
  <2>1. t + SensorDelta + (k - 1) * SensorDelta = t + k * SensorDelta
    BY <1>1, <1>3
  <2>2. k - 1 \in Int
    OBVIOUS
  <2> QED BY <1>2, <2>1, <2>2 DEF SameGrid
<1>5. ASSUME t + 2 * MaxOffset < u
      PROVE  t + SensorDelta <= u + 2 * MaxOffset
  <2>1. k * SensorDelta \in Int /\ k * SensorDelta > 0
    BY <1>1, <1>2, <1>5 DEF isWithinRange
  <2>2. k >= 1
    BY <1>1, <2>1
  <2>3. (k - 1) * SensorDelta >= 0
    BY <1>1, <2>2
  <2>4. k * SensorDelta >= SensorDelta
    BY <1>1, <1>3, <2>1, <2>3
  <2> QED BY <1>1, <1>2, <2>1, <2>4 DEF isWithinRange
<1> QED BY <1>4, <1>5

\* The clock's expectation and its frame distance after its two operations.
LEMMA ClockSteps ==
  ASSUME Disciplined, NEW c \in Clock, NEW ts \in Int
  PROVE  /\ newTimestamp(c, ts) \in Clock
         /\ newTimestamp(c, ts).delta = c.delta
         /\ newTimestamp(c, ts).expected = IF c.init = kTimestampZero THEN ts ELSE c.expected
         /\ advanceTimeStep(c) \in Clock
         /\ advanceTimeStep(c).delta = c.delta
         /\ advanceTimeStep(c).expected = c.expected + c.delta
<1>1. newTimestamp(c, ts).expected = IF c.init = kTimestampZero THEN ts ELSE c.expected
  BY DEF newTimestamp, Clock
<1> QED BY <1>1, ClockType, ClockForward

OnGrid(t) == \A u \in Timestamps : SameGrid(t, u)

\* A request leaves the clock on the grid.
LEMMA RequestOnGrid ==
  ASSUME Disciplined, Synchronised, BufferInv, ClockOnGrid, PaddingNeverOvershoots,
         NEW s \in Sources, NEW ts \in Timestamps, RequestSourceBuffer(s, ts)
  PROVE  ClockOnGrid' /\ PaddingNeverOvershoots'
<1> DEFINE c == newTimestamp(clock, ts)
<1>1. ts \in Int /\ clock \in Clock /\ TypeOK /\ MaxOffset \in Nat
      /\ SensorDelta \in Nat /\ CanRequest(s, ts) /\ \A u \in Timestamps : u \in Int
  BY TimeDomainAssumption, ClockAssumption DEF BufferInv, TypeOK, RequestSourceBuffer
<1>2. /\ c \in Clock /\ c.delta = SensorDelta
      /\ c.expected = IF clock.init = kTimestampZero THEN ts ELSE clock.expected
      /\ advanceTimeStep(c).delta = SensorDelta
      /\ advanceTimeStep(c).expected = c.expected + SensorDelta
  <2>1. c \in Clock /\ c.delta = clock.delta
        /\ c.expected = IF clock.init = kTimestampZero THEN ts ELSE clock.expected
    BY <1>1, ClockSteps
  <2> HIDE DEF c
  <2> QED BY <1>1, <2>1, ClockSteps DEF ClockOnGrid
<1> HIDE DEF c
<1>3. OnGrid(c.expected) /\ c.expected \in Int
  BY <1>1, <1>2 DEF OnGrid, ClockOnGrid, Synchronised, Clock
<1>4. OnGrid(c.expected + SensorDelta)
  BY <1>1, <1>3, NextOnGrid DEF OnGrid
<1>5. PICK pc, i : /\ SourceAt(s, pc, ts, i)
                   /\ pc = "padded" => FALSE
                   /\ pc = "pad" => clock' = c /\ c.expected + MaxOffset < ts - MaxOffset
                   /\ clock' = clock => pc # "pad"
                        \/ clock' = c
  BY DEF RequestSourceBuffer, RequestInvalid, RequestRunning, RequestScheduled,
         RequestAfterStop, RequestNewTimestampWait, RequestNewTimestampImmediate, c,
         isFurtherAheadThenNextExpectedTimestamp
<1>6. \/ clock' = clock \/ clock' = c \/ clock' = advanceTimeStep(c)
  BY DEF RequestSourceBuffer, RequestInvalid, RequestRunning, RequestScheduled,
         RequestAfterStop, RequestNewTimestampWait, RequestNewTimestampImmediate, c,
         requestVars
<1>7. /\ src'[s].pc = pc /\ src'[s].ts = ts
      /\ \A r \in Sources \ {s} : src'[r] = src[r] /\ src[r].pc \notin {"pad", "padded"}
  BY <1>1, <1>5, RequestHorizon DEF CanRequest, RequestMutexFree
<1>8. PaddingNeverOvershoots'
  BY <1>1, <1>3, <1>5, <1>7 DEF PaddingNeverOvershoots
<1>9. \A r \in Sources : src'[r].pc = "pad" => src'[r].ts \in Timestamps
  BY <1>7
<1>10. CASE clock' = c \/ clock' = advanceTimeStep(c)
  BY <1>2, <1>3, <1>4, <1>8, <1>9, <1>10 DEF ClockOnGrid, OnGrid
<1>11. CASE clock' = clock /\ clock' # c
  <2>1. RequestMutexFree'
    BY <1>5, <1>7, <1>11 DEF RequestMutexFree
  <2> QED BY <1>8, <1>9, <1>11, <2>1 DEF ClockOnGrid
<1> QED BY <1>6, <1>10, <1>11

\* So does padding, and it does not jump over the frame it leads to.
LEMMA PaddingOnGrid ==
  ASSUME Disciplined, BufferInv, ClockOnGrid, PaddingNeverOvershoots,
         NEW s \in Sources, Padding(s) \/ PaddingDone(s)
  PROVE  ClockOnGrid' /\ PaddingNeverOvershoots'
<1>1. /\ clock \in Clock /\ MaxOffset \in Nat /\ SensorDelta \in Nat
      /\ \A u \in Timestamps : u \in Int
      /\ src \in [Sources -> [pc : SourcePc, ts : Int, step : Steps, run : BOOLEAN]]
  BY TimeDomainAssumption, ClockAssumption DEF BufferInv, TypeOK
<1>2. clock' = advanceTimeStep(clock) /\ src[s].pc \in {"pad", "padded"}
  BY DEF Padding, PaddingDone
<1>3. OnGrid(clock.expected) /\ clock.expected \in Int
  BY <1>1, <1>2 DEF ClockOnGrid, RequestMutexFree, OnGrid, Clock
<1>4. clock'.delta = SensorDelta /\ clock'.expected = clock.expected + SensorDelta
  <2>1. 0 \in Int
    OBVIOUS
  <2> QED BY <1>1, <1>2, <2>1, ClockSteps DEF ClockOnGrid
<1>5. OnGrid(clock'.expected)
  BY <1>1, <1>3, <1>4, NextOnGrid DEF OnGrid
<1>6. \A r \in Sources : src'[r].ts = src[r].ts
  BY <1>1 DEF Padding, PaddingDone
<1>7. \A r \in Sources : src'[r].pc = "pad" => src[r].pc = "pad" /\ r = s
  <2>1. \A r \in Sources \ {s} : src'[r] = src[r] /\ src[r].pc \notin {"pad", "padded"}
    BY <1>1, <1>2 DEF Padding, PaddingDone, BufferInv, OnePads
  <2>2. src'[s].pc = "pad" => src[s].pc = "pad"
    BY <1>1 DEF Padding, PaddingDone
  <2> QED BY <2>1, <2>2
<1>8. src[s].pc = "pad" => clock'.expected <= src[s].ts + 2 * MaxOffset
  <2> SUFFICES ASSUME src[s].pc = "pad"
               PROVE  clock'.expected <= src[s].ts + 2 * MaxOffset
    OBVIOUS
  <2>1. src[s].ts \in Timestamps /\ src[s].ts \in Int
    BY <1>1 DEF ClockOnGrid
  <2>2. ~Overshot(s)
    BY <1>1, <1>3, <2>1 DEF PaddingNeverOvershoots, Overshot
  <2>3. clock.expected + 2 * MaxOffset < src[s].ts
    BY <2>2 DEF BufferInv, PaddingAhead
  <2> QED BY <1>3, <1>4, <2>1, <2>3, NextOnGrid DEF OnGrid
<1>9. clock'.expected \in Int /\ \A r \in Sources : src[r].ts \in Int
  BY <1>1, <1>3, <1>4
<1>10. PaddingNeverOvershoots'
  BY <1>1, <1>6, <1>7, <1>8, <1>9 DEF PaddingNeverOvershoots
<1> QED BY <1>4, <1>5, <1>6, <1>7, <1>10 DEF ClockOnGrid, OnGrid

\* No step takes the clock off the grid.
LEMMA GridStep ==
  ASSUME Disciplined, Synchronised, BufferInv, ClockOnGrid, PaddingNeverOvershoots,
         [Next]_vars
  PROVE  ClockOnGrid' /\ PaddingNeverOvershoots'
<1>1. src \in [Sources -> [pc : SourcePc, ts : Int, step : Steps, run : BOOLEAN]]
  BY DEF BufferInv, TypeOK
<1>2. ASSUME clock' = clock,
             \A r \in Sources : /\ src'[r].pc \in {"pad", "padded"} => src'[r].pc = src[r].pc
                               /\ src'[r].ts = src[r].ts
      PROVE  ClockOnGrid' /\ PaddingNeverOvershoots'
  <2>1. PaddingNeverOvershoots'
    BY <1>2 DEF PaddingNeverOvershoots
  <2>2. RequestMutexFree => RequestMutexFree'
    BY <1>2 DEF RequestMutexFree
  <2> QED BY <1>2, <2>1, <2>2 DEF ClockOnGrid
<1>3. ASSUME NEW s \in Sources,
             WaitForRunning(s) \/ ClaimSourceBuffer(s) \/ Commit(s) \/ PlayerExit(s)
      PROVE  ClockOnGrid' /\ PaddingNeverOvershoots'
  <2>1. clock' = clock
    BY <1>3 DEF WaitForRunning, ClaimSourceBuffer, Commit, PlayerExit, schedVars, requestVars
  <2>2. \A r \in Sources :
          /\ src'[r].pc \in {"pad", "padded"} => src'[r].pc = src[r].pc
          /\ src'[r].ts = src[r].ts
    BY <1>1, <1>3 DEF WaitForRunning, ClaimSourceBuffer, Commit, PlayerExit
  <2> QED BY <1>2, <2>1, <2>2
<1>4. ASSUME NEW s \in Sources, SourceNext(s)
      PROVE  ClockOnGrid' /\ PaddingNeverOvershoots'
  BY <1>3, <1>4, RequestOnGrid, PaddingOnGrid DEF SourceNext
<1>5. ASSUME NEW i \in Steps, NEW s \in Sources, StopPlayer(s, i) \/ SourceTask(s, i)
      PROVE  ClockOnGrid' /\ PaddingNeverOvershoots'
  <2>1. clock' = clock
    BY <1>5 DEF StopPlayer, SourceTask, schedVars, requestVars
  <2>2. \A r \in Sources :
          /\ src'[r].pc \in {"pad", "padded"} => src'[r].pc = src[r].pc
          /\ src'[r].ts = src[r].ts
    BY <1>1, <1>5 DEF StopPlayer, SourceTask
  <2> QED BY <1>2, <2>1, <2>2
<1>6. CASE clock' = clock /\ src' = src
  BY <1>2, <1>6
<1>7. ASSUME NEW i \in Steps, SeamEntry(i) \/ SinkTask(i) \/ timeStepEnded(i)
      PROVE  clock' = clock /\ src' = src
  BY <1>7 DEF SeamEntry, SinkTask, timeStepEnded, schedVars, requestVars
<1>8. ASSUME \/ \E r \in Rings : SerialSeam(r)
             \/ StartSeam \/ AppNext \/ ParameterChanged \/ UNCHANGED vars
      PROVE  clock' = clock /\ src' = src
  BY <1>8 DEF SerialSeam, StartSeam, vars, schedVars, requestVars,
         AppNext, ParameterChanged, AppLaunch, AppConfigure, AppStart,
         AppStarted, AppStop, AppStopTimeout, AppTeardown, AppTornDown, AppFlush,
         AppFinish, scheduleNonDataEvent
<1> QED BY <1>4, <1>5, <1>6, <1>7, <1>8 DEF Next, TaskflowNext

\* Nothing is left out and nothing padded at first.
LEMMA GridInit ==
  ASSUME Init
  PROVE  ClockOnGrid /\ PaddingNeverOvershoots /\ LeavesItselfOut
<1>1. \A s \in Sources : src[s].pc \in {"off", "idle"}
  BY DEF Init
<1>2. sched.queue = <<>> /\ Len(sched.queue) = 0 /\ \A i \in Steps : sched.lock[i] = {}
  BY DEF Init, InitialScheduler
<1> QED BY <1>1, <1>2 DEF Init, InitialClock, ClockOnGrid, PaddingNeverOvershoots,
       LeavesItselfOut, LeftOutBefore, RequestMutexFree

\* With synchronised sensors the padding loop stops at the frame it is for, for
\* any number of sources and any jitter up to max_offset.
THEOREM PaddingStops ==
  ASSUME Disciplined, Synchronised
  PROVE  Spec => []PaddingNeverOvershoots
<1>1. Init => BufferInv /\ ClockOnGrid /\ PaddingNeverOvershoots
  BY BufferInit, GridInit
<1>2. BufferInv /\ ClockOnGrid /\ PaddingNeverOvershoots /\ [Next]_vars
        => BufferInv' /\ ClockOnGrid' /\ PaddingNeverOvershoots'
  BY BufferStep, GridStep
<1> QED BY <1>1, <1>2, PTL DEF Spec

\* In WAIT_FOR_EVENT mode a frame goes ahead without the data of a source only
\* when that source has moved on, for any number of sources and time steps, as
\* long as the padding loop does what PaddingStops says.
THEOREM OnlyTheSourceCancels ==
  ASSUME Disciplined
  PROVE  Spec /\ []PaddingNeverOvershoots => []OnlySelfCancel
<1>1. Init => BufferInv /\ LeavesItselfOut
  BY BufferInit, GridInit
<1>2. BufferInv /\ PaddingNeverOvershoots /\ LeavesItselfOut /\ [Next]_vars
        => BufferInv' /\ LeavesItselfOut'
  BY BufferStep, SourceLeavesOut, TaskLeavesOut DEF Next
<1>3. BufferInv /\ LeavesItselfOut => OnlySelfCancel
  BY LeavesItselfOutMeans
<1> QED BY <1>1, <1>2, <1>3, PTL DEF Spec
=============================================================================
