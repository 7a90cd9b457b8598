--------------------------- MODULE PipelineProofs ---------------------------
(***************************************************************************)
(* A time domain is a queue of events, for any number of sources and time  *)
(* steps: every step of module TimeDomain is a step of EventPipeline under *)
(* the mapping of TimeDomainRefinement, or leaves the pipeline as it is.   *)
(* What goes through this queue keeps its order.                           *)
(*                                                                         *)
(* The first part says what each operation of the scheduler does to the    *)
(* pending events: it leaves them, appends one or removes the first.  The  *)
(* second part follows the sink: the time steps it was called in are the   *)
(* first ones of the window that begins at the step whose end task is      *)
(* next, and its own next step follows them.                               *)
(*                                                                         *)
(* The third part shows that the application's events follow each other in *)
(* the pipeline and that the sink sees them so (SinkOrder).  The fourth    *)
(* follows the tasks of the sources and the seams of all chains up to the  *)
(* end of the taskflow (EndsAfterTeardown).  Their invariants are those of *)
(* the second part of module TimeDomainOrder.                              *)
(***************************************************************************)
EXTENDS TimeDomainOrder, BufferSafetyProofs, FiniteSetTheorems

-----------------------------------------------------------------------------
(* The window. *)

\* A window has at most TimeStepCount places, the ring wraps once.
LEMMA RingPlaceValue ==
  ASSUME NEW e \in Steps, NEW k \in 1..(TimeStepCount + 1)
  PROVE  StepAt(e, k) = IF e + k - 1 < TimeStepCount THEN e + k - 1
                        ELSE e + k - 1 - TimeStepCount
<1>1. \A n \in 0..(TimeStepCount - 1) : n % TimeStepCount = n
  BY SchedulerAssumption
<1>2. \A n \in TimeStepCount..(2 * TimeStepCount - 1) :
         n % TimeStepCount = n - TimeStepCount
  BY SchedulerAssumption
<1> QED BY <1>1, <1>2, SchedulerAssumption DEF StepAt, Steps

\* Places in the window and distances along the ring are the same.
LEMMA RingPlaces ==
  ASSUME NEW e \in Steps
  PROVE  /\ StepAt(e, TimeStepCount + 1) = e
         /\ \A k \in 1..TimeStepCount :
              /\ StepAt(e, k) \in Steps
              /\ RingDistance(e, StepAt(e, k)) = k - 1
         /\ \A i \in Steps : StepAt(e, RingDistance(e, i) + 1) = i
BY RingPlaceValue, SchedulerAssumption DEF RingDistance, Steps

\* Each place follows the one before it, and the places move with the window.
LEMMA RingPlacesMove ==
  ASSUME NEW e \in Steps, NEW k \in 1..TimeStepCount
  PROVE  /\ NextTimeStep(StepAt(e, k)) = StepAt(e, k + 1)
         /\ StepAt(NextTimeStep(e), k) = StepAt(e, k + 1)
<1>1. StepAt(e, k) \in Steps
  BY RingPlaces
<1>2. NextTimeStep(e) \in Steps
  BY NextTimeStepType DEF Steps
<1> QED BY <1>1, <1>2, RingPlaceValue, NextTimeStepType, SchedulerAssumption, SMTT(30) DEF Steps

\* The first n places of a window are n time steps.
LEMMA WindowSize ==
  ASSUME NEW e \in Steps, NEW n \in 0..TimeStepCount
  PROVE  Cardinality({i \in Steps : RingDistance(e, i) < n}) = n
<1> DEFINE W == {i \in Steps : RingDistance(e, i) < n}
           f == [k \in 1..n |-> StepAt(e, k)]
<1>1. n \in Nat
  BY SchedulerAssumption
<1>2. \A k \in 1..n : f[k] \in W
  BY RingPlaces, SchedulerAssumption
<1>3. \A i \in W : RingDistance(e, i) + 1 \in 1..n /\ f[RingDistance(e, i) + 1] = i
  <2> SUFFICES ASSUME NEW i \in W
               PROVE  RingDistance(e, i) + 1 \in 1..n /\ f[RingDistance(e, i) + 1] = i
    OBVIOUS
  <2>1. i \in Steps /\ RingDistance(e, i) \in 0..(TimeStepCount - 1) /\ RingDistance(e, i) < n
    BY RingArithmetic
  <2>2. StepAt(e, RingDistance(e, i) + 1) = i
    BY <2>1, RingPlaces
  <2> QED BY <1>1, <2>1, <2>2, SchedulerAssumption
<1>4. \A j, k \in 1..n : f[j] = f[k] => j = k
  BY RingPlaces, SchedulerAssumption
<1> HIDE DEF W
<1>5. f \in Bijection(1..n, W)
  BY <1>2, <1>3, <1>4 DEF Bijection, Injection, Surjection, IsInjective
<1> HIDE DEF f
<1>6. W = {} => n = 0
  BY <1>2
<1>7. ExistsBijection(1..n, W)
  BY <1>5 DEF ExistsBijection
<1>8. Cardinality(W) = n
  BY <1>1, <1>7, FS_CountingElements
<1> QED BY <1>8 DEF W

-----------------------------------------------------------------------------
(* The pending events and the operations of the scheduler. *)

\* The k-th pending event, in a time step of the window or in the queue.
PendingAt(d, e, k) ==
  IF k <= InUse(d) THEN d.event[StepAt(e, k)]
  ELSE [type |-> d.queue[k - InUse(d)].type, ts |-> d.queue[k - InUse(d)].ts]

PipelineEvent == [type : EventType, ts : Int]

\* The pending events are a sequence of events.
LEMMA PendingType ==
  ASSUME NEW d \in Scheduler, NEW e \in Steps
  PROVE  /\ InUse(d) \in 0..TimeStepCount
         /\ Len(d.queue) \in Nat
         /\ PendingOf(d, e) \in Seq(PipelineEvent)
         /\ Len(PendingOf(d, e)) = InUse(d) + Len(d.queue)
         /\ \A k \in 1..(InUse(d) + Len(d.queue)) : PendingOf(d, e)[k] = PendingAt(d, e, k)
<1>1. InUse(d) \in 0..TimeStepCount
  BY SchedulerAssumption DEF Scheduler, InUse
<1>2. d.queue \in Seq(Message) /\ Len(d.queue) \in Nat
  BY DEF Scheduler
<1> DEFINE n == InUse(d) + Len(d.queue)
<1>3. PendingOf(d, e) = [k \in 1..n |-> PendingAt(d, e, k)]
  BY DEF PendingOf, PendingAt, StepAt
<1>4. ASSUME NEW k \in 1..n
      PROVE  PendingAt(d, e, k) \in PipelineEvent
  <2>1. CASE k <= InUse(d)
    <3>1. StepAt(e, k) \in Steps
      BY <1>1, <2>1, RingPlaces, SchedulerAssumption
    <3> QED BY <2>1, <3>1 DEF PendingAt, Scheduler, PipelineEvent
  <2>2. CASE k > InUse(d)
    <3>1. k - InUse(d) \in 1..Len(d.queue)
      BY <1>1, <1>2, <2>2
    <3>2. d.queue[k - InUse(d)] \in Message
      BY <1>2, <3>1
    <3> QED BY <1>1, <2>2, <3>2 DEF PendingAt, Message, PipelineEvent
  <2> QED BY <1>1, <2>1, <2>2
<1>5. n \in Nat
  BY <1>1, <1>2
<1> HIDE DEF n
<1>6. PendingOf(d, e) \in Seq(PipelineEvent) /\ Len(PendingOf(d, e)) = n
  BY <1>3, <1>4, <1>5, IsASeq, LenProperties
<1>7. \A k \in 1..n : PendingOf(d, e)[k] = PendingAt(d, e, k)
  BY <1>3
<1> QED BY <1>1, <1>2, <1>6, <1>7 DEF n

\* Two schedulers that agree on the window, its events and the queued messages
\* have the same pending events.
SamePending(d, r, e) ==
  /\ r.free = d.free
  /\ Len(r.queue) = Len(d.queue)
  /\ \A k \in 1..Len(d.queue) :
       r.queue[k].type = d.queue[k].type /\ r.queue[k].ts = d.queue[k].ts
  /\ \A i \in Steps : RingDistance(e, i) < InUse(d) => r.event[i] = d.event[i]

LEMMA SamePendingEvents ==
  ASSUME NEW d \in Scheduler, NEW r \in Scheduler, NEW e \in Steps, SamePending(d, r, e)
  PROVE  PendingOf(r, e) = PendingOf(d, e)
<1>1. InUse(r) = InUse(d)
  BY DEF SamePending, InUse
<1>2. /\ InUse(d) \in 0..TimeStepCount /\ Len(d.queue) \in Nat
      /\ Len(r.queue) = Len(d.queue)
  BY PendingType DEF SamePending
<1>3. ASSUME NEW k \in 1..(InUse(d) + Len(d.queue))
      PROVE  PendingAt(r, e, k) = PendingAt(d, e, k)
  <2>1. CASE k <= InUse(d)
    <3>1. StepAt(e, k) \in Steps /\ RingDistance(e, StepAt(e, k)) < InUse(d)
      BY <1>2, <2>1, RingPlaces, SchedulerAssumption
    <3> QED BY <1>1, <2>1, <3>1 DEF PendingAt, SamePending
  <2>2. CASE k > InUse(d)
    <3>1. k - InUse(d) \in 1..Len(d.queue)
      BY <1>2, <2>2
    <3> QED BY <1>1, <1>2, <2>2, <3>1 DEF PendingAt, SamePending
  <2> QED BY <1>2, <2>1, <2>2
<1>4. \A x \in {d, r} : PendingOf(x, e) =
        [k \in 1..(InUse(d) + Len(d.queue)) |-> PendingAt(x, e, k)]
  BY <1>1, <1>2 DEF PendingOf, PendingAt, StepAt
<1> QED BY <1>3, <1>4

\* What enters the next time step, when nothing is queued, is the last event.
LEMMA LoadAppends ==
  ASSUME NEW d \in Scheduler, NEW r \in Scheduler, NEW e \in Steps, NEW i \in Steps,
         NEW ev \in PipelineEvent,
         d.queue = <<>>, r.queue = <<>>, d.free > 0, r.free = d.free - 1,
         RingDistance(e, i) = InUse(d),
         r.event = [d.event EXCEPT ![i] = ev]
  PROVE  PendingOf(r, e) = Append(PendingOf(d, e), ev)
<1> DEFINE n == InUse(d)
           p == PendingOf(d, e)
           q == PendingOf(r, e)
<1>0. d.free \in 1..TimeStepCount /\ Len(d.queue) = 0 /\ Len(r.queue) = 0
  BY SchedulerAssumption DEF Scheduler
<1>1. n \in 0..(TimeStepCount - 1) /\ InUse(r) = n + 1
  BY <1>0, SchedulerAssumption DEF InUse
<1>2. /\ p \in Seq(PipelineEvent) /\ Len(p) = n
      /\ \A k \in 1..n : p[k] = PendingAt(d, e, k)
  BY <1>0, <1>1, PendingType
<1>3. /\ q \in Seq(PipelineEvent) /\ Len(q) = n + 1
      /\ \A k \in 1..(n + 1) : q[k] = PendingAt(r, e, k)
  BY <1>0, <1>1, PendingType
<1>4. ASSUME NEW k \in 1..n
      PROVE  PendingAt(r, e, k) = PendingAt(d, e, k)
  <2>1. StepAt(e, k) \in Steps /\ RingDistance(e, StepAt(e, k)) = k - 1
    BY <1>1, RingPlaces, SchedulerAssumption
  <2>2. StepAt(e, k) # i
    BY <1>1, <2>1
  <2>3. r.event[StepAt(e, k)] = d.event[StepAt(e, k)]
    BY <2>1, <2>2 DEF Scheduler
  <2> QED BY <1>1, <2>3 DEF PendingAt
<1>5. PendingAt(r, e, n + 1) = ev
  <2>1. StepAt(e, n + 1) = i
    BY <1>1, RingPlaces
  <2>2. r.event[i] = ev
    BY DEF Scheduler
  <2> QED BY <1>1, <2>1, <2>2 DEF PendingAt
<1> HIDE DEF n, p, q
<1>6. /\ Append(p, ev) \in Seq(PipelineEvent) /\ Len(Append(p, ev)) = n + 1
      /\ \A k \in 1..n : Append(p, ev)[k] = p[k]
      /\ Append(p, ev)[n + 1] = ev
  BY <1>2, AppendProperties
<1>7. \A k \in 1..(n + 1) : q[k] = Append(p, ev)[k]
  BY <1>1, <1>2, <1>3, <1>4, <1>5, <1>6
<1>8. q = Append(p, ev)
  BY <1>3, <1>6, <1>7, SeqEqual
<1> QED BY <1>8 DEF p, q

\* The event of a message.
EventOf(m) == [type |-> m.type, ts |-> m.ts]

\* A scheduled message is the last of the pending events.
LEMMA EnqueueAppends ==
  ASSUME NEW d, NEW e \in Steps, NEW m \in Message, RingInv(d, e)
  PROVE  /\ EventOf(m) \in PipelineEvent
         /\ PendingOf(Enqueue(d, m), e) = Append(PendingOf(d, e), EventOf(m))
<1> DEFINE r == Enqueue(d, m)
           i == NextTimeStep(d.latest)
           n == InUse(d)
           l == Len(d.queue)
<1>1. d \in Scheduler /\ r \in Scheduler /\ i \in Steps
  BY EnqueueType, NextTimeStepType DEF RingInv, Scheduler
<1>2. EventOf(m) \in PipelineEvent
  BY DEF EventOf, PipelineEvent, Message
<1>3. d.queue # <<>> => d.free = 0
  BY DEF RingInv, Window
<1>4. CASE d.free = 0 /\ r = [d EXCEPT !.queue = Append(d.queue, m)]
  <2> DEFINE a == Append(d.queue, m)
             p == PendingOf(d, e)
             q == PendingOf(r, e)
  <2>1. n \in 0..TimeStepCount /\ l \in Nat
    BY <1>1, PendingType
  <2>2. d.queue \in Seq(Message)
    BY <1>1 DEF Scheduler
  <2>3. /\ Len(a) = l + 1 /\ a[l + 1] = m
        /\ \A k \in 1..l : a[k] = d.queue[k]
    BY <2>2
  <2> HIDE DEF a
  <2>4. r.queue = a /\ r.free = d.free /\ r.event = d.event
    BY <1>1, <1>4 DEF Scheduler, a
  <2> HIDE DEF r
  <2>5. InUse(r) = n
    BY <2>4 DEF InUse
  <2>6. /\ p \in Seq(PipelineEvent) /\ Len(p) = n + l
        /\ \A k \in 1..(n + l) : p[k] = PendingAt(d, e, k)
    BY <1>1, PendingType
  <2>7. /\ q \in Seq(PipelineEvent) /\ Len(q) = n + l + 1
        /\ \A k \in 1..(n + l + 1) : q[k] = PendingAt(r, e, k)
    BY <1>1, <2>1, <2>3, <2>4, <2>5, PendingType, SMTT(30)
  <2>8. ASSUME NEW k \in 1..(n + l)
        PROVE  PendingAt(r, e, k) = PendingAt(d, e, k)
    <3>1. CASE k <= n
      BY <2>4, <2>5, <3>1 DEF PendingAt
    <3>2. CASE k > n
      <4>1. k - n \in 1..l
        BY <2>1, <3>2
      <4> QED BY <2>1, <2>3, <2>4, <2>5, <3>2, <4>1 DEF PendingAt
    <3> QED BY <2>1, <3>1, <3>2
  <2>9. PendingAt(r, e, n + l + 1) = EventOf(m)
    BY <2>1, <2>3, <2>4, <2>5 DEF PendingAt, EventOf
  <2> HIDE DEF n, l, p, q
  <2> DEFINE ev == EventOf(m)
  <2> HIDE DEF ev
  <2>10. n + l \in Nat /\ ev \in PipelineEvent
    BY <1>2, <2>1 DEF ev
  <2>11. /\ Append(p, ev) \in Seq(PipelineEvent) /\ Len(Append(p, ev)) = n + l + 1
         /\ \A k \in 1..(n + l) : Append(p, ev)[k] = p[k]
         /\ Append(p, ev)[n + l + 1] = ev
    BY <2>6, <2>10, AppendProperties
  <2>12. \A k \in 1..(n + l + 1) : q[k] = Append(p, ev)[k]
    BY <2>6, <2>7, <2>8, <2>9, <2>10, <2>11 DEF ev
  <2>13. q = Append(p, ev)
    BY <2>7, <2>11, <2>12, SeqEqual
  <2> QED BY <1>2, <2>13 DEF p, q, r, ev
<1>5. CASE /\ d.free > 0 /\ Loads(d, r, i, m, CommittedSources(m))
           /\ r.queue = <<>> /\ r.free = d.free - 1
  <2>1. d.queue = <<>>
    BY <1>3, <1>5
  <2>2. RingDistance(e, i) = n
    BY <1>5 DEF RingInv, Window
  <2>3. r.event = [d.event EXCEPT ![i] = EventOf(m)]
    BY <1>5 DEF Loads, EventOf
  <2> HIDE DEF r, i
  <2> QED BY <1>1, <1>2, <1>5, <2>1, <2>2, <2>3, LoadAppends DEF r
<1> QED BY <1>1, <1>3, <1>4, <1>5, EnqueueCases

\* So is the event of a frame that is loaded at once.
LEMMA ImmediateAppends ==
  ASSUME NEW d, NEW e \in Steps, NEW ts \in Int, RingInv(d, e), d.free > 0
  PROVE  /\ [type |-> "DATA", ts |-> ts] \in PipelineEvent
         /\ PendingOf(scheduleDataEventImmediately(d, ts), e)
              = Append(PendingOf(d, e), [type |-> "DATA", ts |-> ts])
<1> DEFINE r == scheduleDataEventImmediately(d, ts)
           i == NextTimeStep(d.latest)
           ev == [type |-> "DATA", ts |-> ts]
<1>1. d \in Scheduler /\ r \in Scheduler /\ i \in Steps
  BY ImmediateType, NextTimeStepType DEF RingInv, Scheduler
<1>2. ev \in PipelineEvent
  BY DEF PipelineEvent, EventType
<1>3. /\ Loads(d, r, i, ScheduledEvent("DATA", ts), {})
      /\ r.queue = d.queue /\ r.free = d.free - 1
  BY <1>1, ImmediateLoads
<1>4. d.queue = <<>> /\ RingDistance(e, i) = InUse(d)
  BY DEF RingInv, Window
<1>5. r.event = [d.event EXCEPT ![i] = ev]
  BY <1>3 DEF Loads, ScheduledEvent
<1> HIDE DEF r, i, ev
<1> QED BY <1>1, <1>2, <1>3, <1>4, <1>5, LoadAppends DEF r, ev

\* A pending event behind the window is that of a queued message.
LEMMA QueuedAt ==
  ASSUME NEW d, NEW e, NEW n \in Int, NEW k \in Int, InUse(d) = n, k > n
  PROVE  PendingAt(d, e, k) = EventOf(d.queue[k - n])
BY DEF PendingAt, EventOf

\* Freeing the first time step of the window removes the first event, and loads
\* the next one of the queue into the place that has become the last.
LEMMA FreeRemovesFirst ==
  ASSUME NEW d, NEW e \in Steps, RingInv(d, e), d.running[e]
  PROVE  PendingOf(freeTimeStep(d, e), NextTimeStep(e)) = Tail(PendingOf(d, e))
<1> DEFINE r == freeTimeStep(d, e)
           f == NextTimeStep(e)
           n == InUse(d)
           l == Len(d.queue)
           p == PendingOf(d, e)
           q == PendingOf(r, f)
<1>1. d \in Scheduler /\ r \in Scheduler /\ f \in Steps
  BY FreeTimeStepType, NextTimeStepType, SchedulerAssumption DEF RingInv, Steps
<1>2. Freed(d, r, e) \/ Reloaded(d, r, e)
  BY FreeKeepsRing
<1>3. n \in 1..TimeStepCount /\ l \in Nat /\ d.free \in 0..TimeStepCount
  <2>1. RingDistance(e, e) < n /\ RingDistance(e, e) = 0
    BY RingArithmetic DEF RingInv, Window
  <2>2. d.free \in 0..TimeStepCount /\ l \in Nat /\ n \in 0..TimeStepCount
    BY <1>1, PendingType DEF Scheduler
  <2> HIDE DEF n
  <2> QED BY <2>1, <2>2
<1>4. /\ p \in Seq(PipelineEvent) /\ Len(p) = n + l
      /\ \A k \in 1..(n + l) : p[k] = PendingAt(d, e, k)
  BY <1>1, PendingType
<1>5. /\ q \in Seq(PipelineEvent) /\ Len(q) = InUse(r) + Len(r.queue)
      /\ \A k \in 1..(InUse(r) + Len(r.queue)) : q[k] = PendingAt(r, f, k)
  BY <1>1, PendingType
<1> SUFFICES q = Tail(p)
  OBVIOUS
<1> HIDE DEF r, f, p, q
<1>6. \A k \in 1..TimeStepCount : StepAt(f, k) = StepAt(e, k + 1)
  BY RingPlacesMove DEF f
<1>7. CASE Freed(d, r, e)
  <2>1. /\ d.queue = <<>> /\ r.queue = <<>> /\ r.event = d.event
        /\ InUse(r) = n - 1
    BY <1>3, <1>7, SchedulerAssumption DEF Freed, InUse
  <2>2. l = 0 /\ Len(r.queue) = 0
    BY <2>1
  <2>3. \A k \in 1..(n - 1) : PendingAt(r, f, k) = PendingAt(d, e, k + 1)
    BY <1>3, <1>6, <2>1, SchedulerAssumption DEF PendingAt
  <2> QED BY <1>3, <1>4, <1>5, <2>1, <2>2, <2>3
<1>8. CASE Reloaded(d, r, e)
  <2> DEFINE m == Head(d.queue)
  <2>1. d.queue \in Seq(Message) /\ d.queue # <<>> /\ l >= 1
    BY <1>1, <1>8 DEF Reloaded, Scheduler
  <2>2. m = d.queue[1] /\ r.queue = Tail(d.queue)
        /\ r.event = [d.event EXCEPT ![e] = EventOf(m)] /\ r.free = d.free
    BY <1>8, <2>1 DEF Reloaded, Loads, EventOf
  <2>3. Len(r.queue) = l - 1 /\ \A k \in 1..(l - 1) : r.queue[k] = d.queue[k + 1]
    BY <2>1, <2>2
  <2>4. d.free = 0 /\ n = TimeStepCount /\ InUse(r) = TimeStepCount
    <3>1. d.free = 0
      BY <2>1 DEF RingInv, Window
    <3> QED BY <2>2, <3>1, SchedulerAssumption DEF InUse
  <2>5. Len(q) = n + l - 1 /\ \A k \in 1..(n + l - 1) : q[k] = PendingAt(r, f, k)
    BY <1>3, <1>5, <2>3, <2>4
  <2>6. ASSUME NEW k \in 1..(n + l - 1)
        PROVE  PendingAt(r, f, k) = PendingAt(d, e, k + 1)
    <3>1. CASE k < n
      <4>1. StepAt(f, k) = StepAt(e, k + 1) /\ k + 1 \in 2..TimeStepCount
        BY <1>6, <2>4, <3>1, SchedulerAssumption
      <4>2. /\ StepAt(e, k + 1) \in Steps
            /\ RingDistance(e, StepAt(e, k + 1)) = k + 1 - 1
        BY <4>1, RingPlaces, SchedulerAssumption
      <4>3. StepAt(e, k + 1) # e
        BY <4>1, <4>2, RingArithmetic
      <4>4. r.event[StepAt(e, k + 1)] = d.event[StepAt(e, k + 1)]
        BY <1>1, <2>2, <4>2, <4>3 DEF Scheduler
      <4>5. k <= InUse(r) /\ k + 1 <= InUse(d)
        BY <2>4, <4>1, SchedulerAssumption
      <4> QED BY <4>1, <4>4, <4>5 DEF PendingAt
    <3>2. CASE k = n
      <4>1. StepAt(f, k) = e
        BY <1>3, <1>6, <2>4, <3>2, RingPlaces
      <4>2. r.event[e] = EventOf(m)
        BY <1>1, <2>2 DEF Scheduler
      <4>3. PendingAt(r, f, k) = EventOf(m)
        BY <2>4, <3>2, <4>1, <4>2, SchedulerAssumption DEF PendingAt
      <4>4. k + 1 > InUse(d) /\ k + 1 - InUse(d) = 1
        BY <1>3, <3>2
      <4>5. PendingAt(d, e, k + 1) = EventOf(d.queue[1])
        BY <1>3, <3>2, <4>4, QueuedAt
      <4> QED BY <2>2, <4>3, <4>5
    <3>3. CASE k > n
      <4>1. k - n \in 1..(l - 1) /\ k + 1 - n = (k - n) + 1
        BY <1>3, <3>3
      <4>2. r.queue[k - n] = d.queue[k + 1 - n]
        BY <2>3, <4>1
      <4>3. PendingAt(r, f, k) = EventOf(r.queue[k - n])
        BY <1>3, <2>4, <3>3, QueuedAt
      <4>4. PendingAt(d, e, k + 1) = EventOf(d.queue[k + 1 - n])
        BY <1>3, <3>3, QueuedAt
      <4> QED BY <4>2, <4>3, <4>4
    <3> QED BY <1>3, <3>1, <3>2, <3>3
  <2> HIDE DEF n, l
  <2>7. \A k \in 1..(n + l - 1) : q[k] = p[k + 1]
    BY <1>3, <1>4, <2>5, <2>6
  <2>8. Len(Tail(p)) = n + l - 1 /\ Tail(p) \in Seq(PipelineEvent)
        /\ \A k \in 1..(n + l - 1) : Tail(p)[k] = p[k + 1]
    BY <1>3, <1>4
  <2> QED BY <1>5, <2>5, <2>7, <2>8, SeqEqual
<1> QED BY <1>2, <1>7, <1>8

\* Commits, cancelled inputs and inputs that are taken leave the events alone.
LEMMA CancelKeepsPending ==
  ASSUME NEW d, NEW e \in Steps, NEW C \in SUBSET Sources, NEW ts \in Int, RingInv(d, e)
  PROVE  PendingOf(cancelSources(d, C, ts), e) = PendingOf(d, e)
<1> DEFINE r == cancelSources(d, C, ts)
<1>1. d \in Scheduler /\ r \in Scheduler
  BY CancelSourcesType DEF RingInv
<1>2. Cancels(d, r, C, ts)
  BY <1>1, CancelSourcesCancels
<1> HIDE DEF r
<1>3. SamePending(d, r, e)
  BY <1>2 DEF Cancels, SamePending
<1> QED BY <1>1, <1>3, SamePendingEvents DEF r

LEMMA CommitKeepsPending ==
  ASSUME NEW d, NEW e \in Steps, NEW s \in Sources, NEW i \in Steps, NEW ts \in Int,
         RingInv(d, e)
  PROVE  PendingOf(commit(d, s, i, ts), e) = PendingOf(d, e)
<1> DEFINE r == commit(d, s, i, ts)
<1>1. d \in Scheduler /\ r \in Scheduler
  BY CommitType DEF RingInv
<1>2. r.free = d.free /\ r.queue = d.queue /\ r.event = d.event
  BY <1>1 DEF commit, Scheduler
<1> HIDE DEF r
<1>3. SamePending(d, r, e)
  BY <1>2 DEF SamePending
<1> QED BY <1>1, <1>3, SamePendingEvents DEF r

LEMMA SetInputKeepsPending ==
  ASSUME NEW d, NEW e \in Steps, NEW s \in Sources, NEW i \in Steps, RingInv(d, e)
  PROVE  PendingOf([d EXCEPT !.setInput[i] = @ \cup {s}], e) = PendingOf(d, e)
<1> DEFINE r == [d EXCEPT !.setInput[i] = @ \cup {s}]
<1>1. d \in Scheduler /\ r \in Scheduler
  BY SetInputKeepsRing DEF RingInv
<1>2. r.free = d.free /\ r.queue = d.queue /\ r.event = d.event
  BY <1>1 DEF Scheduler
<1> HIDE DEF r
<1>3. SamePending(d, r, e)
  BY <1>2 DEF SamePending
<1> QED BY <1>1, <1>3, SamePendingEvents DEF r

-----------------------------------------------------------------------------
(* The events in the time steps, running or finished, and in the queue. *)

\* The events of d are those of r.
KeepsTypes(d, r) ==
  /\ \A i \in Steps : r.running[i] = d.running[i] /\ r.event[i] = d.event[i]
  /\ Len(r.queue) = Len(d.queue)
  /\ \A k \in 1..Len(d.queue) : r.queue[k].type = d.queue[k].type

\* An event of this type is loaded into a time step that did not run, or queued.
Takes(d, r, type) ==
  /\ \A i \in Steps :
       \/ r.running[i] = d.running[i] /\ r.event[i] = d.event[i]
       \/ ~d.running[i] /\ r.running[i] /\ r.event[i].type = type
  /\ \A k \in 1..Len(r.queue) :
       r.queue[k].type \in {type} \cup {d.queue[j].type : j \in 1..Len(d.queue)}

LEMMA KeepsThenTakes ==
  ASSUME NEW d, NEW z, NEW r, NEW type, KeepsTypes(d, z)
  PROVE  /\ KeepsTypes(z, r) => KeepsTypes(d, r)
         /\ Takes(z, r, type) => Takes(d, r, type)
<1>1. {z.queue[j].type : j \in 1..Len(z.queue)} = {d.queue[j].type : j \in 1..Len(d.queue)}
  BY DEF KeepsTypes
<1> QED BY <1>1 DEF KeepsTypes, Takes

\* A message is loaded into a time step that is free, or queued.
LEMMA EnqueueTakes ==
  ASSUME NEW d, NEW e \in Steps, NEW m \in Message, RingInv(d, e)
  PROVE  Takes(d, Enqueue(d, m), m.type)
<1> DEFINE r == Enqueue(d, m)
           i == NextTimeStep(d.latest)
<1>1. d \in Scheduler /\ (d.queue # <<>> => d.free = 0) /\ d.free \in 0..TimeStepCount
  BY DEF RingInv, Window, Scheduler
<1>2. \/ /\ d.free = 0
         /\ r = [d EXCEPT !.queue = Append(d.queue, m)]
      \/ /\ d.free > 0
         /\ Loads(d, r, i, m, CommittedSources(m))
         /\ r.queue = <<>>
  BY <1>1, EnqueueCases
<1>3. d.free > 0 => i \in Steps /\ ~d.running[i]
  BY NextIsFree
<1> SUFFICES Takes(d, r, m.type)
  OBVIOUS
<1> HIDE DEF i, r
<1>4. CASE r = [d EXCEPT !.queue = Append(d.queue, m)]
  <2>1. r.running = d.running /\ r.event = d.event /\ r.queue = Append(d.queue, m)
    BY <1>1, <1>4 DEF Scheduler
  <2>2. d.queue \in Seq(Message)
    BY <1>1 DEF Scheduler
  <2>3. ASSUME NEW k \in 1..Len(r.queue)
        PROVE  r.queue[k] = m \/ (k \in 1..Len(d.queue) /\ r.queue[k] = d.queue[k])
    BY <2>1, <2>2, AppendProperties
  <2> QED BY <2>1, <2>3 DEF Takes
<1>5. CASE d.free > 0 /\ Loads(d, r, i, m, CommittedSources(m)) /\ r.queue = <<>>
  <2>1. \A j \in Steps \ {i} : r.running[j] = d.running[j] /\ r.event[j] = d.event[j]
    BY <1>1, <1>5 DEF Loads, Scheduler
  <2>2. i \in Steps /\ ~d.running[i] /\ r.running[i] /\ r.event[i].type = m.type
    BY <1>1, <1>3, <1>5 DEF Loads, Scheduler
  <2>3. 1..Len(r.queue) = {}
    BY <1>5
  <2> QED BY <2>1, <2>2, <2>3 DEF Takes
<1> QED BY <1>2, <1>4, <1>5

\* ... and so is a frame that takes a time step at once.
LEMMA ImmediateTakes ==
  ASSUME NEW d, NEW e \in Steps, NEW ts \in Int, RingInv(d, e), d.free > 0
  PROVE  Takes(d, scheduleDataEventImmediately(d, ts), "DATA")
<1> DEFINE r == scheduleDataEventImmediately(d, ts)
           i == NextTimeStep(d.latest)
           m == ScheduledEvent("DATA", ts)
<1>1. d \in Scheduler /\ i \in Steps /\ ~d.running[i]
  BY NextIsFree DEF RingInv
<1>2. Loads(d, r, i, m, {}) /\ r.queue = d.queue /\ m.type = "DATA"
  BY <1>1, ImmediateLoads DEF ScheduledEvent
<1> HIDE DEF r, i, m
<1>3. \A j \in Steps \ {i} : r.running[j] = d.running[j] /\ r.event[j] = d.event[j]
  BY <1>1, <1>2 DEF Loads, Scheduler
<1>4. r.running[i] /\ r.event[i].type = "DATA"
  BY <1>1, <1>2 DEF Loads, Scheduler
<1> QED BY <1>1, <1>2, <1>3, <1>4 DEF Takes, r

\* Cancelling, claiming and committing buffers is not about events.
LEMMA BuffersKeepTypes ==
  ASSUME NEW d \in Scheduler, NEW C \in SUBSET Sources, NEW s \in Sources,
         NEW i \in Steps, NEW ts \in Int
  PROVE  /\ KeepsTypes(d, d)
         /\ KeepsTypes(d, cancelSources(d, C, ts))
         /\ KeepsTypes(d, [d EXCEPT !.setInput[i] = @ \cup {s}])
         /\ KeepsTypes(d, commit(d, s, i, ts))
<1>1. KeepsTypes(d, cancelSources(d, C, ts))
  <2> DEFINE r == cancelSources(d, C, ts)
  <2>1. Cancels(d, r, C, ts)
    BY CancelSourcesCancels
  <2> SUFFICES KeepsTypes(d, r)
    OBVIOUS
  <2> HIDE DEF r
  <2> QED BY <2>1 DEF Cancels, KeepsTypes
<1>2. KeepsTypes(d, [d EXCEPT !.setInput[i] = @ \cup {s}])
  BY DEF KeepsTypes, Scheduler
<1>3. KeepsTypes(d, commit(d, s, i, ts))
  <2> DEFINE r == commit(d, s, i, ts)
  <2>1. r.running = d.running /\ r.event = d.event /\ r.queue = d.queue
    BY DEF commit, Scheduler
  <2> SUFFICES KeepsTypes(d, r)
    OBVIOUS
  <2> HIDE DEF r
  <2> QED BY <2>1 DEF KeepsTypes
<1> QED BY <1>1, <1>2, <1>3 DEF KeepsTypes

-----------------------------------------------------------------------------
(* The steps that schedule events. *)

\* The components are not called and no time step ends.
Steady ==
  /\ UNCHANGED <<endTurn, sinkTurn, sink>>
  /\ \A i \in Steps : phase'[i] = "end" <=> phase[i] = "end"

\* ... and no event is scheduled.
Calm ==
  /\ Steady
  /\ PendingEvents' = PendingEvents
  /\ KeepsTypes(sched, sched')

\* ... or one event is added behind the pending ones.
Adds(type, ts) ==
  /\ Steady
  /\ [type |-> type, ts |-> ts] \in PipelineEvent
  /\ PendingEvents' = Append(PendingEvents, [type |-> type, ts |-> ts])
  /\ Takes(sched, sched', type)

Schedules == Calm \/ \E type, ts : Adds(type, ts)

\* A request adds the event of its frame, if that is new and can be scheduled.
LEMMA RequestAdds ==
  ASSUME Disciplined, BufferInv, NEW s \in Sources, NEW ts \in Timestamps,
         RequestSourceBuffer(s, ts)
  PROVE  LET c == newTimestamp(clock, ts)
         IN \/ Calm /\ clock' \in {clock, c}
            \/ /\ ~stopScheduled
               /\ SourceMode = "WAIT_FOR_BUFFER"
               /\ isNextExpectedTimestamp(c, ts)
               /\ Adds("DATA", c.expected)
               /\ clock' = advanceTimeStep(c)
            \/ /\ ~stopScheduled
               /\ SourceMode = "IMMEDIATE_RETURN"
               /\ Adds("DATA", ts)
               /\ clock' = c
<1> DEFINE c == newTimestamp(clock, ts)
           d == cancelOlderEvents(s, ts)
           p == PendingOf(sched, endTurn)
<1>1. ts \in Int /\ endTurn \in Steps /\ clock \in Clock /\ RingInv(sched, endTurn)
      /\ sched \in Scheduler
  BY TimeDomainAssumption DEF BufferInv, TypeOK
<1>2. CanRequest(s, ts) /\ UNCHANGED <<phase, endTurn, sinkTurn, sink>>
  BY DEF RequestSourceBuffer, taskVars, ringVars
<1>3. RingInv(d, endTurn) /\ d.free = sched.free /\ d.latest = sched.latest
  BY <1>2, RequestCancels
<1>4. PendingOf(d, endTurn) = p /\ KeepsTypes(sched, d) /\ KeepsTypes(sched, sched)
  <2>1. d = cancelSources(sched, {s}, ts)
    BY DEF cancelOlderEvents, Disciplined
  <2> HIDE DEF d
  <2> QED BY <1>1, <2>1, CancelKeepsPending, BuffersKeepTypes
<1>5. c.expected \in Int
  <2>1. c \in Clock
    BY <1>1, ClockType
  <2> HIDE DEF c
  <2> QED BY <2>1 DEF Clock
<1>6. Steady
  BY <1>2 DEF Steady
<1> HIDE DEF c, d, p
<1>7. CASE (sched' = sched \/ sched' = d) /\ clock' \in {clock, c}
  BY <1>2, <1>4, <1>6, <1>7 DEF Calm, PendingEvents, p, c
<1>8. ASSUME NEW i \in Steps, sched' = [d EXCEPT !.setInput[i] = @ \cup {s}], clock' = c
      PROVE  Calm /\ clock' \in {clock, c}
  <2>1. PendingOf(sched', endTurn) = p
    BY <1>1, <1>3, <1>4, <1>8, SetInputKeepsPending
  <2>2. KeepsTypes(d, sched')
    BY <1>1, <1>3, <1>8, BuffersKeepTypes DEF RingInv
  <2>3. KeepsTypes(sched, sched')
    BY <1>4, <2>2, KeepsThenTakes
  <2> QED BY <1>2, <1>6, <1>8, <2>1, <2>3 DEF Calm, PendingEvents, p
<1>9. ASSUME sched' = scheduleEvent(d, "DATA", c.expected)
      PROVE  Adds("DATA", c.expected)
  <2> DEFINE m == ScheduledEvent("DATA", c.expected)
  <2>1. m \in Message
    BY <1>5, MessageType DEF EventType
  <2>2. sched' = Enqueue(d, m)
    BY <1>9 DEF scheduleEvent
  <2>3. EventOf(m) = [type |-> "DATA", ts |-> c.expected]
    BY DEF EventOf, ScheduledEvent
  <2> HIDE DEF m
  <2>4. /\ EventOf(m) \in PipelineEvent
        /\ PendingOf(sched', endTurn) = Append(p, EventOf(m))
    BY <1>1, <1>3, <1>4, <2>1, <2>2, EnqueueAppends
  <2>5. Takes(sched, sched', "DATA")
    <3>1. Takes(d, sched', m.type) /\ m.type = "DATA"
      BY <1>1, <1>3, <2>1, <2>2, <2>3, EnqueueTakes DEF EventOf
    <3> QED BY <1>4, <3>1, KeepsThenTakes
  <2> QED BY <1>2, <1>6, <2>3, <2>4, <2>5 DEF Adds, PendingEvents, p
<1>10. ASSUME sched.free > 0,
              sched' = [scheduleDataEventImmediately(d, ts) EXCEPT
                          !.setInput[NextTimeStep(sched.latest)] = @ \cup {s}]
       PROVE  Adds("DATA", ts)
  <2> DEFINE z == scheduleDataEventImmediately(d, ts)
  <2>1. /\ RingInv(z, endTurn)
        /\ [type |-> "DATA", ts |-> ts] \in PipelineEvent
        /\ PendingOf(z, endTurn) = Append(p, [type |-> "DATA", ts |-> ts])
    BY <1>1, <1>3, <1>4, <1>10, ImmediateKeepsRing, ImmediateAppends
  <2>2. NextTimeStep(sched.latest) \in Steps
    BY <1>1, NextTimeStepType DEF Scheduler
  <2> HIDE DEF z
  <2>3. PendingOf(sched', endTurn) = PendingOf(z, endTurn)
    BY <1>1, <1>10, <2>1, <2>2, SetInputKeepsPending DEF z
  <2>4. Takes(sched, sched', "DATA")
    <3>1. Takes(d, z, "DATA")
      BY <1>1, <1>3, <1>10, ImmediateTakes DEF z
    <3>2. sched'.running = z.running /\ sched'.event = z.event /\ sched'.queue = z.queue
      BY <1>10, <2>1 DEF z, RingInv, Scheduler
    <3>3. Takes(d, sched', "DATA")
      BY <3>1, <3>2 DEF Takes
    <3> QED BY <1>4, <3>3, KeepsThenTakes
  <2> QED BY <1>2, <1>6, <2>1, <2>3, <2>4 DEF Adds, PendingEvents, p
<1>11. CASE RequestInvalid(s, ts) \/ RequestScheduled(s, ts) \/ RequestAfterStop(s, ts)
  BY <1>7, <1>11 DEF RequestInvalid, RequestScheduled, RequestAfterStop, requestVars, c, d
<1>12. CASE RequestRunning(s, ts)
  BY <1>8, <1>12 DEF RequestRunning, c, d
<1>13. CASE RequestNewTimestampWait(s, ts)
  BY <1>7, <1>9, <1>13 DEF RequestNewTimestampWait, c, d
<1>14. CASE RequestNewTimestampImmediate(s, ts)
  BY <1>7, <1>10, <1>14 DEF RequestNewTimestampImmediate, c, d
<1> QED BY <1>11, <1>12, <1>13, <1>14 DEF RequestSourceBuffer, c

\* The padding loop adds the event the clock expects, in each round and at last.
LEMMA PaddingAdds ==
  ASSUME BufferInv, NEW s \in Sources, Padding(s) \/ PaddingDone(s)
  PROVE  Adds("DATA", clock.expected) /\ clock' = advanceTimeStep(clock)
<1>1. endTurn \in Steps /\ RingInv(sched, endTurn) /\ clock.expected \in Int
  BY DEF BufferInv, TypeOK, Clock
<1>2. PICK m \in Message : /\ sched' = Enqueue(sched, m)
                           /\ EventOf(m) = [type |-> "DATA", ts |-> clock.expected]
  <2>1. ScheduledEvent("DATA", clock.expected) \in Message
        /\ [ScheduledEvent("DATA", clock.expected) EXCEPT !.invalid[s] = 1] \in Message
    BY <1>1, MessageType DEF EventType
  <2> QED BY <2>1 DEF Padding, PaddingDone, schedulePaddingEvent, scheduleEvent,
                      ScheduledEvent, EventOf
<1>3. Steady /\ clock' = advanceTimeStep(clock) /\ endTurn' = endTurn
  BY DEF Padding, PaddingDone, taskVars, ringVars, Steady
<1>4. Takes(sched, sched', "DATA")
  <2>1. m.type = "DATA"
    BY <1>2 DEF EventOf
  <2> QED BY <1>1, <1>2, <2>1, EnqueueTakes
<1> QED BY <1>1, <1>2, <1>3, <1>4, EnqueueAppends DEF Adds, PendingEvents

\* What a source does with its buffer adds no event.
LEMMA ThreadIsCalm ==
  ASSUME BufferInv, NEW s \in Sources,
         WaitForRunning(s) \/ ClaimSourceBuffer(s) \/ Commit(s) \/ PlayerExit(s)
  PROVE  Calm /\ clock' = clock
<1>1. /\ endTurn \in Steps /\ RingInv(sched, endTurn)
      /\ src[s].step \in Steps /\ src[s].ts \in Int
  BY SourceFields DEF BufferInv, TypeOK
<1>2. UNCHANGED <<phase, endTurn, sinkTurn, sink, clock>>
  BY DEF WaitForRunning, ClaimSourceBuffer, Commit, PlayerExit, taskVars, ringVars,
         schedVars, requestVars
<1>3. \/ sched' = sched
      \/ sched' = [sched EXCEPT !.setInput[src[s].step] = @ \cup {s}]
      \/ sched' = commit(sched, s, src[s].step, src[s].ts)
  BY DEF WaitForRunning, ClaimSourceBuffer, Commit, PlayerExit, schedVars
<1>4. PendingOf(sched', endTurn) = PendingOf(sched, endTurn)
  <2>1. CASE sched' = sched
    BY <2>1
  <2>2. CASE sched' = [sched EXCEPT !.setInput[src[s].step] = @ \cup {s}]
    BY <1>1, <2>2, SetInputKeepsPending
  <2>3. CASE sched' = commit(sched, s, src[s].step, src[s].ts)
    BY <1>1, <2>3, CommitKeepsPending
  <2> QED BY <1>3, <2>1, <2>2, <2>3
<1>5. KeepsTypes(sched, sched')
  <2>1. sched \in Scheduler /\ {} \in SUBSET Sources
    BY <1>1 DEF RingInv
  <2>2. CASE sched' = sched
    BY <1>1, <2>1, <2>2, BuffersKeepTypes
  <2>3. CASE sched' = [sched EXCEPT !.setInput[src[s].step] = @ \cup {s}]
    BY <1>1, <2>1, <2>3, BuffersKeepTypes
  <2>4. CASE sched' = commit(sched, s, src[s].step, src[s].ts)
    BY <1>1, <2>1, <2>4, BuffersKeepTypes
  <2> QED BY <1>3, <2>2, <2>3, <2>4
<1> QED BY <1>2, <1>4, <1>5 DEF Calm, Steady, PendingEvents

\* An event for all components is added.
LEMMA EventAdds ==
  ASSUME BufferInv, NEW type \in EventType,
         sched' = scheduleEvent(sched, type, kTimestampZero),
         UNCHANGED <<phase, endTurn, sinkTurn, sink>>
  PROVE  Adds(type, kTimestampZero)
<1> DEFINE m == ScheduledEvent(type, kTimestampZero)
<1>1. endTurn \in Steps /\ RingInv(sched, endTurn)
  BY DEF BufferInv, TypeOK
<1>2. m \in Message /\ EventOf(m) = [type |-> type, ts |-> kTimestampZero]
      /\ sched' = Enqueue(sched, m)
  BY MessageType DEF kTimestampZero, ScheduledEvent, EventOf, scheduleEvent
<1>3. m.type = type
  BY DEF ScheduledEvent
<1> HIDE DEF m
<1>4. Takes(sched, sched', type)
  BY <1>1, <1>2, <1>3, EnqueueTakes
<1> QED BY <1>1, <1>2, <1>4, EnqueueAppends DEF Adds, Steady, PendingEvents

\* The application schedules the events for all components, each in its phase.
LEMMA AppAdds ==
  ASSUME Disciplined, BufferInv, AppNext \/ ParameterChanged
  PROVE  /\ clock' = clock
         /\ \/ /\ Calm /\ sched' = sched
               /\ \/ AppStep("new", "launched")
                  \/ AppStep("starting", "running")
                  \/ AppStep("tearing", "flushing")
                  \/ AppStep("flushing", "done")
            \/ \E type \in EventType :
                 /\ Adds(type, kTimestampZero)
                 /\ sched' = scheduleEvent(sched, type, kTimestampZero)
                 /\ \/ type = "CONFIGURE" /\ AppStep("launched", "configuring")
                    \/ type = "START" /\ AppStep("configuring", "starting")
                    \/ type = "PARAMETER_CHANGE" /\ app \in ParamPhases /\ app' = app
                    \/ type = "STOP" /\ AppStep("running", "stopping")
                    \/ type = "TEARDOWN" /\ \/ AppStep("stopping", "tearing")
                                            \/ AppStep("cancelled", "tearing")
                    \/ type = "DATAFLOW_STOP" /\ app = "flushing" /\ app' = app
<1>1. UNCHANGED <<phase, endTurn, sinkTurn, sink, clock>>
  BY DEF AppNext, ParameterChanged, AppLaunch, AppConfigure, AppStart, AppStarted,
         AppStop, AppStopTimeout, AppTeardown, AppTornDown, AppFlush, AppFinish,
         scheduleNonDataEvent, taskVars, ringVars, schedVars, requestVars
<1>2. ASSUME NEW type \in EventType, sched' = scheduleEvent(sched, type, kTimestampZero)
      PROVE  Adds(type, kTimestampZero)
  BY <1>1, <1>2, EventAdds
<1>3. CASE AppLaunch \/ AppStarted \/ AppTornDown \/ AppFinish
  <2>1. sched' = sched
    BY <1>3 DEF AppLaunch, AppStarted, AppTornDown, AppFinish, schedVars
  <2>2. Calm
    BY <1>1, <2>1 DEF Calm, Steady, PendingEvents, KeepsTypes
  <2> QED BY <1>1, <1>3, <2>1, <2>2 DEF AppLaunch, AppStarted, AppTornDown, AppFinish
<1>4. CASE AppConfigure
  BY <1>1, <1>2, <1>4 DEF AppConfigure, scheduleNonDataEvent, EventType
<1>5. CASE AppStart
  BY <1>1, <1>2, <1>5 DEF AppStart, scheduleNonDataEvent, EventType
<1>6. CASE AppStop
  BY <1>1, <1>2, <1>6 DEF AppStop, scheduleNonDataEvent, EventType
<1>7. CASE AppStopTimeout
  BY <1>7 DEF AppStopTimeout, Disciplined
<1>8. CASE AppTeardown
  BY <1>1, <1>2, <1>8 DEF AppTeardown, scheduleNonDataEvent, EventType
<1>9. CASE AppFlush
  BY <1>1, <1>2, <1>9 DEF AppFlush, EventType
<1>10. CASE ParameterChanged
  BY <1>1, <1>2, <1>10 DEF ParameterChanged, EventType
<1> QED BY <1>3, <1>4, <1>5, <1>6, <1>7, <1>8, <1>9, <1>10 DEF AppNext

\* The seams and the source tasks leave the events alone.
LEMMA TasksAreCalm ==
  ASSUME BufferInv,
         \/ \E i \in Steps : SeamEntry(i)
         \/ \E i \in Steps, s \in Sources : StopPlayer(s, i) \/ SourceTask(s, i)
         \/ \E r \in Rings : SerialSeam(r)
         \/ StartSeam
         \/ UNCHANGED vars
  PROVE  Calm /\ UNCHANGED <<sched, clock>>
<1>1. phase \in [Steps -> {"seam", "run", "end", "stopped"}]
  BY DEF BufferInv, TypeOK
<1>2. UNCHANGED <<sched, clock, endTurn, sinkTurn, sink>>
  BY DEF SeamEntry, StopPlayer, SourceTask, SerialSeam, StartSeam,
         vars, schedVars, requestVars, taskVars, ringVars
<1>3. \A i \in Steps : phase'[i] = "end" <=> phase[i] = "end"
  <2>1. CASE phase' = phase
    BY <2>1
  <2>2. ASSUME NEW i \in Steps, SeamEntry(i)
        PROVE  \A j \in Steps : phase'[j] = "end" <=> phase[j] = "end"
    BY <1>1, <2>2 DEF SeamEntry
  <2>3. CASE StartSeam
    BY <1>1, <2>3 DEF StartSeam
  <2> QED BY <2>1, <2>2, <2>3
          DEF StopPlayer, SourceTask, SerialSeam, vars, taskVars
<1> QED BY <1>2, <1>3 DEF Calm, Steady, PendingEvents, KeepsTypes

\* Every step but those of the sink and of the ends of the time steps schedules.
LEMMA StepKinds ==
  ASSUME Disciplined, BufferInv, [Next]_vars
  PROVE  Schedules \/ \E i \in Steps : SinkTask(i) \/ timeStepEnded(i)
<1>1. ASSUME NEW s \in Sources, SourceNext(s) PROVE Schedules
  BY <1>1, RequestAdds, PaddingAdds, ThreadIsCalm DEF SourceNext, Schedules
<1>2. CASE AppNext \/ ParameterChanged
  BY <1>2, AppAdds DEF Schedules
<1>3. ASSUME NEW i \in Steps, TaskflowNext(i)
      PROVE  Schedules \/ SinkTask(i) \/ timeStepEnded(i)
  BY <1>3, TasksAreCalm DEF TaskflowNext, Schedules
<1>4. CASE (\E r \in Rings : SerialSeam(r)) \/ StartSeam \/ UNCHANGED vars
  BY <1>4, TasksAreCalm DEF Schedules
<1> QED BY <1>1, <1>2, <1>3, <1>4 DEF Next

-----------------------------------------------------------------------------
(* The sink. *)

\* How many events the sink has seen and are not finished.
LEMMA DeliveredCount ==
  ASSUME endTurn \in Steps, NEW n \in 0..TimeStepCount, CalledIn(n)
  PROVE  Cardinality(Delivered) = n
<1>1. Delivered = {i \in Steps : RingDistance(endTurn, i) < n}
  BY DEF Delivered, CalledIn
<1> QED BY <1>1, WindowSize

\* Scheduling steps are steps of the pipeline.
LEMMA SchedulesSimulates ==
  ASSUME BufferInv, SinkWindow, Schedules
  PROVE  SinkWindow' /\ [Pipeline!PipelineNext]_(Pipeline!pipelineVars)
<1> DEFINE p == PendingEvents
<1>1. Steady
  BY DEF Schedules, Calm, Adds
<1>2. SinkWindow' /\ Delivered' = Delivered
  BY <1>1 DEF Steady, SinkWindow, CalledIn, Delivered
<1>3. p \in Seq(PipelineEvent)
  BY PendingType DEF BufferInv, RingInv, TypeOK, PendingEvents
<1>4. CASE p' = p
  BY <1>1, <1>2, <1>4 DEF Steady, Pipeline!pipelineVars
<1>5. ASSUME NEW ev \in PipelineEvent, p' = Append(p, ev)
      PROVE  Pipeline!Schedule
  <2> HIDE DEF p
  <2>1. /\ Len(p') = Len(p) + 1 /\ p'[Len(p')] = ev
        /\ SubSeq(p', 1, Len(p)) = p
    BY <1>3, <1>5, AppendProperties
  <2> QED BY <1>1, <1>2, <2>1 DEF Steady, Pipeline!Schedule, PipelineEvent, p
<1> QED BY <1>2, <1>4, <1>5 DEF Schedules, Calm, Adds, Pipeline!PipelineNext

\* The sink is called with the event after those it has seen.
LEMMA SinkComes ==
  ASSUME BufferInv, NEW n \in 0..TimeStepCount, CalledIn(n), NEW i \in Steps, SinkTask(i)
  PROVE  /\ n < TimeStepCount /\ n < InUse(sched) /\ n < Len(PendingEvents)
         /\ i = StepAt(endTurn, n + 1)
         /\ CalledIn(n + 1)'
         /\ PendingEvents[n + 1] = sched.event[i]
         /\ PendingEvents' = PendingEvents
         /\ sink' = IF sched.event[i].type = "DATAFLOW_STOP" THEN sink
                    ELSE [type |-> sched.event[i].type,
                          ts |-> IF sched.event[i].type = "DATA"
                                 THEN sched.event[i].ts ELSE sink.ts]
<1>1. CalledIn(n)
  OBVIOUS
<1>2. /\ endTurn \in Steps /\ sched \in Scheduler /\ RingInv(sched, endTurn)
      /\ phase \in [Steps -> {"seam", "run", "end", "stopped"}]
  BY DEF BufferInv, TypeOK
<1>3. /\ phase[i] = "run" /\ done[i] = Sources /\ sinkTurn = i
      /\ phase' = [phase EXCEPT ![i] = "end"] /\ sinkTurn' = NextTimeStep(i)
      /\ sink' = IF sched.event[i].type = "DATAFLOW_STOP" THEN sink
                 ELSE [type |-> sched.event[i].type,
                       ts |-> IF sched.event[i].type = "DATA"
                              THEN sched.event[i].ts ELSE sink.ts]
      /\ UNCHANGED <<sched, endTurn>>
  BY DEF SinkTask, SinkActive, schedVars
<1>4. i = StepAt(endTurn, n + 1) /\ ~(RingDistance(endTurn, i) < n)
  BY <1>1, <1>3 DEF CalledIn
<1>5. n \in 0..(TimeStepCount - 1)
  <2>1. n # TimeStepCount
    BY <1>2, <1>4, RingPlaces, RingArithmetic, SchedulerAssumption
  <2> QED BY <2>1, SchedulerAssumption
<1>6. RingDistance(endTurn, i) = n
  BY <1>2, <1>4, <1>5, RingPlaces, SchedulerAssumption
<1>7. CalledIn(n + 1)'
  <2>1. \A j \in Steps : phase'[j] = "end" <=> (phase[j] = "end" \/ j = i)
    BY <1>2, <1>3
  <2>2. \A j \in Steps : RingDistance(endTurn, j) < n + 1
                           <=> (RingDistance(endTurn, j) < n \/ j = i)
    BY <1>2, <1>5, <1>6, RingArithmetic, SchedulerAssumption
  <2>3. NextTimeStep(i) = StepAt(endTurn, n + 1 + 1)
    BY <1>2, <1>4, <1>5, RingPlacesMove, SchedulerAssumption
  <2> QED BY <1>1, <1>3, <2>1, <2>2, <2>3 DEF CalledIn
<1>8. n < TimeStepCount
  BY <1>5, SchedulerAssumption
<1>9. n < InUse(sched)
  <2>1. sched.lock[i] # {}
    BY <1>3, SchedulerAssumption DEF BufferInv, TasksFollowLocks
  <2>2. sched.running[i]
    BY <1>2, <2>1 DEF RingInv, LocksRun
  <2> QED BY <1>2, <1>6, <2>2 DEF RingInv, Window
<1>10. n < Len(PendingEvents) /\ PendingEvents[n + 1] = sched.event[i]
  <2>1. InUse(sched) \in 0..TimeStepCount /\ Len(sched.queue) \in Nat
    BY <1>2, PendingType
  <2>2. Len(PendingEvents) = InUse(sched) + Len(sched.queue)
    BY <1>2, PendingType DEF PendingEvents
  <2>3. n + 1 \in 1..(InUse(sched) + Len(sched.queue)) /\ n + 1 <= InUse(sched)
    BY <1>5, <1>9, <2>1
  <2>4. PendingEvents[n + 1] = PendingAt(sched, endTurn, n + 1)
    BY <1>2, <2>3, PendingType DEF PendingEvents
  <2> QED BY <1>4, <2>1, <2>2, <2>3, <2>4 DEF PendingAt
<1>11. PendingEvents' = PendingEvents
  BY <1>3 DEF PendingEvents
<1> QED BY <1>3, <1>4, <1>7, <1>8, <1>9, <1>10, <1>11

\* The call of the sink is the delivery of the next event.
LEMMA SinkDelivers ==
  ASSUME BufferInv, SinkWindow, NEW i \in Steps, SinkTask(i)
  PROVE  SinkWindow' /\ Pipeline!Deliver
<1>1. PICK n \in 0..TimeStepCount : CalledIn(n)
  BY DEF SinkWindow
<1>2. /\ n < TimeStepCount /\ n < Len(PendingEvents) /\ CalledIn(n + 1)'
      /\ PendingEvents[n + 1] = sched.event[i] /\ PendingEvents' = PendingEvents
      /\ sink' = Pipeline!Shown(PendingEvents[n + 1])
  BY <1>1, SinkComes DEF Pipeline!Shown
<1>3. endTurn \in Steps /\ endTurn' = endTurn
  BY DEF SinkTask, BufferInv, TypeOK
<1>4. n + 1 \in 0..TimeStepCount
  BY <1>2, SchedulerAssumption
<1>5. Cardinality(Delivered) = n /\ Cardinality(Delivered)' = n + 1
  <2>1. Delivered' = {j \in Steps : RingDistance(endTurn', j) < n + 1}
    BY <1>2 DEF CalledIn, Delivered
  <2>2. Cardinality(Delivered') = n + 1
    BY <1>3, <1>4, <2>1, WindowSize
  <2> QED BY <1>1, <1>3, <2>2, DeliveredCount
<1>6. Pipeline!Deliver
  BY <1>2, <1>5, SchedulerAssumption DEF Pipeline!Deliver
<1> QED BY <1>2, <1>4, <1>6 DEF SinkWindow

\* The end of a time step removes the first event, which the sink has seen.
LEMMA EndComes ==
  ASSUME BufferInv, NEW n \in 0..TimeStepCount, CalledIn(n),
         NEW i \in Steps, timeStepEnded(i)
  PROVE  /\ n \in 1..TimeStepCount
         /\ i = endTurn /\ sched.running[i]
         /\ CalledIn(n - 1)'
         /\ PendingEvents' = Tail(PendingEvents)
<1>1. CalledIn(n)
  OBVIOUS
<1>2. /\ endTurn \in Steps /\ RingInv(sched, endTurn)
      /\ phase \in [Steps -> {"seam", "run", "end", "stopped"}]
  BY DEF BufferInv, TypeOK
<1>3. /\ phase[i] = "end" /\ endTurn = i
      /\ sched' = freeTimeStep(sched, i) /\ endTurn' = NextTimeStep(i)
      /\ phase' = [phase EXCEPT ![i] = "seam"] /\ UNCHANGED <<sinkTurn, sink>>
  BY DEF timeStepEnded, EndActive
<1>4. RingDistance(i, i) = 0 /\ endTurn' \in Steps
  BY <1>2, <1>3, RingArithmetic, NextTimeStepType, SchedulerAssumption DEF Steps
<1>5. n \in 1..TimeStepCount
  BY <1>1, <1>3, <1>4, SchedulerAssumption DEF CalledIn
<1>6. CalledIn(n - 1)'
  <2>1. \A j \in Steps : phase'[j] = "end" <=> (phase[j] = "end" /\ j # i)
    BY <1>2, <1>3
  <2>2. \A j \in Steps : RingDistance(NextTimeStep(i), j) < n - 1
                           <=> (RingDistance(i, j) < n /\ j # i)
    <3>1. \A j \in Steps : RingDistance(NextTimeStep(i), j)
            = IF j = i THEN TimeStepCount - 1 ELSE RingDistance(i, j) - 1
      BY RingArithmetic
    <3>2. \A j \in Steps : RingDistance(i, j) \in 0..(TimeStepCount - 1)
      BY RingArithmetic
    <3> QED BY <1>5, <3>1, <3>2, SchedulerAssumption
  <2>3. StepAt(i, n + 1) = StepAt(NextTimeStep(i), n)
    BY <1>5, RingPlacesMove
  <2>4. n - 1 + 1 = n
    BY <1>5
  <2> QED BY <1>1, <1>3, <2>1, <2>2, <2>3, <2>4 DEF CalledIn
<1>7. sched.running[i]
  <2>1. sched.lock[i] # {}
    BY <1>3, SchedulerAssumption DEF BufferInv, TasksFollowLocks
  <2> QED BY <1>2, <2>1 DEF RingInv, LocksRun
<1>8. PendingEvents' = Tail(PendingEvents)
  BY <1>2, <1>3, <1>7, FreeRemovesFirst DEF PendingEvents
<1> QED BY <1>3, <1>5, <1>6, <1>7, <1>8

\* That is what the pipeline calls to finish an event.
LEMMA EndFinishes ==
  ASSUME BufferInv, SinkWindow, NEW i \in Steps, timeStepEnded(i)
  PROVE  SinkWindow' /\ Pipeline!Finish
<1>1. PICK n \in 0..TimeStepCount : CalledIn(n)
  BY DEF SinkWindow
<1>2. /\ n \in 1..TimeStepCount /\ CalledIn(n - 1)'
      /\ PendingEvents' = Tail(PendingEvents)
  BY <1>1, EndComes
<1>3. endTurn \in Steps /\ endTurn' \in Steps /\ sink' = sink
  BY NextTimeStepType, SchedulerAssumption DEF timeStepEnded, BufferInv, TypeOK, Steps
<1>4. n - 1 \in 0..TimeStepCount
  BY <1>2, SchedulerAssumption
<1>5. Cardinality(Delivered) = n /\ Cardinality(Delivered)' = n - 1
  <2>1. Delivered' = {j \in Steps : RingDistance(endTurn', j) < n - 1}
    BY <1>2 DEF CalledIn, Delivered
  <2>2. Cardinality(Delivered') = n - 1
    BY <1>3, <1>4, <2>1, WindowSize
  <2> QED BY <1>1, <1>3, <2>2, DeliveredCount
<1>6. Pipeline!Finish
  BY <1>2, <1>3, <1>5 DEF Pipeline!Finish
<1> QED BY <1>2, <1>4, <1>6 DEF SinkWindow

\* Every step of the time domain is a step of the pipeline or none.
LEMMA StepSimulates ==
  ASSUME Disciplined, BufferInv, SinkWindow, [Next]_vars
  PROVE  SinkWindow' /\ [Pipeline!PipelineNext]_(Pipeline!pipelineVars)
<1>1. CASE Schedules
  BY <1>1, SchedulesSimulates
<1>2. ASSUME NEW i \in Steps, SinkTask(i)
      PROVE  SinkWindow' /\ [Pipeline!PipelineNext]_(Pipeline!pipelineVars)
  BY <1>2, SinkDelivers DEF Pipeline!PipelineNext
<1>3. ASSUME NEW i \in Steps, timeStepEnded(i)
      PROVE  SinkWindow' /\ [Pipeline!PipelineNext]_(Pipeline!pipelineVars)
  BY <1>3, EndFinishes DEF Pipeline!PipelineNext
<1> QED BY <1>1, <1>2, <1>3, StepKinds

\* The initial state has no events.
LEMMA InitSimulates ==
  ASSUME Init
  PROVE  SinkWindow /\ Pipeline!PipelineInit
<1>1. BufferInv
  BY BufferInit
<1>2. /\ endTurn \in Steps /\ endTurn = 0 /\ sinkTurn = 0 /\ sched \in Scheduler
      /\ sched.free = TimeStepCount /\ sched.queue = <<>>
      /\ \A i \in Steps : phase[i] = "seam"
      /\ sink = [type |-> "INVALID", ts |-> 0]
  BY <1>1 DEF BufferInv, TypeOK, Init, InitialScheduler, kTimestampZero
<1>3. CalledIn(0)
  <2>1. \A i \in Steps : ~(RingDistance(endTurn, i) < 0)
    BY <1>2, RingArithmetic, SchedulerAssumption
  <2>2. StepAt(0, 1) = 0
    BY <1>2, RingPlaceValue, SchedulerAssumption
  <2> QED BY <1>2, <2>1, <2>2 DEF CalledIn
<1>4. 0 \in 0..TimeStepCount
  BY SchedulerAssumption
<1>5. Cardinality(Delivered) = 0
  BY <1>2, <1>3, <1>4, DeliveredCount
<1>6. PendingEvents = <<>>
  <2>1. Len(sched.queue) = 0 /\ InUse(sched) = 0
    BY <1>2, SchedulerAssumption DEF InUse
  <2>2. PendingEvents \in Seq(PipelineEvent) /\ Len(PendingEvents) = 0
    BY <1>2, <2>1, PendingType DEF PendingEvents
  <2> QED BY <2>2
<1> QED BY <1>2, <1>3, <1>4, <1>5, <1>6 DEF SinkWindow, Pipeline!PipelineInit

\* For any number of sources and time steps the components of a time domain see
\* the scheduled events once each and in order, and only as many events as there
\* are time steps are worked on at once, whatever its threads and tasks do.
THEOREM PipelineIsImplemented ==
  ASSUME Disciplined
  PROVE  Spec => ImplementsPipeline
<1>1. Init => BufferInv /\ SinkWindow /\ Pipeline!PipelineInit
  BY BufferInit, InitSimulates
<1>2. BufferInv /\ SinkWindow /\ [Next]_vars
        => /\ BufferInv' /\ SinkWindow'
           /\ [Pipeline!PipelineNext]_(Pipeline!pipelineVars)
  BY BufferStep, StepSimulates
<1> QED BY <1>1, <1>2, PTL DEF Spec, ImplementsPipeline, Pipeline!PipelineSpec

-----------------------------------------------------------------------------
(* Events that follow each other. *)

\* An event that may follow the last one can be appended.
LEMMA SuccessionAppends ==
  ASSUME NEW p \in Seq(PipelineEvent), NEW n \in Nat, NEW t, NEW ev \in PipelineEvent,
         InSuccession(p, n, t), Follows(LastType(p, n, t), ev.type)
  PROVE  /\ InSuccession(Append(p, ev), n, t)
         /\ LastType(Append(p, ev), n, t) = ev.type
<1> DEFINE q == Append(p, ev)
<1>1. /\ Len(p) \in Nat /\ Len(q) = Len(p) + 1 /\ q[Len(p) + 1] = ev
      /\ \A k \in 1..Len(p) : q[k] = p[k]
  BY AppendProperties
<1> HIDE DEF q
<1>2. n <= Len(p)
  BY DEF InSuccession
<1>3. LastType(q, n, t) = ev.type
  BY <1>1, <1>2 DEF LastType
<1>4. ASSUME NEW k \in 1..Len(q), k > n
      PROVE  Follows(IF k = n + 1 THEN t ELSE q[k - 1].type, q[k].type)
  <2>1. CASE k = Len(p) + 1
    <3>1. CASE k = n + 1
      BY <1>1, <1>2, <2>1, <3>1 DEF LastType
    <3>2. CASE k # n + 1
      <4>1. Len(p) \in 1..Len(p) /\ Len(p) # n
        BY <1>1, <1>2, <2>1, <3>2
      <4>2. q[k - 1] = p[Len(p)] /\ q[k] = ev
        BY <1>1, <2>1, <4>1
      <4> QED BY <3>2, <4>1, <4>2 DEF LastType
    <3> QED BY <3>1, <3>2
  <2>2. CASE k # Len(p) + 1
    <3>1. k \in 1..Len(p)
      BY <1>1, <1>4, <2>2
    <3>2. k # n + 1 => k - 1 \in 1..Len(p)
      BY <1>1, <1>4, <3>1
    <3> QED BY <1>1, <1>4, <3>1, <3>2 DEF InSuccession
  <2> QED BY <2>1, <2>2
<1>5. InSuccession(q, n, t)
  BY <1>1, <1>2, <1>4 DEF InSuccession
<1> QED BY <1>3, <1>5 DEF q

\* The next event follows the one shown last, and so it goes on behind it.  An
\* event that only ends the taskflow is not shown.
LEMMA SuccessionDelivers ==
  ASSUME NEW p \in Seq(PipelineEvent), NEW n \in Nat, NEW t, InSuccession(p, n, t),
         n < Len(p)
  PROVE  LET stop == p[n + 1].type = "DATAFLOW_STOP"
             u == IF stop THEN t ELSE p[n + 1].type
         IN /\ Follows(t, p[n + 1].type)
            /\ InSuccession(p, n + 1, u)
            /\ \/ LastType(p, n + 1, u) = LastType(p, n, t)
               \/ LastType(p, n, t) = "DATAFLOW_STOP" /\ LastType(p, n + 1, u) = t
<1> DEFINE stop == p[n + 1].type = "DATAFLOW_STOP"
           u == IF stop THEN t ELSE p[n + 1].type
<1>1. Len(p) \in Nat /\ n + 1 \in 1..Len(p)
  OBVIOUS
<1>2. Follows(t, p[n + 1].type)
  BY <1>1 DEF InSuccession
<1>3. \A x : Follows("DATAFLOW_STOP", x) /\ stop => Follows(t, x)
  BY <1>2 DEF Follows
<1>4. ASSUME NEW k \in 1..Len(p), k > n + 1
      PROVE  Follows(IF k = n + 1 + 1 THEN u ELSE p[k - 1].type, p[k].type)
  <2>1. Follows(p[k - 1].type, p[k].type)
    BY <1>4 DEF InSuccession
  <2>2. CASE k = n + 1 + 1
    <3>1. k - 1 = n + 1
      BY <2>2
    <3>2. Follows(p[n + 1].type, p[k].type)
      BY <2>1, <3>1
    <3>3. Follows(u, p[k].type)
      BY <1>3, <3>2
    <3> QED BY <2>2, <3>3
  <2> QED BY <2>1, <2>2
<1>5. InSuccession(p, n + 1, u)
  BY <1>1, <1>4 DEF InSuccession
<1>6. \/ LastType(p, n + 1, u) = LastType(p, n, t)
      \/ LastType(p, n, t) = "DATAFLOW_STOP" /\ LastType(p, n + 1, u) = t
  BY <1>1 DEF LastType
<1> QED BY <1>2, <1>5, <1>6

\* The first event goes once it was shown.
LEMMA SuccessionTail ==
  ASSUME NEW p \in Seq(PipelineEvent), NEW n \in Nat \ {0}, NEW t, InSuccession(p, n, t)
  PROVE  /\ InSuccession(Tail(p), n - 1, t)
         /\ LastType(Tail(p), n - 1, t) = LastType(p, n, t)
<1> DEFINE q == Tail(p)
<1>1. n <= Len(p) /\ p # <<>> /\ Len(p) \in Nat
  BY DEF InSuccession
<1>2. Len(q) = Len(p) - 1 /\ \A k \in 1..Len(q) : q[k] = p[k + 1]
  BY <1>1, HeadTailProperties
<1> HIDE DEF q
<1>3. LastType(q, n - 1, t) = LastType(p, n, t)
  <2>1. CASE Len(p) = n
    BY <1>1, <1>2, <2>1 DEF LastType
  <2>2. CASE Len(p) # n
    <3>1. Len(q) \in 1..Len(q) /\ Len(q) + 1 = Len(p) /\ Len(q) # n - 1
      BY <1>1, <1>2, <2>2
    <3> QED BY <1>2, <2>2, <3>1 DEF LastType
  <2> QED BY <2>1, <2>2
<1>4. ASSUME NEW k \in 1..Len(q), k > n - 1
      PROVE  Follows(IF k = n - 1 + 1 THEN t ELSE q[k - 1].type, q[k].type)
  <2>1. k + 1 \in 1..Len(p) /\ k + 1 > n /\ q[k] = p[k + 1]
    BY <1>1, <1>2, <1>4
  <2>2. Follows(IF k + 1 = n + 1 THEN t ELSE p[k].type, p[k + 1].type)
    BY <2>1 DEF InSuccession
  <2>3. k # n => q[k - 1] = p[k]
    <3>1. k # n => k - 1 \in 1..Len(q) /\ k - 1 + 1 = k
      BY <1>1, <1>2, <1>4
    <3> QED BY <1>2, <3>1
  <2> QED BY <2>1, <2>2, <2>3
<1>5. InSuccession(q, n - 1, t)
  BY <1>1, <1>2, <1>4 DEF InSuccession
<1> QED BY <1>3, <1>5 DEF q

-----------------------------------------------------------------------------
(* The types of the events that are there. *)

\* The types stay among T when an event of T comes.
LEMMA TypesStay ==
  ASSUME NEW d, NEW r, NEW T, TypesIn(d, T)
  PROVE  /\ KeepsTypes(d, r) => TypesIn(r, T)
         /\ \A type \in T : Takes(d, r, type) => TypesIn(r, T)
<1>1. KeepsTypes(d, r) => TypesIn(r, T)
  BY DEF KeepsTypes, TypesIn
<1>2. ASSUME NEW type \in T, Takes(d, r, type)
      PROVE  TypesIn(r, T)
  <2>1. \A i \in Steps : r.event[i].type \in T
    BY <1>2 DEF Takes, TypesIn
  <2>2. ASSUME NEW k \in 1..Len(r.queue)
        PROVE  r.queue[k].type \in T
    BY <1>2 DEF Takes, TypesIn
  <2> QED BY <2>1, <2>2 DEF TypesIn
<1> QED BY <1>1, <1>2

\* ... and when a time step is freed or loaded from the queue.
LEMMA TypesFreed ==
  ASSUME NEW d, NEW e \in Steps, RingInv(d, e), d.running[e], NEW T, TypesIn(d, T)
  PROVE  TypesIn(freeTimeStep(d, e), T)
<1> DEFINE r == freeTimeStep(d, e)
<1>1. Freed(d, r, e) \/ Reloaded(d, r, e)
  BY FreeKeepsRing
<1>2. d \in Scheduler
  BY DEF RingInv
<1> SUFFICES TypesIn(r, T)
  OBVIOUS
<1> HIDE DEF r
<1>3. CASE Freed(d, r, e)
  <2>1. r.event = d.event /\ 1..Len(r.queue) = {}
    BY <1>3 DEF Freed
  <2> QED BY <2>1 DEF TypesIn
<1>4. CASE Reloaded(d, r, e)
  <2>1. /\ r.queue = Tail(d.queue) /\ d.queue # <<>> /\ d.queue \in Seq(Message)
        /\ r.event = [d.event EXCEPT ![e] = [type |-> Head(d.queue).type,
                                             ts |-> Head(d.queue).ts]]
    BY <1>2, <1>4 DEF Reloaded, Scheduler
  <2>2. /\ Len(d.queue) \in Nat \ {0} /\ Head(d.queue) = d.queue[1]
        /\ Len(r.queue) = Len(d.queue) - 1
        /\ \A k \in 1..Len(r.queue) : r.queue[k] = d.queue[k + 1]
    BY <2>1, HeadTailProperties
  <2>3. Head(d.queue).type \in T
    BY <2>2 DEF TypesIn
  <2>4. \A i \in Steps : r.event[i].type \in T
    BY <1>2, <2>1, <2>3 DEF TypesIn, Scheduler
  <2>5. ASSUME NEW k \in 1..Len(r.queue)
        PROVE  r.queue[k].type \in T
    <3>1. k + 1 \in 1..Len(d.queue)
      BY <2>2
    <3> QED BY <2>2, <3>1 DEF TypesIn
  <2> QED BY <2>4, <2>5 DEF TypesIn
<1> QED BY <1>1, <1>3, <1>4

\* The pending events are among them.
LEMMA PendingTypes ==
  ASSUME NEW d, NEW e \in Steps, RingInv(d, e), NEW T, TypesIn(d, T)
  PROVE  \A k \in 1..Len(PendingOf(d, e)) : PendingOf(d, e)[k].type \in T
<1> SUFFICES ASSUME NEW k \in 1..Len(PendingOf(d, e))
             PROVE  PendingOf(d, e)[k].type \in T
  OBVIOUS
<1>1. d \in Scheduler
  BY DEF RingInv
<1>2. /\ InUse(d) \in 0..TimeStepCount /\ Len(d.queue) \in Nat
      /\ Len(PendingOf(d, e)) = InUse(d) + Len(d.queue)
      /\ PendingOf(d, e)[k] = PendingAt(d, e, k)
  BY <1>1, PendingType
<1>3. CASE k <= InUse(d)
  <2>1. StepAt(e, k) \in Steps
    BY <1>2, <1>3, RingPlaces, SchedulerAssumption
  <2> QED BY <1>2, <1>3, <2>1 DEF PendingAt, TypesIn
<1>4. CASE k > InUse(d)
  <2>1. k - InUse(d) \in 1..Len(d.queue)
    BY <1>2, <1>4
  <2> QED BY <1>2, <1>4, <2>1 DEF PendingAt, TypesIn
<1> QED BY <1>2, <1>3, <1>4

-----------------------------------------------------------------------------
(* The application and its events. *)

\* The application goes on, what was scheduled is still in time.
AppGoesOn == TimelyTypes(app) \subseteq TimelyTypes(app')

\* The events that end the taskflow are being scheduled.
Flushing == app \in {"flushing", "done"}

\* No event is scheduled, the last one is still right.
CalmInOrder ==
  /\ Calm
  /\ AppGoesOn
  /\ LastOf(app) \subseteq LastOf(app')

\* An event is scheduled that may follow the last one.
AddsInOrder(type, ts) ==
  /\ Adds(type, ts)
  /\ AppGoesOn
  /\ \A before \in LastOf(app) : Follows(before, type)
  /\ type \in LastOf(app')
  /\ type \in TimelyTypes(app')
  /\ Flushing' => type = "DATAFLOW_STOP"

\* A source that schedules a frame does so while the dataflow runs.
LEMMA RequestInTime ==
  ASSUME Orderly, TypeOK, SourcesTimely, NEW s \in Sources, NEW ts, CanRequest(s, ts),
         ~stopScheduled
  PROVE  app \in {"starting", "running"}
<1>1. app \in AppPhase
  BY DEF TypeOK
<1>2. app \notin {"stopping", "cancelled", "tearing", "flushing", "done"}
  BY DEF SourcesTimely
<1>3. app \notin {"new", "launched", "configuring"}
  BY DEF SourcesTimely, CanRequest, Orderly
<1> QED BY <1>1, <1>2, <1>3 DEF AppPhase

\* A frame follows what was scheduled while the dataflow runs.
LEMMA FramesInTime ==
  ASSUME NEW ts, Adds("DATA", ts), app \in {"starting", "running"}, app' = app
  PROVE  AddsInOrder("DATA", ts)
BY DEF AddsInOrder, AppGoesOn, LastOf, Follows, TimelyTypes, EventType, Flushing

\* What the sources schedule is in order.
LEMMA SourceInOrder ==
  ASSUME Disciplined, Orderly, BufferInv, SourcesTimely, NEW s \in Sources, SourceNext(s)
  PROVE  CalmInOrder \/ \E ts : AddsInOrder("DATA", ts)
<1>1. app' = app
  BY DEF SourceNext, RequestSourceBuffer, Padding, PaddingDone, WaitForRunning,
         ClaimSourceBuffer, Commit, PlayerExit, appVars
<1>2. CASE Calm
  BY <1>1, <1>2 DEF CalmInOrder, AppGoesOn
<1>3. ASSUME NEW ts \in Timestamps, RequestSourceBuffer(s, ts), ~stopScheduled,
             NEW t, Adds("DATA", t)
      PROVE  AddsInOrder("DATA", t)
  BY <1>1, <1>3, RequestInTime, FramesInTime DEF RequestSourceBuffer, BufferInv
<1>4. ASSUME NEW ts \in Timestamps, RequestSourceBuffer(s, ts)
      PROVE  CalmInOrder \/ \E t : AddsInOrder("DATA", t)
  BY <1>2, <1>3, <1>4, RequestAdds
<1>5. CASE Padding(s) \/ PaddingDone(s)
  <2>1. app \in {"starting", "running"}
    BY <1>5 DEF Padding, PaddingDone, SourcesTimely
  <2> QED BY <1>1, <1>5, <2>1, PaddingAdds, FramesInTime
<1> QED BY <1>2, <1>4, <1>5, ThreadIsCalm DEF SourceNext

\* What the application schedules is in order.
LEMMA AppInOrder ==
  ASSUME Disciplined, Orderly, BufferInv, AppNext \/ ParameterChanged
  PROVE  CalmInOrder \/ \E type \in EventType : AddsInOrder(type, kTimestampZero)
<1>1. CASE Calm /\ \/ AppStep("new", "launched")
                   \/ AppStep("starting", "running")
                   \/ AppStep("tearing", "flushing")
                   \/ AppStep("flushing", "done")
  <2>1. LastOf(app) \subseteq LastOf(app')
    BY <1>1 DEF AppStep, LastOf
  <2>2. AppGoesOn
    BY <1>1 DEF AppStep, AppGoesOn, TimelyTypes
  <2> QED BY <1>1, <2>1, <2>2 DEF CalmInOrder
<1>2. ASSUME NEW type \in EventType, Adds(type, kTimestampZero),
             \/ type = "CONFIGURE" /\ AppStep("launched", "configuring")
             \/ type = "START" /\ AppStep("configuring", "starting")
             \/ type = "PARAMETER_CHANGE" /\ app \in ParamPhases /\ app' = app
             \/ type = "STOP" /\ AppStep("running", "stopping")
             \/ type = "TEARDOWN" /\ \/ AppStep("stopping", "tearing")
                                     \/ AppStep("cancelled", "tearing")
             \/ type = "DATAFLOW_STOP" /\ app = "flushing" /\ app' = app
      PROVE  AddsInOrder(type, kTimestampZero)
  <2>1. type = "PARAMETER_CHANGE" => app = "running" /\ app' = app
    BY <1>2 DEF Orderly
  <2>2. AppGoesOn
    BY <1>2 DEF AppStep, AppGoesOn, TimelyTypes
  <2>3. type \in TimelyTypes(app')
    BY <1>2 DEF AppStep, TimelyTypes
  <2>4. type \in LastOf(app')
    BY <1>2, <2>1 DEF AppStep, LastOf
  <2>5. \A before \in LastOf(app) : Follows(before, type)
    BY <1>2, <2>1 DEF AppStep, LastOf, Follows
  <2>6. Flushing' => type = "DATAFLOW_STOP"
    BY <1>2, <2>1 DEF AppStep, Flushing
  <2> QED BY <1>2, <2>2, <2>3, <2>4, <2>5, <2>6 DEF AddsInOrder
<1>3. AppNext \/ ParameterChanged
  OBVIOUS
<1> QED BY <1>1, <1>2, <1>3, AppAdds

\* Every step but those of the sink and of the ends of the time steps keeps the
\* order or adds to it.
LEMMA StepInOrder ==
  ASSUME Disciplined, Orderly, BufferInv, SourcesTimely, [Next]_vars
  PROVE  \/ CalmInOrder
         \/ \E type \in EventType : \E ts : AddsInOrder(type, ts)
         \/ \E i \in Steps : SinkTask(i) \/ timeStepEnded(i)
<1>1. ASSUME NEW s \in Sources, SourceNext(s)
      PROVE  CalmInOrder \/ \E type \in EventType : \E ts : AddsInOrder(type, ts)
  BY <1>1, SourceInOrder DEF EventType
<1>2. ASSUME \/ \E i \in Steps : SeamEntry(i)
             \/ \E i \in Steps, s \in Sources : StopPlayer(s, i) \/ SourceTask(s, i)
             \/ \E r \in Rings : SerialSeam(r)
             \/ StartSeam
             \/ UNCHANGED vars
      PROVE  CalmInOrder
  <2>1. app' = app
    BY <1>2 DEF SeamEntry, StopPlayer, SourceTask, SerialSeam, StartSeam, vars, appVars
  <2> QED BY <1>2, <2>1, TasksAreCalm DEF CalmInOrder, AppGoesOn
<1>3. ASSUME NEW i \in Steps, TaskflowNext(i)
      PROVE  CalmInOrder \/ SinkTask(i) \/ timeStepEnded(i)
  BY <1>2, <1>3 DEF TaskflowNext
<1> QED BY <1>1, <1>2, <1>3, AppInOrder DEF Next

\* Sources are started and pad while the dataflow runs.
LEMMA SourcesInTime ==
  ASSUME Disciplined, Orderly, BufferInv, EventsTimely, SourcesTimely, [Next]_vars
  PROVE  SourcesTimely'
<1> DEFINE Stopping == {"stopping", "cancelled", "tearing", "flushing", "done"}
           Early == {"new", "launched", "configuring"}
           Flows == {"starting", "running"}
<1>1. /\ TypeOK /\ app \in AppPhase
      /\ src \in [Sources -> [pc : SourcePc, ts : Int, step : Steps, run : BOOLEAN]]
  BY DEF BufferInv, TypeOK
<1>2. ASSUME NEW s \in Sources
      PROVE  /\ src[s].run => app \notin Early
             /\ src[s].pc \in {"pad", "padded"} => app \in Flows
  BY <1>2 DEF SourcesTimely
<1>3. stopScheduled <=> app \in Stopping
  BY DEF SourcesTimely
<1>4. ASSUME UNCHANGED <<app, stopScheduled>>,
             NEW t \in Sources, \A s \in Sources \ {t} : src'[s] = src[s],
             src'[t].run => src[t].run \/ app \notin Early,
             src'[t].pc \in {"pad", "padded"} =>
               src[t].pc \in {"pad", "padded"} \/ app \in Flows
      PROVE  SourcesTimely'
  <2>1. ASSUME NEW s \in Sources
        PROVE  /\ src'[s].run => app \notin Early
               /\ src'[s].pc \in {"pad", "padded"} => app \in Flows
    BY <1>2, <1>4, <2>1
  <2> QED BY <1>3, <1>4, <2>1 DEF SourcesTimely
<1>5. ASSUME NEW t \in Sources, SourceNext(t)
      PROVE  SourcesTimely'
  <2>1. UNCHANGED <<app, stopScheduled>>
    BY <1>5 DEF SourceNext, RequestSourceBuffer, Padding, PaddingDone, WaitForRunning,
                ClaimSourceBuffer, Commit, PlayerExit, appVars, schedVars
  <2>2. CASE \E ts \in Timestamps : RequestSourceBuffer(t, ts)
    <3>1. PICK ts \in Timestamps : RequestSourceBuffer(t, ts)
      BY <2>2
    <3>2. \E pc \in SourcePc, i \in Steps :
            /\ SourceAt(t, pc, ts, i)
            /\ pc \in {"pad", "padded"} => ~stopScheduled
      BY <1>1, <3>1, NextTimeStepType
         DEF RequestSourceBuffer, RequestInvalid, RequestRunning, RequestScheduled,
             RequestAfterStop, RequestNewTimestampWait, RequestNewTimestampImmediate,
             SourcePc, TypeOK, Scheduler
    <3>3. PICK pc \in SourcePc, i \in Steps :
            /\ src' = [src EXCEPT ![t].pc = pc, ![t].ts = ts, ![t].step = i]
            /\ pc \in {"pad", "padded"} => ~stopScheduled
      BY <3>2 DEF SourceAt
    <3>4. /\ \A s \in Sources \ {t} : src'[s] = src[s]
          /\ src'[t].run = src[t].run /\ src'[t].pc = pc
      BY <1>1, <3>3
    <3>5. pc \in {"pad", "padded"} => app \in Flows
      BY <1>1, <3>1, <3>3, RequestInTime DEF RequestSourceBuffer
    <3> QED BY <1>4, <2>1, <3>4, <3>5
  <2>3. CASE Padding(t) \/ PaddingDone(t) \/ WaitForRunning(t) \/ ClaimSourceBuffer(t)
             \/ Commit(t) \/ PlayerExit(t)
    <3> DEFINE Kept == /\ \A s \in Sources \ {t} : src'[s] = src[s]
                       /\ src'[t].run => src[t].run
                       /\ src'[t].pc \in {"pad", "padded"} => src[t].pc \in {"pad", "padded"}
    <3>1. ASSUME Padding(t) \/ PaddingDone(t) PROVE Kept
      BY <1>1, <3>1 DEF Padding, PaddingDone
    <3>2. ASSUME WaitForRunning(t) PROVE Kept
      BY <1>1, <3>2 DEF WaitForRunning
    <3>3. ASSUME ClaimSourceBuffer(t) PROVE Kept
      BY <1>1, <3>3 DEF ClaimSourceBuffer
    <3>4. ASSUME Commit(t) \/ PlayerExit(t) PROVE Kept
      BY <1>1, <3>4 DEF Commit, PlayerExit
    <3>5. Kept
      BY <2>3, <3>1, <3>2, <3>3, <3>4
    <3> QED BY <1>4, <2>1, <3>5
  <2> QED BY <1>5, <2>2, <2>3 DEF SourceNext
<1>6. ASSUME NEW i \in Steps, TaskflowNext(i)
      PROVE  SourcesTimely'
  <2>1. UNCHANGED <<app, stopScheduled>>
    BY <1>6 DEF TaskflowNext, SeamEntry, StopPlayer, SourceTask, SinkTask, timeStepEnded,
                appVars, schedVars
  <2>2. CASE src' = src
    BY <1>3, <2>1, <2>2 DEF SourcesTimely
  <2>3. ASSUME NEW t \in Sources, StopPlayer(t, i)
        PROVE  SourcesTimely'
    <3>1. src' = [src EXCEPT ![t].run = FALSE]
      BY <2>3 DEF StopPlayer
    <3>2. /\ \A s \in Sources \ {t} : src'[s] = src[s]
          /\ ~src'[t].run /\ src'[t].pc = src[t].pc
      BY <1>1, <3>1
    <3> QED BY <1>4, <2>1, <3>2
  <2>4. ASSUME NEW t \in Sources, SourceTask(t, i), src' # src
        PROVE  SourcesTimely'
    <3>1. src' = [src EXCEPT ![t].pc = "idle", ![t].run = TRUE]
          /\ sched.event[i].type = "START"
      BY <2>4 DEF SourceTask
    <3>2. /\ \A s \in Sources \ {t} : src'[s] = src[s]
          /\ src'[t].pc = "idle"
      BY <1>1, <3>1
    <3>3. app \notin Early
      BY <3>1 DEF EventsTimely, TypesIn, TimelyTypes
    <3> QED BY <1>4, <2>1, <3>2, <3>3
  <2> QED BY <1>6, <2>2, <2>3, <2>4 DEF TaskflowNext, SeamEntry, SinkTask, timeStepEnded
<1>7. CASE (\E r \in Rings : SerialSeam(r)) \/ StartSeam \/ UNCHANGED vars
  <2>1. UNCHANGED <<app, stopScheduled, src>>
    BY <1>7 DEF SerialSeam, StartSeam, vars, appVars, schedVars
  <2> QED BY <1>3, <2>1 DEF SourcesTimely
<1>8. CASE AppNext \/ ParameterChanged
  <2>1. src' = src
    BY <1>8 DEF AppNext, ParameterChanged, AppLaunch, AppConfigure, AppStart, AppStarted,
                AppStop, AppStopTimeout, AppTeardown, AppTornDown, AppFlush, AppFinish,
                scheduleNonDataEvent
  <2>2. app' \in Early => app \in Early
    BY <1>8 DEF AppNext, ParameterChanged, AppLaunch, AppConfigure, AppStart, AppStarted,
                AppStop, AppStopTimeout, AppTeardown, AppTornDown, AppFlush, AppFinish,
                AppStep
  <2>3. stopScheduled' <=> app' \in Stopping
    <3>1. CASE AppLaunch \/ AppStarted \/ AppTornDown \/ AppFinish \/ AppFlush
               \/ ParameterChanged \/ AppStopTimeout
      BY <1>3, <3>1
         DEF AppLaunch, AppStarted, AppTornDown, AppFinish, AppFlush, ParameterChanged,
             AppStopTimeout, AppStep, schedVars
    <3>2. CASE AppConfigure \/ AppStart \/ AppTeardown
      BY <1>3, <3>2 DEF AppConfigure, AppStart, AppTeardown, AppStep, scheduleNonDataEvent
    <3>3. CASE AppStop
      BY <1>3, <3>3 DEF AppStop, AppStep, scheduleNonDataEvent
    <3> QED BY <1>8, <3>1, <3>2, <3>3 DEF AppNext
  <2>4. app \in Flows => RequestMutexFree \/ app' \in Flows
    BY <1>8 DEF AppNext, ParameterChanged, AppLaunch, AppConfigure, AppStart, AppStarted,
                AppStop, AppStopTimeout, AppTeardown, AppTornDown, AppFlush, AppFinish,
                AppStep, scheduleNonDataEvent
  <2>5. ASSUME NEW s \in Sources
        PROVE  /\ src'[s].run => app' \notin Early
               /\ src'[s].pc \in {"pad", "padded"} => app' \in Flows
    BY <1>2, <2>1, <2>2, <2>4, <2>5 DEF RequestMutexFree
  <2> QED BY <2>3, <2>5 DEF SourcesTimely
<1> QED BY <1>5, <1>6, <1>7, <1>8 DEF Next

\* Where the sink is, is unique.
LEMMA CalledOnce ==
  ASSUME endTurn \in Steps, NEW m \in 0..TimeStepCount, NEW n \in 0..TimeStepCount,
         CalledIn(m), CalledIn(n)
  PROVE  m = n
BY DeliveredCount

\* The events stay in order.
LEMMA OrderStep ==
  ASSUME Disciplined, Orderly, BufferInv, OrderInv, [Next]_vars
  PROVE  OrderInv'
<1> DEFINE p == PendingEvents
<1>1. PICK n \in 0..TimeStepCount :
        /\ CalledIn(n)
        /\ InSuccession(p, n, sink.type)
        /\ LastType(p, n, sink.type) \in LastOf(app)
  BY DEF OrderInv, EventsInSuccession
<1>2. /\ p \in Seq(PipelineEvent) /\ n \in Nat /\ RingInv(sched, endTurn)
      /\ endTurn \in Steps /\ TypesIn(sched, TimelyTypes(app))
      /\ sink.type # "DATAFLOW_STOP"
  BY PendingType, SchedulerAssumption
     DEF BufferInv, TypeOK, PendingEvents, OrderInv, EventsTimely
<1>3. SourcesTimely'
  BY SourcesInTime DEF OrderInv
<1> HIDE DEF p
<1>4. ASSUME Steady, InSuccession(p', n, sink.type),
             LastType(p', n, sink.type) \in LastOf(app'),
             TypesIn(sched', TimelyTypes(app'))
      PROVE  OrderInv'
  <2>1. CalledIn(n)' /\ sink' = sink
    BY <1>1, <1>4 DEF Steady, CalledIn
  <2> QED BY <1>2, <1>3, <1>4, <2>1 DEF OrderInv, EventsInSuccession, EventsTimely, p
<1>5. CASE CalmInOrder
  <2>1. p' = p /\ LastOf(app) \subseteq LastOf(app') /\ Steady
    BY <1>5 DEF CalmInOrder, Calm, p
  <2>2. TypesIn(sched', TimelyTypes(app))
    BY <1>2, <1>5, TypesStay DEF CalmInOrder, Calm
  <2>3. TypesIn(sched', TimelyTypes(app'))
    BY <1>5, <2>2 DEF TypesIn, CalmInOrder, AppGoesOn
  <2> QED BY <1>1, <1>4, <2>1, <2>3
<1>6. ASSUME NEW type \in EventType, NEW ts, AddsInOrder(type, ts)
      PROVE  OrderInv'
  <2> DEFINE ev == [type |-> type, ts |-> ts]
  <2>1. /\ p' = Append(p, ev) /\ ev \in PipelineEvent /\ Steady /\ ev.type = type
        /\ Takes(sched, sched', type)
    BY <1>6 DEF AddsInOrder, Adds, p
  <2>2. Follows(LastType(p, n, sink.type), type)
    BY <1>1, <1>6 DEF AddsInOrder
  <2> HIDE DEF ev
  <2>3. InSuccession(p', n, sink.type) /\ LastType(p', n, sink.type) = type
    BY <1>1, <1>2, <2>1, <2>2, SuccessionAppends
  <2>4. TypesIn(sched, TimelyTypes(app')) /\ type \in TimelyTypes(app')
    BY <1>2, <1>6 DEF TypesIn, AddsInOrder, AppGoesOn
  <2>5. TypesIn(sched', TimelyTypes(app'))
    BY <2>1, <2>4, TypesStay
  <2> QED BY <1>4, <1>6, <2>1, <2>3, <2>5 DEF AddsInOrder
<1>7. ASSUME NEW i \in Steps, SinkTask(i)
      PROVE  OrderInv'
  <2>1. /\ n < TimeStepCount /\ n < Len(p)
        /\ CalledIn(n + 1)' /\ p[n + 1] = sched.event[i] /\ p' = p
        /\ sink'.type = IF p[n + 1].type = "DATAFLOW_STOP" THEN sink.type
                        ELSE p[n + 1].type
    BY <1>1, <1>7, SinkComes DEF p
  <2>2. app' = app /\ sched' = sched
    BY <1>7 DEF SinkTask, schedVars, appVars
  <2>3. /\ InSuccession(p, n + 1, sink'.type)
        /\ \/ LastType(p, n + 1, sink'.type) = LastType(p, n, sink.type)
           \/ /\ LastType(p, n, sink.type) = "DATAFLOW_STOP"
              /\ LastType(p, n + 1, sink'.type) = sink.type
        /\ Follows(sink.type, p[n + 1].type)
    BY <1>1, <1>2, <2>1, SuccessionDelivers
  <2>4. CASE LastType(p, n + 1, sink'.type) = LastType(p, n, sink.type)
    <3>1. n + 1 \in 0..TimeStepCount /\ sink'.type # "DATAFLOW_STOP"
      BY <1>2, <2>1, SchedulerAssumption
    <3> QED BY <1>1, <1>2, <1>3, <2>1, <2>2, <2>3, <2>4, <3>1
            DEF OrderInv, EventsInSuccession, EventsTimely, p
  <2>5. CASE /\ LastType(p, n, sink.type) = "DATAFLOW_STOP"
             /\ LastType(p, n + 1, sink'.type) = sink.type
             /\ LastType(p, n + 1, sink'.type) # LastType(p, n, sink.type)
    <3>1. n + 1 \in 0..TimeStepCount /\ sink'.type # "DATAFLOW_STOP"
      BY <1>2, <2>1, SchedulerAssumption
    <3>2. LastOf(app) = {"TEARDOWN", "DATAFLOW_STOP"}
      BY <1>1, <2>5 DEF LastOf, OrderInv, BufferInv, TypeOK, AppPhase
    <3>3. p[n + 1].type = "DATAFLOW_STOP"
      <4>1. Len(p) = n + 1 \/ LastType(p, n + 1, sink'.type) = LastType(p, n, sink.type)
        BY <1>2, <2>1 DEF LastType
      <4> QED BY <1>2, <2>1, <2>5, <4>1 DEF LastType
    <3>4. sink.type = "TEARDOWN"
      BY <1>2, <2>3, <3>3 DEF Follows
    <3> QED BY <1>1, <1>2, <1>3, <2>1, <2>2, <2>3, <2>5, <3>1, <3>2, <3>4
            DEF OrderInv, EventsInSuccession, EventsTimely, p
  <2> QED BY <2>3, <2>4, <2>5
<1>8. ASSUME NEW i \in Steps, timeStepEnded(i)
      PROVE  OrderInv'
  <2>1. /\ n \in 1..TimeStepCount /\ i = endTurn /\ sched.running[i]
        /\ CalledIn(n - 1)' /\ p' = Tail(p)
    BY <1>1, <1>8, EndComes DEF p
  <2>2. app' = app /\ sink' = sink /\ sched' = freeTimeStep(sched, i)
    BY <1>8 DEF timeStepEnded, appVars
  <2>3. /\ InSuccession(p', n - 1, sink.type)
        /\ LastType(p', n - 1, sink.type) = LastType(p, n, sink.type)
    <3>1. n \in Nat \ {0}
      BY <2>1
    <3> QED BY <1>1, <1>2, <2>1, <3>1, SuccessionTail
  <2>4. TypesIn(sched', TimelyTypes(app))
    BY <1>2, <2>1, <2>2, TypesFreed
  <2>5. n - 1 \in 0..TimeStepCount
    BY <2>1, SchedulerAssumption
  <2> QED BY <1>1, <1>2, <1>3, <2>1, <2>2, <2>3, <2>4, <2>5
          DEF OrderInv, EventsInSuccession, EventsTimely, p
<1>9. SourcesTimely
  BY DEF OrderInv
<1> QED BY <1>5, <1>6, <1>7, <1>8, <1>9, StepInOrder

\* Nothing has happened yet.
LEMMA OrderInit ==
  ASSUME Init
  PROVE  OrderInv
<1>1. SinkWindow /\ Pipeline!PipelineInit /\ BufferInv
  BY InitSimulates, BufferInit
<1>2. PICK n \in 0..TimeStepCount : CalledIn(n)
  BY <1>1 DEF SinkWindow
<1>3. /\ PendingEvents = <<>> /\ endTurn \in Steps /\ n = 0
  <2>1. Cardinality(Delivered) = 0 /\ PendingEvents = <<>> /\ endTurn \in Steps
    BY <1>1 DEF Pipeline!PipelineInit, BufferInv, TypeOK
  <2> QED BY <1>2, <2>1, DeliveredCount
<1>4. sink.type = "INVALID" /\ app = "new"
  BY DEF Init
<1>5. EventsInSuccession
  <2>1. InSuccession(PendingEvents, 0, sink.type)
    BY <1>3 DEF InSuccession
  <2>2. LastType(PendingEvents, 0, sink.type) \in LastOf(app)
    BY <1>3, <1>4 DEF LastType, LastOf
  <2> QED BY <1>2, <1>3, <2>1, <2>2 DEF EventsInSuccession
<1>6. EventsTimely
  <2>1. /\ \A i \in Steps : sched.event[i].type = "INVALID"
        /\ 1..Len(sched.queue) = {}
    BY DEF Init, InitialScheduler
  <2>2. "INVALID" \in TimelyTypes(app)
    BY DEF TimelyTypes, EventType
  <2> QED BY <2>1, <2>2 DEF EventsTimely, TypesIn
<1>7. SourcesTimely
  BY DEF Init, SourcesTimely
<1> QED BY <1>4, <1>5, <1>6, <1>7 DEF OrderInv

-----------------------------------------------------------------------------
(* The clock. *)

\* What the conversion to a double does to a timestamp.
LEMMA DoubleOf ==
  ASSUME NEW x \in Int
  PROVE  /\ AsDouble(x) \in Int
         /\ AsDouble(x) <= x + (Grid \div 2)
         /\ x >= Grid => AsDouble(x) >= Grid
         /\ AsDouble(AsDouble(x)) = AsDouble(x)
<1> DEFINE h == Grid \div 2
           q == (x + h) \div Grid
<1>1. Grid \in Nat \ {0} /\ h \in Nat /\ h < Grid
  BY ClockAssumption
<1>2. q \in Int /\ Grid * q <= x + h /\ x + h < Grid * q + Grid
  BY <1>1
<1>3. AsDouble(x) = Grid * q
  BY DEF AsDouble
<1>4. AsDouble(Grid * q) = Grid * ((Grid * q + h) \div Grid)
  BY DEF AsDouble
<1> HIDE DEF q
<1>5. (Grid * q + h) \div Grid = q
  BY <1>1, <1>2
<1> HIDE DEF h
<1>6. x >= Grid => Grid * q >= Grid
  <2>1. \A y \in Int : y <= 0 => Grid * y <= 0
    BY <1>1
  <2>2. \A y \in Int : y >= 1 => Grid * y >= Grid
    BY <1>1
  <2>3. x >= Grid => q >= 1
    BY <1>1, <1>2, <2>1
  <2> QED BY <1>2, <2>2, <2>3
<1>7. Grid * q \in Int
  BY <1>1, <1>2
<1> QED BY <1>2, <1>3, <1>4, <1>5, <1>6, <1>7 DEF h

\* The clock after a timestamp, and the first timestamp that it keeps.
LEMMA NewTimestamp ==
  ASSUME SteadyClock, NEW c \in Clock, NEW ts \in Int
  PROVE  /\ newTimestamp(c, ts) \in Clock
         /\ newTimestamp(c, ts).delta = c.delta
         /\ newTimestamp(c, ts).expected = IF c.init = kTimestampZero THEN ts ELSE c.expected
         /\ newTimestamp(c, ts).init \in
              IF c.init = kTimestampZero THEN {ts} ELSE {c.init, AsDouble(c.init)}
<1>1. newTimestamp(c, ts).expected = IF c.init = kTimestampZero THEN ts ELSE c.expected
  BY DEF newTimestamp, Clock
<1>2. InitialMean(c, ts) = AsDouble(c.init)
  <2>1. AsDouble(c.init) \in Int /\ AsDouble(ts) \in Int
    BY DoubleOf DEF Clock
  <2>2. \A x \in Int : x \div 1 = x
    OBVIOUS
  <2>3. AsDouble(c.init) * 1 = AsDouble(c.init) /\ AsDouble(ts) * (1 - 1) = 0
    BY <2>1
  <2> QED BY <2>1, <2>2, <2>3 DEF InitialMean, SteadyClock
<1>3. newTimestamp(c, ts).init \in
        IF c.init = kTimestampZero THEN {ts} ELSE {c.init, AsDouble(c.init)}
  <2> DEFINE m == InitialMean(c, ts)
  <2> HIDE DEF m
  <2>1. newTimestamp(c, ts).init \in IF c.init = kTimestampZero THEN {ts} ELSE {c.init, m}
    BY DEF newTimestamp, Clock, m
  <2> QED BY <1>2, <2>1 DEF m
<1> QED BY <1>1, <1>3, ClockType, SteadyForward

\* The clock after a frame.
LEMMA NextFrame ==
  ASSUME SteadyClock, NEW c \in Clock
  PROVE  /\ advanceTimeStep(c) \in Clock
         /\ advanceTimeStep(c).init = c.init
         /\ advanceTimeStep(c).delta = c.delta
         /\ advanceTimeStep(c).expected = c.expected + c.delta
BY ClockType, SteadyForward DEF advanceTimeStep

\* The clock after the timestamp of a request.
LEMMA ClockOfRequest ==
  ASSUME SteadyClock, PreciseClock, clock \in Clock, ClockStarts, NEW ts \in Timestamps
  PROVE  LET c == newTimestamp(clock, ts)
         IN /\ ts \in Int /\ ts >= Grid /\ ts > 0
            /\ c \in Clock /\ c.delta = SensorDelta
            /\ c.init >= Grid /\ c.init # kTimestampZero /\ c.expected > 0
            /\ c.expected = IF clock.init = kTimestampZero THEN ts ELSE clock.expected
            /\ clock.expected <= c.expected
<1> DEFINE c == newTimestamp(clock, ts)
<1>1. ts \in Int /\ ts > 2 * MaxOffset /\ ts > 0
  BY TimeDomainAssumption, ClockAssumption
<1>2. ts >= Grid
  <2>1. Grid <= 2 * (Grid \div 2) + 1
    BY ClockAssumption
  <2> QED BY <1>1, <2>1, ClockAssumption DEF PreciseClock
<1>3. /\ c \in Clock /\ c.delta = clock.delta
      /\ c.expected = IF clock.init = kTimestampZero THEN ts ELSE clock.expected
      /\ c.init \in IF clock.init = kTimestampZero THEN {ts}
                    ELSE {clock.init, AsDouble(clock.init)}
  BY <1>1, NewTimestamp
<1>4. clock.init \in Int /\ clock.expected \in Int
  BY DEF Clock
<1>5. clock.init >= Grid => AsDouble(clock.init) >= Grid
  BY <1>4, DoubleOf
<1> HIDE DEF c
<1>6. c.init >= Grid
  BY <1>2, <1>3, <1>5 DEF ClockStarts
<1>7. c.init # kTimestampZero
  BY <1>3, <1>6, ClockAssumption DEF Clock, kTimestampZero
<1> QED BY <1>1, <1>2, <1>3, <1>4, <1>6, <1>7 DEF ClockStarts, c, kTimestampZero

\* What a request does to the clock.
LEMMA RequestClock ==
  ASSUME NEW s \in Sources, NEW ts \in Timestamps, RequestSourceBuffer(s, ts)
  PROVE  \/ clock' = clock /\ RequestInvalid(s, ts)
         \/ clock' = newTimestamp(clock, ts)
         \/ clock' = advanceTimeStep(newTimestamp(clock, ts))
BY DEF RequestSourceBuffer, RequestInvalid, RequestRunning, RequestScheduled,
       RequestAfterStop, RequestNewTimestampWait, RequestNewTimestampImmediate,
       requestVars

\* The other steps but the padding loop leave the clock alone, and start no loop.
LEMMA OthersLeaveClock ==
  ASSUME TypeOK, [Next]_vars,
         ~ \E s \in Sources, ts \in Timestamps : RequestSourceBuffer(s, ts),
         ~ \E s \in Sources : Padding(s) \/ PaddingDone(s)
  PROVE  /\ clock' = clock
         /\ \A s \in Sources : src'[s].pc \in {"pad", "padded"} =>
              src'[s].pc = src[s].pc /\ src'[s].ts = src[s].ts
<1>1. src \in [Sources -> [pc : SourcePc, ts : Int, step : Steps, run : BOOLEAN]]
  BY DEF TypeOK
<1> DEFINE Same == /\ clock' = clock
                   /\ \A s \in Sources : src'[s].pc \in {"pad", "padded"} =>
                        src'[s].pc = src[s].pc /\ src'[s].ts = src[s].ts
<1>2. ASSUME NEW s \in Sources, SourceNext(s) PROVE Same
  <2>1. CASE WaitForRunning(s)
    BY <1>1, <2>1 DEF WaitForRunning, schedVars, requestVars
  <2>2. CASE ClaimSourceBuffer(s)
    BY <1>1, <2>2 DEF ClaimSourceBuffer, requestVars
  <2>3. CASE Commit(s)
    BY <1>1, <2>3 DEF Commit, requestVars
  <2>4. CASE PlayerExit(s)
    BY <1>1, <2>4 DEF PlayerExit, schedVars, requestVars
  <2> QED BY <1>2, <2>1, <2>2, <2>3, <2>4 DEF SourceNext
<1>3. ASSUME NEW i \in Steps, TaskflowNext(i) PROVE Same
  <2>1. CASE SeamEntry(i) \/ SinkTask(i) \/ timeStepEnded(i)
    BY <2>1 DEF SeamEntry, SinkTask, timeStepEnded, schedVars, requestVars
  <2>2. ASSUME NEW s \in Sources, StopPlayer(s, i) PROVE Same
    <3>1. src' = [src EXCEPT ![s].run = FALSE] /\ clock' = clock
      BY <2>2 DEF StopPlayer, schedVars, requestVars
    <3>2. \A r \in Sources : src'[r].pc = src[r].pc /\ src'[r].ts = src[r].ts
      BY <1>1, <3>1
    <3> QED BY <3>1, <3>2
  <2>3. ASSUME NEW s \in Sources, SourceTask(s, i) PROVE Same
    BY <1>1, <2>3 DEF SourceTask, schedVars, requestVars
  <2> QED BY <1>3, <2>1, <2>2, <2>3 DEF TaskflowNext
<1>4. CASE (\E r \in Rings : SerialSeam(r)) \/ StartSeam \/ UNCHANGED vars
  BY <1>4 DEF SerialSeam, StartSeam, vars, schedVars, requestVars
<1>5. CASE AppNext \/ ParameterChanged
  BY <1>5 DEF AppNext, ParameterChanged, AppLaunch, AppConfigure, AppStart, AppStarted,
              AppStop, AppStopTimeout, AppTeardown, AppTornDown, AppFlush, AppFinish,
              scheduleNonDataEvent, schedVars, requestVars
<1> QED BY <1>2, <1>3, <1>4, <1>5 DEF Next

\* The clock starts once.
LEMMA ClockStartsStep ==
  ASSUME SteadyClock, PreciseClock, TypeOK, ClockStarts, [Next]_vars
  PROVE  ClockStarts' /\ clock.expected <= clock'.expected
<1>1. /\ clock \in Clock /\ clock.expected \in Int /\ clock.init \in Int
      /\ clock.delta = SensorDelta /\ SensorDelta \in Nat
  BY ClockAssumption DEF TypeOK, Clock, ClockStarts
<1>2. ASSUME NEW s \in Sources, NEW ts \in Timestamps, RequestSourceBuffer(s, ts)
      PROVE  ClockStarts' /\ clock.expected <= clock'.expected
  <2> DEFINE c == newTimestamp(clock, ts)
             d == advanceTimeStep(c)
  <2>1. /\ c \in Clock /\ c.delta = SensorDelta /\ c.init >= Grid
        /\ c.init # kTimestampZero /\ c.expected > 0 /\ clock.expected <= c.expected
    BY <1>1, ClockOfRequest
  <2>2. /\ d.init = c.init /\ d.delta = c.delta /\ d.expected = c.expected + c.delta
    BY <2>1, NextFrame
  <2>3. (clock' = clock /\ RequestInvalid(s, ts)) \/ clock' = c \/ clock' = d
    BY <1>2, RequestClock
  <2> HIDE DEF c, d
  <2>4. CASE clock' = c \/ clock' = d
    BY <1>1, <2>1, <2>2, <2>4 DEF ClockStarts, Clock
  <2>5. CASE clock' = clock /\ RequestInvalid(s, ts)
    <3>1. src' = [src EXCEPT ![s].pc = "idle", ![s].ts = ts, ![s].step = src[s].step]
      BY <2>5 DEF RequestInvalid, SourceAt
    <3>2. RequestMutexFree => RequestMutexFree'
      BY <3>1 DEF RequestMutexFree, TypeOK
    <3> QED BY <1>1, <2>5, <3>2 DEF ClockStarts
  <2> QED BY <2>3, <2>4, <2>5
<1>3. ASSUME NEW s \in Sources, Padding(s) \/ PaddingDone(s)
      PROVE  ClockStarts' /\ clock.expected <= clock'.expected
  <2> DEFINE d == advanceTimeStep(clock)
  <2>1. /\ d.init = clock.init /\ d.delta = clock.delta
        /\ d.expected = clock.expected + clock.delta
    BY <1>1, NextFrame
  <2>2. clock' = d /\ ~RequestMutexFree
    BY <1>3 DEF Padding, PaddingDone, RequestMutexFree
  <2>3. clock.init # kTimestampZero
    BY <2>2 DEF ClockStarts
  <2> HIDE DEF d
  <2> QED BY <1>1, <2>1, <2>2, <2>3 DEF ClockStarts
<1>4. CASE /\ ~ \E s \in Sources, ts \in Timestamps : RequestSourceBuffer(s, ts)
           /\ ~ \E s \in Sources : Padding(s) \/ PaddingDone(s)
  <2>1. clock' = clock /\ RequestMutexFree => RequestMutexFree'
    BY <1>4, OthersLeaveClock DEF RequestMutexFree
  <2>2. clock' = clock
    BY <1>4, OthersLeaveClock
  <2> QED BY <1>1, <2>1, <2>2 DEF ClockStarts
<1> QED BY <1>2, <1>3, <1>4

-----------------------------------------------------------------------------
(* Frames that the sink sees. *)

\* The members of a pending event.
LEMMA EventFields ==
  ASSUME NEW p \in Seq(PipelineEvent), NEW k \in 1..Len(p)
  PROVE  p[k] \in PipelineEvent /\ p[k].ts \in Int /\ p[k].type \in EventType
<1>1. p[k] \in PipelineEvent
  OBVIOUS
<1> QED BY <1>1 DEF PipelineEvent

\* Frames stay before a clock that goes on, and one that it expects comes after
\* all of them.
LEMMA RiseAppends ==
  ASSUME NEW p \in Seq(PipelineEvent), NEW n \in Nat, NEW t \in Int,
         NEW c \in Clock, NEW d \in Clock, FramesRise(p, n, t, c),
         c.expected <= d.expected
  PROVE  /\ FramesRise(p, n, t, d)
         /\ \A ev \in PipelineEvent :
              (ev.type = "DATA" =>
                 ev.ts > 0 /\ c.expected <= ev.ts /\ ev.ts + SensorDelta <= d.expected)
                => FramesRise(Append(p, ev), n, t, d)
<1>1. /\ c.expected \in Int /\ d.expected \in Int /\ SensorDelta \in Nat \ {0}
      /\ \A k \in 1..Len(p) : p[k].ts \in Int
  BY ClockAssumption, EventFields DEF Clock
<1>2. FramesRise(p, n, t, d)
  <2>1. \A x \in Int : x + SensorDelta <= c.expected => x + SensorDelta <= d.expected
    BY <1>1
  <2>2. t >= 0 /\ (t > 0 => t + SensorDelta <= d.expected)
    BY <2>1 DEF FramesRise
  <2>3. ASSUME NEW k \in 1..Len(p), p[k].type = "DATA"
        PROVE  /\ p[k].ts > 0
               /\ p[k].ts + SensorDelta <= d.expected
               /\ k > n => p[k].ts > t
    BY <1>1, <2>1, <2>3 DEF FramesRise
  <2>4. \A k, l \in 1..Len(p) :
          k < l /\ p[k].type = "DATA" /\ p[l].type = "DATA" => p[k].ts < p[l].ts
    BY DEF FramesRise
  <2> QED BY <2>2, <2>3, <2>4 DEF FramesRise
<1>3. ASSUME NEW ev \in PipelineEvent,
             ev.type = "DATA" =>
               ev.ts > 0 /\ c.expected <= ev.ts /\ ev.ts + SensorDelta <= d.expected
      PROVE  FramesRise(Append(p, ev), n, t, d)
  <2> DEFINE q == Append(p, ev)
  <2>1. /\ Len(p) \in Nat /\ Len(q) = Len(p) + 1 /\ q[Len(p) + 1] = ev
        /\ \A k \in 1..Len(p) : q[k] = p[k]
    BY AppendProperties
  <2> HIDE DEF q
  <2>2. ev.ts \in Int
    BY DEF PipelineEvent
  <2>3. ASSUME NEW k \in 1..Len(q), q[k].type = "DATA"
        PROVE  /\ q[k].ts > 0
               /\ q[k].ts + SensorDelta <= d.expected
               /\ k > n => q[k].ts > t
    <3>1. CASE k \in 1..Len(p)
      BY <1>2, <2>1, <2>3, <3>1 DEF FramesRise
    <3>2. CASE k = Len(p) + 1
      BY <1>1, <1>3, <2>1, <2>2, <2>3, <3>2 DEF FramesRise
    <3> QED BY <2>1, <3>1, <3>2
  <2>4. ASSUME NEW k \in 1..Len(q), NEW l \in 1..Len(q), k < l,
               q[k].type = "DATA", q[l].type = "DATA"
        PROVE  q[k].ts < q[l].ts
    <3>1. CASE l \in 1..Len(p)
      <4>1. k \in 1..Len(p)
        BY <2>1, <2>4, <3>1
      <4> QED BY <2>1, <2>4, <3>1, <4>1 DEF FramesRise
    <3>2. CASE l = Len(p) + 1
      <4>1. k \in 1..Len(p)
        BY <2>1, <2>4, <3>2
      <4>2. p[k].type = "DATA" /\ p[k].ts \in Int /\ q[k] = p[k] /\ q[l] = ev
        BY <1>1, <2>1, <2>4, <3>2, <4>1
      <4>3. p[k].ts + SensorDelta <= c.expected
        BY <4>1, <4>2 DEF FramesRise
      <4>4. c.expected <= ev.ts
        BY <1>3, <2>4, <4>2
      <4>5. p[k].ts < ev.ts
        <5>1. \A x, y, e \in Int : x + SensorDelta <= e /\ e <= y => x < y
          BY ClockAssumption
        <5>2. c.expected \in Int
          BY <1>1
        <5> QED BY <2>2, <4>2, <4>3, <4>4, <5>1, <5>2
      <4> QED BY <4>2, <4>5
    <3> QED BY <2>1, <3>1, <3>2
  <2>5. t >= 0 /\ (t > 0 => t + SensorDelta <= d.expected)
    BY <1>2 DEF FramesRise
  <2>6. FramesRise(q, n, t, d)
    BY <2>3, <2>4, <2>5 DEF FramesRise
  <2> QED BY <2>6 DEF q
<1> QED BY <1>2, <1>3

\* The next frame is later than the last one.
LEMMA RiseDelivers ==
  ASSUME NEW p \in Seq(PipelineEvent), NEW n \in Nat, NEW t \in Int, NEW c \in Clock,
         FramesRise(p, n, t, c), n < Len(p)
  PROVE  /\ p[n + 1].type = "DATA" => p[n + 1].ts > t
         /\ FramesRise(p, n + 1, IF p[n + 1].type = "DATA" THEN p[n + 1].ts ELSE t, c)
<1>1. n + 1 \in 1..Len(p) /\ p[n + 1].ts \in Int
  <2>1. n + 1 \in 1..Len(p)
    OBVIOUS
  <2> QED BY <2>1, EventFields
<1>2. CASE p[n + 1].type = "DATA"
  <2> DEFINE u == p[n + 1].ts
  <2>1. u > t /\ u > 0 /\ u + SensorDelta <= c.expected
    BY <1>1, <1>2 DEF FramesRise
  <2>2. \A k \in 1..Len(p) : k > n + 1 /\ p[k].type = "DATA" => p[k].ts > u
    BY <1>1, <1>2, EventFields DEF FramesRise
  <2>3. u >= 0
    BY <1>1, <2>1
  <2> HIDE DEF u
  <2>4. FramesRise(p, n + 1, u, c)
    BY <2>1, <2>2, <2>3 DEF FramesRise
  <2> QED BY <1>2, <2>1, <2>4 DEF u
<1>3. CASE p[n + 1].type # "DATA"
  <2>1. \A k \in 1..Len(p) : k > n + 1 => k > n
    OBVIOUS
  <2>2. FramesRise(p, n + 1, t, c)
    BY <2>1 DEF FramesRise
  <2> QED BY <1>3, <2>2
<1> QED BY <1>2, <1>3

\* The first event goes.
LEMMA RiseTail ==
  ASSUME NEW p \in Seq(PipelineEvent), NEW n \in Nat \ {0}, NEW t \in Int, NEW c \in Clock,
         FramesRise(p, n, t, c), p # <<>>
  PROVE  FramesRise(Tail(p), n - 1, t, c)
<1> DEFINE q == Tail(p)
<1>1. /\ Len(p) \in Nat /\ Len(q) = Len(p) - 1
      /\ \A k \in 1..Len(q) : q[k] = p[k + 1] /\ k + 1 \in 1..Len(p)
  BY HeadTailProperties
<1> SUFFICES FramesRise(q, n - 1, t, c)
  OBVIOUS
<1> HIDE DEF q
<1>2. ASSUME NEW k \in 1..Len(q), q[k].type = "DATA"
      PROVE  /\ q[k].ts > 0
             /\ q[k].ts + SensorDelta <= c.expected
             /\ k > n - 1 => q[k].ts > t
  BY <1>1, <1>2 DEF FramesRise
<1>3. ASSUME NEW k \in 1..Len(q), NEW l \in 1..Len(q), k < l,
             q[k].type = "DATA", q[l].type = "DATA"
      PROVE  q[k].ts < q[l].ts
  <2>1. k + 1 \in 1..Len(p) /\ l + 1 \in 1..Len(p) /\ k + 1 < l + 1
    BY <1>1, <1>3
  <2> QED BY <1>1, <1>3, <2>1 DEF FramesRise
<1>4. t >= 0 /\ (t > 0 => t + SensorDelta <= c.expected)
  BY DEF FramesRise
<1> QED BY <1>2, <1>3, <1>4 DEF FramesRise

\* An event that is scheduled is no frame, or the one that the clock expects.
LEMMA FramesAreExpected ==
  ASSUME Disciplined, SourceMode = "WAIT_FOR_BUFFER", PreciseClock, BufferInv,
         ClockStarts, [Next]_vars
  PROVE  \/ Calm
         \/ \E type \in EventType : \E ts :
              /\ Adds(type, ts)
              /\ type = "DATA" =>
                   /\ ts > 0 /\ clock.expected <= ts
                   /\ ts + SensorDelta <= clock'.expected
         \/ \E i \in Steps : SinkTask(i) \/ timeStepEnded(i)
<1> DEFINE Added == \E type \in EventType : \E ts :
              /\ Adds(type, ts)
              /\ type = "DATA" =>
                   /\ ts > 0 /\ clock.expected <= ts
                   /\ ts + SensorDelta <= clock'.expected
<1> SUFFICES Calm \/ Added \/ \E i \in Steps : SinkTask(i) \/ timeStepEnded(i)
  OBVIOUS
<1>1. /\ SteadyClock /\ clock \in Clock /\ clock.expected \in Int
      /\ clock.delta = SensorDelta /\ SensorDelta \in Nat
  BY ClockAssumption DEF Disciplined, BufferInv, TypeOK, Clock, ClockStarts
<1>2. ASSUME NEW type \in EventType \ {"DATA"}, NEW ts, Adds(type, ts)
      PROVE  Added
  BY <1>2
<1>3. ASSUME NEW ts, Adds("DATA", ts), ts > 0, clock.expected <= ts,
             ts + SensorDelta <= clock'.expected
      PROVE  Added
  BY <1>3 DEF EventType
<1> HIDE DEF Added
<1>4. ASSUME NEW s \in Sources, SourceNext(s)
      PROVE  Calm \/ Added
  <2>1. CASE \E ts \in Timestamps : RequestSourceBuffer(s, ts)
    <3>1. PICK ts \in Timestamps : RequestSourceBuffer(s, ts)
      BY <2>1
    <3> DEFINE c == newTimestamp(clock, ts)
               d == advanceTimeStep(c)
    <3>2. Calm \/ (Adds("DATA", c.expected) /\ clock' = d)
      <4>1. SourceMode # "IMMEDIATE_RETURN"
        OBVIOUS
      <4> QED BY <3>1, <4>1, RequestAdds
    <3>3. /\ c \in Clock /\ c.delta = SensorDelta /\ c.expected > 0
          /\ clock.expected <= c.expected
      BY <1>1, ClockOfRequest
    <3>4. d.expected = c.expected + c.delta /\ c.expected \in Int
      BY <1>1, <3>3, NextFrame DEF Clock
    <3> HIDE DEF c, d
    <3>5. CASE Adds("DATA", c.expected) /\ clock' = d
      <4>1. c.expected + SensorDelta <= clock'.expected
        BY <1>1, <3>3, <3>4, <3>5
      <4> QED BY <1>3, <3>3, <3>5, <4>1
    <3> QED BY <3>2, <3>5
  <2>2. CASE Padding(s) \/ PaddingDone(s)
    <3>1. Adds("DATA", clock.expected) /\ clock' = advanceTimeStep(clock)
      BY <2>2, PaddingAdds
    <3>2. clock'.expected = clock.expected + SensorDelta
      BY <1>1, <3>1, NextFrame
    <3>3. clock.expected > 0
      BY <2>2 DEF ClockStarts, RequestMutexFree, Padding, PaddingDone
    <3> QED BY <1>1, <1>3, <3>1, <3>2, <3>3
  <2> QED BY <1>4, <2>1, <2>2, ThreadIsCalm DEF SourceNext
<1>5. ASSUME AppNext \/ ParameterChanged
      PROVE  Calm \/ Added
  <2>1. ASSUME NEW type \in EventType, Adds(type, kTimestampZero),
               type \in {"CONFIGURE", "START", "PARAMETER_CHANGE", "STOP", "TEARDOWN",
                         "DATAFLOW_STOP"}
        PROVE  Added
    BY <1>2, <2>1
  <2> QED BY <1>5, <2>1, AppAdds
<1>6. ASSUME NEW i \in Steps, TaskflowNext(i)
      PROVE  Calm \/ SinkTask(i) \/ timeStepEnded(i)
  BY <1>6, TasksAreCalm DEF TaskflowNext
<1> QED BY <1>4, <1>5, <1>6, TasksAreCalm DEF Next

\* The frames keep rising.
LEMMA FramesShownStep ==
  ASSUME Disciplined, SourceMode = "WAIT_FOR_BUFFER", PreciseClock, BufferInv,
         FramesShownInOrder, [Next]_vars
  PROVE  FramesShownInOrder'
<1> DEFINE p == PendingEvents
<1>1. PICK n \in 0..TimeStepCount : CalledIn(n) /\ FramesRise(p, n, sink.ts, clock)
  BY DEF FramesShownInOrder
<1>2. /\ p \in Seq(PipelineEvent) /\ n \in Nat /\ endTurn \in Steps
      /\ TypeOK /\ clock \in Clock /\ sink.ts \in Int
  BY PendingType, SchedulerAssumption DEF BufferInv, TypeOK, PendingEvents
<1>3. ClockStarts /\ ClockStarts' /\ clock.expected <= clock'.expected
  BY <1>2, ClockStartsStep DEF FramesShownInOrder, Disciplined
<1>4. clock' \in Clock
  <2>1. TypeOK'
    BY <1>2, TypeStep
  <2> QED BY <2>1 DEF TypeOK
<1> HIDE DEF p
<1>5. FramesRise(p, n, sink.ts, clock')
  BY <1>1, <1>2, <1>3, <1>4, RiseAppends
<1>6. ASSUME NEW m \in 0..TimeStepCount, CalledIn(m)',
             FramesRise(p', m, sink'.ts, clock')
      PROVE  FramesShownInOrder'
  BY <1>3, <1>6 DEF FramesShownInOrder, p
<1>7. ASSUME Steady, FramesRise(p', n, sink.ts, clock')
      PROVE  FramesShownInOrder'
  <2>1. CalledIn(n)' /\ sink' = sink
    BY <1>1, <1>7 DEF Steady, CalledIn
  <2> QED BY <1>6, <1>7, <2>1
<1>8. CASE Calm
  BY <1>5, <1>7, <1>8 DEF Calm, p
<1>9. ASSUME NEW type \in EventType, NEW ts, Adds(type, ts),
             type = "DATA" =>
               /\ ts > 0 /\ clock.expected <= ts
               /\ ts + SensorDelta <= clock'.expected
      PROVE  FramesShownInOrder'
  <2> DEFINE ev == [type |-> type, ts |-> ts]
  <2>1. /\ p' = Append(p, ev) /\ ev \in PipelineEvent /\ Steady
        /\ ev.type = type /\ ev.ts = ts
    BY <1>9 DEF Adds, p
  <2> HIDE DEF ev
  <2>2. FramesRise(p', n, sink.ts, clock')
    BY <1>1, <1>2, <1>3, <1>4, <1>9, <2>1, RiseAppends
  <2> QED BY <1>7, <2>1, <2>2
<1>10. ASSUME NEW i \in Steps, SinkTask(i)
       PROVE  FramesShownInOrder'
  <2>1. /\ n < TimeStepCount /\ n < Len(p)
        /\ CalledIn(n + 1)' /\ p' = p
        /\ sink'.ts = IF p[n + 1].type = "DATA" THEN p[n + 1].ts ELSE sink.ts
    <3>1. /\ n < TimeStepCount /\ n < Len(p) /\ CalledIn(n + 1)' /\ p' = p
          /\ p[n + 1] = sched.event[i]
          /\ sink' = IF sched.event[i].type = "DATAFLOW_STOP" THEN sink
                     ELSE [type |-> sched.event[i].type,
                           ts |-> IF sched.event[i].type = "DATA"
                                  THEN sched.event[i].ts ELSE sink.ts]
      BY <1>1, <1>10, SinkComes DEF p
    <3> QED BY <3>1
  <2>2. FramesRise(p, n + 1, sink'.ts, clock')
    BY <1>2, <1>4, <1>5, <2>1, RiseDelivers
  <2>3. n + 1 \in 0..TimeStepCount
    BY <1>2, <2>1, SchedulerAssumption
  <2> QED BY <1>6, <2>1, <2>2, <2>3
<1>11. ASSUME NEW i \in Steps, timeStepEnded(i)
       PROVE  FramesShownInOrder'
  <2>1. /\ n \in 1..TimeStepCount /\ CalledIn(n - 1)' /\ p' = Tail(p) /\ sink' = sink
        /\ i = endTurn /\ sched.running[i]
    BY <1>1, <1>11, EndComes DEF p, timeStepEnded
  <2>2. p # <<>>
    <3>1. 0 < InUse(sched) /\ sched \in Scheduler
      BY <1>2, <2>1, RingArithmetic DEF BufferInv, RingInv, Window
    <3>2. Len(p) = InUse(sched) + Len(sched.queue) /\ Len(sched.queue) \in Nat
          /\ InUse(sched) \in 0..TimeStepCount
      BY <1>2, <3>1, PendingType DEF p, PendingEvents
    <3>3. Len(p) > 0
      BY <3>1, <3>2
    <3> QED BY <3>3
  <2>3. FramesRise(p', n - 1, sink'.ts, clock')
    <3>1. n \in Nat \ {0}
      BY <2>1
    <3> QED BY <1>2, <1>4, <1>5, <2>1, <2>2, <3>1, RiseTail
  <2>4. n - 1 \in 0..TimeStepCount
    BY <2>1, SchedulerAssumption
  <2> QED BY <1>6, <2>1, <2>3, <2>4
<1> QED BY <1>3, <1>8, <1>9, <1>10, <1>11, FramesAreExpected

\* Nothing was shown yet.
LEMMA FramesShownInit ==
  ASSUME Init
  PROVE  FramesShownInOrder
<1>1. SinkWindow /\ Pipeline!PipelineInit /\ BufferInv
  BY InitSimulates, BufferInit
<1>2. PICK n \in 0..TimeStepCount : CalledIn(n)
  BY <1>1 DEF SinkWindow
<1>3. PendingEvents = <<>> /\ sink.ts = 0
  BY <1>1 DEF Pipeline!PipelineInit, Init, kTimestampZero
<1>4. FramesRise(PendingEvents, n, sink.ts, clock)
  BY <1>3 DEF FramesRise
<1>5. ClockStarts
  BY DEF Init, InitialClock, ClockStarts, RequestMutexFree
<1> QED BY <1>2, <1>4, <1>5 DEF FramesShownInOrder

\* What the invariants say of a call of the sink.
LEMMA SinkIsCalledInOrder ==
  ASSUME BufferInv, OrderInv, FramesShownInOrder, NEW i \in Steps, SinkTask(i),
         sink' # sink
  PROVE  SinkCalled
<1> DEFINE p == PendingEvents
<1>1. PICK n \in 0..TimeStepCount : CalledIn(n) /\ InSuccession(p, n, sink.type)
  BY DEF OrderInv, EventsInSuccession
<1>2. PICK m \in 0..TimeStepCount : CalledIn(m) /\ FramesRise(p, m, sink.ts, clock)
  BY DEF FramesShownInOrder
<1>3. /\ p \in Seq(PipelineEvent) /\ n \in Nat /\ endTurn \in Steps
      /\ clock \in Clock /\ sink.ts \in Int
  BY PendingType, SchedulerAssumption DEF BufferInv, TypeOK, PendingEvents
<1>4. m = n
  BY <1>1, <1>2, <1>3, CalledOnce
<1>5. /\ n < Len(p) /\ p[n + 1] = sched.event[i]
      /\ sink' = IF sched.event[i].type = "DATAFLOW_STOP" THEN sink
                 ELSE [type |-> sched.event[i].type,
                       ts |-> IF sched.event[i].type = "DATA"
                              THEN sched.event[i].ts ELSE sink.ts]
  BY <1>1, SinkComes DEF p
<1> HIDE DEF p
<1>6. /\ sink'.type = p[n + 1].type
      /\ sink'.type = "DATA" => sink'.ts = p[n + 1].ts
      /\ sink'.type # "DATAFLOW_STOP"
  BY <1>5
<1>7. Follows(sink.type, sink'.type)
  BY <1>1, <1>3, <1>5, <1>6, SuccessionDelivers
<1>8. sink'.type = "DATA" => sink'.ts > sink.ts
  BY <1>2, <1>3, <1>4, <1>5, <1>6, RiseDelivers
<1>9. sink.type # "DATAFLOW_STOP"
  BY DEF OrderInv
<1> QED BY <1>6, <1>7, <1>8, <1>9 DEF SinkCalled, Follows

\* SinkOrder: the components downstream are configured, started, given frames in
\* the order of their timestamps, stopped and torn down, in this order.  With
\* IMMEDIATE_RETURN frames may come out of order, and so may everything when a
\* stop gives up or an application does not wait for start().
THEOREM SinkIsOrdered ==
  ASSUME Disciplined, Orderly, SourceMode = "WAIT_FOR_BUFFER", PreciseClock
  PROVE  Spec => SinkOrder
<1> DEFINE Inv == BufferInv /\ OrderInv /\ FramesShownInOrder
<1>1. Init => Inv
  BY BufferInit, OrderInit, FramesShownInit
<1>2. Inv /\ [Next]_vars => Inv'
  BY BufferStep, OrderStep, FramesShownStep
<1>3. Inv /\ [Next]_vars => (sink' # sink => SinkCalled)
  <2> SUFFICES ASSUME Inv, [Next]_vars, sink' # sink
               PROVE  SinkCalled
    OBVIOUS
  <2>1. PICK i \in Steps : SinkTask(i)
    <3>1. \A i \in Steps : timeStepEnded(i) => sink' = sink
      BY DEF timeStepEnded
    <3>2. CalmInOrder => sink' = sink
      BY DEF CalmInOrder, Calm, Steady
    <3>3. \A type, ts : AddsInOrder(type, ts) => sink' = sink
      BY DEF AddsInOrder, Adds, Steady
    <3> QED BY <3>1, <3>2, <3>3, StepInOrder DEF OrderInv
  <2> QED BY <2>1, SinkIsCalledInOrder
<1> QED BY <1>1, <1>2, <1>3, PTL DEF Spec, SinkOrder

-----------------------------------------------------------------------------
(* The events that end the taskflow. *)

\* Once such events are scheduled nothing else is.
LEMMA FlushingGoesOn ==
  ASSUME Disciplined, Orderly, BufferInv, OrderInv, [Next]_vars, Flushing
  PROVE  Flushing'
<1>1. CASE AppGoesOn
  <2>1. "DATAFLOW_STOP" \in TimelyTypes(app)
    BY DEF TimelyTypes, EventType, Flushing
  <2>2. "DATAFLOW_STOP" \in TimelyTypes(app')
    BY <1>1, <2>1 DEF AppGoesOn
  <2> QED BY <2>2 DEF TimelyTypes, Flushing
<1>2. ASSUME NEW i \in Steps, SinkTask(i) \/ timeStepEnded(i)
      PROVE  Flushing'
  BY <1>2 DEF SinkTask, timeStepEnded, appVars, Flushing
<1>3. SourcesTimely
  BY DEF OrderInv
<1> QED BY <1>1, <1>2, <1>3, StepInOrder DEF CalmInOrder, AddsInOrder

\* No event that ends the taskflow is there before.
LEMMA NoStopsBefore ==
  ASSUME NEW d, NEW e \in Steps, RingInv(d, e), NEW a, TypesIn(d, TimelyTypes(a)),
         a \notin {"flushing", "done"}
  PROVE  /\ \A i \in Steps : d.event[i].type # "DATAFLOW_STOP"
         /\ \A k \in 1..Len(PendingOf(d, e)) : PendingOf(d, e)[k].type # "DATAFLOW_STOP"
<1> DEFINE T == TimelyTypes(a)
<1>1. TypesIn(d, T) /\ "DATAFLOW_STOP" \notin T
  BY DEF TimelyTypes
<1> HIDE DEF T
<1>2. \A k \in 1..Len(PendingOf(d, e)) : PendingOf(d, e)[k].type \in T
  BY <1>1, PendingTypes
<1> QED BY <1>1, <1>2 DEF TypesIn

\* The first events stay where they are when others are scheduled.
LEMMA StopsStay ==
  ASSUME BufferInv, NEW n \in Nat, OnlyStops(PendingEvents, n)
  PROVE  /\ CalmInOrder => OnlyStops(PendingEvents', n)
         /\ \A type, ts : AddsInOrder(type, ts) /\ Flushing' => OnlyStops(PendingEvents', n)
<1> DEFINE p == PendingEvents
<1>1. p \in Seq(PipelineEvent) /\ Len(p) \in Nat
  BY PendingType DEF BufferInv, TypeOK, PendingEvents
<1>2. CalmInOrder => p' = p
  BY DEF CalmInOrder, Calm, p
<1>3. ASSUME NEW type, NEW ts, AddsInOrder(type, ts), Flushing'
      PROVE  OnlyStops(p', n)
  <2> DEFINE ev == [type |-> type, ts |-> ts]
  <2>1. p' = Append(p, ev) /\ ev \in PipelineEvent /\ ev.type = "DATAFLOW_STOP"
    BY <1>3 DEF AddsInOrder, Adds, p
  <2> HIDE DEF p, ev
  <2>2. /\ Len(p') = Len(p) + 1 /\ p'[Len(p) + 1] = ev
        /\ \A k \in 1..Len(p) : p'[k] = p[k]
    BY <1>1, <2>1, AppendProperties
  <2>3. OnlyStops(p, n)
    BY DEF p
  <2> QED BY <1>1, <2>1, <2>2, <2>3 DEF OnlyStops
<1> QED BY <1>2, <1>3

\* ... and move up when the first one goes.
LEMMA StopsMoveUp ==
  ASSUME NEW p, p \in Seq(PipelineEvent), p # <<>>, NEW n \in Nat, OnlyStops(p, n)
  PROVE  OnlyStops(Tail(p), IF n = 0 THEN 0 ELSE n - 1)
<1> DEFINE q == Tail(p)
<1>1. /\ Len(p) \in Nat /\ Len(q) = Len(p) - 1
      /\ \A k \in 1..Len(q) : q[k] = p[k + 1] /\ k + 1 \in 1..Len(p)
  BY HeadTailProperties
<1> SUFFICES OnlyStops(q, IF n = 0 THEN 0 ELSE n - 1)
  OBVIOUS
<1> HIDE DEF q
<1>2. ASSUME NEW k \in 1..Len(q), k > IF n = 0 THEN 0 ELSE n - 1
      PROVE  q[k].type = "DATAFLOW_STOP"
  <2>1. k + 1 \in 1..Len(p) /\ k + 1 > n /\ q[k] = p[k + 1]
    BY <1>1, <1>2
  <2> QED BY <2>1 DEF OnlyStops
<1> QED BY <1>2 DEF OnlyStops

\* A seam that sees an event that ends the taskflow has no other event ahead.
LEMMA SeamSees ==
  ASSUME NEW d, NEW e \in Steps, RingInv(d, e), StopsAreLast(d, PendingOf(d, e)),
         NEW m \in 0..TimeStepCount, NEW i \in Steps, StepAt(e, m + 1) = i,
         d.event[i].type = "DATAFLOW_STOP"
  PROVE  OnlyStops(PendingOf(d, e), m)
<1> DEFINE p == PendingOf(d, e)
<1>1. /\ d \in Scheduler /\ p \in Seq(PipelineEvent) /\ InUse(d) \in 0..TimeStepCount
      /\ Len(d.queue) \in Nat /\ Len(p) = InUse(d) + Len(d.queue)
      /\ \A k \in 1..(InUse(d) + Len(d.queue)) : p[k] = PendingAt(d, e, k)
  BY PendingType DEF RingInv
<1> SUFFICES OnlyStops(p, m)
  OBVIOUS
<1>2. StopsAreLast(d, p)
  OBVIOUS
<1> HIDE DEF p
<1>3. CASE ~d.running[i]
  BY <1>2, <1>3, SchedulerAssumption DEF StopsAreLast, OnlyStops
<1>4. CASE d.running[i] /\ m < TimeStepCount
  <2>1. m + 1 \in 1..TimeStepCount /\ m \in Nat
    BY <1>4, SchedulerAssumption
  <2>2. RingDistance(e, i) = m
    BY <2>1, RingPlaces
  <2>3. m < InUse(d)
    BY <1>4, <2>2 DEF RingInv, Window
  <2>4. m + 1 \in 1..Len(p) /\ m + 1 <= InUse(d) /\ m + 1 \in 1..(InUse(d) + Len(d.queue))
    BY <1>1, <2>1, <2>3
  <2>5. p[m + 1] = d.event[i]
    BY <1>1, <2>4 DEF PendingAt
  <2>6. OnlyStops(p, m + 1)
    BY <1>2, <2>4, <2>5 DEF StopsAreLast
  <2>7. ASSUME NEW k \in 1..Len(p), k > m
        PROVE  p[k].type = "DATAFLOW_STOP"
    <3>1. k = m + 1 \/ k > m + 1
      BY <2>1, <2>7
    <3> QED BY <2>5, <2>6, <3>1 DEF OnlyStops
  <2> QED BY <2>7 DEF OnlyStops
<1>5. CASE d.running[i] /\ m = TimeStepCount
  <2>1. i = e
    BY <1>5, RingPlaces
  <2>2. RingDistance(e, i) = 0 /\ StepAt(e, 1) = e
    BY <2>1, RingPlaces, RingArithmetic
  <2>3. 0 < InUse(d)
    BY <1>5, <2>2 DEF RingInv, Window
  <2>4. 1 \in 1..Len(p) /\ 1 <= InUse(d) /\ 1 \in 1..(InUse(d) + Len(d.queue))
    BY <1>1, <2>3
  <2>5. p[1] = d.event[i]
    BY <1>1, <2>1, <2>2, <2>4 DEF PendingAt
  <2>6. OnlyStops(p, 1) /\ m >= 1
    BY <1>2, <1>5, <2>4, <2>5, SchedulerAssumption DEF StopsAreLast
  <2> QED BY <2>6 DEF OnlyStops
<1>6. m < TimeStepCount \/ m = TimeStepCount
  BY SchedulerAssumption
<1> QED BY <1>3, <1>4, <1>5, <1>6

\* What follows an event that ends the taskflow is of its kind, whatever happens.
LEMMA StopsAreLastStep ==
  ASSUME Disciplined, Orderly, BufferInv, OrderInv,
         StopsAreLast(sched, PendingEvents), [Next]_vars
  PROVE  StopsAreLast(sched', PendingEvents')
<1> DEFINE p == PendingEvents
<1>1. BufferInv' /\ OrderInv'
  BY BufferStep, OrderStep
<1>2. /\ sched \in Scheduler /\ endTurn \in Steps /\ RingInv(sched, endTurn)
      /\ p \in Seq(PipelineEvent) /\ Len(p) \in Nat
  BY PendingType DEF BufferInv, TypeOK, PendingEvents
<1>3. CASE ~Flushing'
  <2>1. /\ RingInv(sched', endTurn') /\ endTurn' \in Steps
        /\ TypesIn(sched', TimelyTypes(app'))
    BY <1>1 DEF BufferInv, TypeOK, OrderInv, EventsTimely
  <2>2. app' \notin {"flushing", "done"}
    BY <1>3 DEF Flushing
  <2>3. /\ \A i \in Steps : sched'.event[i].type # "DATAFLOW_STOP"
        /\ \A k \in 1..Len(p') : p'[k].type # "DATAFLOW_STOP"
    BY <2>1, <2>2, NoStopsBefore DEF PendingEvents
  <2> QED BY <2>3 DEF StopsAreLast
<1>4. /\ \A k \in 1..Len(p) : p[k].type = "DATAFLOW_STOP" => OnlyStops(p, k)
      /\ \A i \in Steps :
           ~sched.running[i] /\ sched.event[i].type = "DATAFLOW_STOP" => OnlyStops(p, 0)
  BY DEF StopsAreLast
<1>5. CASE CalmInOrder
  <2>1. p' = p /\ KeepsTypes(sched, sched')
    BY <1>5 DEF CalmInOrder, Calm
  <2> HIDE DEF p
  <2>2. StopsAreLast(sched', p')
    BY <1>4, <2>1 DEF StopsAreLast, KeepsTypes
  <2> QED BY <2>2 DEF p
<1>6. ASSUME NEW type \in EventType, NEW ts, AddsInOrder(type, ts), Flushing'
      PROVE  StopsAreLast(sched', p')
  <2> DEFINE ev == [type |-> type, ts |-> ts]
  <2>1. /\ p' = Append(p, ev) /\ ev \in PipelineEvent /\ ev.type = "DATAFLOW_STOP"
        /\ Takes(sched, sched', type)
    BY <1>6 DEF AddsInOrder, Adds
  <2>2. \A n \in Nat : OnlyStops(p, n) => OnlyStops(p', n)
    BY <1>6, StopsStay
  <2> HIDE DEF p, ev
  <2>3. /\ Len(p') = Len(p) + 1 /\ p'[Len(p) + 1] = ev
        /\ \A k \in 1..Len(p) : p'[k] = p[k]
    BY <1>2, <2>1, AppendProperties
  <2>4. ASSUME NEW k \in 1..Len(p'), p'[k].type = "DATAFLOW_STOP"
        PROVE  OnlyStops(p', k)
    <3>1. CASE k \in 1..Len(p)
      BY <1>4, <2>2, <2>3, <2>4, <3>1
    <3>2. CASE k = Len(p) + 1
      BY <1>2, <2>3, <3>2 DEF OnlyStops
    <3> QED BY <1>2, <2>3, <3>1, <3>2
  <2>5. ASSUME NEW i \in Steps, ~sched'.running[i], sched'.event[i].type = "DATAFLOW_STOP"
        PROVE  OnlyStops(p', 0)
    <3>1. ~sched.running[i] /\ sched.event[i].type = "DATAFLOW_STOP"
      BY <2>1, <2>5 DEF Takes
    <3> QED BY <1>4, <2>2, <3>1
  <2> QED BY <2>4, <2>5 DEF StopsAreLast
<1>7. ASSUME NEW i \in Steps, SinkTask(i)
      PROVE  StopsAreLast(sched', p')
  <2>1. sched' = sched /\ endTurn' = endTurn
    BY <1>7 DEF SinkTask, schedVars
  <2> QED BY <2>1 DEF PendingEvents
<1>8. ASSUME NEW i \in Steps, timeStepEnded(i)
      PROVE  StopsAreLast(sched', p')
  <2> DEFINE r == freeTimeStep(sched, i)
  <2>1. SinkWindow
    BY DEF OrderInv, EventsInSuccession, SinkWindow
  <2>2. /\ i = endTurn /\ sched.running[i] /\ p' = Tail(p)
    BY <1>8, <2>1, EndComes DEF SinkWindow
  <2>3. sched' = r
    BY <1>8 DEF timeStepEnded
  <2>4. /\ \A j \in Steps \ {i} :
             r.running[j] = sched.running[j] /\ r.event[j] = sched.event[j]
        /\ Freed(sched, r, i) \/ Reloaded(sched, r, i)
    BY <1>2, <2>2, FreeKeeps, FreeKeepsRing
  <2>5. p # <<>> /\ p[1] = sched.event[i]
    <3>1. RingDistance(endTurn, i) = 0 /\ StepAt(endTurn, 1) = endTurn
      BY <1>2, <2>2, RingPlaces, RingArithmetic, SchedulerAssumption
    <3>2. 0 < InUse(sched)
      BY <1>2, <2>2, <3>1 DEF RingInv, Window
    <3>3. /\ InUse(sched) \in 0..TimeStepCount /\ Len(sched.queue) \in Nat
          /\ Len(p) = InUse(sched) + Len(sched.queue)
          /\ \A k \in 1..(InUse(sched) + Len(sched.queue)) :
               p[k] = PendingAt(sched, endTurn, k)
      BY <1>2, PendingType DEF PendingEvents
    <3> HIDE DEF p
    <3>4. Len(p) > 0 /\ 1 \in 1..(InUse(sched) + Len(sched.queue)) /\ 1 <= InUse(sched)
      BY <3>2, <3>3
    <3>5. p[1] = sched.event[StepAt(endTurn, 1)]
      BY <3>3, <3>4 DEF PendingAt, StepAt
    <3>6. p # <<>>
      BY <3>4
    <3> QED BY <2>2, <3>1, <3>5, <3>6
  <2> HIDE DEF p, r
  <2>6. /\ Len(p') = Len(p) - 1
        /\ \A k \in 1..Len(p') : p'[k] = p[k + 1] /\ k + 1 \in 1..Len(p)
    BY <1>2, <2>2, <2>5, HeadTailProperties
  <2>7. ASSUME NEW k \in 1..Len(p'), p'[k].type = "DATAFLOW_STOP"
        PROVE  OnlyStops(p', k)
    <3>1. OnlyStops(p, k + 1) /\ k + 1 \in Nat /\ k + 1 # 0 /\ k + 1 - 1 = k
      BY <1>4, <2>6, <2>7
    <3> QED BY <1>2, <2>2, <2>5, <3>1, StopsMoveUp
  <2>8. ASSUME NEW j \in Steps, ~r.running[j], r.event[j].type = "DATAFLOW_STOP"
        PROVE  OnlyStops(p', 0)
    <3>1. CASE j # i
      <4>1. OnlyStops(p, 0)
        BY <1>4, <2>4, <2>8, <3>1
      <4> QED BY <1>2, <2>2, <2>5, <4>1, StopsMoveUp
    <3>2. CASE j = i
      <4>1. r.event[i] = sched.event[i]
        <5>1. CASE Freed(sched, r, i)
          BY <5>1 DEF Freed
        <5>2. CASE Reloaded(sched, r, i)
          <6>1. r.running = [sched.running EXCEPT ![i] = TRUE]
            BY <5>2 DEF Reloaded
          <6>2. r.running[i]
            BY <1>2, <6>1 DEF Scheduler
          <6> QED BY <2>8, <3>2, <6>2
        <5> QED BY <2>4, <5>1, <5>2
      <4>2. 1 \in 1..Len(p) /\ p[1].type = "DATAFLOW_STOP"
        BY <1>2, <2>5, <2>8, <3>2, <4>1
      <4>3. OnlyStops(p, 1) /\ 1 \in Nat /\ 1 - 1 = 0
        BY <1>4, <4>2
      <4> QED BY <1>2, <2>2, <2>5, <4>3, StopsMoveUp
    <3> QED BY <3>1, <3>2
  <2>9. StopsAreLast(r, p')
    BY <2>7, <2>8 DEF StopsAreLast
  <2> QED BY <2>3, <2>9
<1>9. SourcesTimely
  BY DEF OrderInv
<1> QED BY <1>3, <1>5, <1>6, <1>7, <1>8, <1>9, StepInOrder

\* A time step whose control flow has ended keeps the event that ended it.
LEMMA StoppedStep ==
  ASSUME Disciplined, Orderly, BufferInv, OrderInv, [Next]_vars,
         \A i \in Steps : phase[i] = "stopped" => sched.event[i].type = "DATAFLOW_STOP",
         NEW i \in Steps, phase'[i] = "stopped"
  PROVE  sched'.event[i].type = "DATAFLOW_STOP"
<1>1. /\ endTurn \in Steps /\ RingInv(sched, endTurn) /\ 0 \in Steps
      /\ phase \in [Steps -> {"seam", "run", "end", "stopped"}]
  BY SchedulerAssumption DEF BufferInv, TypeOK, Steps
<1>2. CASE (\E j \in Steps : SeamEntry(j)) \/ StartSeam
  <2>1. sched' = sched
    BY <1>2 DEF SeamEntry, StartSeam, schedVars
  <2>2. phase[i] = "stopped" \/ sched.event[i].type = "DATAFLOW_STOP"
    BY <1>1, <1>2 DEF SeamEntry, StartSeam, Stopped
  <2> QED BY <2>1, <2>2
<1>3. CASE ~((\E j \in Steps : SeamEntry(j)) \/ StartSeam)
  <2>1. phase[i] = "stopped"
    <3>1. CASE phase' = phase
      BY <3>1
    <3>2. ASSUME NEW j \in Steps, SinkTask(j) \/ timeStepEnded(j)
          PROVE  phase[i] = "stopped"
      BY <1>1, <3>2 DEF SinkTask, timeStepEnded
    <3>3. phase' = phase \/ \E j \in Steps : SinkTask(j) \/ timeStepEnded(j)
      BY <1>3 DEF Next, SourceNext, RequestSourceBuffer, Padding, PaddingDone,
                  WaitForRunning, ClaimSourceBuffer, Commit, PlayerExit, TaskflowNext,
                  StopPlayer, SourceTask, SerialSeam, AppNext, AppLaunch, AppConfigure,
                  AppStart, AppStarted, AppStop, AppStopTimeout, AppTeardown, AppTornDown,
                  AppFlush, AppFinish, ParameterChanged, scheduleNonDataEvent, taskVars,
                  vars
    <3> QED BY <3>1, <3>2, <3>3
  <2>2. sched.event[i].type = "DATAFLOW_STOP"
    BY <2>1
  <2>3. Flushing'
    <3>1. Flushing
      BY <2>2 DEF OrderInv, EventsTimely, TypesIn, TimelyTypes, Flushing
    <3> QED BY <3>1, FlushingGoesOn
  <2>4. CASE CalmInOrder
    BY <2>2, <2>4 DEF CalmInOrder, Calm, KeepsTypes
  <2>5. ASSUME NEW type \in EventType, NEW ts, AddsInOrder(type, ts)
        PROVE  sched'.event[i].type = "DATAFLOW_STOP"
    BY <2>2, <2>3, <2>5 DEF AddsInOrder, Adds, Takes
  <2>6. ASSUME NEW j \in Steps, SinkTask(j)
        PROVE  sched'.event[i].type = "DATAFLOW_STOP"
    BY <2>2, <2>6 DEF SinkTask, schedVars
  <2>7. ASSUME NEW j \in Steps, timeStepEnded(j)
        PROVE  sched'.event[i].type = "DATAFLOW_STOP"
    <3>1. j = endTurn /\ phase[j] = "end" /\ sched' = freeTimeStep(sched, j)
      BY <2>7 DEF timeStepEnded, EndActive
    <3>2. sched.running[j]
      <4>1. SinkWindow
        BY DEF OrderInv, EventsInSuccession, SinkWindow
      <4> QED BY <2>7, <4>1, EndComes DEF SinkWindow
    <3>3. i # j
      BY <2>1, <3>1
    <3>4. freeTimeStep(sched, j).event[i] = sched.event[i]
      BY <1>1, <3>1, <3>2, <3>3, FreeKeeps
    <3> QED BY <2>2, <3>1, <3>4
  <2>8. SourcesTimely
    BY DEF OrderInv
  <2> QED BY <2>4, <2>5, <2>6, <2>7, <2>8, StepInOrder
<1> QED BY <1>2, <1>3

-----------------------------------------------------------------------------
(* The chains of the tasks and their seams. *)

\* The task of a source runs in the next time step of its chain.
LEMMA SourceComes ==
  ASSUME TypeOK, NEW s \in Sources, NEW n \in 0..TimeStepCount, DoneIn(s, n),
         NEW i \in Steps, SourceTask(s, i)
  PROVE  n < TimeStepCount /\ DoneIn(s, n + 1)'
<1>1. DoneIn(s, n)
  OBVIOUS
<1>2. /\ endTurn \in Steps /\ done \in [Steps -> SUBSET Sources]
      /\ sourceTurn \in [Sources -> Steps]
  BY DEF TypeOK
<1>3. /\ s \notin done[i] /\ sourceTurn[s] = i /\ endTurn' = endTurn
      /\ done' = [done EXCEPT ![i] = @ \cup {s}]
      /\ sourceTurn' = [sourceTurn EXCEPT ![s] = NextTimeStep(i)]
  BY DEF SourceTask, SourceReady, SourceActive
<1>4. i = StepAt(endTurn, n + 1) /\ ~(RingDistance(endTurn, i) < n)
  BY <1>1, <1>3 DEF DoneIn
<1>5. n \in 0..(TimeStepCount - 1)
  <2>1. n # TimeStepCount
    BY <1>2, <1>4, RingPlaces, RingArithmetic, SchedulerAssumption
  <2> QED BY <2>1, SchedulerAssumption
<1>6. RingDistance(endTurn, i) = n
  BY <1>2, <1>4, <1>5, RingPlaces, SchedulerAssumption
<1>7. \A j \in Steps : s \in done'[j] <=> (s \in done[j] \/ j = i)
  BY <1>2, <1>3
<1>8. \A j \in Steps : RingDistance(endTurn, j) < n + 1
                         <=> (RingDistance(endTurn, j) < n \/ j = i)
  BY <1>2, <1>5, <1>6, RingArithmetic, SchedulerAssumption
<1>9. sourceTurn'[s] = StepAt(endTurn, n + 1 + 1)
  <2>1. NextTimeStep(i) = StepAt(endTurn, n + 1 + 1)
    BY <1>2, <1>4, <1>5, RingPlacesMove, SchedulerAssumption
  <2> QED BY <1>2, <1>3, <2>1
<1>10. DoneIn(s, n + 1)'
  BY <1>1, <1>3, <1>7, <1>8, <1>9 DEF DoneIn
<1>11. n < TimeStepCount
  BY <1>5, SchedulerAssumption
<1> QED BY <1>10, <1>11

\* The end of a time step comes after the tasks of all sources.
LEMMA SourceEnds ==
  ASSUME BufferInv, NEW s \in Sources, NEW n \in 0..TimeStepCount, DoneIn(s, n),
         NEW i \in Steps, timeStepEnded(i)
  PROVE  n \in 1..TimeStepCount /\ DoneIn(s, n - 1)'
<1>1. DoneIn(s, n)
  OBVIOUS
<1>2. endTurn \in Steps /\ done \in [Steps -> SUBSET Sources]
  BY DEF BufferInv, TypeOK
<1>3. /\ phase[i] = "end" /\ endTurn = i /\ endTurn' = NextTimeStep(i)
      /\ done' = [done EXCEPT ![i] = {}] /\ UNCHANGED sourceTurn
  BY DEF timeStepEnded, EndActive
<1>4. s \in done[i]
  BY <1>3 DEF BufferInv, TasksFollowLocks
<1>5. n \in 1..TimeStepCount
  <2>1. RingDistance(i, i) = 0
    BY RingArithmetic
  <2>2. 0 < n
    BY <1>1, <1>3, <1>4, <2>1 DEF DoneIn
  <2> QED BY <2>2, SchedulerAssumption
<1>6. \A j \in Steps : s \in done'[j] <=> (s \in done[j] /\ j # i)
  BY <1>2, <1>3
<1>7. \A j \in Steps : RingDistance(NextTimeStep(i), j) < n - 1
                         <=> (RingDistance(i, j) < n /\ j # i)
  <2>1. \A j \in Steps : RingDistance(NextTimeStep(i), j)
          = IF j = i THEN TimeStepCount - 1 ELSE RingDistance(i, j) - 1
    BY RingArithmetic
  <2>2. \A j \in Steps : RingDistance(i, j) \in 0..(TimeStepCount - 1)
    BY RingArithmetic
  <2> QED BY <1>5, <2>1, <2>2, SchedulerAssumption
<1>8. StepAt(i, n + 1) = StepAt(NextTimeStep(i), n)
  BY <1>5, RingPlacesMove
<1>9. n - 1 + 1 = n
  BY <1>5
<1>10. DoneIn(s, n - 1)'
  BY <1>1, <1>3, <1>6, <1>7, <1>8, <1>9 DEF DoneIn
<1> QED BY <1>5, <1>10

\* Only the tasks and the seams change the chains.
LEMMA OthersLeaveChains ==
  ASSUME [Next]_vars,
         ~ \E i \in Steps, s \in Sources : SourceTask(s, i),
         ~ \E r \in Rings : SerialSeam(r),
         ~ \E i \in Steps : SinkTask(i) \/ timeStepEnded(i)
  PROVE  UNCHANGED <<done, ringVars>>
BY DEF Next, SourceNext, RequestSourceBuffer, Padding, PaddingDone, WaitForRunning,
       ClaimSourceBuffer, Commit, PlayerExit, TaskflowNext, SeamEntry, StopPlayer, StartSeam,
       AppNext, AppLaunch, AppConfigure, AppStart, AppStarted, AppStop, AppStopTimeout,
       AppTeardown, AppTornDown, AppFlush, AppFinish, ParameterChanged,
       scheduleNonDataEvent, taskVars, vars

\* A chain that was cut stays cut, nothing but the ends of the taskflow comes.
LEMMA CutStays ==
  ASSUME Disciplined, Orderly, BufferInv, OrderInv, [Next]_vars,
         ~ \E i \in Steps : timeStepEnded(i),
         NEW r, NEW n \in Nat, CutLate(r, n), r \in cut' => r \in cut
  PROVE  CutLate(r, n)'
<1> SUFFICES ASSUME r \in cut' PROVE Flushing' /\ OnlyStops(PendingEvents', n)
  BY DEF CutLate, Flushing
<1>1. Flushing /\ OnlyStops(PendingEvents, n)
  BY DEF CutLate, Flushing
<1>2. Flushing'
  BY <1>1, FlushingGoesOn
<1>3. ASSUME NEW i \in Steps, SinkTask(i)
      PROVE  OnlyStops(PendingEvents', n)
  <2>1. PendingEvents' = PendingEvents
    BY <1>3 DEF SinkTask, schedVars, PendingEvents
  <2> QED BY <1>1, <2>1 DEF OnlyStops
<1>4. SourcesTimely
  BY DEF OrderInv
<1> QED BY <1>1, <1>2, <1>3, <1>4, StopsStay, StepInOrder

\* ... and they move up with the window.
LEMMA CutMoves ==
  ASSUME BufferInv, SinkWindow, NEW i \in Steps, timeStepEnded(i),
         NEW r, NEW n \in Nat, CutLate(r, n), r \in cut' => r \in cut
  PROVE  CutLate(r, IF n = 0 THEN 0 ELSE n - 1)'
<1> DEFINE p == PendingEvents
           m == IF n = 0 THEN 0 ELSE n - 1
<1> SUFFICES ASSUME r \in cut' PROVE Flushing' /\ OnlyStops(p', m)
  BY DEF CutLate, Flushing
<1>1. Flushing /\ OnlyStops(p, n)
  BY DEF CutLate, Flushing
<1>2. Flushing'
  BY <1>1 DEF timeStepEnded, appVars, Flushing
<1>3. p' = Tail(p) /\ i = endTurn /\ sched.running[i]
  BY EndComes DEF SinkWindow
<1>4. p \in Seq(PipelineEvent) /\ endTurn \in Steps /\ sched \in Scheduler
  BY PendingType DEF BufferInv, TypeOK, PendingEvents
<1>5. p # <<>>
  <2>1. 0 < InUse(sched)
    BY <1>3, <1>4, RingArithmetic DEF BufferInv, RingInv, Window
  <2>2. /\ Len(p) = InUse(sched) + Len(sched.queue) /\ Len(sched.queue) \in Nat
        /\ InUse(sched) \in 0..TimeStepCount
    BY <1>4, PendingType DEF PendingEvents
  <2> HIDE DEF p
  <2>3. Len(p) > 0
    BY <2>1, <2>2
  <2> QED BY <2>3
<1> HIDE DEF p
<1> QED BY <1>1, <1>2, <1>3, <1>4, <1>5, StopsMoveUp

\* A chain is cut when it comes to time step 0 and finds that the taskflow ends.
LEMMA CutStarts ==
  ASSUME BufferInv, OrderInv, StopsAreLast(sched, PendingEvents), Stopped(sched),
         UNCHANGED <<sched, endTurn, app>>,
         NEW r, NEW n \in 0..TimeStepCount, StepAt(endTurn, n + 1) = 0
  PROVE  CutLate(r, n)'
<1>1. RingInv(sched, endTurn) /\ endTurn \in Steps /\ 0 \in Steps
  BY SchedulerAssumption DEF BufferInv, TypeOK, Steps
<1>2. sched.event[0].type = "DATAFLOW_STOP"
  BY DEF Stopped
<1>3. OnlyStops(PendingEvents, n)
  BY <1>1, <1>2, SeamSees DEF PendingEvents
<1>4. app \in {"flushing", "done"}
  BY <1>1, <1>2 DEF OrderInv, EventsTimely, TypesIn, TimelyTypes
<1> QED BY <1>3, <1>4 DEF CutLate, PendingEvents

\* The seam of the sink's chain.
LEMMA SinkSeamStep ==
  ASSUME Disciplined, Orderly, BufferInv, OrderInv, SeamInv, [Next]_vars
  PROVE  \E n \in 0..TimeStepCount : CalledIn(n)' /\ CutLate("sink", n)'
<1>1. PICK n \in 0..TimeStepCount : CalledIn(n) /\ CutLate("sink", n)
  BY DEF SeamInv
<1>2. /\ n \in Nat /\ endTurn \in Steps /\ StopsAreLast(sched, PendingEvents) /\ SinkWindow
  BY <1>1, SchedulerAssumption DEF BufferInv, TypeOK, SeamInv, SinkWindow
<1>3. ASSUME NEW i \in Steps, SinkTask(i)
      PROVE  \E m \in 0..TimeStepCount : CalledIn(m)' /\ CutLate("sink", m)'
  <2>1. n + 1 \in 0..TimeStepCount /\ CalledIn(n + 1)'
    BY <1>1, <1>3, SinkComes, SchedulerAssumption
  <2>2. /\ "sink" \notin cut /\ cut' = AfterTask(sched, "sink", i)
        /\ sinkTurn' = NextTimeStep(i) /\ UNCHANGED <<sched, endTurn, app>>
    BY <1>3 DEF SinkTask, SinkActive, schedVars, appVars
  <2>3. CASE "sink" \notin cut'
    BY <2>1, <2>3 DEF CutLate
  <2>4. CASE "sink" \in cut'
    <3>1. i = TimeStepCount - 1 /\ Stopped(sched)
      BY <2>2, <2>4 DEF AfterTask
    <3>2. StepAt(endTurn, n + 1 + 1) = 0
      BY <2>1, <2>2, <3>1, NextTimeStepType DEF CalledIn
    <3>3. CutLate("sink", n + 1)'
      BY <1>2, <2>1, <2>2, <3>1, <3>2, CutStarts
    <3> QED BY <2>1, <3>3
  <2> QED BY <2>3, <2>4
<1>4. ASSUME NEW i \in Steps, timeStepEnded(i)
      PROVE  \E m \in 0..TimeStepCount : CalledIn(m)' /\ CutLate("sink", m)'
  <2>1. n \in 1..TimeStepCount /\ CalledIn(n - 1)'
    BY <1>1, <1>4, EndComes
  <2>2. "sink" \in cut' => "sink" \in cut
    BY <1>4 DEF timeStepEnded, AfterTask
  <2>3. CutLate("sink", IF n = 0 THEN 0 ELSE n - 1)'
    BY <1>1, <1>2, <1>4, <2>2, CutMoves
  <2>4. (IF n = 0 THEN 0 ELSE n - 1) = n - 1 /\ n - 1 \in 0..TimeStepCount
    BY <2>1, SchedulerAssumption
  <2>5. CutLate("sink", n - 1)'
    BY <2>3, <2>4
  <2> QED BY <2>1, <2>4, <2>5
<1>5. CASE ~ \E i \in Steps : SinkTask(i) \/ timeStepEnded(i)
  <2>1. CalledIn(n)'
    <3>1. Steady
      <4>1. SourcesTimely
        BY DEF OrderInv
      <4> QED BY <1>5, <4>1, StepInOrder DEF CalmInOrder, Calm, AddsInOrder, Adds
    <3> QED BY <1>1, <3>1 DEF Steady, CalledIn
  <2>2. CASE SerialSeam("sink")
    <3>1. Stopped(sched) /\ sinkTurn = 0 /\ UNCHANGED <<sched, endTurn, app>>
      BY <2>2 DEF SerialSeam, schedVars, appVars
    <3>2. StepAt(endTurn, n + 1) = 0
      BY <1>1, <3>1 DEF CalledIn
    <3>3. CutLate("sink", n)'
      BY <1>1, <1>2, <3>1, <3>2, CutStarts
    <3> QED BY <2>1, <3>3
  <2>3. CASE ~SerialSeam("sink")
    <3>1. "sink" \in cut' => "sink" \in cut
      <4>1. ASSUME NEW r \in Rings, SerialSeam(r)
            PROVE  "sink" \in cut' => "sink" \in cut
        BY <2>3, <4>1 DEF SerialSeam
      <4>2. ASSUME NEW i \in Steps, NEW s \in Sources, SourceTask(s, i)
            PROVE  "sink" \in cut' => "sink" \in cut
        BY <4>2, TimeDomainAssumption DEF SourceTask, AfterTask
      <4> QED BY <1>5, <4>1, <4>2, OthersLeaveChains DEF ringVars
    <3>2. CutLate("sink", n)'
      BY <1>1, <1>2, <1>5, <3>1, CutStays
    <3> QED BY <2>1, <3>2
  <2> QED BY <2>2, <2>3
<1> QED BY <1>3, <1>4, <1>5

\* The seam of the chain of the ends of the time steps.
LEMMA EndSeamStep ==
  ASSUME Disciplined, Orderly, BufferInv, OrderInv, SeamInv, [Next]_vars
  PROVE  CutLate("end", 0)'
<1>1. /\ CutLate("end", 0) /\ 0 \in Nat /\ 0 \in 0..TimeStepCount /\ endTurn \in Steps
      /\ StopsAreLast(sched, PendingEvents) /\ 0 \in Steps
  BY SchedulerAssumption DEF BufferInv, TypeOK, SeamInv, Steps
<1>2. /\ BufferInv' /\ OrderInv' /\ StopsAreLast(sched', PendingEvents')
  BY <1>1, BufferStep, OrderStep, StopsAreLastStep
<1>3. ASSUME NEW i \in Steps, timeStepEnded(i)
      PROVE  CutLate("end", 0)'
  <2>1. /\ "end" \notin cut /\ cut' = AfterTask(sched', "end", i)
        /\ endTurn' = NextTimeStep(i)
    BY <1>3 DEF timeStepEnded, EndActive
  <2> SUFFICES ASSUME "end" \in cut'
               PROVE  app' \in {"flushing", "done"} /\ OnlyStops(PendingEvents', 0)
    BY DEF CutLate
  <2>2. i = TimeStepCount - 1 /\ sched'.event[0].type = "DATAFLOW_STOP"
    BY <2>1 DEF AfterTask, Stopped
  <2>3. endTurn' = 0 /\ RingInv(sched', endTurn')
    BY <1>2, <2>1, <2>2, NextTimeStepType DEF BufferInv
  <2>4. StepAt(endTurn', 0 + 1) = 0
    BY <1>1, <2>3, RingPlaces, RingArithmetic, SchedulerAssumption DEF StepAt
  <2>5. OnlyStops(PendingEvents', 0)
    <3>1. PendingEvents' = PendingOf(sched', endTurn')
      BY DEF PendingEvents
    <3> QED BY <1>1, <1>2, <2>2, <2>3, <2>4, <3>1, SeamSees
  <2>6. app' \in {"flushing", "done"}
    BY <1>1, <1>2, <2>2 DEF OrderInv, EventsTimely, TypesIn, TimelyTypes
  <2> QED BY <2>5, <2>6
<1>4. CASE SerialSeam("end")
  <2>1. Stopped(sched) /\ endTurn = 0 /\ UNCHANGED <<sched, endTurn, app>>
    BY <1>4 DEF SerialSeam, schedVars, appVars
  <2>2. StepAt(endTurn, 0 + 1) = 0
    BY <1>1, <2>1, SchedulerAssumption DEF StepAt
  <2> QED BY <1>1, <2>1, <2>2, CutStarts
<1>5. CASE ~SerialSeam("end") /\ ~ \E i \in Steps : timeStepEnded(i)
  <2>1. "end" \in cut' => "end" \in cut
    <3>1. ASSUME NEW r \in Rings, SerialSeam(r)
          PROVE  "end" \in cut' => "end" \in cut
      BY <1>5, <3>1 DEF SerialSeam
    <3>2. ASSUME NEW i \in Steps, NEW s \in Sources, SourceTask(s, i)
          PROVE  "end" \in cut' => "end" \in cut
      BY <3>2, TimeDomainAssumption DEF SourceTask, AfterTask
    <3>3. ASSUME NEW i \in Steps, SinkTask(i)
          PROVE  "end" \in cut' => "end" \in cut
      BY <3>3 DEF SinkTask, AfterTask
    <3> QED BY <1>5, <3>1, <3>2, <3>3, OthersLeaveChains DEF ringVars
  <2> QED BY <1>1, <1>5, <2>1, CutStays
<1> QED BY <1>3, <1>4, <1>5

\* The seam of the chain of a source.
LEMMA SourceSeamStep ==
  ASSUME Disciplined, Orderly, BufferInv, OrderInv, SeamInv, [Next]_vars, NEW s \in Sources
  PROVE  \E n \in 0..TimeStepCount : DoneIn(s, n)' /\ CutLate(s, n)'
<1>1. PICK n \in 0..TimeStepCount : DoneIn(s, n) /\ CutLate(s, n)
  BY DEF SeamInv
<1>2. /\ n \in Nat /\ TypeOK /\ endTurn \in Steps /\ StopsAreLast(sched, PendingEvents)
      /\ s \notin {"sink", "end"} /\ SinkWindow
      /\ done \in [Steps -> SUBSET Sources] /\ sourceTurn \in [Sources -> Steps]
  BY SchedulerAssumption, TimeDomainAssumption DEF BufferInv, TypeOK, SeamInv, SinkWindow
<1>3. ASSUME NEW i \in Steps, SourceTask(s, i)
      PROVE  \E m \in 0..TimeStepCount : DoneIn(s, m)' /\ CutLate(s, m)'
  <2>1. n + 1 \in 0..TimeStepCount /\ DoneIn(s, n + 1)'
    BY <1>1, <1>2, <1>3, SourceComes, SchedulerAssumption
  <2>2. /\ s \notin cut /\ cut' = AfterTask(sched, s, i)
        /\ sourceTurn'[s] = NextTimeStep(i) /\ UNCHANGED <<sched, endTurn, app>>
    BY <1>2, <1>3 DEF SourceTask, SourceReady, SourceActive, schedVars, appVars
  <2>3. CASE s \notin cut'
    BY <2>1, <2>3 DEF CutLate
  <2>4. CASE s \in cut'
    <3>1. i = TimeStepCount - 1 /\ Stopped(sched)
      BY <2>2, <2>4 DEF AfterTask
    <3>2. StepAt(endTurn, n + 1 + 1) = 0
      BY <2>1, <2>2, <3>1, NextTimeStepType DEF DoneIn
    <3>3. CutLate(s, n + 1)'
      BY <1>2, <2>1, <2>2, <3>1, <3>2, CutStarts
    <3> QED BY <2>1, <3>3
  <2> QED BY <2>3, <2>4
<1>4. ASSUME NEW i \in Steps, timeStepEnded(i)
      PROVE  \E m \in 0..TimeStepCount : DoneIn(s, m)' /\ CutLate(s, m)'
  <2>1. n \in 1..TimeStepCount /\ DoneIn(s, n - 1)'
    BY <1>1, <1>4, SourceEnds
  <2>2. s \in cut' => s \in cut
    BY <1>2, <1>4 DEF timeStepEnded, AfterTask
  <2>3. CutLate(s, IF n = 0 THEN 0 ELSE n - 1)'
    BY <1>1, <1>2, <1>4, <2>2, CutMoves
  <2>4. (IF n = 0 THEN 0 ELSE n - 1) = n - 1 /\ n - 1 \in 0..TimeStepCount
    BY <2>1, SchedulerAssumption
  <2>5. CutLate(s, n - 1)'
    BY <2>3, <2>4
  <2> QED BY <2>1, <2>4, <2>5
<1>5. CASE ~ \E i \in Steps : SourceTask(s, i) \/ timeStepEnded(i)
  <2>1. DoneIn(s, n)'
    <3>1. CASE UNCHANGED <<done, sourceTurn, endTurn>>
      BY <1>1, <3>1 DEF DoneIn
    <3>2. ASSUME NEW i \in Steps, NEW r \in Sources, SourceTask(r, i)
          PROVE  DoneIn(s, n)'
      <4>1. r # s
        BY <1>5, <3>2
      <4>2. /\ done' = [done EXCEPT ![i] = @ \cup {r}]
            /\ sourceTurn' = [sourceTurn EXCEPT ![r] = NextTimeStep(i)]
            /\ endTurn' = endTurn
        BY <3>2 DEF SourceTask
      <4>3. /\ \A j \in Steps : s \in done'[j] <=> s \in done[j]
            /\ sourceTurn'[s] = sourceTurn[s]
        BY <1>2, <4>1, <4>2
      <4> QED BY <1>1, <4>2, <4>3 DEF DoneIn
    <3>3. ASSUME NEW i \in Steps, SinkTask(i)
          PROVE  UNCHANGED <<done, sourceTurn, endTurn>>
      BY <3>3 DEF SinkTask
    <3>4. ASSUME NEW r \in Rings, SerialSeam(r)
          PROVE  UNCHANGED <<done, sourceTurn, endTurn>>
      BY <3>4 DEF SerialSeam
    <3> QED BY <1>5, <3>1, <3>2, <3>3, <3>4, OthersLeaveChains DEF ringVars
  <2>2. CASE SerialSeam(s)
    <3>1. Stopped(sched) /\ sourceTurn[s] = 0 /\ UNCHANGED <<sched, endTurn, app>>
      BY <1>2, <2>2 DEF SerialSeam, schedVars, appVars
    <3>2. StepAt(endTurn, n + 1) = 0
      BY <1>1, <3>1 DEF DoneIn
    <3>3. CutLate(s, n)'
      BY <1>1, <1>2, <3>1, <3>2, CutStarts
    <3> QED BY <2>1, <3>3
  <2>3. CASE ~SerialSeam(s)
    <3>1. s \in cut' => s \in cut
      <4>1. ASSUME NEW r \in Rings, SerialSeam(r)
            PROVE  s \in cut' => s \in cut
        BY <2>3, <4>1 DEF SerialSeam
      <4>2. ASSUME NEW i \in Steps, NEW r \in Sources, SourceTask(r, i)
            PROVE  s \in cut' => s \in cut
        BY <1>5, <4>2 DEF SourceTask, AfterTask
      <4>3. ASSUME NEW i \in Steps, SinkTask(i)
            PROVE  s \in cut' => s \in cut
        BY <1>2, <4>3 DEF SinkTask, AfterTask
      <4> QED BY <1>5, <4>1, <4>2, <4>3, OthersLeaveChains DEF ringVars
    <3>2. CutLate(s, n)'
      BY <1>1, <1>2, <1>5, <3>1, CutStays
    <3> QED BY <2>1, <3>2
  <2> QED BY <2>2, <2>3
<1> QED BY <1>3, <1>4, <1>5

\* The chains end when the application has torn down the sink.
LEMMA SeamStep ==
  ASSUME Disciplined, Orderly, BufferInv, OrderInv, SeamInv, [Next]_vars
  PROVE  SeamInv'
<1>1. StopsAreLast(sched, PendingEvents)'
  BY StopsAreLastStep DEF SeamInv
<1>2. \A i \in Steps : phase'[i] = "stopped" => sched'.event[i].type = "DATAFLOW_STOP"
  BY StoppedStep DEF SeamInv
<1> QED BY <1>1, <1>2, SinkSeamStep, EndSeamStep, SourceSeamStep DEF SeamInv

LEMMA SeamInit ==
  ASSUME Init
  PROVE  SeamInv
<1>1. /\ SinkWindow /\ PendingEvents = <<>> /\ endTurn = 0 /\ 0 \in Steps
      /\ 0 \in 0..TimeStepCount
  <2>1. SinkWindow /\ PendingEvents = <<>>
    BY InitSimulates DEF Pipeline!PipelineInit
  <2>2. endTurn = 0
    BY DEF Init
  <2> QED BY <2>1, <2>2, SchedulerAssumption DEF Steps
<1>2. cut = {} /\ \A i \in Steps : phase[i] = "seam"
  BY DEF Init
<1>3. StopsAreLast(sched, PendingEvents)
  BY <1>1 DEF Init, InitialScheduler, StopsAreLast, OnlyStops
<1>4. ASSUME NEW s \in Sources
      PROVE  DoneIn(s, 0)
  <2>1. \A i \in Steps : RingDistance(endTurn, i) \in 0..(TimeStepCount - 1)
    BY <1>1, RingArithmetic
  <2>2. StepAt(endTurn, 0 + 1) = 0
    BY <1>1, SchedulerAssumption DEF StepAt
  <2> QED BY <2>1, <2>2, SchedulerAssumption DEF Init, DoneIn
<1> QED BY <1>1, <1>2, <1>3, <1>4 DEF SeamInv, CutLate, SinkWindow

\* When nothing can run any more, only ends of the taskflow are pending.
LEMMA OnlyStopsAreLeft ==
  ASSUME BufferInv, OrderInv, SeamInv, TaskflowFinished
  PROVE  Flushing /\ OnlyStops(PendingEvents, 0)
<1>1. /\ endTurn \in Steps /\ RingInv(sched, endTurn) /\ 0 \in 0..TimeStepCount
      /\ StopsAreLast(sched, PendingEvents)
      /\ phase \in [Steps -> {"seam", "run", "end", "stopped"}]
      /\ done \in [Steps -> SUBSET Sources]
      /\ RingDistance(endTurn, endTurn) = 0 /\ StepAt(endTurn, 0 + 1) = endTurn
  <2>1. endTurn \in Steps
    BY DEF BufferInv, TypeOK
  <2>2. StepAt(endTurn, 0 + 1) = endTurn
    BY <2>1, RingPlaces, RingArithmetic, SchedulerAssumption
  <2> QED BY <2>1, <2>2, RingArithmetic, SchedulerAssumption DEF BufferInv, TypeOK, SeamInv
<1>2. /\ phase[endTurn] # "seam" /\ ~SinkActive(endTurn) /\ ~EndActive(endTurn)
      /\ \A s \in Sources : ~SourceActive(s, endTurn)
  BY <1>1 DEF TaskflowFinished
<1>3. CASE phase[endTurn] = "end"
  <2>1. "end" \in cut
    BY <1>2, <1>3 DEF EndActive
  <2> QED BY <2>1 DEF SeamInv, CutLate, Flushing
<1>4. CASE phase[endTurn] = "stopped"
  <2>1. sched.event[endTurn].type = "DATAFLOW_STOP"
    BY <1>1, <1>4 DEF SeamInv
  <2>2. Flushing
    BY <1>1, <2>1 DEF OrderInv, EventsTimely, TypesIn, TimelyTypes, Flushing
  <2>3. OnlyStops(PendingEvents, 0)
    BY <1>1, <2>1, SeamSees DEF PendingEvents
  <2> QED BY <2>2, <2>3
<1>5. CASE phase[endTurn] = "run"
  <2>1. PICK n \in 0..TimeStepCount : CalledIn(n) /\ CutLate("sink", n)
    BY DEF SeamInv
  <2>2. n = 0 /\ sinkTurn = endTurn
    <3>1. ~(0 < n) /\ sinkTurn = StepAt(endTurn, n + 1)
      BY <1>1, <1>5, <2>1 DEF CalledIn
    <3>2. n = 0
      BY <3>1, SchedulerAssumption
    <3> QED BY <1>1, <3>1, <3>2
  <2>3. CASE "sink" \in cut
    BY <2>1, <2>2, <2>3 DEF CutLate, Flushing
  <2>4. CASE "sink" \notin cut
    <3>1. PICK s \in Sources : s \notin done[endTurn]
      BY <1>1, <1>2, <1>5, <2>2, <2>4 DEF SinkActive
    <3>2. PICK m \in 0..TimeStepCount : DoneIn(s, m) /\ CutLate(s, m)
      BY DEF SeamInv
    <3>3. m = 0 /\ sourceTurn[s] = endTurn
      <4>1. ~(0 < m) /\ sourceTurn[s] = StepAt(endTurn, m + 1)
        BY <1>1, <3>1, <3>2 DEF DoneIn
      <4>2. m = 0
        BY <4>1, SchedulerAssumption
      <4> QED BY <1>1, <4>1, <4>2
    <3>4. s \in cut
      BY <1>2, <1>5, <3>1, <3>3 DEF SourceActive
    <3> QED BY <3>2, <3>3, <3>4 DEF CutLate, Flushing
  <2> QED BY <2>3, <2>4
<1> QED BY <1>1, <1>2, <1>3, <1>4, <1>5

\* EndsAfterTeardown: although the seams of the chains (the condition tasks that
\* close the ring) look at time step 0 only, no chain ends before the sink was
\* torn down.
THEOREM SinkIsTornDown ==
  ASSUME Disciplined, Orderly
  PROVE  Spec => []EndsAfterTeardown
<1> DEFINE Inv == BufferInv /\ OrderInv /\ SeamInv
<1>1. Init => Inv
  BY BufferInit, OrderInit, SeamInit
<1>2. Inv /\ [Next]_vars => Inv'
  BY BufferStep, OrderStep, SeamStep
<1>3. Inv => EndsAfterTeardown
  <2> SUFFICES ASSUME Inv, TaskflowFinished PROVE sink.type = "TEARDOWN"
    BY DEF EndsAfterTeardown
  <2> DEFINE p == PendingEvents
  <2>1. PICK n \in 0..TimeStepCount :
          InSuccession(p, n, sink.type) /\ LastType(p, n, sink.type) \in LastOf(app)
    BY DEF OrderInv, EventsInSuccession
  <2>2. /\ LastOf(app) = {"TEARDOWN", "DATAFLOW_STOP"} /\ OnlyStops(p, 0)
        /\ sink.type # "DATAFLOW_STOP"
    BY OnlyStopsAreLeft DEF LastOf, Flushing, OrderInv
  <2>3. p \in Seq(PipelineEvent) /\ n \in Nat
    BY PendingType, SchedulerAssumption DEF BufferInv, TypeOK, PendingEvents
  <2> HIDE DEF p
  <2>4. CASE Len(p) = n
    BY <2>1, <2>2, <2>4 DEF LastType
  <2>5. CASE Len(p) # n
    <3>1. n + 1 \in 1..Len(p)
      BY <2>1, <2>3, <2>5 DEF InSuccession
    <3>2. Follows(sink.type, p[n + 1].type) /\ p[n + 1].type = "DATAFLOW_STOP"
      BY <2>1, <2>2, <2>3, <3>1 DEF InSuccession, OnlyStops
    <3> QED BY <2>2, <3>2 DEF Follows
  <2> QED BY <2>4, <2>5
<1> QED BY <1>1, <1>2, <1>3, PTL DEF Spec
=============================================================================
