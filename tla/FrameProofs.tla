------------------------------ MODULE FrameProofs ------------------------------
(***************************************************************************)
(* No source waits for a frame that never comes and no promise is set      *)
(* twice, for any number of sources and time steps.  The invariants are    *)
(* those of the first part of module TimeDomainOrder.                      *)
(*                                                                         *)
(* First comes what the scheduler's operations do to the frames in the     *)
(* ring and in the queue, and that they and the clock keep FrameInv; then  *)
(* the sources that wait; at last the inputs that are marked as missing.   *)
(***************************************************************************)
EXTENDS PipelineProofs

-----------------------------------------------------------------------------
(* What the scheduler's operations do to the timestamps of the frames. *)

\* Messages queue only when no time step is free.
QueuesWhenFull(d) == d.queue # <<>> => d.free = 0

\* The frames stay where they are.
SameFrames(d, r) ==
  /\ r.free = d.free
  /\ r.latestRunning = d.latestRunning
  /\ r.runningTs = d.runningTs
  /\ Len(r.queue) = Len(d.queue)
  /\ \A k \in 1..Len(d.queue) :
       r.queue[k].type = d.queue[k].type /\ r.queue[k].ts = d.queue[k].ts

\* The message m is loaded into a time step.
Starts(d, r, m) ==
  /\ r.latestRunning = IF m.type = "DATA" THEN m.ts ELSE d.latestRunning
  /\ \A i \in Steps : r.runningTs[i] \in {d.runningTs[i], m.ts}

\* The message m is queued, or loaded at once.
FrameComes(d, r, m) ==
  \/ /\ r.latestRunning = d.latestRunning
     /\ r.runningTs = d.runningTs
     /\ Len(r.queue) = Len(d.queue) + 1
     /\ \A k \in 1..Len(d.queue) :
          r.queue[k].type = d.queue[k].type /\ r.queue[k].ts = d.queue[k].ts
     /\ r.queue[Len(r.queue)].type = m.type /\ r.queue[Len(r.queue)].ts = m.ts
  \/ d.queue = <<>> /\ r.queue = <<>> /\ Starts(d, r, m)

\* A time step is free for the next message.
FrameLeaves(d, r) ==
  \/ /\ d.queue = <<>> /\ r.queue = <<>>
     /\ r.latestRunning = d.latestRunning
     /\ \A i \in Steps : r.runningTs[i] \in {d.runningTs[i], kTimestampZero}
  \/ /\ d.queue # <<>> /\ r.queue = Tail(d.queue) /\ r.free = d.free
     /\ Starts(d, r, Head(d.queue))

\* Loading a message starts it.
LEMMA LoadStarts ==
  ASSUME NEW d \in Scheduler, NEW r, NEW i \in Steps, NEW m, NEW C, Loads(d, r, i, m, C)
  PROVE  Starts(d, r, m)
BY DEF Loads, Starts, Scheduler

\* A scheduled event comes as a frame does.
LEMMA EnqueueFrames ==
  ASSUME NEW d \in Scheduler, NEW m \in Message, QueuesWhenFull(d)
  PROVE  FrameComes(d, Enqueue(d, m), m) /\ QueuesWhenFull(Enqueue(d, m))
<1> DEFINE r == Enqueue(d, m)
           i == NextTimeStep(d.latest)
<1>1. \/ d.free = 0 /\ r = [d EXCEPT !.queue = Append(d.queue, m)]
      \/ /\ d.free > 0 /\ Loads(d, r, i, m, CommittedSources(m))
         /\ r.queue = <<>>
  BY EnqueueCases DEF QueuesWhenFull
<1>2. i \in Steps
  BY NextTimeStepType DEF Scheduler
<1> SUFFICES FrameComes(d, r, m) /\ QueuesWhenFull(r)
  OBVIOUS
<1> HIDE DEF r, i
<1>3. CASE d.free = 0 /\ r = [d EXCEPT !.queue = Append(d.queue, m)]
  <2>1. /\ r.free = 0 /\ r.latestRunning = d.latestRunning
        /\ r.runningTs = d.runningTs /\ r.queue = Append(d.queue, m)
        /\ d.queue \in Seq(Message)
    BY <1>3 DEF Scheduler
  <2>2. /\ Len(r.queue) = Len(d.queue) + 1 /\ r.queue[Len(r.queue)] = m
        /\ \A k \in 1..Len(d.queue) : r.queue[k] = d.queue[k]
    BY <2>1, AppendProperties
  <2> QED BY <2>1, <2>2 DEF FrameComes, QueuesWhenFull
<1>4. CASE d.free > 0 /\ Loads(d, r, i, m, CommittedSources(m)) /\ r.queue = <<>>
  <2>1. d.queue = <<>>
    BY <1>4, SchedulerAssumption DEF QueuesWhenFull, Scheduler
  <2>2. Starts(d, r, m)
    BY <1>2, <1>4, LoadStarts
  <2> QED BY <1>4, <2>1, <2>2 DEF FrameComes, QueuesWhenFull
<1> QED BY <1>1, <1>3, <1>4

\* The end of a time step lets the next message in.
LEMMA FreeFrames ==
  ASSUME NEW d \in Scheduler, NEW e \in Steps, QueuesWhenFull(d)
  PROVE  FrameLeaves(d, freeTimeStep(d, e)) /\ QueuesWhenFull(freeTimeStep(d, e))
<1> DEFINE r == freeTimeStep(d, e)
<1>1. PICK z : /\ Cleared(d, z, e)
               /\ \/ d.queue = <<>> /\ r = setTaskflowFree(z, e)
                  \/ d.queue # <<>> /\ r = runTaskFlowFromQueue(z)
  BY FreeCases
<1> SUFFICES FrameLeaves(d, r) /\ QueuesWhenFull(r)
  OBVIOUS
<1> HIDE DEF r
<1>2. /\ z \in Scheduler /\ z.free = d.free /\ z.queue = d.queue
      /\ z.runningTs = d.runningTs /\ z.latestRunning = d.latestRunning
  BY <1>1 DEF Cleared
<1>3. CASE d.queue = <<>> /\ r = setTaskflowFree(z, e)
  <2>1. /\ r.queue = z.queue /\ r.latestRunning = z.latestRunning
        /\ \A i \in Steps : r.runningTs[i] \in {z.runningTs[i], kTimestampZero}
    BY <1>2, <1>3 DEF setTaskflowFree, Scheduler
  <2> QED BY <1>2, <1>3, <2>1 DEF FrameLeaves, QueuesWhenFull
<1>4. CASE d.queue # <<>> /\ r = runTaskFlowFromQueue(z)
  <2> DEFINE m == Head(d.queue)
             i == NextTimeStep(z.latest)
  <2>1. /\ Loads(z, r, i, m, CommittedSources(m))
        /\ r.queue = Tail(d.queue) /\ r.free = d.free
    BY <1>2, <1>4, RunFromQueueLoads
  <2>2. i \in Steps
    BY <1>2, NextTimeStepType DEF Scheduler
  <2> HIDE DEF i, m
  <2>3. Starts(z, r, m)
    BY <1>2, <2>1, <2>2, LoadStarts
  <2>4. Starts(d, r, m)
    BY <1>2, <2>3 DEF Starts
  <2> QED BY <1>4, <2>1, <2>4 DEF FrameLeaves, QueuesWhenFull, m
<1> QED BY <1>1, <1>3, <1>4

\* What the sources do to their buffers leaves the frames.
LEMMA CancelKeepsFrames ==
  ASSUME NEW d \in Scheduler, NEW C \in SUBSET Sources, NEW ts \in Int
  PROVE  SameFrames(d, cancelSources(d, C, ts))
<1> DEFINE r == cancelSources(d, C, ts)
<1>1. Cancels(d, r, C, ts)
  BY CancelSourcesCancels
<1> HIDE DEF r
<1>2. SameFrames(d, r)
  BY <1>1 DEF Cancels, SameFrames
<1> QED BY <1>2 DEF r

LEMMA BuffersKeepFrames ==
  ASSUME NEW d \in Scheduler, NEW s \in Sources, NEW i \in Steps, NEW ts \in Int
  PROVE  /\ SameFrames(d, d)
         /\ SameFrames(d, [d EXCEPT !.setInput[i] = @ \cup {s}])
         /\ SameFrames(d, commit(d, s, i, ts))
<1>1. SameFrames(d, d)
  BY DEF SameFrames
<1>2. SameFrames(d, [d EXCEPT !.setInput[i] = @ \cup {s}])
  BY DEF SameFrames, Scheduler
<1>3. SameFrames(d, commit(d, s, i, ts))
  <2> DEFINE r == commit(d, s, i, ts)
  <2>1. /\ r.free = d.free /\ r.latestRunning = d.latestRunning
        /\ r.runningTs = d.runningTs /\ r.queue = d.queue
    BY DEF commit, Scheduler
  <2> SUFFICES SameFrames(d, r)
    OBVIOUS
  <2> HIDE DEF r
  <2> QED BY <2>1 DEF SameFrames
<1> QED BY <1>1, <1>2, <1>3

LEMMA SameFramesAgain ==
  ASSUME NEW d, NEW z, NEW r, SameFrames(d, z), SameFrames(z, r)
  PROVE  SameFrames(d, r)
BY DEF SameFrames

LEMMA SameFramesQueue ==
  ASSUME NEW d \in Scheduler, NEW r \in Scheduler, SameFrames(d, r), QueuesWhenFull(d)
  PROVE  QueuesWhenFull(r)
<1>1. r.queue # <<>> => d.queue # <<>>
  BY DEF SameFrames, Scheduler
<1> QED BY <1>1 DEF SameFrames, QueuesWhenFull

-----------------------------------------------------------------------------
(* The frames stay in order. *)

\* The types of the numbers that the order compares.
LEMMA FrameFields ==
  ASSUME NEW d \in Scheduler, NEW c \in Clock
  PROVE  /\ d.latestRunning \in Int /\ c.expected \in Int /\ c.init \in Int
         /\ \A i \in Steps : d.runningTs[i] \in Int
         /\ d.queue \in Seq(Message) /\ Len(d.queue) \in Nat
         /\ \A k \in 1..Len(d.queue) : d.queue[k] \in Message /\ d.queue[k].ts \in Int
         /\ SensorDelta \in Nat \ {0} /\ MaxOffset \in Nat
<1>1. /\ d.latestRunning \in Int /\ d.queue \in Seq(Message)
      /\ d.runningTs \in [Steps -> Int]
  BY DEF Scheduler
<1>2. c.expected \in Int /\ c.init \in Int
  BY DEF Clock
<1>3. \A k \in 1..Len(d.queue) : d.queue[k] \in Message
  BY <1>1
<1>4. \A m \in Message : m.ts \in Int
  BY DEF Message
<1>5. Len(d.queue) \in Nat
  BY <1>1, LenProperties
<1> QED BY <1>1, <1>2, <1>3, <1>4, <1>5, ClockAssumption

\* The clock goes on, the frames stay.
LEMMA SameFramesInOrder ==
  ASSUME NEW d \in Scheduler, NEW r \in Scheduler, NEW c \in Clock, NEW b \in Clock,
         SameFrames(d, r), FramesInOrder(d, c), c.expected <= b.expected
  PROVE  FramesInOrder(r, b)
<1>0. /\ d.latestRunning \in Int /\ c.expected \in Int
      /\ SensorDelta \in Nat \ {0}
      /\ \A k \in 1..Len(d.queue) : d.queue[k].ts \in Int
  BY FrameFields
<1>1. /\ d.latestRunning \in Int /\ c.expected \in Int /\ b.expected \in Int
      /\ SensorDelta \in Int /\ r.latestRunning = d.latestRunning
      /\ \A k \in 1..Len(d.queue) : d.queue[k].ts \in Int
  BY <1>0 DEF SameFrames, Clock
<1>2. /\ r.latestRunning >= 0
      /\ r.latestRunning > 0 => r.latestRunning + SensorDelta <= b.expected
      /\ \A i \in Steps : r.runningTs[i] <= r.latestRunning
  BY <1>1 DEF SameFrames, FramesInOrder
<1>3. ASSUME NEW k \in 1..Len(r.queue)
      PROVE  IF r.queue[k].type = "DATA"
             THEN /\ r.latestRunning < r.queue[k].ts
                  /\ r.queue[k].ts + SensorDelta <= b.expected
             ELSE r.queue[k].ts = kTimestampZero
  <2>1. /\ k \in 1..Len(d.queue) /\ d.queue[k].ts \in Int
        /\ r.queue[k].type = d.queue[k].type /\ r.queue[k].ts = d.queue[k].ts
    BY <1>1, <1>3 DEF SameFrames
  <2> QED BY <1>1, <2>1 DEF FramesInOrder
<1>4. \A k, l \in 1..Len(r.queue) :
        k < l /\ r.queue[k].type = "DATA" /\ r.queue[l].type = "DATA"
          => r.queue[k].ts < r.queue[l].ts
  BY DEF SameFrames, FramesInOrder
<1> QED BY <1>2, <1>3, <1>4 DEF FramesInOrder

\* A loaded frame is later than those before.
LEMMA StartsInOrder ==
  ASSUME NEW d \in Scheduler, NEW r \in Scheduler, NEW c \in Clock, NEW m \in Message,
         Starts(d, r, m), FramesInOrder(d, c),
         IF m.type = "DATA" THEN m.ts > d.latestRunning /\ m.ts + SensorDelta <= c.expected
         ELSE m.ts = kTimestampZero
  PROVE  /\ r.latestRunning >= 0
         /\ r.latestRunning > 0 => r.latestRunning + SensorDelta <= c.expected
         /\ \A i \in Steps : r.runningTs[i] <= r.latestRunning
<1>1. m.ts \in Int
  BY DEF Message
<1>2. r.latestRunning = IF m.type = "DATA" THEN m.ts ELSE d.latestRunning
  BY DEF Starts
<1>3. d.latestRunning >= 0 /\ d.latestRunning <= r.latestRunning /\ m.ts <= r.latestRunning
  BY <1>1, <1>2, FrameFields DEF FramesInOrder, kTimestampZero
<1>4. ASSUME NEW i \in Steps
      PROVE  r.runningTs[i] <= r.latestRunning
  <2>1. r.runningTs[i] = d.runningTs[i] \/ r.runningTs[i] = m.ts
    BY DEF Starts
  <2>2. d.runningTs[i] <= d.latestRunning
    BY DEF FramesInOrder
  <2> QED BY <1>1, <1>3, <2>1, <2>2, FrameFields
<1>5. r.latestRunning > 0 => r.latestRunning + SensorDelta <= c.expected
  BY <1>2 DEF FramesInOrder
<1> QED BY <1>3, <1>4, <1>5, FrameFields

\* An event comes; a frame is the one that the clock expects.
LEMMA FrameComesInOrder ==
  ASSUME NEW d \in Scheduler, NEW r \in Scheduler, NEW c \in Clock, NEW b \in Clock,
         NEW m \in Message, FrameComes(d, r, m), FramesInOrder(d, c),
         c.expected <= b.expected,
         IF m.type = "DATA"
         THEN m.ts = c.expected /\ m.ts > 0 /\ m.ts + SensorDelta <= b.expected
         ELSE m.ts = kTimestampZero
  PROVE  FramesInOrder(r, b)
<1>1. m.ts \in Int /\ FramesInOrder(d, b)
  BY SameFramesInOrder DEF Message, SameFrames
<1>2. m.type = "DATA" => m.ts > d.latestRunning
  BY <1>1, FrameFields DEF FramesInOrder
<1>3. CASE d.queue = <<>> /\ r.queue = <<>> /\ Starts(d, r, m)
  <2>1. /\ r.latestRunning >= 0
        /\ r.latestRunning > 0 => r.latestRunning + SensorDelta <= b.expected
        /\ \A i \in Steps : r.runningTs[i] <= r.latestRunning
    BY <1>1, <1>2, <1>3, StartsInOrder
  <2>2. 1..Len(r.queue) = {}
    BY <1>3
  <2> QED BY <2>1, <2>2 DEF FramesInOrder
<1>4. CASE /\ r.latestRunning = d.latestRunning
           /\ r.runningTs = d.runningTs
           /\ Len(r.queue) = Len(d.queue) + 1
           /\ \A k \in 1..Len(d.queue) :
                r.queue[k].type = d.queue[k].type /\ r.queue[k].ts = d.queue[k].ts
           /\ r.queue[Len(r.queue)].type = m.type /\ r.queue[Len(r.queue)].ts = m.ts
  <2>1. /\ Len(r.queue) = Len(d.queue) + 1 /\ Len(d.queue) \in Nat
        /\ r.queue[Len(d.queue) + 1].type = m.type /\ r.queue[Len(d.queue) + 1].ts = m.ts
        /\ \A k \in 1..Len(d.queue) :
             /\ r.queue[k].type = d.queue[k].type /\ r.queue[k].ts = d.queue[k].ts
             /\ d.queue[k].ts \in Int
    BY <1>4, FrameFields
  <2>2. ASSUME NEW k \in 1..Len(r.queue)
        PROVE  IF r.queue[k].type = "DATA"
               THEN /\ r.latestRunning < r.queue[k].ts
                    /\ r.queue[k].ts + SensorDelta <= b.expected
               ELSE r.queue[k].ts = kTimestampZero
    <3>1. CASE k \in 1..Len(d.queue)
      <4>1. IF d.queue[k].type = "DATA"
            THEN /\ d.latestRunning < d.queue[k].ts
                 /\ d.queue[k].ts + SensorDelta <= b.expected
            ELSE d.queue[k].ts = kTimestampZero
        BY <1>1, <3>1 DEF FramesInOrder
      <4> QED BY <1>4, <2>1, <3>1, <4>1
    <3>2. CASE k = Len(d.queue) + 1
      BY <1>1, <1>2, <1>4, <2>1, <3>2, FrameFields
    <3> QED BY <2>1, <3>1, <3>2, FrameFields
  <2>3. ASSUME NEW k \in 1..Len(r.queue), NEW l \in 1..Len(r.queue), k < l,
               r.queue[k].type = "DATA", r.queue[l].type = "DATA"
        PROVE  r.queue[k].ts < r.queue[l].ts
    <3>1. k \in 1..Len(d.queue) /\ Len(d.queue) \in Nat
      BY <2>1, <2>3, FrameFields
    <3>2. CASE l \in 1..Len(d.queue)
      BY <1>1, <2>1, <2>3, <3>1, <3>2 DEF FramesInOrder
    <3>3. CASE l = Len(d.queue) + 1
      <4>1. d.queue[k].ts + SensorDelta <= c.expected
        BY <2>1, <2>3, <3>1 DEF FramesInOrder
      <4>2. r.queue[l].ts = c.expected
        BY <2>1, <2>3, <3>3
      <4>3. r.queue[k].ts + SensorDelta <= c.expected /\ r.queue[k].ts \in Int
        BY <2>1, <3>1, <4>1, FrameFields
      <4> QED BY <4>2, <4>3, FrameFields
    <3> QED BY <2>1, <3>1, <3>2, <3>3
  <2> QED BY <1>1, <1>4, <2>2, <2>3 DEF FramesInOrder
<1> QED BY <1>3, <1>4 DEF FrameComes

\* The next message is loaded.
LEMMA FrameLeavesInOrder ==
  ASSUME NEW d \in Scheduler, NEW r \in Scheduler, NEW c \in Clock,
         FrameLeaves(d, r), FramesInOrder(d, c)
  PROVE  FramesInOrder(r, c)
<1>1. CASE /\ d.queue = <<>> /\ r.queue = <<>>
           /\ r.latestRunning = d.latestRunning
           /\ \A i \in Steps : r.runningTs[i] \in {d.runningTs[i], kTimestampZero}
  <2>1. 1..Len(r.queue) = {}
    BY <1>1
  <2>2. ASSUME NEW i \in Steps
        PROVE  r.runningTs[i] <= r.latestRunning
    <3>1. r.runningTs[i] = d.runningTs[i] \/ r.runningTs[i] = 0
      BY <1>1 DEF kTimestampZero
    <3> QED BY <1>1, <3>1, FrameFields DEF FramesInOrder
  <2> QED BY <1>1, <2>1, <2>2 DEF FramesInOrder
<1>2. CASE d.queue # <<>> /\ r.queue = Tail(d.queue) /\ Starts(d, r, Head(d.queue))
  <2> DEFINE m == Head(d.queue)
  <2>1. /\ Len(r.queue) = Len(d.queue) - 1 /\ m = d.queue[1] /\ 1 \in 1..Len(d.queue)
        /\ \A k \in 1..Len(r.queue) :
             r.queue[k] = d.queue[k + 1] /\ k + 1 \in 1..Len(d.queue) /\ 1 < k + 1
    BY <1>2, FrameFields, HeadTailProperties
  <2>2. m \in Message
    BY <2>1, FrameFields
  <2> HIDE DEF m
  <2>3. Starts(d, r, m)
    BY <1>2 DEF m
  <2>4. IF m.type = "DATA" THEN m.ts > d.latestRunning /\ m.ts + SensorDelta <= c.expected
        ELSE m.ts = kTimestampZero
    BY <2>1, FrameFields DEF FramesInOrder
  <2>5. /\ r.latestRunning >= 0
        /\ r.latestRunning > 0 => r.latestRunning + SensorDelta <= c.expected
        /\ \A i \in Steps : r.runningTs[i] <= r.latestRunning
    BY <2>2, <2>3, <2>4, StartsInOrder
  <2>6. ASSUME NEW k \in 1..Len(r.queue)
        PROVE  IF r.queue[k].type = "DATA"
               THEN /\ r.latestRunning < r.queue[k].ts
                    /\ r.queue[k].ts + SensorDelta <= c.expected
               ELSE r.queue[k].ts = kTimestampZero
    <3>1. r.queue[k] = d.queue[k + 1] /\ k + 1 \in 1..Len(d.queue) /\ 1 < k + 1
      BY <2>1
    <3>2. r.latestRunning = IF m.type = "DATA" THEN m.ts ELSE d.latestRunning
      BY <2>3 DEF Starts
    <3>3. CASE r.queue[k].type = "DATA"
      <4>1. /\ d.latestRunning < d.queue[k + 1].ts
            /\ d.queue[k + 1].ts + SensorDelta <= c.expected
        BY <3>1, <3>3 DEF FramesInOrder
      <4>2. m.type = "DATA" => m.ts < d.queue[k + 1].ts
        BY <2>1, <3>1, <3>3 DEF FramesInOrder
      <4> QED BY <3>1, <3>2, <3>3, <4>1, <4>2
    <3>4. CASE r.queue[k].type # "DATA"
      BY <3>1, <3>4 DEF FramesInOrder
    <3> QED BY <3>3, <3>4
  <2>7. ASSUME NEW k \in 1..Len(r.queue), NEW l \in 1..Len(r.queue), k < l,
               r.queue[k].type = "DATA", r.queue[l].type = "DATA"
        PROVE  r.queue[k].ts < r.queue[l].ts
    <3>1. k + 1 < l + 1
      BY <2>7
    <3> QED BY <2>1, <2>7, <3>1 DEF FramesInOrder
  <2> QED BY <2>5, <2>6, <2>7 DEF FramesInOrder
<1> QED BY <1>1, <1>2 DEF FrameLeaves

\* Operations that leave the frames alone change nothing for those that come.
LEMMA SameFramesThenComes ==
  ASSUME NEW d \in Scheduler, NEW z \in Scheduler, NEW r, NEW m,
         SameFrames(d, z), FrameComes(z, r, m)
  PROVE  FrameComes(d, r, m)
<1>1. /\ z.latestRunning = d.latestRunning /\ z.runningTs = d.runningTs
      /\ Len(z.queue) = Len(d.queue)
      /\ \A k \in 1..Len(d.queue) :
           z.queue[k].type = d.queue[k].type /\ z.queue[k].ts = d.queue[k].ts
  BY DEF SameFrames
<1>2. z.queue = <<>> => d.queue = <<>>
  BY <1>1 DEF Scheduler
<1>3. CASE z.queue = <<>> /\ r.queue = <<>> /\ Starts(z, r, m)
  BY <1>1, <1>2, <1>3 DEF Starts, FrameComes
<1>4. CASE /\ r.latestRunning = z.latestRunning
           /\ r.runningTs = z.runningTs
           /\ Len(r.queue) = Len(z.queue) + 1
           /\ \A k \in 1..Len(z.queue) :
                r.queue[k].type = z.queue[k].type /\ r.queue[k].ts = z.queue[k].ts
           /\ r.queue[Len(r.queue)].type = m.type /\ r.queue[Len(r.queue)].ts = m.ts
  BY <1>1, <1>4 DEF FrameComes
<1> QED BY <1>3, <1>4 DEF FrameComes

-----------------------------------------------------------------------------
(* What a source waits for goes on to be there. *)

\* The frame of the timestamp is queued, or it was loaded.
WaitsFor(d, ts) == d.latestRunning >= ts - 2 * MaxOffset \/ isTimestampScheduled(d, ts)

LEMMA SameFramesWait ==
  ASSUME NEW d, NEW r, NEW ts \in Int, SameFrames(d, r)
  PROVE  /\ WaitsFor(d, ts) => WaitsFor(r, ts)
         /\ isTimestampScheduled(d, ts) => WaitsFor(r, ts)
BY DEF SameFrames, WaitsFor, isTimestampScheduled

\* An event that comes is the one the source waits for, or a later one.
LEMMA FrameComesWait ==
  ASSUME NEW d \in Scheduler, NEW r \in Scheduler, NEW c \in Clock, NEW m \in Message,
         FrameComes(d, r, m), NEW ts \in Int,
         m.type = "DATA" => m.ts >= d.latestRunning
  PROVE  /\ WaitsFor(d, ts) => WaitsFor(r, ts)
         /\ m.type = "DATA" /\ isWithinRange(m.ts, ts) => WaitsFor(r, ts)
<1>1. /\ m.ts \in Int /\ d.latestRunning \in Int /\ MaxOffset \in Nat
      /\ Len(d.queue) \in Nat
  BY FrameFields DEF Message
<1>2. CASE d.queue = <<>> /\ r.queue = <<>> /\ Starts(d, r, m)
  <2>1. r.latestRunning = IF m.type = "DATA" THEN m.ts ELSE d.latestRunning
    BY <1>2 DEF Starts
  <2>2. ~isTimestampScheduled(d, ts)
    BY <1>2 DEF isTimestampScheduled
  <2> QED BY <1>1, <2>1, <2>2 DEF WaitsFor, isWithinRange
<1>3. CASE /\ r.latestRunning = d.latestRunning
           /\ Len(r.queue) = Len(d.queue) + 1
           /\ \A k \in 1..Len(d.queue) :
                r.queue[k].type = d.queue[k].type /\ r.queue[k].ts = d.queue[k].ts
           /\ r.queue[Len(r.queue)].type = m.type /\ r.queue[Len(r.queue)].ts = m.ts
  <2>1. Len(r.queue) \in 1..Len(r.queue) /\ \A k \in 1..Len(d.queue) : k \in 1..Len(r.queue)
    BY <1>1, <1>3
  <2>2. isTimestampScheduled(d, ts) => isTimestampScheduled(r, ts)
    BY <1>3, <2>1 DEF isTimestampScheduled
  <2>3. isWithinRange(m.ts, ts) => isTimestampScheduled(r, ts)
    BY <1>3, <2>1 DEF isTimestampScheduled
  <2> QED BY <1>3, <2>2, <2>3 DEF WaitsFor
<1> QED BY <1>2, <1>3 DEF FrameComes

\* When a queued frame is loaded, the source goes on.
LEMMA FrameLeavesWait ==
  ASSUME NEW d \in Scheduler, NEW r \in Scheduler, NEW c \in Clock,
         FrameLeaves(d, r), FramesInOrder(d, c),
         NEW ts \in Int, ts > 2 * MaxOffset, WaitsFor(d, ts)
  PROVE  WaitsFor(r, ts)
<1>1. d.latestRunning \in Int /\ MaxOffset \in Nat
  BY FrameFields
<1>2. CASE d.queue = <<>> /\ r.latestRunning = d.latestRunning
  <2>1. ~isTimestampScheduled(d, ts)
    BY <1>2 DEF isTimestampScheduled
  <2> QED BY <1>2, <2>1 DEF WaitsFor
<1>3. CASE d.queue # <<>> /\ r.queue = Tail(d.queue) /\ Starts(d, r, Head(d.queue))
  <2>1. /\ Len(r.queue) = Len(d.queue) - 1 /\ Head(d.queue) = d.queue[1]
        /\ Len(d.queue) \in Nat /\ Len(d.queue) >= 1
        /\ \A k \in 1..Len(r.queue) : r.queue[k] = d.queue[k + 1]
    BY <1>3, FrameFields, HeadTailProperties
  <2>2. r.latestRunning = IF d.queue[1].type = "DATA" THEN d.queue[1].ts
                          ELSE d.latestRunning
    BY <1>3, <2>1 DEF Starts
  <2>3. /\ d.queue[1].ts \in Int
        /\ IF d.queue[1].type = "DATA" THEN d.latestRunning < d.queue[1].ts
           ELSE d.queue[1].ts = 0
    BY <2>1, FrameFields DEF FramesInOrder, kTimestampZero
  <2>4. CASE d.latestRunning >= ts - 2 * MaxOffset
    BY <1>1, <2>2, <2>3, <2>4 DEF WaitsFor
  <2>5. CASE isTimestampScheduled(d, ts)
    <3>1. PICK k \in 1..Len(d.queue) : isWithinRange(d.queue[k].ts, ts)
      BY <2>5 DEF isTimestampScheduled
    <3>2. CASE k = 1
      BY <1>1, <2>2, <2>3, <3>1, <3>2 DEF isWithinRange, WaitsFor
    <3>3. CASE k # 1
      <4>1. k - 1 \in 1..Len(r.queue) /\ r.queue[k - 1] = d.queue[k]
        BY <2>1, <3>3
      <4> QED BY <3>1, <4>1 DEF isTimestampScheduled, WaitsFor
    <3> QED BY <3>2, <3>3
  <2> QED BY <2>4, <2>5 DEF WaitsFor
<1> QED BY <1>2, <1>3 DEF FrameLeaves

-----------------------------------------------------------------------------
(* What the steps do to the frames and to the sources. *)

\* What a request does to the frames.
LEMMA RequestFrames ==
  ASSUME TypeOK, SourceMode = "WAIT_FOR_BUFFER", QueuesWhenFull(sched),
         NEW s \in Sources, NEW ts \in Timestamps, RequestSourceBuffer(s, ts)
  PROVE  /\ QueuesWhenFull(sched')
         /\ \/ SameFrames(sched, sched')
            \/ FrameComes(sched, sched',
                          ScheduledEvent("DATA", newTimestamp(clock, ts).expected))
<1> DEFINE c == newTimestamp(clock, ts)
           d == cancelOlderEvents(s, ts)
           m == ScheduledEvent("DATA", c.expected)
<1>1. sched \in Scheduler /\ ts \in Int
  BY TimeDomainAssumption DEF TypeOK
<1>2. d \in Scheduler /\ SameFrames(sched, d)
  BY <1>1, CancelSourcesType, CancelKeepsFrames DEF cancelOlderEvents
<1>3. m \in Message
  <2>1. c \in Clock
    BY <1>1, ClockType DEF TypeOK
  <2> QED BY <2>1, MessageType DEF Clock, EventType
<1> SUFFICES QueuesWhenFull(sched')
             /\ (SameFrames(sched, sched') \/ FrameComes(sched, sched', m))
  OBVIOUS
<1> HIDE DEF c, d, m
<1>4. QueuesWhenFull(d)
  BY <1>1, <1>2, SameFramesQueue
<1>5. CASE sched' = sched
  BY <1>1, <1>5, BuffersKeepFrames DEF SameFrames
<1>6. CASE sched' = d
  BY <1>2, <1>4, <1>6
<1>7. ASSUME NEW i \in Steps, sched' = [d EXCEPT !.setInput[i] = @ \cup {s}]
      PROVE  QueuesWhenFull(sched') /\ SameFrames(sched, sched')
  <2>1. SameFrames(d, sched') /\ sched' \in Scheduler
    BY <1>1, <1>2, <1>7, BuffersKeepFrames, CommitType
  <2> QED BY <1>1, <1>2, <1>4, <2>1, SameFramesAgain, SameFramesQueue
<1>8. CASE sched' = Enqueue(d, m)
  <2>1. FrameComes(d, sched', m) /\ QueuesWhenFull(sched')
    BY <1>2, <1>3, <1>4, <1>8, EnqueueFrames
  <2> QED BY <1>1, <1>2, <2>1, SameFramesThenComes
<1>9. \/ sched' = sched \/ sched' = d \/ sched' = Enqueue(d, m)
      \/ \E i \in Steps : sched' = [d EXCEPT !.setInput[i] = @ \cup {s}]
  <2>1. CASE RequestInvalid(s, ts)
    BY <2>1 DEF RequestInvalid
  <2>2. CASE RequestRunning(s, ts)
    BY <2>2 DEF RequestRunning, d
  <2>3. CASE RequestScheduled(s, ts) \/ RequestAfterStop(s, ts)
    BY <2>3 DEF RequestScheduled, RequestAfterStop, d
  <2>4. CASE RequestNewTimestampWait(s, ts)
    BY <2>4 DEF RequestNewTimestampWait, scheduleEvent, c, d, m
  <2>5. ~RequestNewTimestampImmediate(s, ts)
    BY DEF RequestNewTimestampImmediate
  <2> QED BY <2>1, <2>2, <2>3, <2>4, <2>5 DEF RequestSourceBuffer
<1> QED BY <1>5, <1>6, <1>7, <1>8, <1>9

\* A request that schedules a frame moves the clock.
LEMMA RequestAdvances ==
  ASSUME TypeOK, SourceMode = "WAIT_FOR_BUFFER", QueuesWhenFull(sched),
         NEW s \in Sources, NEW ts \in Timestamps, RequestSourceBuffer(s, ts),
         ~SameFrames(sched, sched')
  PROVE  clock' = advanceTimeStep(newTimestamp(clock, ts))
<1> DEFINE d == cancelOlderEvents(s, ts)
<1>1. sched \in Scheduler /\ ts \in Int
  BY TimeDomainAssumption DEF TypeOK
<1>2. d \in Scheduler /\ SameFrames(sched, d)
  BY <1>1, CancelSourcesType, CancelKeepsFrames DEF cancelOlderEvents
<1> HIDE DEF d
<1>3. sched' # sched /\ sched' # d
  BY <1>2 DEF SameFrames
<1>4. ASSUME NEW i \in Steps
      PROVE  sched' # [d EXCEPT !.setInput[i] = @ \cup {s}]
  BY <1>1, <1>2, BuffersKeepFrames, SameFramesAgain
<1>5. ~RequestInvalid(s, ts)
  BY <1>3 DEF RequestInvalid
<1>6. ~RequestRunning(s, ts)
  BY <1>4 DEF RequestRunning, d
<1>7. ~RequestScheduled(s, ts) /\ ~RequestAfterStop(s, ts)
  BY <1>3 DEF RequestScheduled, RequestAfterStop, d
<1>8. ~RequestNewTimestampImmediate(s, ts)
  BY DEF RequestNewTimestampImmediate
<1>9. RequestNewTimestampWait(s, ts)
  BY <1>5, <1>6, <1>7, <1>8 DEF RequestSourceBuffer
<1> QED BY <1>3, <1>9 DEF RequestNewTimestampWait, d

\* What the padding loop does to them.
LEMMA PaddingFrames ==
  ASSUME TypeOK, QueuesWhenFull(sched), NEW s \in Sources, Padding(s) \/ PaddingDone(s)
  PROVE  /\ QueuesWhenFull(sched')
         /\ \E m \in Message :
              m.type = "DATA" /\ m.ts = clock.expected /\ FrameComes(sched, sched', m)
<1>1. sched \in Scheduler /\ clock.expected \in Int
  BY DEF TypeOK, Clock
<1> DEFINE m == ScheduledEvent("DATA", clock.expected)
           p == [m EXCEPT !.invalid[s] = 1]
<1>2. m \in Message /\ p \in Message
  BY <1>1, MessageType DEF EventType
<1>3. /\ m.type = "DATA" /\ m.ts = clock.expected
      /\ p.type = "DATA" /\ p.ts = clock.expected
  BY DEF ScheduledEvent
<1>4. sched' = Enqueue(sched, m) \/ sched' = Enqueue(sched, p)
  BY DEF Padding, PaddingDone, scheduleEvent, schedulePaddingEvent
<1> HIDE DEF m, p
<1> QED BY <1>1, <1>2, <1>3, <1>4, EnqueueFrames

\* What the other steps do to them: only the requests schedule frames.
LEMMA OtherFrames ==
  ASSUME TypeOK, QueuesWhenFull(sched), [Next]_vars,
         ~ \E s \in Sources, ts \in Timestamps : RequestSourceBuffer(s, ts),
         ~ \E s \in Sources : Padding(s) \/ PaddingDone(s)
  PROVE  /\ QueuesWhenFull(sched')
         /\ \/ SameFrames(sched, sched')
            \/ \E m \in Message :
                 /\ m.type # "DATA" /\ m.ts = kTimestampZero
                 /\ FrameComes(sched, sched', m)
            \/ FrameLeaves(sched, sched')
<1> DEFINE Fine == /\ QueuesWhenFull(sched')
                   /\ \/ SameFrames(sched, sched')
                      \/ \E m \in Message :
                           /\ m.type # "DATA" /\ m.ts = kTimestampZero
                           /\ FrameComes(sched, sched', m)
                      \/ FrameLeaves(sched, sched')
<1>1. sched \in Scheduler /\ sched' \in Scheduler
  BY TypeStep DEF TypeOK
<1>2. ASSUME sched' = sched
      PROVE  Fine
  BY <1>2 DEF SameFrames
<1>3. ASSUME SameFrames(sched, sched')
      PROVE  Fine
  BY <1>1, <1>3, SameFramesQueue
<1>4. ASSUME NEW s \in Sources, SourceNext(s)
      PROVE  Fine
  <2>1. src[s].step \in Steps /\ src[s].ts \in Int
    BY SourceFields
  <2>2. CASE WaitForRunning(s) \/ PlayerExit(s)
    BY <1>2, <2>2 DEF WaitForRunning, PlayerExit, schedVars
  <2>3. CASE ClaimSourceBuffer(s)
    <3>1. \/ sched' = sched
          \/ sched' = [sched EXCEPT !.setInput[src[s].step] = @ \cup {s}]
      BY <2>3 DEF ClaimSourceBuffer
    <3> QED BY <1>1, <1>2, <1>3, <2>1, <3>1, BuffersKeepFrames
  <2>4. CASE Commit(s)
    <3>1. sched' = commit(sched, s, src[s].step, src[s].ts)
      BY <2>4 DEF Commit
    <3> QED BY <1>1, <1>3, <2>1, <3>1, BuffersKeepFrames
  <2> QED BY <1>4, <2>2, <2>3, <2>4 DEF SourceNext
<1>5. ASSUME NEW i \in Steps, TaskflowNext(i)
      PROVE  Fine
  <2>1. CASE timeStepEnded(i)
    <3>1. sched' = freeTimeStep(sched, i)
      BY <2>1 DEF timeStepEnded
    <3> QED BY <1>1, <3>1, FreeFrames
  <2>2. CASE ~timeStepEnded(i)
    BY <1>2, <1>5, <2>2 DEF TaskflowNext, SeamEntry, SinkTask, StopPlayer, SourceTask,
                            schedVars
  <2> QED BY <2>1, <2>2
<1>6. CASE (\E r \in Rings : SerialSeam(r)) \/ StartSeam \/ UNCHANGED vars
  BY <1>2, <1>6 DEF SerialSeam, StartSeam, vars, schedVars
<1>7. CASE AppNext \/ ParameterChanged
  <2>1. \/ sched' = sched
        \/ sched' = cancelSources(sched, Sources, Now)
        \/ \E type \in EventType \ {"DATA"} :
             sched' = scheduleEvent(sched, type, kTimestampZero)
    BY <1>7 DEF AppNext, ParameterChanged, AppLaunch, AppConfigure, AppStart, AppStarted,
                AppStop, AppStopTimeout, AppTeardown, AppTornDown, AppFlush, AppFinish,
                scheduleNonDataEvent, schedVars, EventType
  <2>2. CASE sched' = cancelSources(sched, Sources, Now)
    <3>1. Now \in Int
      BY TimeDomainAssumption
    <3>2. SameFrames(sched, cancelSources(sched, Sources, Now))
      BY <1>1, <3>1, CancelKeepsFrames
    <3> QED BY <1>3, <2>2, <3>2
  <2>3. ASSUME NEW type \in EventType \ {"DATA"},
               sched' = scheduleEvent(sched, type, kTimestampZero)
        PROVE  Fine
    <3> DEFINE m == ScheduledEvent(type, kTimestampZero)
    <3>1. m \in Message
      BY MessageType DEF kTimestampZero
    <3>2. m.type = type /\ m.ts = kTimestampZero
      BY DEF ScheduledEvent
    <3>3. sched' = Enqueue(sched, m)
      BY <2>3 DEF scheduleEvent
    <3> HIDE DEF m
    <3> QED BY <1>1, <3>1, <3>2, <3>3, EnqueueFrames
  <2> QED BY <1>2, <2>1, <2>2, <2>3
<1> QED BY <1>4, <1>5, <1>6, <1>7 DEF Next

\* And what they do to the sources.
LEMMA OthersLeaveSources ==
  ASSUME TypeOK, [Next]_vars,
         ~ \E s \in Sources, ts \in Timestamps : RequestSourceBuffer(s, ts),
         ~ \E s \in Sources : Padding(s) \/ PaddingDone(s)
  PROVE  /\ latestComponentTs' = latestComponentTs
         /\ stopScheduled => stopScheduled'
         /\ \A s \in Sources :
              /\ src'[s].ts = src[s].ts
              /\ src'[s].pc # src[s].pc =>
                   /\ src[s].pc \notin {"pad", "padded", "refused"}
                   /\ src'[s].pc \in {"off", "idle", "found", "holding"}
                   /\ src'[s].pc \in {"found", "holding"} => src[s].pc \in {"waiting", "found"}
                   /\ src[s].pc = "waiting" =>
                        sched.latestRunning >= src[s].ts - 2 * MaxOffset
<1>1. src \in [Sources -> [pc : SourcePc, ts : Int, step : Steps, run : BOOLEAN]]
  BY DEF TypeOK
<1> DEFINE Fine(s) ==
             /\ src'[s].ts = src[s].ts
             /\ src'[s].pc # src[s].pc =>
                  /\ src[s].pc \notin {"pad", "padded", "refused"}
                  /\ src'[s].pc \in {"off", "idle", "found", "holding"}
                  /\ src'[s].pc \in {"found", "holding"} => src[s].pc \in {"waiting", "found"}
                  /\ src[s].pc = "waiting" =>
                       sched.latestRunning >= src[s].ts - 2 * MaxOffset
           Same == /\ latestComponentTs' = latestComponentTs
                   /\ stopScheduled => stopScheduled'
                   /\ \A s \in Sources : Fine(s)
<1>2. ASSUME NEW s \in Sources, SourceNext(s) PROVE Same
  <2>1. CASE WaitForRunning(s)
    BY <1>1, <2>1 DEF WaitForRunning, schedVars, requestVars
  <2>2. CASE ClaimSourceBuffer(s)
    BY <1>1, <2>2 DEF ClaimSourceBuffer, requestVars
  <2>3. CASE Commit(s)
    BY <1>1, <2>3 DEF Commit, requestVars
  <2>4. CASE PlayerExit(s)
    BY <1>1, <2>4 DEF PlayerExit, schedVars, requestVars
  <2> QED BY <1>2, <2>1, <2>2, <2>3, <2>4 DEF SourceNext
<1>3. ASSUME NEW i \in Steps, TaskflowNext(i) PROVE Same
  <2>1. CASE SeamEntry(i) \/ SinkTask(i) \/ timeStepEnded(i)
    BY <2>1 DEF SeamEntry, SinkTask, timeStepEnded, schedVars, requestVars
  <2>2. ASSUME NEW s \in Sources, StopPlayer(s, i) PROVE Same
    BY <1>1, <2>2 DEF StopPlayer, schedVars, requestVars
  <2>3. ASSUME NEW s \in Sources, SourceTask(s, i) PROVE Same
    BY <1>1, <2>3 DEF SourceTask, schedVars, requestVars
  <2> QED BY <1>3, <2>1, <2>2, <2>3 DEF TaskflowNext
<1>4. CASE (\E r \in Rings : SerialSeam(r)) \/ StartSeam \/ UNCHANGED vars
  BY <1>4 DEF SerialSeam, StartSeam, vars, schedVars, requestVars
<1>5. CASE AppNext \/ ParameterChanged
  <2>1. UNCHANGED <<src, latestComponentTs>>
    BY <1>5 DEF AppNext, ParameterChanged, AppLaunch, AppConfigure, AppStart, AppStarted,
                AppStop, AppStopTimeout, AppTeardown, AppTornDown, AppFlush, AppFinish,
                scheduleNonDataEvent, schedVars, requestVars
  <2>2. stopScheduled => stopScheduled'
    BY <1>5 DEF AppNext, ParameterChanged, AppLaunch, AppConfigure, AppStart, AppStarted,
                AppStop, AppStopTimeout, AppTeardown, AppTornDown, AppFlush, AppFinish,
                scheduleNonDataEvent, schedVars
  <2> QED BY <2>1, <2>2
<1> QED BY <1>2, <1>3, <1>4, <1>5 DEF Next

-----------------------------------------------------------------------------
(* The frames and the clock stay in order. *)

LEMMA FrameStep ==
  ASSUME SteadyClock, PreciseClock, SourceMode = "WAIT_FOR_BUFFER", FrameInv, [Next]_vars
  PROVE  FrameInv'
<1>1. /\ TypeOK /\ TypeOK' /\ ClockStarts /\ ClockStarts'
      /\ clock.expected <= clock'.expected
      /\ QueuesWhenFull(sched) /\ FramesInOrder(sched, clock)
  BY TypeStep, ClockStartsStep DEF FrameInv, QueuesWhenFull
<1>2. /\ sched \in Scheduler /\ sched' \in Scheduler /\ clock \in Clock /\ clock' \in Clock
      /\ clock.delta = SensorDelta /\ SensorDelta \in Nat \ {0}
      /\ clock.expected \in Int /\ clock'.expected \in Int
  BY <1>1, ClockAssumption DEF TypeOK, ClockStarts, Clock
<1> SUFFICES QueuesWhenFull(sched') /\ FramesInOrder(sched', clock')
  BY <1>1 DEF FrameInv, QueuesWhenFull
<1>3. ASSUME SameFrames(sched, sched')
      PROVE  FramesInOrder(sched', clock')
  BY <1>1, <1>2, <1>3, SameFramesInOrder
<1>4. ASSUME NEW c \in Clock, NEW m \in Message, FramesInOrder(sched, c),
             c.delta = SensorDelta, c.expected > 0,
             m.type = "DATA", m.ts = c.expected, FrameComes(sched, sched', m),
             clock' = advanceTimeStep(c)
      PROVE  FramesInOrder(sched', clock')
  <2>1. clock'.expected = c.expected + SensorDelta /\ c.expected \in Int
    BY <1>4, NextFrame DEF Clock
  <2> QED BY <1>2, <1>4, <2>1, FrameComesInOrder
<1>5. ASSUME NEW s \in Sources, NEW ts \in Timestamps, RequestSourceBuffer(s, ts)
      PROVE  QueuesWhenFull(sched') /\ FramesInOrder(sched', clock')
  <2> DEFINE c == newTimestamp(clock, ts)
             m == ScheduledEvent("DATA", c.expected)
  <2>1. /\ QueuesWhenFull(sched')
        /\ SameFrames(sched, sched') \/ FrameComes(sched, sched', m)
    BY <1>1, <1>5, RequestFrames
  <2>2. CASE SameFrames(sched, sched')
    BY <1>3, <2>1, <2>2
  <2>3. CASE ~SameFrames(sched, sched')
    <3>1. clock' = advanceTimeStep(c)
      BY <1>1, <1>5, <2>3, RequestAdvances
    <3>2. /\ c \in Clock /\ c.delta = SensorDelta /\ c.expected > 0
          /\ clock.expected <= c.expected /\ c.expected \in Int
      BY <1>1, <1>2, ClockOfRequest DEF Clock
    <3>3. m \in Message /\ m.type = "DATA" /\ m.ts = c.expected
      BY <3>2, MessageType DEF EventType, ScheduledEvent
    <3> HIDE DEF c, m
    <3>4. FramesInOrder(sched, c)
      BY <1>1, <1>2, <3>2, SameFramesInOrder DEF SameFrames
    <3> QED BY <1>4, <2>1, <2>3, <3>1, <3>2, <3>3, <3>4
  <2> QED BY <2>2, <2>3
<1>6. ASSUME NEW s \in Sources, Padding(s) \/ PaddingDone(s)
      PROVE  QueuesWhenFull(sched') /\ FramesInOrder(sched', clock')
  <2>1. PICK m \in Message : /\ m.type = "DATA" /\ m.ts = clock.expected
                             /\ FrameComes(sched, sched', m)
    BY <1>1, <1>6, PaddingFrames
  <2>2. QueuesWhenFull(sched')
    BY <1>1, <1>6, PaddingFrames
  <2>3. clock' = advanceTimeStep(clock) /\ ~RequestMutexFree
    BY <1>6 DEF Padding, PaddingDone, RequestMutexFree
  <2>4. clock.expected > 0
    BY <1>1, <2>3 DEF ClockStarts
  <2> QED BY <1>1, <1>2, <1>4, <2>1, <2>2, <2>3, <2>4
<1>7. CASE /\ ~ \E s \in Sources, ts \in Timestamps : RequestSourceBuffer(s, ts)
           /\ ~ \E s \in Sources : Padding(s) \/ PaddingDone(s)
  <2>1. clock' = clock
    BY <1>1, <1>7, OthersLeaveClock
  <2>2. /\ QueuesWhenFull(sched')
        /\ \/ SameFrames(sched, sched')
           \/ \E m \in Message :
                /\ m.type # "DATA" /\ m.ts = kTimestampZero
                /\ FrameComes(sched, sched', m)
           \/ FrameLeaves(sched, sched')
    BY <1>1, <1>7, OtherFrames
  <2>3. ASSUME NEW m \in Message, m.type # "DATA", m.ts = kTimestampZero,
               FrameComes(sched, sched', m)
        PROVE  FramesInOrder(sched', clock')
    BY <1>1, <1>2, <2>3, FrameComesInOrder
  <2>4. CASE FrameLeaves(sched, sched')
    BY <1>1, <1>2, <2>1, <2>2, <2>4, FrameLeavesInOrder
  <2> QED BY <1>3, <2>2, <2>3, <2>4
<1> QED BY <1>5, <1>6, <1>7

LEMMA FrameInit ==
  ASSUME Init
  PROVE  FrameInv
<1>1. sched.queue = <<>> /\ Len(sched.queue) = 0 /\ 1..Len(sched.queue) = {}
  BY DEF Init, InitialScheduler
<1>2. sched.latestRunning = 0 /\ \A i \in Steps : sched.runningTs[i] = 0
  BY DEF Init, InitialScheduler, kTimestampZero
<1>3. FramesInOrder(sched, clock)
  BY <1>1, <1>2 DEF FramesInOrder
<1>4. ClockStarts
  BY DEF Init, InitialClock, ClockStarts, RequestMutexFree, kTimestampZero
<1> QED BY <1>1, <1>3, <1>4, TypeInit DEF FrameInv

-----------------------------------------------------------------------------
(* A request and the frame that the clock expects. *)

\* A timestamp of the grid that may be at most one frame late.
LEMMA OneFrameAhead ==
  ASSUME FramesApart, NEW e \in Int, NEW ts \in Int, SameGrid(e, ts),
         e + 2 * MaxOffset < ts, ts <= e + SensorDelta + 4 * MaxOffset
  PROVE  isWithinRange(e + SensorDelta, ts)
<1>1. SensorDelta \in Nat \ {0} /\ MaxOffset \in Nat
  BY ClockAssumption
<1>2. PICK k \in Int : isWithinRange(e + k * SensorDelta, ts)
  BY DEF SameGrid
<1>3. k * SensorDelta \in Int /\ (k - 2) * SensorDelta = k * SensorDelta - 2 * SensorDelta
  BY <1>1
<1>4. k * SensorDelta > 0 /\ (k - 2) * SensorDelta < 0
  BY <1>1, <1>2, <1>3 DEF isWithinRange, FramesApart
<1>5. k >= 1 /\ k < 2
  BY <1>1, <1>4
<1>6. k = 1
  BY <1>5
<1> QED BY <1>1, <1>2, <1>6

\* A timestamp of the grid that is late is late by a frame.
LEMMA OneFrameBehind ==
  ASSUME NEW e \in Int, NEW ts \in Int, SameGrid(e, ts), ts + 2 * MaxOffset < e
  PROVE  ts + SensorDelta <= e + 2 * MaxOffset
<1>1. SensorDelta \in Nat \ {0} /\ MaxOffset \in Nat
  BY ClockAssumption
<1>2. PICK k \in Int : isWithinRange(e + k * SensorDelta, ts)
  BY DEF SameGrid
<1>3. k * SensorDelta \in Int /\ (k + 1) * SensorDelta = k * SensorDelta + SensorDelta
  BY <1>1
<1>4. k * SensorDelta < 0
  BY <1>1, <1>2, <1>3 DEF isWithinRange
<1>5. k + 1 <= 0
  BY <1>1, <1>4
<1>6. (k + 1) * SensorDelta <= 0
  BY <1>1, <1>5
<1> QED BY <1>1, <1>2, <1>3, <1>6 DEF isWithinRange

\* What a source knows that requests a buffer.
LEMMA RequestBase ==
  ASSUME TypeOK, ClockFollows, NEW s \in Sources, NEW ts \in Timestamps, CanRequest(s, ts)
  PROVE  /\ ts \in Int /\ ts > 2 * MaxOffset /\ ts > 0 /\ MaxOffset \in Nat
         /\ SensorDelta \in Nat \ {0} /\ clock \in Clock
         /\ clock.init \in Int /\ clock.expected \in Int
         /\ sched \in Scheduler /\ \A r \in Sources : src[r].ts \in Int
         /\ latestComponentTs[s] \in Int
         /\ latestComponentTs[s] <= src[s].ts /\ src[s].ts <= ts
         /\ src[s].pc = "idle" /\ RequestMutexFree
<1>1. ts \in Int /\ ts > 2 * MaxOffset /\ MinGap \in Nat
  BY TimeDomainAssumption
<1>2. MaxOffset \in Nat /\ SensorDelta \in Nat \ {0}
  BY ClockAssumption
<1>3. /\ clock \in Clock /\ clock.init \in Int /\ clock.expected \in Int
      /\ sched \in Scheduler
      /\ latestComponentTs[s] \in Int
  BY DEF TypeOK, Clock
<1>4. \A r \in Sources : src[r].ts \in Int
  BY SourceFields
<1>5. src[s].ts + MinGap <= ts /\ src[s].pc = "idle" /\ RequestMutexFree
  BY <1>1, <1>4 DEF CanRequest, SensorTimestamp
<1>6. latestComponentTs[s] <= src[s].ts
  BY DEF ClockFollows
<1>7. src[s].ts <= ts
  BY <1>1, <1>4, <1>5
<1> QED BY <1>1, <1>2, <1>3, <1>4, <1>5, <1>6, <1>7

\* A timestamp that is refused as invalid is a frame behind the clock.
LEMMA InvalidIsBehind ==
  ASSUME TypeOK, ClockFollows, NEW s \in Sources, NEW ts \in Timestamps,
         CanRequest(s, ts), isInvalidNextRequestedTimeStamp(s, ts)
  PROVE  /\ clock.init # kTimestampZero
         /\ ~stopScheduled => ts + SensorDelta <= clock.expected + 2 * MaxOffset
<1>1. /\ ts \in Int /\ ts > 2 * MaxOffset /\ ts > 0 /\ MaxOffset \in Nat
      /\ SensorDelta \in Nat \ {0} /\ clock.init \in Int /\ clock.expected \in Int
      /\ latestComponentTs[s] \in Int
      /\ latestComponentTs[s] <= src[s].ts /\ src[s].ts \in Int /\ src[s].pc = "idle"
  BY RequestBase
<1>2. \/ ts + 2 * MaxOffset < clock.init
      \/ ts + 2 * MaxOffset <= latestComponentTs[s]
  BY <1>1 DEF isInvalidNextRequestedTimeStamp
<1>3. clock.init # kTimestampZero
  BY <1>1, <1>2 DEF ClockFollows, kTimestampZero
<1>4. ASSUME ~stopScheduled
      PROVE  ts + SensorDelta <= clock.expected + 2 * MaxOffset
  <2>1. /\ clock.init + SensorDelta <= clock.expected + MaxOffset
        /\ src[s].ts + SensorDelta <= clock.expected + 2 * MaxOffset
    BY <1>1, <1>3, <1>4 DEF ClockFollows, ClockAhead
  <2> QED BY <1>1, <1>2, <2>1
<1> QED BY <1>3, <1>4

\* A frame that comes after one in the range of t is not older than t.
LEMMA NotOlderAfter ==
  ASSUME NEW r \in Int, NEW q \in Int, NEW t \in Int, r < q,
         \/ isWithinRange(r, t) \/ isWithinRange(t, r)
         \/ r >= t - 2 * MaxOffset
  PROVE  ~IsOlder(q, t)
BY ClockAssumption DEF isWithinRange, IsOlder

\* What lies in the range of a frame that comes before e is not far from it.
LEMMA InRangeBehind ==
  ASSUME NEW t \in Int, NEW u \in Int, NEW e \in Int,
         isWithinRange(t, u) \/ isWithinRange(u, t), t + SensorDelta <= e
  PROVE  u + SensorDelta <= e + 2 * MaxOffset
BY ClockAssumption DEF isWithinRange

\* A timestamp whose frame is in a time step or queued is a frame behind it.
LEMMA ScheduledIsBehind ==
  ASSUME TypeOK, FrameInv, ClockFollows, NEW s \in Sources, NEW ts \in Timestamps,
         CanRequest(s, ts), IsRunning(ts) \/ isTimestampScheduled(sched, ts)
  PROVE  /\ clock.init # kTimestampZero
         /\ ts + SensorDelta <= clock.expected + 2 * MaxOffset
<1>1. /\ ts \in Int /\ ts > 2 * MaxOffset /\ MaxOffset \in Nat
      /\ SensorDelta \in Nat \ {0} /\ clock \in Clock /\ clock.expected \in Int
      /\ sched \in Scheduler
  BY RequestBase
<1>2. ts + SensorDelta <= clock.expected + 2 * MaxOffset
  <2>1. CASE IsRunning(ts)
    <3>1. PICK i \in Steps : isWithinRange(ts, sched.runningTs[i])
      BY <2>1 DEF IsRunning, RunningSteps
    <3>2. /\ sched.runningTs[i] <= sched.latestRunning
          /\ sched.latestRunning > 0 => sched.latestRunning + SensorDelta <= clock.expected
      BY DEF FrameInv, FramesInOrder
    <3>3. sched.runningTs[i] \in Int /\ sched.latestRunning \in Int
      BY <1>1, FrameFields
    <3>4. sched.latestRunning > 0
      <4>1. sched.runningTs[i] > 0
        BY <1>1, <3>1, <3>3 DEF isWithinRange
      <4> QED BY <3>2, <3>3, <4>1
    <3>5. sched.runningTs[i] + SensorDelta <= clock.expected
      BY <1>1, <3>2, <3>3, <3>4
    <3> QED BY <1>1, <3>1, <3>3, <3>5, InRangeBehind
  <2>2. CASE isTimestampScheduled(sched, ts)
    <3>1. PICK k \in 1..Len(sched.queue) : isWithinRange(sched.queue[k].ts, ts)
      BY <2>2 DEF isTimestampScheduled
    <3>2. IF sched.queue[k].type = "DATA"
          THEN sched.queue[k].ts + SensorDelta <= clock.expected
          ELSE sched.queue[k].ts = 0
      BY DEF FrameInv, FramesInOrder, kTimestampZero
    <3>3. sched.queue[k].ts \in Int
      BY <1>1, FrameFields
    <3>4. sched.queue[k].ts # 0
      BY <1>1, <3>1, <3>3 DEF isWithinRange
    <3>5. sched.queue[k].ts + SensorDelta <= clock.expected
      BY <3>2, <3>4
    <3> QED BY <1>1, <3>1, <3>3, <3>5, InRangeBehind
  <2> QED BY <2>1, <2>2
<1>3. clock.init # kTimestampZero
  BY <1>1, <1>2 DEF FrameInv, ClockStarts, kTimestampZero
<1> QED BY <1>2, <1>3

\* A source that starts to pad misses one frame.
LEMMA PadsForOne ==
  ASSUME SteadyClock, Synchronised, MaxSkip <= 1, FramesApart, TypeOK, FrameInv,
         ClockFollows, ~stopScheduled, NEW s \in Sources, NEW ts \in Timestamps,
         CanRequest(s, ts), newTimestamp(clock, ts).expected + 2 * MaxOffset < ts
  PROVE  /\ clock.init # kTimestampZero
         /\ isWithinRange(clock.expected + SensorDelta, ts)
<1>1. /\ ts \in Int /\ ts > 0 /\ MaxOffset \in Nat /\ SensorDelta \in Nat \ {0}
      /\ clock \in Clock /\ clock.expected \in Int /\ RequestMutexFree
      /\ \A r \in Sources : src[r].ts \in Int
  BY RequestBase
<1>2. /\ clock.init # kTimestampZero
      /\ clock.expected + 2 * MaxOffset < ts
  <2> DEFINE c == newTimestamp(clock, ts)
  <2>1. c.expected = IF clock.init = kTimestampZero THEN ts ELSE clock.expected
    BY <1>1, NewTimestamp
  <2>2. c.expected + 2 * MaxOffset < ts
    OBVIOUS
  <2> HIDE DEF c
  <2> QED BY <1>1, <2>1, <2>2
<1>3. ClockAhead /\ (\E r \in Sources : src[r].ts > 0) /\ SameGrid(clock.expected, ts)
  BY <1>2 DEF ClockFollows
<1>4. PICK r \in Sources : ts <= src[r].ts + (MaxSkip + 1) * SensorDelta + 2 * MaxOffset
  BY <1>1, <1>3 DEF CanRequest, SensorTimestamp, kTimestampZero
<1>5. (MaxSkip + 1) * SensorDelta <= 2 * SensorDelta
  <2>1. MaxSkip = 0 \/ MaxSkip = 1
    BY TimeDomainAssumption
  <2> QED BY <1>1, <2>1
<1>6. (MaxSkip + 1) * SensorDelta \in Int
  BY <1>1, TimeDomainAssumption
<1>7. src[r].ts + SensorDelta <= clock.expected + 2 * MaxOffset
  BY <1>1, <1>3 DEF ClockAhead, RequestMutexFree
<1> HIDE DEF ClockAhead
<1> DEFINE skip == (MaxSkip + 1) * SensorDelta
<1>8. ts <= clock.expected + SensorDelta + 4 * MaxOffset
  <2>1. ts <= src[r].ts + skip + 2 * MaxOffset /\ skip <= 2 * SensorDelta /\ skip \in Int
    BY <1>4, <1>5, <1>6
  <2>2. src[r].ts \in Int
    BY <1>1
  <2> HIDE DEF skip
  <2> QED BY <1>1, <1>7, <2>1, <2>2
<1> QED BY <1>1, <1>2, <1>3, <1>8, OneFrameAhead

\* The first timestamp stays behind the clock.
LEMMA InitStaysBehind ==
  ASSUME PreciseClock, clock \in Clock, NEW e \in Clock,
         \A x \in {clock.init, AsDouble(clock.init)} :
           x + SensorDelta <= clock.expected + MaxOffset,
         e.init \in {clock.init, AsDouble(clock.init)},
         clock.expected <= e.expected
  PROVE  \A x \in {e.init, AsDouble(e.init)} : x + SensorDelta <= e.expected + MaxOffset
<1>1. /\ clock.init \in Int /\ clock.expected \in Int /\ e.expected \in Int
      /\ SensorDelta \in Nat \ {0} /\ MaxOffset \in Nat
  BY ClockAssumption DEF Clock
<1>2. AsDouble(clock.init) \in Int /\ AsDouble(AsDouble(clock.init)) = AsDouble(clock.init)
  BY <1>1, DoubleOf
<1>3. {e.init, AsDouble(e.init)} \subseteq {clock.init, AsDouble(clock.init)}
  BY <1>2
<1>4. ASSUME NEW x \in {clock.init, AsDouble(clock.init)}
      PROVE  x + SensorDelta <= e.expected + MaxOffset
  <2>1. x \in Int
    BY <1>1, <1>2
  <2>2. x + SensorDelta <= clock.expected + MaxOffset
    OBVIOUS
  <2> QED BY <1>1, <2>1, <2>2
<1> QED BY <1>3, <1>4

\* The clock that a request leaves, and the source's timestamp.
LEMMA RequestAhead ==
  ASSUME SteadyClock, Synchronised, MaxSkip <= 1, FramesApart, PreciseClock,
         SourceMode = "WAIT_FOR_BUFFER", TypeOK, FrameInv, ClockFollows, ~stopScheduled,
         NEW s \in Sources, NEW ts \in Timestamps, RequestSourceBuffer(s, ts)
  PROVE  /\ clock' \in Clock
         /\ \A x \in {clock'.init, AsDouble(clock'.init)} :
              x + SensorDelta <= clock'.expected + MaxOffset
         /\ IF src'[s].pc = "pad"
            THEN isWithinRange(clock'.expected + SensorDelta, ts)
            ELSE ts + SensorDelta <= clock'.expected + 2 * MaxOffset
         /\ \A u \in Timestamps : SameGrid(clock'.expected, u)
         /\ clock.init = kTimestampZero => ts + SensorDelta <= clock'.expected
<1> DEFINE c == newTimestamp(clock, ts)
<1>1. CanRequest(s, ts)
  BY DEF RequestSourceBuffer
<1>2. /\ ts \in Int /\ ts > 0 /\ MaxOffset \in Nat /\ SensorDelta \in Nat \ {0}
      /\ clock \in Clock /\ clock.expected \in Int /\ clock.init \in Int
      /\ ClockStarts /\ \A u \in Timestamps : u \in Int
  BY <1>1, RequestBase, TimeDomainAssumption DEF FrameInv
<1>3. /\ c \in Clock /\ c.delta = SensorDelta /\ c.expected \in Int
      /\ c.expected = IF clock.init = kTimestampZero THEN ts ELSE clock.expected
      /\ c.init \in IF clock.init = kTimestampZero THEN {ts}
                    ELSE {clock.init, AsDouble(clock.init)}
  BY <1>2, ClockOfRequest, NewTimestamp DEF Clock
<1>4. clock.init # kTimestampZero => ClockAhead
  BY DEF ClockFollows
<1>5. \A u \in Timestamps : SameGrid(c.expected, u)
  BY <1>3 DEF ClockFollows, Synchronised
<1> DEFINE Fine(e, ahead) ==
             /\ e \in Clock
             /\ \A x \in {e.init, AsDouble(e.init)} :
                  x + SensorDelta <= e.expected + MaxOffset
             /\ IF ahead THEN isWithinRange(e.expected + SensorDelta, ts)
                ELSE ts + SensorDelta <= e.expected + 2 * MaxOffset
             /\ \A u \in Timestamps : SameGrid(e.expected, u)
             /\ clock.init = kTimestampZero => ts + SensorDelta <= e.expected
<1>6. \A pc, i : SourceAt(s, pc, ts, i) => src'[s].pc = pc
  BY RequestHorizon, <1>2
<1> SUFFICES Fine(clock', src'[s].pc = "pad")
  OBVIOUS
<1>7. ASSUME clock.init # kTimestampZero, NEW e \in {clock, c}, NEW ahead \in BOOLEAN,
             IF ahead THEN isWithinRange(clock.expected + SensorDelta, ts)
             ELSE ts + SensorDelta <= clock.expected + 2 * MaxOffset
      PROVE  Fine(e, ahead)
  <2>1. /\ e \in Clock /\ e.init \in {clock.init, AsDouble(clock.init)}
        /\ e.expected = clock.expected
    BY <1>2, <1>3, <1>7
  <2>2. \A x \in {e.init, AsDouble(e.init)} : x + SensorDelta <= e.expected + MaxOffset
    BY <1>2, <1>4, <1>7, <2>1, InitStaysBehind DEF ClockAhead
  <2>3. \A u \in Timestamps : SameGrid(e.expected, u)
    BY <1>7, <2>1 DEF ClockFollows
  <2> QED BY <1>7, <2>1, <2>2, <2>3
<1>8. CASE RequestInvalid(s, ts)
  <2>1. /\ clock.init # kTimestampZero
        /\ ts + SensorDelta <= clock.expected + 2 * MaxOffset
    BY <1>1, <1>8, InvalidIsBehind DEF RequestInvalid
  <2>2. clock' = clock /\ src'[s].pc = "idle"
    BY <1>6, <1>8 DEF RequestInvalid, requestVars
  <2> QED BY <1>7, <2>1, <2>2
<1>9. CASE RequestRunning(s, ts) \/ RequestScheduled(s, ts)
  <2>1. /\ clock.init # kTimestampZero
        /\ ts + SensorDelta <= clock.expected + 2 * MaxOffset
    <3>1. IsRunning(ts) \/ isTimestampScheduled(sched, ts)
      BY <1>9 DEF RequestRunning, RequestScheduled, isTimestampRunning, IsRunning
    <3> QED BY <1>1, <3>1, ScheduledIsBehind
  <2>2. clock' = c /\ src'[s].pc \in {"holding", "waiting"}
    BY <1>6, <1>9 DEF RequestRunning, RequestScheduled
  <2> QED BY <1>7, <2>1, <2>2
<1>10. CASE RequestNewTimestampWait(s, ts)
  <2>1. CASE /\ isNextExpectedTimestamp(c, ts)
             /\ clock' = advanceTimeStep(c)
             /\ SourceAt(s, "waiting", ts, src[s].step)
    <3> DEFINE e == advanceTimeStep(c)
    <3>1. /\ e \in Clock /\ e.init = c.init /\ e.expected = c.expected + SensorDelta
      BY <1>3, NextFrame
    <3> HIDE DEF e, c
    <3>2. /\ clock' = e /\ src'[s].pc = "waiting" /\ e.expected \in Int
          /\ ts + SensorDelta <= e.expected + 2 * MaxOffset
      BY <1>2, <1>3, <1>6, <2>1, <3>1 DEF isNextExpectedTimestamp, isWithinRange, e
    <3>3. \A u \in Timestamps : SameGrid(e.expected, u)
      BY <1>2, <1>3, <1>5, <3>1, NextOnGrid
    <3>4. clock.init = kTimestampZero => ts + SensorDelta <= e.expected
      BY <1>2, <1>3, <3>1
    <3>5. \A x \in {e.init, AsDouble(e.init)} : x + SensorDelta <= e.expected + MaxOffset
      <4>1. CASE clock.init = kTimestampZero
        <5>1. e.init = ts /\ e.expected = ts + SensorDelta
          BY <1>3, <3>1, <4>1
        <5>2. AsDouble(ts) \in Int /\ AsDouble(ts) <= ts + (Grid \div 2)
          BY <1>2, DoubleOf
        <5>3. AsDouble(ts) <= ts + MaxOffset
          BY <1>2, <5>2, ClockAssumption DEF PreciseClock
        <5> QED BY <1>2, <5>1, <5>2, <5>3
      <4>2. CASE clock.init # kTimestampZero
        <5>1. e.init \in {clock.init, AsDouble(clock.init)} /\ clock.expected <= e.expected
          BY <1>2, <1>3, <3>1, <4>2
        <5> QED BY <1>2, <1>4, <3>1, <4>2, <5>1, InitStaysBehind DEF ClockAhead
      <4> QED BY <4>1, <4>2
    <3> QED BY <3>1, <3>2, <3>3, <3>4, <3>5
  <2>2. CASE /\ isFurtherAheadThenNextExpectedTimestamp(c, ts)
             /\ clock' = c
             /\ SourceAt(s, "pad", ts, src[s].step)
    <3>1. c.expected + 2 * MaxOffset < ts
      BY <1>2, <1>3, <2>2 DEF isFurtherAheadThenNextExpectedTimestamp
    <3>2. /\ clock.init # kTimestampZero
          /\ isWithinRange(clock.expected + SensorDelta, ts)
      BY <1>1, <3>1, PadsForOne
    <3>3. src'[s].pc = "pad"
      BY <1>6, <2>2
    <3> QED BY <1>7, <2>2, <3>2, <3>3
  <2>3. CASE /\ ~isNextExpectedTimestamp(c, ts)
             /\ ~isFurtherAheadThenNextExpectedTimestamp(c, ts)
             /\ clock' = c
             /\ SourceAt(s, "idle", ts, src[s].step)
    <3>1. ts + 2 * MaxOffset < c.expected
      BY <1>2, <1>3, <2>3 DEF isNextExpectedTimestamp, isWithinRange,
                              isFurtherAheadThenNextExpectedTimestamp
    <3>2. clock.init # kTimestampZero /\ c.expected = clock.expected
      BY <1>2, <1>3, <3>1
    <3>3. ts + SensorDelta <= clock.expected + 2 * MaxOffset
      BY <1>2, <1>5, <3>1, <3>2, OneFrameBehind
    <3>4. src'[s].pc = "idle"
      BY <1>6, <2>3
    <3> QED BY <1>7, <2>3, <3>2, <3>3, <3>4
  <2> QED BY <1>10, <2>1, <2>2, <2>3 DEF RequestNewTimestampWait
<1>11. ~RequestAfterStop(s, ts) /\ ~RequestNewTimestampImmediate(s, ts)
  BY DEF RequestAfterStop, RequestNewTimestampImmediate
<1> QED BY <1>8, <1>9, <1>10, <1>11 DEF RequestSourceBuffer

-----------------------------------------------------------------------------
(* No source waits for a frame that never comes. *)

\* One source pads at a time.
LEMMA PadsStep ==
  ASSUME TypeOK, OnePads, RequestsHaveTimestamp, [Next]_vars
  PROVE  OnePads' /\ RequestsHaveTimestamp'
<1>1. src \in [Sources -> [pc : SourcePc, ts : Int, step : Steps, run : BOOLEAN]]
  BY DEF TypeOK
<1>2. ASSUME NEW s \in Sources, NEW ts \in Timestamps, RequestSourceBuffer(s, ts)
      PROVE  OnePads' /\ RequestsHaveTimestamp'
  <2>1. PICK pc, i : SourceAt(s, pc, ts, i)
    BY <1>2 DEF RequestSourceBuffer, RequestInvalid, RequestRunning, RequestScheduled,
                RequestAfterStop, RequestNewTimestampWait, RequestNewTimestampImmediate
  <2>2. ts \in Int /\ ts > 2 * MaxOffset /\ RequestMutexFree
    BY <1>2, TimeDomainAssumption DEF RequestSourceBuffer, CanRequest
  <2>3. src'[s].ts = ts /\ \A r \in Sources \ {s} : src'[r] = src[r]
    BY <2>1, <2>2, RequestHorizon
  <2> QED BY <2>2, <2>3 DEF OnePads, RequestsHaveTimestamp, RequestMutexFree
<1>3. ASSUME NEW s \in Sources, Padding(s) \/ PaddingDone(s)
      PROVE  OnePads' /\ RequestsHaveTimestamp'
  <2>1. /\ \A r \in Sources \ {s} : src'[r] = src[r] /\ src[r].pc \notin {"pad", "padded"}
        /\ src'[s].ts = src[s].ts /\ src[s].pc \in {"pad", "padded"}
    BY <1>1, <1>3 DEF Padding, PaddingDone, OnePads
  <2> QED BY <2>1 DEF OnePads, RequestsHaveTimestamp
<1>4. CASE /\ ~ \E s \in Sources, ts \in Timestamps : RequestSourceBuffer(s, ts)
           /\ ~ \E s \in Sources : Padding(s) \/ PaddingDone(s)
  <2>1. \A s \in Sources :
          /\ src'[s].ts = src[s].ts
          /\ src'[s].pc # src[s].pc =>
               /\ src[s].pc \notin {"pad", "padded"}
               /\ src'[s].pc \in {"off", "idle", "found", "holding"}
               /\ src'[s].pc \in {"found", "holding"} => src[s].pc \in {"waiting", "found"}
    BY <1>4, OthersLeaveSources
  <2>2. \A s \in Sources :
          /\ src'[s].pc \in {"pad", "padded"} => src[s].pc \in {"pad", "padded"}
          /\ src'[s].pc \notin {"off", "idle"} => src[s].pc \notin {"off", "idle"}
    BY <2>1
  <2> QED BY <2>1, <2>2 DEF OnePads, RequestsHaveTimestamp
<1> QED BY <1>2, <1>3, <1>4

\* The assumptions under which no source waits in vain.
OneFrameMayMiss ==
  SteadyClock /\ Synchronised /\ MaxSkip <= 1 /\ FramesApart /\ PreciseClock

\* Who waits goes on to wait for a scheduled frame, whatever comes or goes.
LEMMA OthersWaitOn ==
  ASSUME TypeOK, TypeOK', FramesInOrder(sched, clock), RequestsHaveTimestamp,
         WaitingIsScheduled,
         \/ SameFrames(sched, sched')
         \/ \E m \in Message :
              /\ m.type = "DATA" => m.ts >= sched.latestRunning
              /\ FrameComes(sched, sched', m)
         \/ FrameLeaves(sched, sched'),
         \A r \in Sources : src'[r].pc = "waiting" =>
           \/ src[r].pc = "waiting" /\ src'[r].ts = src[r].ts
           \/ WaitsFor(sched', src'[r].ts)
  PROVE  WaitingIsScheduled'
<1>1. sched \in Scheduler /\ sched' \in Scheduler /\ clock \in Clock
  BY DEF TypeOK
<1>2. ASSUME NEW r \in Sources, src'[r].pc = "waiting"
      PROVE  WaitsFor(sched', src'[r].ts)
  <2>1. CASE WaitsFor(sched', src'[r].ts)
    BY <2>1
  <2>2. CASE src[r].pc = "waiting" /\ src'[r].ts = src[r].ts
    <3>1. src[r].ts \in Int /\ src[r].ts > 2 * MaxOffset
      BY <2>2, SourceFields DEF RequestsHaveTimestamp
    <3>2. WaitsFor(sched, src[r].ts)
      BY <2>2 DEF WaitingIsScheduled, WaitsFor
    <3>3. WaitsFor(sched', src[r].ts)
      BY <1>1, <3>1, <3>2, SameFramesWait, FrameComesWait, FrameLeavesWait
    <3> QED BY <2>2, <3>3
  <2> QED BY <1>2, <2>1, <2>2
<1> QED BY <1>2 DEF WaitingIsScheduled, WaitsFor

\* A source that will wait after its request waits for a scheduled frame.
LEMMA RequestSourceWaits ==
  ASSUME SteadyClock, PreciseClock, SourceMode = "WAIT_FOR_BUFFER", WaitInv,
         NEW s \in Sources, NEW ts \in Timestamps, RequestSourceBuffer(s, ts)
  PROVE  WaitingIsScheduled'
<1> DEFINE c == newTimestamp(clock, ts)
           m == ScheduledEvent("DATA", c.expected)
<1>1. /\ TypeOK /\ FrameInv /\ ClockFollows /\ ClockStarts /\ CanRequest(s, ts)
      /\ QueuesWhenFull(sched) /\ FramesInOrder(sched, clock) /\ TypeOK'
  BY TypeStep DEF WaitInv, FrameInv, QueuesWhenFull, RequestSourceBuffer, Next, SourceNext
<1>2. /\ ts \in Int /\ MaxOffset \in Nat /\ SensorDelta \in Nat \ {0}
      /\ clock \in Clock /\ clock.expected \in Int
      /\ sched \in Scheduler /\ sched' \in Scheduler
      /\ \A r \in Sources : src[r].ts \in Int
  BY <1>1, RequestBase DEF TypeOK
<1>3. /\ c \in Clock /\ c.expected \in Int /\ clock.expected <= c.expected
      /\ c.expected > 0
  BY <1>1, <1>2, ClockOfRequest DEF Clock
<1>4. m \in Message /\ m.type = "DATA" /\ m.ts = c.expected
  BY <1>3, MessageType DEF EventType, ScheduledEvent
<1>5. SameFrames(sched, sched') \/ FrameComes(sched, sched', m)
  BY <1>1, RequestFrames
<1>6. \A pc, i : SourceAt(s, pc, ts, i) =>
        src'[s].pc = pc /\ src'[s].ts = ts /\ \A r \in Sources \ {s} : src'[r] = src[r]
  BY <1>1, <1>2, RequestHorizon
<1>7. src'[s].ts = ts /\ \A r \in Sources \ {s} : src'[r] = src[r]
  <2>1. PICK pc, i : SourceAt(s, pc, ts, i)
    BY DEF RequestSourceBuffer, RequestInvalid, RequestRunning, RequestScheduled,
           RequestAfterStop, RequestNewTimestampWait, RequestNewTimestampImmediate
  <2> QED BY <1>6, <2>1
<1> SUFFICES ASSUME src'[s].pc = "waiting"
             PROVE  WaitsFor(sched', ts)
  <2>1. c.expected >= sched.latestRunning
    BY <1>1, <1>2, <1>3, FrameFields DEF FramesInOrder
  <2>2. RequestsHaveTimestamp /\ WaitingIsScheduled
    BY DEF WaitInv
  <2> HIDE DEF m, c
  <2> QED BY <1>1, <1>4, <1>5, <1>7, <2>1, <2>2, OthersWaitOn
<1>8. m.ts >= sched.latestRunning
  BY <1>1, <1>2, <1>3, <1>4, FrameFields DEF FramesInOrder
<1>9. \/ isTimestampScheduled(sched, ts) /\ SameFrames(sched, sched')
      \/ isWithinRange(m.ts, ts) /\ FrameComes(sched, sched', m)
  <2>1. CASE RequestScheduled(s, ts)
    <3>1. sched' = cancelOlderEvents(s, ts)
      BY <2>1 DEF RequestScheduled
    <3>2. SameFrames(sched, sched')
      BY <1>2, <3>1, CancelKeepsFrames DEF cancelOlderEvents
    <3> QED BY <2>1, <3>2 DEF RequestScheduled
  <2>2. CASE RequestNewTimestampWait(s, ts)
    <3>1. isNextExpectedTimestamp(c, ts) /\ sched' = Enqueue(cancelOlderEvents(s, ts), m)
      BY <1>6, <2>2 DEF RequestNewTimestampWait, scheduleEvent
    <3>2. isWithinRange(m.ts, ts)
      BY <1>4, <3>1 DEF isNextExpectedTimestamp
    <3>3. FrameComes(sched, sched', m)
      <4> DEFINE d == cancelOlderEvents(s, ts)
      <4>1. d \in Scheduler /\ SameFrames(sched, d)
        BY <1>2, CancelSourcesType, CancelKeepsFrames DEF cancelOlderEvents
      <4> HIDE DEF d, m
      <4>2. FrameComes(d, Enqueue(d, m), m)
        BY <1>1, <1>2, <1>4, <4>1, SameFramesQueue, EnqueueFrames
      <4> QED BY <1>2, <3>1, <4>1, <4>2, SameFramesThenComes DEF d
    <3> QED BY <3>2, <3>3
  <2>3. ~RequestInvalid(s, ts) /\ ~RequestRunning(s, ts) /\ ~RequestAfterStop(s, ts)
    BY <1>6 DEF RequestInvalid, RequestRunning, RequestAfterStop
  <2>4. ~RequestNewTimestampImmediate(s, ts)
    BY DEF RequestNewTimestampImmediate
  <2> QED BY <2>1, <2>2, <2>3, <2>4 DEF RequestSourceBuffer
<1> HIDE DEF m, c
<1> QED BY <1>2, <1>4, <1>8, <1>9, SameFramesWait, FrameComesWait

\* A request leaves the clock ahead, and waits for what is scheduled.
LEMMA RequestWaits ==
  ASSUME OneFrameMayMiss, SourceMode = "WAIT_FOR_BUFFER", WaitInv,
         NEW s \in Sources, NEW ts \in Timestamps, RequestSourceBuffer(s, ts)
  PROVE  ClockFollows' /\ OneIsMissing' /\ WaitingIsScheduled'
<1>1. /\ TypeOK /\ FrameInv /\ ClockFollows /\ ClockStarts /\ CanRequest(s, ts)
      /\ QueuesWhenFull(sched) /\ FramesInOrder(sched, clock) /\ TypeOK'
  BY TypeStep DEF WaitInv, FrameInv, QueuesWhenFull, RequestSourceBuffer, Next, SourceNext
<1>2. /\ ts \in Int /\ ts > 0 /\ MaxOffset \in Nat /\ SensorDelta \in Nat \ {0}
      /\ clock \in Clock /\ clock.init \in Int /\ clock.expected \in Int
      /\ sched \in Scheduler /\ sched' \in Scheduler
      /\ src[s].ts <= ts /\ \A r \in Sources : src[r].ts \in Int
      /\ \A r \in Sources : src[r].pc \notin {"pad", "padded"}
  BY <1>1, RequestBase DEF RequestMutexFree, TypeOK
<1>3. PICK pc, i : SourceAt(s, pc, ts, i)
  BY DEF RequestSourceBuffer, RequestInvalid, RequestRunning, RequestScheduled,
         RequestAfterStop, RequestNewTimestampWait, RequestNewTimestampImmediate
<1>4. src'[s].ts = ts /\ \A r \in Sources \ {s} : src'[r] = src[r]
  BY <1>1, <1>2, <1>3, RequestHorizon
<1>5. stopScheduled' = stopScheduled
  BY DEF RequestSourceBuffer
<1>6. ASSUME NEW r \in Sources
      PROVE  latestComponentTs'[r] <= src'[r].ts /\ src'[r].ts >= 0
  <2>1. latestComponentTs' \in {latestComponentTs, [latestComponentTs EXCEPT ![s] = ts]}
    BY DEF RequestSourceBuffer, RequestInvalid, RequestRunning, RequestScheduled,
           RequestAfterStop, RequestNewTimestampWait, RequestNewTimestampImmediate, requestVars
  <2>2. latestComponentTs \in [Sources -> Int]
    BY <1>1 DEF TypeOK
  <2>3. latestComponentTs[r] <= src[r].ts /\ src[r].ts >= 0
    BY <1>1 DEF ClockFollows
  <2>4. CASE r = s
    BY <1>2, <1>4, <2>1, <2>2, <2>3, <2>4
  <2>5. CASE r # s
    BY <1>4, <2>1, <2>2, <2>3, <2>5
  <2> QED BY <2>4, <2>5
<1>7. clock'.init # kTimestampZero
  <2> DEFINE c == newTimestamp(clock, ts)
  <2>1. c \in Clock /\ c.init # kTimestampZero
    BY <1>1, <1>2, ClockOfRequest DEF OneFrameMayMiss
  <2>2. advanceTimeStep(c).init = c.init
    BY <2>1, NextFrame DEF OneFrameMayMiss
  <2>3. \/ clock' = clock /\ RequestInvalid(s, ts)
        \/ clock' = c \/ clock' = advanceTimeStep(c)
    BY RequestClock
  <2>4. RequestInvalid(s, ts) => clock.init # kTimestampZero
    BY <1>1, InvalidIsBehind DEF RequestInvalid
  <2> HIDE DEF c
  <2> QED BY <2>1, <2>2, <2>3, <2>4
<1>8. CASE stopScheduled
  <2>1. pc \notin {"pad", "padded"} /\ \A u \in Timestamps : SameGrid(clock'.expected, u)
    <3> DEFINE c == newTimestamp(clock, ts)
    <3>1. ~RequestNewTimestampWait(s, ts) /\ ~RequestNewTimestampImmediate(s, ts)
      BY <1>8 DEF RequestNewTimestampWait, RequestNewTimestampImmediate
    <3>2. src'[s].pc \notin {"pad", "padded"}
      <4> \A p, k : SourceAt(s, p, ts, k) => src'[s].pc = p
        BY <1>1, <1>2, RequestHorizon
      <4> QED BY <3>1 DEF RequestSourceBuffer, RequestInvalid, RequestRunning,
                          RequestScheduled, RequestAfterStop
    <3>3. src'[s].pc = pc
      BY <1>1, <1>2, <1>3, RequestHorizon
    <3>4. c.expected = IF clock.init = kTimestampZero THEN ts ELSE clock.expected
      BY <1>2, NewTimestamp DEF OneFrameMayMiss
    <3>5. \/ clock' = clock /\ RequestInvalid(s, ts)
          \/ clock' = c
      BY <3>1 DEF RequestSourceBuffer, RequestInvalid, RequestRunning,
                  RequestScheduled, RequestAfterStop, requestVars
    <3>6. RequestInvalid(s, ts) => clock.init # kTimestampZero
      BY <1>1, InvalidIsBehind DEF RequestInvalid
    <3> HIDE DEF c
    <3>7. \A u \in Timestamps : SameGrid(clock'.expected, u)
      BY <1>1, <3>4, <3>5, <3>6 DEF ClockFollows, OneFrameMayMiss, Synchronised
    <3> QED BY <3>2, <3>3, <3>7
  <2>2. src'[s].pc = pc
    BY <1>1, <1>2, <1>3, RequestHorizon
  <2>3. ClockFollows'
    BY <1>2, <1>4, <1>5, <1>6, <1>7, <1>8, <2>1 DEF ClockFollows
  <2>4. OneIsMissing'
    BY <1>2, <1>4, <2>1, <2>2 DEF OneIsMissing
  <2> QED BY <1>8, <2>3, <2>4, RequestSourceWaits DEF OneFrameMayMiss
<1>9. CASE ~stopScheduled
  <2>1. /\ clock' \in Clock
        /\ \A x \in {clock'.init, AsDouble(clock'.init)} :
             x + SensorDelta <= clock'.expected + MaxOffset
        /\ IF src'[s].pc = "pad"
           THEN isWithinRange(clock'.expected + SensorDelta, ts)
           ELSE ts + SensorDelta <= clock'.expected + 2 * MaxOffset
        /\ \A u \in Timestamps : SameGrid(clock'.expected, u)
        /\ clock.init = kTimestampZero => ts + SensorDelta <= clock'.expected
    BY <1>1, <1>9, RequestAhead DEF OneFrameMayMiss
  <2>2. src'[s].pc # "padded"
    <3>1. \A p, k : SourceAt(s, p, ts, k) => src'[s].pc = p
      BY <1>1, <1>2, RequestHorizon
    <3> QED BY <3>1 DEF RequestSourceBuffer, RequestInvalid, RequestRunning, RequestScheduled,
         RequestAfterStop, RequestNewTimestampWait, RequestNewTimestampImmediate
  <2>3. clock.expected <= clock'.expected /\ clock'.expected \in Int
    BY <1>1, <2>1, ClockStartsStep DEF OneFrameMayMiss, Next, SourceNext, Clock
  <2>4. ASSUME NEW r \in Sources, src'[r].pc \notin {"pad", "padded"}
        PROVE  src'[r].ts + SensorDelta <= clock'.expected + 2 * MaxOffset
    <3>1. CASE r = s
      BY <1>4, <2>1, <2>4, <3>1
    <3>2. CASE r # s /\ clock.init # kTimestampZero
      <4>1. src[r].ts + SensorDelta <= clock.expected + 2 * MaxOffset
        BY <1>1, <1>2, <1>9, <3>2 DEF ClockFollows, ClockAhead
      <4> QED BY <1>2, <1>4, <2>3, <3>2, <4>1
    <3>3. CASE r # s /\ clock.init = kTimestampZero
      <4>1. src[r].ts = 0
        BY <1>1, <3>3 DEF ClockFollows
      <4> QED BY <1>2, <1>4, <2>1, <2>3, <3>3, <4>1
    <3> QED BY <3>1, <3>2, <3>3
  <2>5. ClockAhead'
    BY <2>1, <2>4 DEF ClockAhead
  <2>6. ClockFollows'
    BY <1>2, <1>4, <1>6, <1>7, <2>1, <2>5 DEF ClockFollows
  <2>7. OneIsMissing'
    BY <1>2, <1>4, <2>1, <2>2 DEF OneIsMissing
  <2> QED BY <1>9, <2>6, <2>7, RequestSourceWaits DEF OneFrameMayMiss
<1> QED BY <1>8, <1>9

\* The padding loop makes one step, then its own frame is scheduled.
LEMMA PaddingWaits ==
  ASSUME OneFrameMayMiss, WaitInv, FrameInv', TypeOK', NEW s \in Sources,
         Padding(s) \/ PaddingDone(s)
  PROVE  ClockFollows' /\ OneIsMissing' /\ WaitingIsScheduled'
<1>1. /\ TypeOK /\ FrameInv /\ ClockFollows /\ ClockStarts /\ OnePads
      /\ RequestsHaveTimestamp /\ WaitingIsScheduled
      /\ QueuesWhenFull(sched) /\ FramesInOrder(sched, clock)
  BY DEF WaitInv, FrameInv, QueuesWhenFull
<1>2. /\ MaxOffset \in Nat /\ SensorDelta \in Nat \ {0}
      /\ clock \in Clock /\ clock' \in Clock /\ clock.expected \in Int
      /\ sched \in Scheduler /\ sched' \in Scheduler
      /\ src \in [Sources -> [pc : SourcePc, ts : Int, step : Steps, run : BOOLEAN]]
      /\ \A u \in Timestamps : u \in Int
  BY <1>1, ClockAssumption, TimeDomainAssumption DEF TypeOK, Clock
<1>3. /\ clock' = advanceTimeStep(clock) /\ ~RequestMutexFree
      /\ src[s].pc \in {"pad", "padded"} /\ latestComponentTs' = latestComponentTs
      /\ stopScheduled' = stopScheduled
  BY DEF Padding, PaddingDone, RequestMutexFree
<1>4. clock'.init = clock.init /\ clock'.expected = clock.expected + SensorDelta
  BY <1>1, <1>2, <1>3, NextFrame DEF OneFrameMayMiss, ClockStarts
<1>5. clock.init # kTimestampZero
  BY <1>1, <1>3 DEF ClockStarts
<1>6. /\ \A r \in Sources : src'[r].ts = src[r].ts /\ src[r].ts \in Int
      /\ \A r \in Sources \ {s} : src'[r] = src[r] /\ src[r].pc \notin {"pad", "padded"}
  BY <1>1, <1>2, <1>3 DEF Padding, PaddingDone, OnePads
<1>7. \/ src'[s].pc = "padded" /\ isWithinRange(clock'.expected, src[s].ts)
      \/ src'[s].pc = "waiting" /\ isWithinRange(clock.expected, src[s].ts)
  <2>1. CASE Padding(s)
    <3>1. isWithinRange(clock'.expected, src[s].ts)
      BY <1>4, <2>1 DEF WaitInv, OneIsMissing, Padding
    <3> QED BY <1>2, <2>1, <3>1 DEF Padding, isNextExpectedTimestampOrBigger,
                                    isNextExpectedTimestamp
  <2>2. CASE PaddingDone(s)
    BY <1>2, <2>2 DEF PaddingDone, WaitInv, OneIsMissing
  <2> QED BY <2>1, <2>2
<1>8. ClockFollows'
  <2>1. \A r \in Sources : latestComponentTs'[r] <= src'[r].ts /\ src'[r].ts >= 0
    BY <1>1, <1>3, <1>6 DEF ClockFollows
  <2>2. \E r \in Sources : src'[r].ts > 0
    BY <1>1, <1>5, <1>6 DEF ClockFollows
  <2>3. \A u \in Timestamps : SameGrid(clock'.expected, u)
    BY <1>1, <1>2, <1>4, <1>5, NextOnGrid DEF ClockFollows
  <2>4. ASSUME ~stopScheduled'
        PROVE  ClockAhead'
    <3>1. ClockAhead
      BY <1>1, <1>3, <1>5, <2>4 DEF ClockFollows
    <3>2. \A x \in {clock'.init, AsDouble(clock'.init)} :
            x + SensorDelta <= clock'.expected + MaxOffset
      BY <1>2, <1>4, <3>1, InitStaysBehind DEF ClockAhead, OneFrameMayMiss
    <3>3. ASSUME NEW r \in Sources, src'[r].pc \notin {"pad", "padded"}
          PROVE  src'[r].ts + SensorDelta <= clock'.expected + 2 * MaxOffset
      <4>1. CASE r = s
        BY <1>2, <1>4, <1>6, <1>7, <3>3, <4>1 DEF isWithinRange
      <4>2. CASE r # s
        <5>1. src[r].ts + SensorDelta <= clock.expected + 2 * MaxOffset
          BY <1>6, <3>1, <4>2 DEF ClockAhead
        <5> QED BY <1>2, <1>4, <1>6, <5>1
      <4> QED BY <4>1, <4>2
    <3> QED BY <3>2, <3>3 DEF ClockAhead
  <2> QED BY <1>4, <1>5, <2>1, <2>2, <2>3, <2>4 DEF ClockFollows
<1>9. OneIsMissing'
  BY <1>6, <1>7 DEF OneIsMissing
<1>10. WaitingIsScheduled'
  <2>1. PICK m \in Message : /\ m.type = "DATA" /\ m.ts = clock.expected
                             /\ FrameComes(sched, sched', m)
    BY <1>1, PaddingFrames
  <2>2. clock.expected > 0
    BY <1>1, <1>5 DEF ClockStarts
  <2>3. m.ts >= sched.latestRunning
    BY <1>1, <1>2, <2>1, <2>2, FrameFields DEF FramesInOrder
  <2>4. src'[s].pc = "waiting" => WaitsFor(sched', src'[s].ts)
    BY <1>2, <1>6, <1>7, <2>1, <2>3, FrameComesWait
  <2> QED BY <1>1, <1>6, <2>1, <2>3, <2>4, OthersWaitOn
<1> QED BY <1>8, <1>9, <1>10

\* No other step makes a source wait.
LEMMA OthersWait ==
  ASSUME WaitInv, TypeOK', [Next]_vars,
         ~ \E s \in Sources, ts \in Timestamps : RequestSourceBuffer(s, ts),
         ~ \E s \in Sources : Padding(s) \/ PaddingDone(s)
  PROVE  ClockFollows' /\ OneIsMissing' /\ WaitingIsScheduled'
<1>1. /\ TypeOK /\ ClockFollows /\ RequestsHaveTimestamp /\ WaitingIsScheduled
      /\ QueuesWhenFull(sched) /\ FramesInOrder(sched, clock)
  BY DEF WaitInv, FrameInv, QueuesWhenFull
<1>2. clock' = clock /\ latestComponentTs' = latestComponentTs
      /\ (stopScheduled => stopScheduled')
  BY <1>1, OthersLeaveClock, OthersLeaveSources
<1>3. ASSUME NEW s \in Sources
      PROVE  /\ src'[s].ts = src[s].ts
             /\ src'[s].pc = "pad" <=> src[s].pc = "pad"
             /\ src'[s].pc = "padded" <=> src[s].pc = "padded"
             /\ src'[s].pc = "waiting" => src[s].pc = "waiting"
  BY <1>1, OthersLeaveSources
<1>4. ClockFollows'
  BY <1>1, <1>2, <1>3 DEF ClockFollows, ClockAhead
<1>5. OneIsMissing'
  BY <1>2, <1>3 DEF OneIsMissing, WaitInv
<1>6. \/ SameFrames(sched, sched')
      \/ \E m \in Message :
           /\ m.type = "DATA" => m.ts >= sched.latestRunning
           /\ FrameComes(sched, sched', m)
      \/ FrameLeaves(sched, sched')
  BY <1>1, OtherFrames
<1>7. WaitingIsScheduled'
  BY <1>1, <1>3, <1>6, OthersWaitOn
<1> QED BY <1>4, <1>5, <1>7

LEMMA WaitStep ==
  ASSUME OneFrameMayMiss, SourceMode = "WAIT_FOR_BUFFER", WaitInv, [Next]_vars
  PROVE  WaitInv'
<1>1. FrameInv'
  BY FrameStep DEF WaitInv, OneFrameMayMiss
<1>2. OnePads' /\ RequestsHaveTimestamp'
  BY PadsStep DEF WaitInv, FrameInv
<1>3. ClockFollows' /\ OneIsMissing' /\ WaitingIsScheduled'
  BY <1>1, RequestWaits, PaddingWaits, OthersWait DEF FrameInv
<1> QED BY <1>1, <1>2, <1>3 DEF WaitInv

LEMMA WaitInit ==
  ASSUME Init
  PROVE  WaitInv
<1>1. \A s \in Sources : src[s].pc \in {"off", "idle"} /\ src[s].ts = 0
  BY DEF Init, kTimestampZero
<1>2. clock.init = kTimestampZero /\ \A s \in Sources : latestComponentTs[s] = 0
  BY DEF Init, InitialClock, kTimestampZero
<1> QED BY <1>1, <1>2, FrameInit DEF WaitInv, OnePads, RequestsHaveTimestamp, ClockFollows,
       OneIsMissing, WaitingIsScheduled

\* With IMMEDIATE_RETURN nobody waits.
NobodyWaits == TypeOK /\ \A s \in Sources : src[s].pc \notin {"pad", "padded", "waiting"}

LEMMA NobodyWaitsStep ==
  ASSUME SourceMode = "IMMEDIATE_RETURN", NobodyWaits, [Next]_vars
  PROVE  NobodyWaits'
<1>1. TypeOK /\ TypeOK'
  BY TypeStep DEF NobodyWaits
<1>2. ASSUME NEW s \in Sources, NEW ts \in Timestamps, RequestSourceBuffer(s, ts)
      PROVE  NobodyWaits'
  <2>1. PICK pc, i : SourceAt(s, pc, ts, i) /\ pc \notin {"pad", "padded", "waiting"}
    BY <1>2 DEF RequestSourceBuffer, RequestInvalid, RequestRunning, RequestScheduled,
                RequestAfterStop, RequestNewTimestampWait, RequestNewTimestampImmediate
  <2>2. ts \in Int
    BY TimeDomainAssumption
  <2>3. src'[s].pc = pc /\ \A r \in Sources \ {s} : src'[r] = src[r]
    BY <1>1, <2>1, <2>2, RequestHorizon
  <2> QED BY <1>1, <2>1, <2>3 DEF NobodyWaits
<1>3. ~ \E s \in Sources : Padding(s) \/ PaddingDone(s)
  BY DEF NobodyWaits, Padding, PaddingDone
<1>4. CASE ~ \E s \in Sources, ts \in Timestamps : RequestSourceBuffer(s, ts)
  <2>1. ASSUME NEW s \in Sources
        PROVE  src'[s].pc \notin {"pad", "padded", "waiting"}
    <3>1. src'[s].pc # src[s].pc => src'[s].pc \in {"off", "idle", "found", "holding"}
      BY <1>1, <1>3, <1>4, OthersLeaveSources
    <3>2. src[s].pc \notin {"pad", "padded", "waiting"}
      BY DEF NobodyWaits
    <3> QED BY <3>1, <3>2
  <2> QED BY <1>1, <2>1 DEF NobodyWaits
<1> QED BY <1>2, <1>4

\* A source that waits for its frame waits for something that will happen, for
\* any number of sources and time steps, with any missing source event mode,
\* and also when stop() gives up: as long as the sensors are synchronised, their
\* frames apart, and at most one frame is missed in a row.
THEOREM NobodyWaitsInVain ==
  ASSUME SteadyClock, Synchronised, MaxSkip <= 1, FramesApart, PreciseClock
  PROVE  Spec => []WaitingIsScheduled
<1>1. CASE SourceMode = "WAIT_FOR_BUFFER"
  <2>1. Init => WaitInv
    BY WaitInit
  <2>2. WaitInv /\ [Next]_vars => WaitInv'
    BY <1>1, WaitStep DEF OneFrameMayMiss
  <2>3. WaitInv => WaitingIsScheduled
    BY DEF WaitInv
  <2> QED BY <2>1, <2>2, <2>3, PTL DEF Spec
<1>2. CASE SourceMode = "IMMEDIATE_RETURN"
  <2>1. Init => NobodyWaits
    <3>1. Init => \A s \in Sources : src[s].pc \in {"off", "idle"}
      BY DEF Init
    <3> QED BY <3>1, TypeInit DEF NobodyWaits
  <2>2. NobodyWaits /\ [Next]_vars => NobodyWaits'
    BY <1>2, NobodyWaitsStep
  <2>3. NobodyWaits => WaitingIsScheduled
    BY DEF NobodyWaits, WaitingIsScheduled
  <2> QED BY <2>1, <2>2, <2>3, PTL DEF Spec
<1> QED BY <1>1, <1>2, TimeDomainAssumption

-----------------------------------------------------------------------------
(* How often a source is marked invalid in a queued frame. *)

\* A source with the record a that is marked in the message m is marked once, and
\* will not ask for a timestamp while the message is queued.
MarkedIn(m, s, a) ==
  m.type = "DATA" /\ m.invalid[s] > 0 =>
    /\ m.invalid[s] = 1
    /\ \/ a.pc = "refused"
       \/ a.pc \in {"pad", "padded", "waiting"} /\ IsOlder(m.ts, a.ts)

AllMarkedIn(q, s, a) == \A k \in 1..Len(q) : MarkedIn(q[k], s, a)

\* A source that is in no queued frame marked as invalid.
Unmarked(q, s) == \A k \in 1..Len(q) : q[k].type = "DATA" => q[k].invalid[s] = 0

LEMMA MarkedMeans ==
  MarkedOnce <=> \A s \in Sources : AllMarkedIn(sched.queue, s, src[s])
BY DEF MarkedOnce, AllMarkedIn, MarkedIn

\* A source that is about to ask is not marked.
LEMMA UnmarkedMeans ==
  ASSUME NEW q \in Seq(Message), NEW s \in Sources, NEW a
  PROVE  /\ Unmarked(q, s) => AllMarkedIn(q, s, a)
         /\ AllMarkedIn(q, s, a) /\ a.pc \notin {"refused", "pad", "padded", "waiting"}
              => Unmarked(q, s)
         /\ AllMarkedIn(q, s, a) /\ a.pc # "refused"
              /\ (\A k \in 1..Len(q) : q[k].type = "DATA" => ~IsOlder(q[k].ts, a.ts))
              => Unmarked(q, s)
<1>1. \A k \in 1..Len(q) : q[k].invalid[s] \in Nat
  <2>1. \A k \in 1..Len(q) : q[k] \in Message
    OBVIOUS
  <2> QED BY <2>1 DEF Message
<1> QED BY <1>1 DEF Unmarked, AllMarkedIn, MarkedIn

\* The frames in the queue r are those of the queue q, and some of M.
Remain(q, r, M) ==
  \A k \in 1..Len(r) : r[k].type = "DATA" =>
    r[k] \in M \/ \E j \in 1..Len(q) : r[k] = q[j]

\* The marks stay with the frames.
LEMMA MarkedRemains ==
  ASSUME NEW q, NEW r, NEW M, Remain(q, r, M), NEW s, NEW a,
         AllMarkedIn(q, s, a), \A m \in M : MarkedIn(m, s, a)
  PROVE  AllMarkedIn(r, s, a)
BY DEF Remain, AllMarkedIn, MarkedIn

\* A message comes to the queue.
LEMMA EnqueueRemains ==
  ASSUME NEW d \in Scheduler, NEW m \in Message, QueuesWhenFull(d)
  PROVE  Remain(d.queue, Enqueue(d, m).queue, {m})
<1> DEFINE r == Enqueue(d, m)
           q == Append(d.queue, m)
<1>1. d.queue \in Seq(Message)
  BY DEF Scheduler
<1>2. CASE d.free = 0 /\ r = [d EXCEPT !.queue = q]
  <2>1. r.queue = q
    BY <1>2 DEF Scheduler
  <2>2. Len(q) = Len(d.queue) + 1 /\ \A k \in 1..(Len(d.queue) + 1) :
          q[k] = IF k <= Len(d.queue) THEN d.queue[k] ELSE m
    BY <1>1, AppendProperties
  <2> HIDE DEF q, r
  <2>3. \A k \in 1..Len(q) : q[k] = m \/ (k \in 1..Len(d.queue) /\ q[k] = d.queue[k])
    BY <1>1, <2>2
  <2>4. Remain(d.queue, r.queue, {m})
    BY <2>1, <2>3 DEF Remain
  <2> QED BY <2>4 DEF r
<1>3. CASE r.queue = <<>>
  BY <1>3 DEF Remain
<1> QED BY <1>2, <1>3, EnqueueCases DEF QueuesWhenFull

\* A message leaves the queue.
LEMMA FreeRemains ==
  ASSUME NEW d \in Scheduler, NEW e \in Steps
  PROVE  Remain(d.queue, freeTimeStep(d, e).queue, {})
<1> DEFINE r == freeTimeStep(d, e)
<1>1. PICK z : /\ Cleared(d, z, e)
               /\ \/ d.queue = <<>> /\ r = setTaskflowFree(z, e)
                  \/ d.queue # <<>> /\ r = runTaskFlowFromQueue(z)
  BY FreeCases
<1> SUFFICES Remain(d.queue, r.queue, {})
  OBVIOUS
<1> HIDE DEF r
<1>2. z \in Scheduler /\ z.queue = d.queue /\ d.queue \in Seq(Message)
  BY <1>1 DEF Cleared, Scheduler
<1>3. CASE d.queue = <<>> /\ r = setTaskflowFree(z, e)
  <2>1. r.queue = <<>>
    BY <1>2, <1>3 DEF setTaskflowFree, Scheduler
  <2> QED BY <2>1 DEF Remain
<1>4. CASE d.queue # <<>> /\ r = runTaskFlowFromQueue(z)
  <2>1. r.queue = Tail(d.queue)
    BY <1>2, <1>4, RunFromQueueLoads
  <2>2. \A k \in 1..Len(r.queue) :
          k + 1 \in 1..Len(d.queue) /\ r.queue[k] = d.queue[k + 1]
    BY <1>2, <1>4, <2>1, HeadTailProperties
  <2> QED BY <2>2 DEF Remain
<1> QED BY <1>1, <1>3, <1>4

\* A source cancels the older frames once.
LEMMA MarkedByCancel ==
  ASSUME NEW d \in Scheduler, NEW r \in Scheduler, NEW s \in Sources, NEW ts \in Int,
         Cancels(d, r, {s}, ts)
  PROVE  /\ \A x \in Sources \ {s} : \A a :
              AllMarkedIn(d.queue, x, a) => AllMarkedIn(r.queue, x, a)
         /\ \A a : Unmarked(d.queue, s) /\ a.ts = ts
                     /\ a.pc \in {"refused", "pad", "padded", "waiting"}
                     => AllMarkedIn(r.queue, s, a)
         /\ Unmarked(d.queue, s)
              /\ (\A k \in 1..Len(d.queue) :
                    d.queue[k].type = "DATA" => ~IsOlder(d.queue[k].ts, ts))
              => Unmarked(r.queue, s)
<1>1. /\ Len(r.queue) = Len(d.queue)
      /\ \A k \in 1..Len(d.queue) :
           /\ r.queue[k].type = d.queue[k].type /\ r.queue[k].ts = d.queue[k].ts
           /\ \A x \in Sources :
                \/ r.queue[k].invalid[x] = d.queue[k].invalid[x]
                \/ /\ x \in {s} /\ d.queue[k].type = "DATA" /\ IsOlder(d.queue[k].ts, ts)
                   /\ r.queue[k].invalid[x] = d.queue[k].invalid[x] + 1
  BY DEF Cancels
<1>2. ASSUME NEW x \in Sources \ {s}, NEW a, AllMarkedIn(d.queue, x, a)
      PROVE  AllMarkedIn(r.queue, x, a)
  BY <1>1, <1>2 DEF AllMarkedIn, MarkedIn
<1>3. ASSUME NEW a, Unmarked(d.queue, s), a.ts = ts,
             a.pc \in {"refused", "pad", "padded", "waiting"}
      PROVE  AllMarkedIn(r.queue, s, a)
  <2>1. ASSUME NEW k \in 1..Len(d.queue), r.queue[k].type = "DATA", r.queue[k].invalid[s] > 0
        PROVE  r.queue[k].invalid[s] = 1 /\ IsOlder(r.queue[k].ts, ts)
    <3>1. d.queue[k].invalid[s] = 0
      BY <1>1, <1>3, <2>1 DEF Unmarked
    <3> QED BY <1>1, <2>1, <3>1
  <2> QED BY <1>1, <1>3, <2>1 DEF AllMarkedIn, MarkedIn
<1>4. ASSUME Unmarked(d.queue, s),
             \A k \in 1..Len(d.queue) :
               d.queue[k].type = "DATA" => ~IsOlder(d.queue[k].ts, ts)
      PROVE  Unmarked(r.queue, s)
  BY <1>1, <1>4 DEF Unmarked
<1> QED BY <1>2, <1>3, <1>4

-----------------------------------------------------------------------------
(* When a promise is set twice. *)

\* A message is loaded into a free time step: only one that is marked twice throws.
LEMMA EnqueueThrows ==
  ASSUME NEW d, NEW e \in Steps, RingInv(d, e), ~d.thrown, NEW m \in Message,
         m.type = "DATA" => \A s \in Sources : m.invalid[s] <= 1
  PROVE  ~Enqueue(d, m).thrown
<1> DEFINE r == Enqueue(d, m)
           i == NextTimeStep(d.latest)
<1>1. d \in Scheduler /\ (d.queue # <<>> => d.free = 0)
  BY DEF RingInv, Window
<1>2. CASE d.free = 0 /\ r = [d EXCEPT !.queue = Append(d.queue, m)]
  <2>1. r.thrown = d.thrown
    BY <1>1, <1>2 DEF Scheduler
  <2> QED BY <2>1
<1>3. CASE d.free > 0 /\ r.thrown = Throws(d, i, m)
  <2>1. d.lock[i] = {}
    BY <1>3, NextIsFree
  <2>2. m.type = "DATA" => \A s \in Sources : ~(m.invalid[s] > 1)
    <3>1. \A s \in Sources : m.invalid[s] \in Nat
      BY DEF Message
    <3> QED BY <3>1
  <2>3. ~Throws(d, i, m)
    BY <2>1, <2>2 DEF Throws
  <2> QED BY <1>3, <2>3
<1> QED BY <1>1, <1>2, <1>3, EnqueueCases

\* So does the end of a time step.
LEMMA FreeThrows ==
  ASSUME NEW d, NEW e \in Steps, RingInv(d, e), ~d.thrown,
         \A k \in 1..Len(d.queue) : d.queue[k].type = "DATA" =>
           \A s \in Sources : d.queue[k].invalid[s] <= 1
  PROVE  ~freeTimeStep(d, e).thrown
<1> DEFINE r == freeTimeStep(d, e)
<1>1. d \in Scheduler
  BY DEF RingInv
<1>2. PICK z : /\ Cleared(d, z, e)
               /\ \/ d.queue = <<>> /\ r = setTaskflowFree(z, e)
                  \/ d.queue # <<>> /\ r = runTaskFlowFromQueue(z)
  BY <1>1, FreeCases
<1> SUFFICES ~r.thrown
  OBVIOUS
<1> HIDE DEF r
<1>3. /\ z \in Scheduler /\ z.queue = d.queue /\ z.thrown = d.thrown
      /\ z.latest = d.latest /\ z.lock[e] = {}
  BY <1>1, <1>2 DEF Cleared, Scheduler
<1>4. CASE r = setTaskflowFree(z, e)
  <2>1. r.thrown = z.thrown
    BY <1>3, <1>4 DEF setTaskflowFree, Scheduler
  <2> QED BY <1>3, <2>1
<1>5. CASE d.queue # <<>> /\ r = runTaskFlowFromQueue(z)
  <2> DEFINE m == Head(d.queue)
             i == NextTimeStep(z.latest)
  <2>1. r.thrown = Throws(z, i, m)
    BY <1>3, <1>5, RunFromQueueLoads
  <2>2. i = e
    <3>1. i \in Steps /\ RingDistance(e, i) = 0
      BY <1>1, <1>3, <1>5, NextTimeStepType DEF RingInv, Window, Scheduler
    <3> QED BY <3>1, RingArithmetic
  <2>3. m = d.queue[1] /\ 1 \in 1..Len(d.queue) /\ m \in Message
    BY <1>1, <1>5, HeadTailProperties DEF Scheduler
  <2> HIDE DEF m, i
  <2>4. m.type = "DATA" => \A s \in Sources : ~(m.invalid[s] > 1)
    <3>1. \A s \in Sources : m.invalid[s] \in Nat
      BY <2>3 DEF Message
    <3> QED BY <2>3, <3>1
  <2>5. ~Throws(z, i, m)
    BY <1>3, <2>2, <2>4 DEF Throws
  <2> QED BY <2>1, <2>5
<1> QED BY <1>2, <1>4, <1>5

\* No promise is set twice when a source asks for a frame ...
LEMMA RequestThrows ==
  ASSUME Disciplined, BufferInv, ~sched.thrown,
         NEW s \in Sources, NEW ts \in Timestamps, RequestSourceBuffer(s, ts)
  PROVE  ~sched'.thrown
<1> DEFINE c == newTimestamp(clock, ts)
           d == cancelOlderEvents(s, ts)
           m == ScheduledEvent("DATA", c.expected)
           z == scheduleDataEventImmediately(d, ts)
<1>1. /\ sched \in Scheduler /\ ts \in Int /\ endTurn \in Steps /\ clock \in Clock
      /\ CanRequest(s, ts) /\ {s} \in SUBSET Sources
  BY TimeDomainAssumption DEF BufferInv, TypeOK, RequestSourceBuffer
<1>2. RingInv(d, endTurn) /\ d.latest = sched.latest /\ d.free = sched.free
  BY <1>1, RequestCancels
<1>3. ~d.thrown /\ d \in Scheduler
  <2>1. d = cancelSources(sched, {s}, ts)
    BY DEF cancelOlderEvents, Disciplined
  <2>2. Cancels(sched, d, {s}, ts)
    BY <1>1, <2>1, CancelSourcesCancels
  <2> QED BY <1>2, <2>2 DEF Cancels, RingInv
<1>4. m \in Message /\ \A x \in Sources : m.invalid[x] <= 1
  <2>1. c.expected \in Int
    BY <1>1, ClockType DEF Clock
  <2> QED BY <2>1, MessageType DEF ScheduledEvent, EventType
<1>5. ~Enqueue(d, m).thrown
  BY <1>1, <1>2, <1>3, <1>4, EnqueueThrows
<1>6. d.free > 0 => ~z.thrown /\ z \in Scheduler
  BY <1>1, <1>3, ImmediateLoads, ImmediateType
<1>7. \A x \in Scheduler, i \in Steps :
        [x EXCEPT !.setInput[i] = @ \cup {s}].thrown = x.thrown
  BY DEF Scheduler
<1> HIDE DEF c, d, m, z
<1>8. CASE RequestInvalid(s, ts)
  BY <1>8 DEF RequestInvalid
<1>9. CASE RequestRunning(s, ts)
  BY <1>3, <1>7, <1>9 DEF RequestRunning, d
<1>10. CASE RequestScheduled(s, ts) \/ RequestAfterStop(s, ts)
  BY <1>3, <1>10 DEF RequestScheduled, RequestAfterStop, d
<1>11. CASE RequestNewTimestampWait(s, ts)
  BY <1>3, <1>5, <1>11 DEF RequestNewTimestampWait, scheduleEvent, c, d, m
<1>12. CASE RequestNewTimestampImmediate(s, ts)
  <2> DEFINE i == NextTimeStep(sched.latest)
  <2>1. CASE sched.free > 0 /\ sched' = [z EXCEPT !.setInput[i] = @ \cup {s}]
    <3>1. i \in Steps
      BY <1>1, NextTimeStepType DEF Scheduler
    <3> HIDE DEF i
    <3> QED BY <1>2, <1>6, <1>7, <2>1, <3>1
  <2>2. CASE sched' = d
    BY <1>3, <2>2
  <2> QED BY <1>12, <2>1, <2>2 DEF RequestNewTimestampImmediate, d, z
<1> QED BY <1>8, <1>9, <1>10, <1>11, <1>12 DEF RequestSourceBuffer

\* ... or goes on with its request.
LEMMA SourceThrows ==
  ASSUME Disciplined, BufferInv, ~sched.thrown, NEW s \in Sources, SourceNext(s)
  PROVE  ~sched'.thrown
<1>1. /\ sched \in Scheduler /\ clock.expected \in Int /\ endTurn \in Steps
      /\ RingInv(sched, endTurn) /\ src[s].step \in Steps /\ src[s].ts \in Int
  BY SourceFields DEF BufferInv, TypeOK, Clock
<1>2. CASE \E ts \in Timestamps : RequestSourceBuffer(s, ts)
  BY <1>2, RequestThrows
<1>3. CASE Padding(s) \/ PaddingDone(s)
  <2> DEFINE m == ScheduledEvent("DATA", clock.expected)
             p == [m EXCEPT !.invalid[s] = 1]
  <2>1. m \in Message /\ p \in Message
    BY <1>1, MessageType DEF EventType
  <2>2. \A x \in Sources : m.invalid[x] <= 1 /\ p.invalid[x] <= 1
    BY DEF ScheduledEvent
  <2>3. sched' = Enqueue(sched, m) \/ sched' = Enqueue(sched, p)
    BY <1>3 DEF Padding, PaddingDone, scheduleEvent, schedulePaddingEvent
  <2> HIDE DEF m, p
  <2> QED BY <1>1, <2>1, <2>2, <2>3, EnqueueThrows
<1>4. CASE WaitForRunning(s) \/ PlayerExit(s)
  BY <1>4 DEF WaitForRunning, PlayerExit, schedVars
<1>5. CASE ClaimSourceBuffer(s)
  <2>1. [sched EXCEPT !.setInput[src[s].step] = @ \cup {s}].thrown = sched.thrown
    BY <1>1 DEF Scheduler
  <2> QED BY <1>5, <2>1 DEF ClaimSourceBuffer
<1>6. CASE Commit(s)
  <2>1. s \notin sched.lock[src[s].step]
    BY <1>6, BufferInvMatches DEF Commit, BufferMatchesRequest
  <2> QED BY <1>1, <1>6, <2>1, CommitFields DEF Commit
<1> QED BY <1>2, <1>3, <1>4, <1>5, <1>6 DEF SourceNext

\* No step sets a promise twice, as long as no queued frame is marked twice.
LEMMA ThrownStep ==
  ASSUME Disciplined, BufferInv, ~sched.thrown, [Next]_vars,
         \A k \in 1..Len(sched.queue) : sched.queue[k].type = "DATA" =>
           \A s \in Sources : sched.queue[k].invalid[s] <= 1
  PROVE  ~sched'.thrown
<1>1. sched \in Scheduler /\ endTurn \in Steps /\ RingInv(sched, endTurn)
  BY DEF BufferInv, TypeOK
<1>2. ASSUME NEW i \in Steps, timeStepEnded(i)
      PROVE  ~sched'.thrown
  <2>1. endTurn = i /\ sched' = freeTimeStep(sched, i)
    BY <1>2 DEF timeStepEnded, EndActive
  <2> QED BY <1>1, <2>1, FreeThrows
<1>3. ASSUME NEW i \in Steps, TaskflowNext(i)
      PROVE  ~sched'.thrown
  BY <1>2, <1>3 DEF TaskflowNext, SeamEntry, StopPlayer, SourceTask, SinkTask, schedVars
<1>4. CASE (\E r \in Rings : SerialSeam(r)) \/ StartSeam \/ UNCHANGED vars
  BY <1>4 DEF SerialSeam, StartSeam, vars, schedVars
<1>5. CASE AppNext \/ ParameterChanged
  <2>1. \/ sched' = sched
        \/ \E type \in EventType : sched' = scheduleEvent(sched, type, kTimestampZero)
    BY <1>5 DEF AppNext, ParameterChanged, AppLaunch, AppConfigure, AppStart, AppStarted,
         AppStop, AppStopTimeout, AppTeardown, AppTornDown, AppFlush, AppFinish,
         scheduleNonDataEvent, schedVars, EventType, Disciplined
  <2>2. ASSUME NEW type \in EventType
        PROVE  ~scheduleEvent(sched, type, kTimestampZero).thrown
    <3> DEFINE m == ScheduledEvent(type, kTimestampZero)
    <3>1. m \in Message /\ \A s \in Sources : m.invalid[s] <= 1
      BY MessageType DEF ScheduledEvent, kTimestampZero
    <3> HIDE DEF m
    <3>2. ~Enqueue(sched, m).thrown
      BY <1>1, <3>1, EnqueueThrows
    <3> QED BY <3>2 DEF scheduleEvent, m
  <2> QED BY <2>1, <2>2
<1> QED BY <1>3, <1>4, <1>5, SourceThrows DEF Next

-----------------------------------------------------------------------------
(* A source is marked once. *)

\* The steps that do not ask for a frame add none to the queue.
LEMMA OthersRemain ==
  ASSUME TypeOK, QueuesWhenFull(sched), [Next]_vars, ~StopTimeouts,
         ~ \E s \in Sources, ts \in Timestamps : RequestSourceBuffer(s, ts),
         ~ \E s \in Sources : Padding(s) \/ PaddingDone(s)
  PROVE  Remain(sched.queue, sched'.queue, {})
<1>1. sched \in Scheduler
  BY DEF TypeOK
<1>2. CASE sched'.queue = sched.queue
  BY <1>2 DEF Remain
<1>3. ASSUME NEW s \in Sources, SourceNext(s)
      PROVE  sched'.queue = sched.queue
  <2>1. src[s].step \in Steps /\ src[s].ts \in Int
    BY SourceFields
  <2>2. CASE WaitForRunning(s) \/ PlayerExit(s)
    BY <2>2 DEF WaitForRunning, PlayerExit, schedVars
  <2>3. CASE ClaimSourceBuffer(s)
    <3>1. [sched EXCEPT !.setInput[src[s].step] = @ \cup {s}].queue = sched.queue
      BY <1>1 DEF Scheduler
    <3> QED BY <2>3, <3>1 DEF ClaimSourceBuffer
  <2>4. CASE Commit(s)
    <3>1. commit(sched, s, src[s].step, src[s].ts).queue = sched.queue
      BY <1>1, <2>1 DEF commit, Scheduler
    <3> QED BY <2>4, <3>1 DEF Commit
  <2> QED BY <1>3, <2>2, <2>3, <2>4 DEF SourceNext
<1>4. ASSUME NEW i \in Steps, TaskflowNext(i)
      PROVE  sched' = sched \/ sched' = freeTimeStep(sched, i)
  BY <1>4 DEF TaskflowNext, SeamEntry, StopPlayer, SourceTask, SinkTask, timeStepEnded,
              schedVars
<1>5. CASE (\E r \in Rings : SerialSeam(r)) \/ StartSeam \/ UNCHANGED vars
  BY <1>2, <1>5 DEF SerialSeam, StartSeam, vars, schedVars
<1>6. CASE AppNext \/ ParameterChanged
  <2>1. \/ sched' = sched
        \/ \E type \in EventType \ {"DATA"} :
             sched' = scheduleEvent(sched, type, kTimestampZero)
    BY <1>6 DEF AppNext, ParameterChanged, AppLaunch, AppConfigure, AppStart, AppStarted,
         AppStop, AppStopTimeout, AppTeardown, AppTornDown, AppFlush, AppFinish,
         scheduleNonDataEvent, schedVars, EventType
  <2>2. ASSUME NEW type \in EventType \ {"DATA"}
        PROVE  Remain(sched.queue, scheduleEvent(sched, type, kTimestampZero).queue, {})
    <3> DEFINE m == ScheduledEvent(type, kTimestampZero)
    <3>1. m \in Message /\ m.type # "DATA"
      BY MessageType DEF ScheduledEvent, kTimestampZero
    <3> HIDE DEF m
    <3>2. Remain(sched.queue, Enqueue(sched, m).queue, {m})
      BY <1>1, <3>1, EnqueueRemains
    <3>3. Remain(sched.queue, Enqueue(sched, m).queue, {})
      BY <3>1, <3>2 DEF Remain
    <3> QED BY <3>3 DEF scheduleEvent, m
  <2> QED BY <1>2, <2>1, <2>2
<1> QED BY <1>1, <1>2, <1>3, <1>4, <1>5, <1>6, FreeRemains DEF Next

\* A source asks for a frame: it is not marked in any other one, and from now on
\* it is in the older ones.
LEMMA RequestMarks ==
  ASSUME Disciplined, RefusalIsFinal, SourceMode = "WAIT_FOR_BUFFER", FrameInv, MarkInv,
         NEW s \in Sources, NEW ts \in Timestamps, RequestSourceBuffer(s, ts)
  PROVE  MarkedOnce'
<1> DEFINE c == newTimestamp(clock, ts)
           d == cancelOlderEvents(s, ts)
           m == ScheduledEvent("DATA", c.expected)
           q == sched.queue
<1>1. /\ sched \in Scheduler /\ ts \in Int /\ clock \in Clock /\ c \in Clock
      /\ CanRequest(s, ts) /\ TypeOK /\ FramesInOrder(sched, clock)
      /\ QueuesWhenFull(sched)
  <2>1. /\ sched \in Scheduler /\ ts \in Int /\ clock \in Clock /\ TypeOK
        /\ FramesInOrder(sched, clock) /\ QueuesWhenFull(sched)
    BY TimeDomainAssumption DEF FrameInv, TypeOK, QueuesWhenFull
  <2>2. CanRequest(s, ts)
    BY DEF RequestSourceBuffer
  <2>3. c \in Clock
    BY <2>1, ClockType
  <2> QED BY <2>1, <2>2, <2>3
<1>2. d \in Scheduler /\ Cancels(sched, d, {s}, ts) /\ QueuesWhenFull(d)
  <2>1. d = cancelSources(sched, {s}, ts)
    BY DEF cancelOlderEvents, Disciplined
  <2>2. d \in Scheduler /\ Cancels(sched, d, {s}, ts)
    BY <1>1, <2>1, CancelSourcesType, CancelSourcesCancels
  <2> QED BY <1>1, <2>2 DEF Cancels, QueuesWhenFull
<1>3. q \in Seq(Message) /\ \A x \in Sources : AllMarkedIn(q, x, src[x])
  BY <1>1, MarkedMeans DEF MarkInv, Scheduler
<1>4. Unmarked(q, s)
  <2>1. src[s].pc = "idle"
    BY <1>1 DEF CanRequest
  <2> QED BY <1>3, <2>1, UnmarkedMeans
<1>5. m \in Message /\ m.ts = c.expected /\ \A x \in Sources : ~(m.invalid[x] > 0)
  BY <1>1, MessageType DEF ScheduledEvent, EventType, Clock
<1> HIDE DEF c, d, m
<1>6. \A x \in Sources \ {s} : AllMarkedIn(d.queue, x, src[x])
  BY <1>1, <1>2, <1>3, MarkedByCancel
<1>7. ASSUME NEW pc, NEW i, SourceAt(s, pc, ts, i),
             \/ pc \in {"refused", "pad", "padded", "waiting"}
             \/ \A k \in 1..Len(q) : q[k].type = "DATA" => ~IsOlder(q[k].ts, ts),
             NEW M, Remain(d.queue, sched'.queue, M),
             \A n \in M, x \in Sources : ~(n.invalid[x] > 0)
      PROVE  MarkedOnce'
  <2>1. src'[s].pc = pc /\ src'[s].ts = ts /\ \A x \in Sources \ {s} : src'[x] = src[x]
    BY <1>1, <1>7, RequestHorizon
  <2>2. AllMarkedIn(d.queue, s, src'[s])
    <3>1. CASE pc \in {"refused", "pad", "padded", "waiting"}
      <4>1. src'[s].pc \in {"refused", "pad", "padded", "waiting"} /\ src'[s].ts = ts
        BY <2>1, <3>1
      <4>2. \A a : Unmarked(q, s) /\ a.ts = ts
                     /\ a.pc \in {"refused", "pad", "padded", "waiting"}
                     => AllMarkedIn(d.queue, s, a)
        BY <1>1, <1>2, MarkedByCancel
      <4> QED BY <1>4, <4>1, <4>2
    <3>2. CASE \A k \in 1..Len(q) : q[k].type = "DATA" => ~IsOlder(q[k].ts, ts)
      <4>1. Unmarked(d.queue, s) /\ d.queue \in Seq(Message)
        BY <1>1, <1>2, <1>4, <3>2, MarkedByCancel DEF Scheduler
      <4> QED BY <4>1, UnmarkedMeans
    <3> QED BY <1>7, <3>1, <3>2
  <2>3. \A x \in Sources : AllMarkedIn(d.queue, x, src'[x])
    BY <1>6, <2>1, <2>2
  <2>4. \A x \in Sources, n \in M : MarkedIn(n, x, src'[x])
    BY <1>7 DEF MarkedIn
  <2>5. \A x \in Sources : AllMarkedIn(sched'.queue, x, src'[x])
    BY <1>7, <2>3, <2>4, MarkedRemains
  <2> QED BY <2>5 DEF MarkedOnce, AllMarkedIn, MarkedIn
<1>8. Remain(d.queue, d.queue, {})
  BY DEF Remain
<1>9. CASE RequestInvalid(s, ts)
  <2>1. sched' = sched /\ SourceAt(s, "idle", ts, src[s].step)
    BY <1>9 DEF RequestInvalid
  <2>2. src'[s].pc = "idle" /\ \A x \in Sources \ {s} : src'[x] = src[x]
    BY <1>1, <2>1, RequestHorizon
  <2>3. \A x \in Sources : AllMarkedIn(q, x, src'[x])
    BY <1>3, <1>4, <2>2, UnmarkedMeans
  <2> QED BY <2>1, <2>3 DEF MarkedOnce, AllMarkedIn, MarkedIn
<1>10. CASE RequestRunning(s, ts)
  <2>1. PICK i \in Steps :
          /\ isTimestampRunning(sched, ts, i)
          /\ sched' = [d EXCEPT !.setInput[i] = @ \cup {s}]
          /\ SourceAt(s, "holding", ts, i)
    BY <1>10 DEF RequestRunning, d
  <2>2. sched'.queue = d.queue
    BY <1>2, <2>1 DEF Scheduler
  <2>3. ASSUME NEW k \in 1..Len(q), q[k].type = "DATA"
        PROVE  ~IsOlder(q[k].ts, ts)
    <3>1. /\ sched.runningTs[i] \in Int /\ sched.latestRunning \in Int
          /\ q[k].ts \in Int /\ MaxOffset \in Nat
      BY <1>1, FrameFields
    <3>2. isWithinRange(ts, sched.runningTs[i])
      BY <2>1 DEF isTimestampRunning, RunningSteps
    <3>3. sched.runningTs[i] <= sched.latestRunning /\ sched.latestRunning < q[k].ts
      BY <1>1, <2>3 DEF FramesInOrder
    <3>4. sched.runningTs[i] < q[k].ts
      BY <3>1, <3>3
    <3> QED BY <1>1, <3>1, <3>2, <3>4, NotOlderAfter
  <2> QED BY <1>7, <1>8, <2>1, <2>2, <2>3
<1>11. CASE RequestScheduled(s, ts)
  BY <1>7, <1>8, <1>11 DEF RequestScheduled, d
<1>12. CASE RequestAfterStop(s, ts)
  BY <1>7, <1>8, <1>12 DEF RequestAfterStop, RefusalIsFinal, d
<1>13. CASE RequestNewTimestampWait(s, ts)
  <2>1. CASE sched' = Enqueue(d, m) /\ SourceAt(s, "waiting", ts, src[s].step)
    <3>1. Remain(d.queue, sched'.queue, {m})
      BY <1>2, <1>5, <2>1, EnqueueRemains
    <3> QED BY <1>5, <1>7, <2>1, <3>1
  <2>2. CASE sched' = d /\ SourceAt(s, "pad", ts, src[s].step)
    BY <1>7, <1>8, <2>2
  <2>3. CASE /\ sched' = d /\ SourceAt(s, "idle", ts, src[s].step)
             /\ ~isNextExpectedTimestamp(c, ts)
             /\ ~isFurtherAheadThenNextExpectedTimestamp(c, ts)
    <3>1. IsOlder(ts, clock.expected)
      <4>1. ts + 2 * MaxOffset < c.expected /\ c.expected \in Int /\ MaxOffset \in Nat
        BY <1>1, <2>3, ClockAssumption DEF isNextExpectedTimestamp, isWithinRange,
           isFurtherAheadThenNextExpectedTimestamp, Clock
      <4>2. c.expected = IF clock.init = kTimestampZero THEN ts ELSE clock.expected
        BY <1>1, ClockSteps DEF c
      <4> QED BY <1>1, <4>1, <4>2 DEF IsOlder, Clock
    <3>2. ~isTimestampScheduled(sched, ts)
      BY <1>13 DEF RequestNewTimestampWait, IsNewTimestamp
    <3>3. \A k \in 1..Len(q) : q[k].type = "DATA" => ~IsOlder(q[k].ts, ts)
      BY <3>1, <3>2 DEF MarkInv, NoneMissing
    <3> QED BY <1>7, <1>8, <2>3, <3>3
  <2> QED BY <1>13, <2>1, <2>2, <2>3 DEF RequestNewTimestampWait, scheduleEvent, c, d, m
<1>14. ~RequestNewTimestampImmediate(s, ts)
  BY DEF RequestNewTimestampImmediate
<1> QED BY <1>9, <1>10, <1>11, <1>12, <1>13, <1>14 DEF RequestSourceBuffer

\* A padding event is marked for the source that pads, which asks for a later one.
LEMMA PaddingMarks ==
  ASSUME FrameInv, MarkedOnce, PaddingAhead, PaddingNeverOvershoots,
         NEW s \in Sources, Padding(s) \/ PaddingDone(s)
  PROVE  MarkedOnce'
<1> DEFINE m == ScheduledEvent("DATA", clock.expected)
           p == [m EXCEPT !.invalid[s] = 1]
<1>1. /\ sched \in Scheduler /\ clock.expected \in Int /\ TypeOK /\ QueuesWhenFull(sched)
      /\ src \in [Sources -> [pc : SourcePc, ts : Int, step : Steps, run : BOOLEAN]]
  BY DEF FrameInv, TypeOK, Clock, QueuesWhenFull
<1>2. m \in Message /\ p \in Message
  BY <1>1, MessageType DEF EventType
<1>3. /\ \A x \in Sources : m.invalid[x] = 0 /\ p.invalid[x] = IF x = s THEN 1 ELSE 0
      /\ p.type = "DATA" /\ p.ts = clock.expected
  BY DEF ScheduledEvent
<1>4. \A x \in Sources : AllMarkedIn(sched.queue, x, src[x])
  BY MarkedMeans
<1>5. /\ \A x \in Sources \ {s} : src'[x] = src[x]
      /\ src'[s].ts = src[s].ts /\ src'[s].pc \in {"pad", "padded", "waiting"}
      /\ src[s].pc \in {"pad", "padded"}
  BY <1>1 DEF Padding, PaddingDone
<1>6. \A x \in Sources : AllMarkedIn(sched.queue, x, src'[x])
  BY <1>4, <1>5 DEF AllMarkedIn, MarkedIn
<1>7. ASSUME NEW n \in Message, sched' = Enqueue(sched, n),
             \A x \in Sources : MarkedIn(n, x, src'[x])
      PROVE  MarkedOnce'
  <2>1. Remain(sched.queue, sched'.queue, {n})
    BY <1>1, <1>7, EnqueueRemains
  <2>2. \A x \in Sources : AllMarkedIn(sched'.queue, x, src'[x])
    BY <1>6, <1>7, <2>1, MarkedRemains
  <2> QED BY <2>2 DEF MarkedOnce, AllMarkedIn, MarkedIn
<1>8. CASE Padding(s)
  <2>1. sched' = Enqueue(sched, p)
    BY <1>8 DEF Padding, schedulePaddingEvent
  <2> HIDE DEF m, p
  <2>2. IsOlder(p.ts, src'[s].ts)
    <3>1. src[s].pc = "pad" /\ src[s].ts \in Int
      BY <1>1, <1>8 DEF Padding
    <3>2. ~Overshot(s)
      BY <1>1, <3>1, ClockAssumption DEF PaddingNeverOvershoots, Overshot
    <3>3. clock.expected + 2 * MaxOffset < src[s].ts
      BY <3>1, <3>2 DEF PaddingAhead
    <3> QED BY <1>1, <1>3, <1>5, <3>1, <3>3, ClockAssumption DEF IsOlder
  <2>3. \A x \in Sources : MarkedIn(p, x, src'[x])
    BY <1>3, <1>5, <2>2 DEF MarkedIn
  <2> QED BY <1>2, <1>7, <2>1, <2>3
<1>9. CASE PaddingDone(s)
  <2>1. sched' = Enqueue(sched, m)
    BY <1>9 DEF PaddingDone, scheduleEvent
  <2> HIDE DEF m, p
  <2>2. \A x \in Sources : MarkedIn(m, x, src'[x])
    BY <1>3 DEF MarkedIn
  <2> QED BY <1>2, <1>7, <2>1, <2>2
<1> QED BY <1>8, <1>9

\* The other steps mark nobody; a source is done with its request when its frame
\* runs, and no older frame is queued.
LEMMA OthersMark ==
  ASSUME FrameInv, MarkedOnce, [Next]_vars, ~StopTimeouts,
         ~ \E s \in Sources, ts \in Timestamps : RequestSourceBuffer(s, ts),
         ~ \E s \in Sources : Padding(s) \/ PaddingDone(s)
  PROVE  MarkedOnce'
<1> DEFINE q == sched.queue
<1>1. TypeOK /\ sched \in Scheduler /\ QueuesWhenFull(sched) /\ q \in Seq(Message)
      /\ FramesInOrder(sched, clock) /\ clock \in Clock
  BY DEF FrameInv, TypeOK, QueuesWhenFull, Scheduler
<1>2. Remain(q, sched'.queue, {})
  BY <1>1, OthersRemain
<1>3. ASSUME NEW s \in Sources
      PROVE  AllMarkedIn(q, s, src'[s])
  <2>1. AllMarkedIn(q, s, src[s])
    BY MarkedMeans
  <2>2. src'[s].ts = src[s].ts
    BY <1>1, OthersLeaveSources
  <2>3. CASE src'[s].pc = src[s].pc
    BY <2>1, <2>2, <2>3 DEF AllMarkedIn, MarkedIn
  <2>4. CASE src'[s].pc # src[s].pc
    <3>1. /\ src[s].pc \notin {"pad", "padded", "refused"}
          /\ src[s].pc = "waiting" => sched.latestRunning >= src[s].ts - 2 * MaxOffset
      BY <1>1, <2>4, OthersLeaveSources
    <3>2. CASE src[s].pc = "waiting"
      <4>1. ASSUME NEW k \in 1..Len(q), q[k].type = "DATA"
            PROVE  ~IsOlder(q[k].ts, src[s].ts)
        <5>1. sched.latestRunning < q[k].ts
          BY <1>1, <4>1 DEF FramesInOrder
        <5>2. /\ sched.latestRunning \in Int /\ q[k].ts \in Int /\ MaxOffset \in Nat
              /\ src[s].ts \in Int
          BY <1>1, FrameFields, SourceFields
        <5>3. sched.latestRunning >= src[s].ts - 2 * MaxOffset
          BY <3>1, <3>2
        <5> HIDE DEF q
        <5> QED BY <5>1, <5>2, <5>3, NotOlderAfter
      <4>2. Unmarked(q, s)
        BY <1>1, <2>1, <3>2, <4>1, UnmarkedMeans
      <4> QED BY <1>1, <4>2, UnmarkedMeans
    <3>3. CASE src[s].pc # "waiting"
      <4>1. Unmarked(q, s)
        BY <1>1, <2>1, <3>1, <3>3, UnmarkedMeans
      <4> QED BY <1>1, <4>1, UnmarkedMeans
    <3> QED BY <3>2, <3>3
  <2> QED BY <2>3, <2>4
<1>4. \A s \in Sources : AllMarkedIn(sched'.queue, s, src'[s])
  BY <1>2, <1>3, MarkedRemains
<1> QED BY <1>4 DEF MarkedOnce, AllMarkedIn, MarkedIn

-----------------------------------------------------------------------------
(* No frame of the grid is missing in the queue. *)

\* From the first frame in the queue to the expected one, none is missing.
NoFrameMisses(d, c) ==
  \A u \in Timestamps, k \in 1..Len(d.queue) :
    /\ d.queue[k].type = "DATA" /\ IsOlder(d.queue[k].ts, u)
    /\ IsOlder(u, c.expected)
    => isTimestampScheduled(d, u)

\* It does not depend on anything else.
LEMMA SameFramesMiss ==
  ASSUME NEW d, NEW r, NEW c, NEW b, SameFrames(d, r), b.expected = c.expected,
         NoFrameMisses(d, c)
  PROVE  NoFrameMisses(r, b)
BY DEF SameFrames, NoFrameMisses, isTimestampScheduled

\* A message comes: one without a frame, or the frame that the clock expects.
LEMMA FrameComesMiss ==
  ASSUME NEW d \in Scheduler, NEW r \in Scheduler, NEW m \in Message,
         NEW c \in Clock, NEW b \in Clock, FrameComes(d, r, m), NoFrameMisses(d, c),
         IF m.type = "DATA"
         THEN /\ m.ts = c.expected /\ b.expected = c.expected + SensorDelta
              /\ \A u \in Timestamps : SameGrid(c.expected, u)
         ELSE b.expected = c.expected
  PROVE  NoFrameMisses(r, b)
<1>1. /\ r.queue \in Seq(Message) /\ d.queue \in Seq(Message)
      /\ c.expected \in Int /\ MaxOffset \in Nat /\ SensorDelta \in Nat \ {0}
      /\ \A u \in Timestamps : u \in Int
  BY ClockAssumption, TimeDomainAssumption DEF Scheduler, Clock
<1>2. CASE r.queue = <<>>
  BY <1>2 DEF NoFrameMisses
<1>3. CASE /\ Len(r.queue) = Len(d.queue) + 1
           /\ \A k \in 1..Len(d.queue) :
                r.queue[k].type = d.queue[k].type /\ r.queue[k].ts = d.queue[k].ts
           /\ r.queue[Len(r.queue)].type = m.type /\ r.queue[Len(r.queue)].ts = m.ts
  <2> DEFINE n == Len(r.queue)
  <2>1. /\ n \in 1..n /\ n \in Int /\ \A k \in 1..n : k = n \/ k \in 1..Len(d.queue)
        /\ \A k \in 1..Len(d.queue) : k \in 1..n
    BY <1>1, <1>3
  <2>2. \A u \in Int : isTimestampScheduled(d, u) => isTimestampScheduled(r, u)
    BY <1>3, <2>1 DEF isTimestampScheduled
  <2>3. ASSUME NEW u \in Timestamps, IsOlder(c.expected, u), IsOlder(u, b.expected),
               m.type = "DATA"
        PROVE  FALSE
    <3>1. c.expected + SensorDelta <= u + 2 * MaxOffset
      BY <1>1, <2>3, NextOnGrid DEF IsOlder
    <3> QED BY <1>1, <2>3, <3>1 DEF IsOlder
  <2>4. ASSUME NEW u \in Timestamps, NEW k \in 1..n, r.queue[k].type = "DATA",
               IsOlder(r.queue[k].ts, u), IsOlder(u, b.expected)
        PROVE  isTimestampScheduled(r, u)
    <3>1. CASE k = n
      BY <1>3, <2>3, <2>4, <3>1
    <3>2. CASE k \in 1..Len(d.queue)
      <4>1. d.queue[k].type = "DATA" /\ IsOlder(d.queue[k].ts, u)
        BY <1>3, <2>4, <3>2
      <4>2. CASE IsOlder(u, c.expected)
        BY <1>1, <2>2, <3>2, <4>1, <4>2 DEF NoFrameMisses
      <4>3. CASE ~IsOlder(u, c.expected)
        <5>1. m.type = "DATA"
          BY <2>4, <4>3
        <5>2. ~IsOlder(c.expected, u)
          BY <2>3, <2>4, <5>1
        <5>3. isWithinRange(r.queue[n].ts, u)
          <6>1. r.queue[n].ts = c.expected
            BY <1>3, <5>1
          <6> HIDE DEF n
          <6> QED BY <1>1, <4>3, <5>2, <6>1 DEF IsOlder, isWithinRange
        <5> QED BY <2>1, <5>3 DEF isTimestampScheduled
      <4> QED BY <4>2, <4>3
    <3> QED BY <2>1, <2>4, <3>1, <3>2
  <2> QED BY <2>4 DEF NoFrameMisses
<1> QED BY <1>2, <1>3 DEF FrameComes

\* The first message leaves: the frames that come after another one stay.
LEMMA FrameLeavesMiss ==
  ASSUME NEW d \in Scheduler, NEW r \in Scheduler, NEW c \in Clock,
         FrameLeaves(d, r), FramesInOrder(d, c), NoFrameMisses(d, c)
  PROVE  NoFrameMisses(r, c)
<1>1. CASE r.queue = <<>>
  BY <1>1 DEF NoFrameMisses
<1>2. CASE d.queue # <<>> /\ r.queue = Tail(d.queue)
  <2>1. d.queue \in Seq(Message) /\ MaxOffset \in Nat
    BY ClockAssumption DEF Scheduler
  <2>2. /\ Len(r.queue) \in Nat /\ Len(d.queue) = Len(r.queue) + 1
        /\ \A k \in 1..Len(r.queue) :
             k + 1 \in 1..Len(d.queue) /\ r.queue[k] = d.queue[k + 1]
    BY <1>2, <2>1, HeadTailProperties
  <2>3. ASSUME NEW u \in Timestamps, NEW k \in 1..Len(r.queue),
               r.queue[k].type = "DATA", IsOlder(r.queue[k].ts, u), IsOlder(u, c.expected)
        PROVE  isTimestampScheduled(r, u)
    <3>1. u \in Int /\ u > 2 * MaxOffset
      BY TimeDomainAssumption
    <3>2. /\ k + 1 \in 1..Len(d.queue) /\ d.queue[k + 1].type = "DATA"
          /\ IsOlder(d.queue[k + 1].ts, u)
      BY <2>2, <2>3
    <3>3. PICK l \in 1..Len(d.queue) : isWithinRange(d.queue[l].ts, u)
      BY <2>3, <3>2 DEF NoFrameMisses, isTimestampScheduled
    <3>4. l # 1
      <4> SUFFICES ASSUME l = 1 PROVE FALSE
        OBVIOUS
      <4>1. 1 \in 1..Len(d.queue) /\ 1 < k + 1
        BY <3>3
      <4>2. d.queue[1].ts \in Int /\ d.queue[k + 1].ts \in Int
        BY <3>2, <4>1, FrameFields
      <4>3. CASE d.queue[1].type = "DATA"
        <5>1. d.queue[1].ts < d.queue[k + 1].ts
          BY <3>2, <4>1, <4>3 DEF FramesInOrder
        <5>2. isWithinRange(d.queue[1].ts, u)
          BY <3>3
        <5> QED BY <3>1, <3>2, <4>2, <5>1, <5>2, NotOlderAfter
      <4>4. CASE d.queue[1].type # "DATA"
        <5>1. d.queue[1].ts = 0
          BY <4>1, <4>4 DEF FramesInOrder, kTimestampZero
        <5>2. isWithinRange(d.queue[1].ts, u)
          BY <3>3
        <5> QED BY <2>1, <3>1, <5>1, <5>2 DEF isWithinRange
      <4> QED BY <4>3, <4>4
    <3>5. l - 1 \in 1..Len(r.queue) /\ r.queue[l - 1] = d.queue[l]
      <4>1. l - 1 \in 1..Len(r.queue)
        BY <2>2, <3>3, <3>4
      <4>2. r.queue[l - 1] = d.queue[(l - 1) + 1]
        BY <2>2, <4>1
      <4> QED BY <4>1, <4>2
    <3> QED BY <3>3, <3>5 DEF isTimestampScheduled
  <2> QED BY <2>3 DEF NoFrameMisses
<1> QED BY <1>1, <1>2 DEF FrameLeaves

\* A request keeps the queue complete.
LEMMA RequestMisses ==
  ASSUME Disciplined, Synchronised, SourceMode = "WAIT_FOR_BUFFER", FrameInv, ClockOnGrid,
         NoneMissing, TypeOK',
         NEW s \in Sources, NEW ts \in Timestamps, RequestSourceBuffer(s, ts)
  PROVE  NoneMissing'
<1> DEFINE c == newTimestamp(clock, ts)
           d == cancelOlderEvents(s, ts)
           m == ScheduledEvent("DATA", c.expected)
<1>1. /\ sched \in Scheduler /\ sched' \in Scheduler /\ clock \in Clock /\ clock' \in Clock
      /\ ts \in Int /\ TypeOK /\ QueuesWhenFull(sched) /\ FramesInOrder(sched, clock)
  BY TimeDomainAssumption DEF FrameInv, TypeOK, QueuesWhenFull
<1>2. /\ c \in Clock /\ c.delta = clock.delta
      /\ c.expected = IF clock.init = kTimestampZero THEN ts ELSE clock.expected
      /\ advanceTimeStep(c).expected = c.expected + c.delta
  <2>1. c \in Clock /\ c.delta = clock.delta
        /\ c.expected = IF clock.init = kTimestampZero THEN ts ELSE clock.expected
    BY <1>1, ClockSteps
  <2> HIDE DEF c
  <2>2. advanceTimeStep(c).expected = c.expected + c.delta
    BY <1>1, <2>1, ClockSteps
  <2> QED BY <2>1, <2>2
<1>3. m \in Message /\ m.type = "DATA" /\ m.ts = c.expected
  <2>1. c.expected \in Int
    BY <1>2 DEF Clock
  <2> HIDE DEF c
  <2> QED BY <2>1, MessageType DEF ScheduledEvent, EventType
<1>4. d \in Scheduler /\ SameFrames(sched, d) /\ QueuesWhenFull(d)
  <2>1. d \in Scheduler /\ SameFrames(sched, d)
    BY <1>1, CancelSourcesType, CancelKeepsFrames DEF cancelOlderEvents
  <2> HIDE DEF d
  <2> QED BY <1>1, <2>1, SameFramesQueue
<1>5. \/ SameFrames(sched, sched') /\ clock' \in {clock, c}
      \/ FrameComes(sched, sched', m) /\ clock' = advanceTimeStep(c)
  <2>1. CASE ~SameFrames(sched, sched')
    BY <1>1, <2>1, RequestFrames, RequestAdvances
  <2>2. CASE SameFrames(sched, sched') /\ clock' \notin {clock, c}
    <3>1. RequestNewTimestampWait(s, ts)
      BY <2>2 DEF RequestSourceBuffer, RequestInvalid, RequestRunning, RequestScheduled,
                  RequestAfterStop, RequestNewTimestampImmediate, requestVars
    <3>2. sched' = Enqueue(d, m) /\ clock' = advanceTimeStep(c)
      BY <2>2, <3>1 DEF RequestNewTimestampWait, scheduleEvent
    <3> HIDE DEF c, d, m
    <3>3. FrameComes(d, sched', m)
      BY <1>3, <1>4, <3>2, EnqueueFrames
    <3> QED BY <1>1, <1>4, <3>2, <3>3, SameFramesThenComes
  <2> QED BY <2>1, <2>2
<1> HIDE DEF c, d, m
<1>6. clock.init = kTimestampZero =>
        \A k \in 1..Len(sched.queue) : sched.queue[k].type # "DATA"
  <2> SUFFICES ASSUME clock.init = kTimestampZero, NEW k \in 1..Len(sched.queue),
                      sched.queue[k].type = "DATA"
               PROVE  FALSE
    OBVIOUS
  <2>1. clock.expected = 0
    BY DEF FrameInv, ClockStarts, kTimestampZero
  <2>2. /\ sched.latestRunning >= 0 /\ sched.latestRunning < sched.queue[k].ts
        /\ sched.queue[k].ts + SensorDelta <= clock.expected
    BY <1>1 DEF FramesInOrder
  <2>3. sched.latestRunning \in Int /\ sched.queue[k].ts \in Int /\ SensorDelta \in Nat \ {0}
    BY <1>1, FrameFields
  <2> QED BY <2>1, <2>2, <2>3
<1>7. NoFrameMisses(sched, clock) /\ NoFrameMisses(sched, c)
  <2>1. NoFrameMisses(sched, clock)
    BY DEF NoneMissing, NoFrameMisses
  <2>2. CASE clock.init = kTimestampZero
    BY <1>6, <2>1, <2>2 DEF NoFrameMisses
  <2>3. CASE clock.init # kTimestampZero
    BY <1>2, <2>1, <2>3 DEF NoFrameMisses
  <2> QED BY <2>1, <2>2, <2>3
<1>8. NoFrameMisses(sched', clock')
  <2>1. CASE SameFrames(sched, sched') /\ clock' \in {clock, c}
    BY <1>7, <2>1, SameFramesMiss
  <2>2. CASE FrameComes(sched, sched', m) /\ clock' = advanceTimeStep(c)
    <3>1. \A u \in Timestamps : SameGrid(c.expected, u)
      <4>1. CASE clock.init = kTimestampZero
        BY <1>2, <4>1 DEF Synchronised
      <4>2. CASE clock.init # kTimestampZero
        BY <1>2, <4>2 DEF ClockOnGrid
      <4> QED BY <4>1, <4>2
    <3>2. clock'.expected = c.expected + SensorDelta
      BY <1>2, <2>2 DEF ClockOnGrid
    <3> QED BY <1>1, <1>2, <1>3, <1>7, <2>2, <3>1, <3>2, FrameComesMiss
  <2> QED BY <1>5, <2>1, <2>2
<1> QED BY <1>8 DEF NoneMissing, NoFrameMisses

\* So do the other steps.
LEMMA OthersMiss ==
  ASSUME Disciplined, FrameInv, ClockOnGrid, NoneMissing, TypeOK', [Next]_vars,
         ~ \E s \in Sources, ts \in Timestamps : RequestSourceBuffer(s, ts)
  PROVE  NoneMissing'
<1>1. /\ sched \in Scheduler /\ sched' \in Scheduler /\ clock \in Clock /\ clock' \in Clock
      /\ TypeOK /\ QueuesWhenFull(sched) /\ FramesInOrder(sched, clock)
      /\ NoFrameMisses(sched, clock)
  BY DEF FrameInv, TypeOK, QueuesWhenFull, NoneMissing, NoFrameMisses
<1>2. NoFrameMisses(sched', clock')
  <2>1. ASSUME NEW s \in Sources, Padding(s) \/ PaddingDone(s)
        PROVE  NoFrameMisses(sched', clock')
    <3>1. PICK m \in Message :
            m.type = "DATA" /\ m.ts = clock.expected /\ FrameComes(sched, sched', m)
      BY <1>1, <2>1, PaddingFrames
    <3>2. \A u \in Timestamps : SameGrid(clock.expected, u)
      BY <2>1 DEF ClockOnGrid, RequestMutexFree, Padding, PaddingDone
    <3>3. clock'.expected = clock.expected + SensorDelta
      <4>1. clock' = advanceTimeStep(clock)
        BY <2>1 DEF Padding, PaddingDone
      <4>2. 0 \in Int
        OBVIOUS
      <4> QED BY <1>1, <4>1, <4>2, ClockSteps DEF ClockOnGrid
    <3> QED BY <1>1, <3>1, <3>2, <3>3, FrameComesMiss
  <2>2. ASSUME ~ \E s \in Sources : Padding(s) \/ PaddingDone(s)
        PROVE  NoFrameMisses(sched', clock')
    <3>1. clock' = clock
      BY <2>2 DEF Next, SourceNext, WaitForRunning, ClaimSourceBuffer, Commit, PlayerExit,
         TaskflowNext, SeamEntry, StopPlayer, SourceTask, SinkTask, timeStepEnded,
         SerialSeam, StartSeam, AppNext, ParameterChanged, AppLaunch, AppConfigure,
         AppStart, AppStarted, AppStop, AppStopTimeout, AppTeardown, AppTornDown,
         AppFlush, AppFinish, scheduleNonDataEvent, schedVars, requestVars, vars
    <3>2. \/ SameFrames(sched, sched')
          \/ \E m \in Message :
               /\ m.type # "DATA" /\ m.ts = kTimestampZero
               /\ FrameComes(sched, sched', m)
          \/ FrameLeaves(sched, sched')
      BY <1>1, <2>2, OtherFrames
    <3>3. CASE SameFrames(sched, sched')
      BY <1>1, <3>1, <3>3, SameFramesMiss
    <3>4. ASSUME NEW m \in Message, m.type # "DATA", FrameComes(sched, sched', m)
          PROVE  NoFrameMisses(sched', clock')
      BY <1>1, <3>1, <3>4, FrameComesMiss
    <3>5. CASE FrameLeaves(sched, sched')
      BY <1>1, <3>1, <3>5, FrameLeavesMiss
    <3> QED BY <3>2, <3>3, <3>4, <3>5
  <2> QED BY <2>1, <2>2
<1> QED BY <1>2 DEF NoneMissing, NoFrameMisses

\* Every step keeps the marks and the queue in order.
LEMMA MarkStep ==
  ASSUME Disciplined, Synchronised, RefusalIsFinal, SourceMode = "WAIT_FOR_BUFFER",
         FrameInv, ClockOnGrid, PaddingAhead, PaddingNeverOvershoots, MarkInv, TypeOK',
         [Next]_vars
  PROVE  MarkInv'
<1>1. ~StopTimeouts
  BY DEF Disciplined
<1>2. CASE \E s \in Sources, ts \in Timestamps : RequestSourceBuffer(s, ts)
  BY <1>2, RequestMarks, RequestMisses DEF MarkInv
<1>3. CASE ~ \E s \in Sources, ts \in Timestamps : RequestSourceBuffer(s, ts)
  <2>1. NoneMissing'
    BY <1>3, OthersMiss DEF MarkInv
  <2>2. MarkedOnce'
    <3>1. CASE \E s \in Sources : Padding(s) \/ PaddingDone(s)
      BY <3>1, PaddingMarks DEF MarkInv
    <3>2. CASE ~ \E s \in Sources : Padding(s) \/ PaddingDone(s)
      BY <1>1, <1>3, <3>2, OthersMark DEF MarkInv
    <3> QED BY <3>1, <3>2
  <2> QED BY <2>1, <2>2 DEF MarkInv
<1> QED BY <1>2, <1>3

\* The inductive invariant of the promises, when sources wait for their frames.
PromiseInv ==
  /\ BufferInv
  /\ ClockOnGrid
  /\ PaddingNeverOvershoots
  /\ FrameInv
  /\ MarkInv
  /\ NoFutureError

\* The initial state satisfies it.
LEMMA PromiseInit ==
  ASSUME Init
  PROVE  PromiseInv
<1>1. sched.queue = <<>> /\ ~sched.thrown
  BY DEF Init, InitialScheduler
<1>2. MarkInv
  BY <1>1 DEF MarkInv, MarkedOnce, NoneMissing
<1> QED BY <1>1, <1>2, BufferInit, GridInit, FrameInit DEF PromiseInv, NoFutureError

\* Every step keeps it.
LEMMA PromiseStep ==
  ASSUME Disciplined, Synchronised, RefusalIsFinal, PreciseClock,
         SourceMode = "WAIT_FOR_BUFFER", PromiseInv, [Next]_vars
  PROVE  PromiseInv'
<1>1. BufferInv'
  BY BufferStep DEF PromiseInv
<1>2. ClockOnGrid' /\ PaddingNeverOvershoots'
  BY GridStep DEF PromiseInv
<1>3. FrameInv'
  BY FrameStep DEF PromiseInv, Disciplined
<1>4. MarkInv'
  <2>1. PaddingAhead /\ TypeOK'
    BY <1>1 DEF PromiseInv, BufferInv
  <2> QED BY <2>1, MarkStep DEF PromiseInv
<1>5. NoFutureError'
  <2>1. \A k \in 1..Len(sched.queue) : sched.queue[k].type = "DATA" =>
          \A s \in Sources : sched.queue[k].invalid[s] <= 1
    <3>1. ASSUME NEW k \in 1..Len(sched.queue), sched.queue[k].type = "DATA",
                 NEW s \in Sources
          PROVE  sched.queue[k].invalid[s] <= 1
      <4>1. sched.queue[k].invalid[s] \in Nat
        <5>1. sched.queue[k] \in Message
          BY DEF PromiseInv, FrameInv, TypeOK, Scheduler
        <5> QED BY <5>1 DEF Message
      <4>2. sched.queue[k].invalid[s] > 0 => sched.queue[k].invalid[s] = 1
        BY <3>1 DEF PromiseInv, MarkInv, MarkedOnce
      <4> QED BY <4>1, <4>2
    <3> QED BY <3>1
  <2> QED BY <2>1, ThrownStep DEF PromiseInv, NoFutureError
<1> QED BY <1>1, <1>2, <1>3, <1>4, <1>5 DEF PromiseInv

\* The inductive invariant of the promises, when no source waits: frames do not
\* queue at all.
NoFrameQueued == \A k \in 1..Len(sched.queue) : sched.queue[k].type # "DATA"

ImmediateInv == BufferInv /\ NobodyWaits /\ NoFrameQueued /\ NoFutureError

\* Every step keeps it.
LEMMA ImmediateStep ==
  ASSUME Disciplined, SourceMode = "IMMEDIATE_RETURN", ImmediateInv, [Next]_vars
  PROVE  ImmediateInv'
<1>1. BufferInv'
  BY BufferStep DEF ImmediateInv
<1>2. NobodyWaits'
  BY NobodyWaitsStep DEF ImmediateInv
<1>3. NoFutureError'
  BY ThrownStep DEF ImmediateInv, NoFrameQueued, NoFutureError
<1>4. NoFrameQueued'
  <2>1. sched \in Scheduler /\ TypeOK /\ QueuesWhenFull(sched) /\ ~StopTimeouts
    BY DEF ImmediateInv, BufferInv, TypeOK, RingInv, Window, QueuesWhenFull, Disciplined
  <2>2. ~ \E s \in Sources : Padding(s) \/ PaddingDone(s)
    BY DEF ImmediateInv, NobodyWaits, Padding, PaddingDone
  <2>3. ASSUME NEW s \in Sources, NEW ts \in Timestamps, RequestSourceBuffer(s, ts)
        PROVE  NoFrameQueued'
    <3> DEFINE d == cancelOlderEvents(s, ts)
               z == scheduleDataEventImmediately(d, ts)
    <3>1. ts \in Int
      BY TimeDomainAssumption
    <3>2. d \in Scheduler /\ SameFrames(sched, d)
      BY <2>1, <3>1, CancelSourcesType, CancelKeepsFrames DEF cancelOlderEvents
    <3>3. d.free > 0 => z \in Scheduler /\ z.queue = d.queue
      <4> HIDE DEF d
      <4> QED BY <3>1, <3>2, ImmediateLoads, ImmediateType
    <3> HIDE DEF d, z
    <3>4. \A x \in Scheduler, i \in Steps :
            [x EXCEPT !.setInput[i] = @ \cup {s}].queue = x.queue
      BY DEF Scheduler
    <3>5. sched'.queue = sched.queue \/ sched'.queue = d.queue
      <4>1. CASE RequestInvalid(s, ts)
        BY <4>1 DEF RequestInvalid
      <4>2. CASE RequestRunning(s, ts)
        BY <3>2, <3>4, <4>2 DEF RequestRunning, d
      <4>3. CASE RequestAfterStop(s, ts)
        BY <4>3 DEF RequestAfterStop, d
      <4>4. CASE RequestNewTimestampImmediate(s, ts)
        <5> DEFINE i == NextTimeStep(sched.latest)
        <5>1. CASE sched.free > 0 /\ sched' = [z EXCEPT !.setInput[i] = @ \cup {s}]
          <6>1. i \in Steps
            BY <2>1, NextTimeStepType DEF Scheduler
          <6>2. d.free > 0
            BY <3>2, <5>1 DEF SameFrames
          <6> HIDE DEF i
          <6> QED BY <3>3, <3>4, <5>1, <6>1, <6>2
        <5>2. CASE sched' = d
          BY <5>2
        <5> QED BY <4>4, <5>1, <5>2 DEF RequestNewTimestampImmediate, d, z
      <4>5. ~RequestScheduled(s, ts) /\ ~RequestNewTimestampWait(s, ts)
        BY DEF RequestScheduled, RequestNewTimestampWait
      <4> QED BY <2>3, <4>1, <4>2, <4>3, <4>4, <4>5 DEF RequestSourceBuffer
    <3>6. \A k \in 1..Len(d.queue) : d.queue[k].type # "DATA"
      BY <3>2 DEF SameFrames, ImmediateInv, NoFrameQueued
    <3> QED BY <3>5, <3>6 DEF ImmediateInv, NoFrameQueued
  <2>4. CASE ~ \E s \in Sources, ts \in Timestamps : RequestSourceBuffer(s, ts)
    <3>1. Remain(sched.queue, sched'.queue, {})
      BY <2>1, <2>2, <2>4, OthersRemain
    <3> QED BY <3>1 DEF Remain, ImmediateInv, NoFrameQueued
  <2> QED BY <2>3, <2>4
<1> QED BY <1>1, <1>2, <1>3, <1>4 DEF ImmediateInv

\* SourceComponentBuffer::commit sets the promise of a source in a time step once,
\* for any number of sources and time steps.  With WAIT_FOR_BUFFER a source that
\* asked again after a refusal would cancel the queued frames a second time.
THEOREM PromisesAreSetOnce ==
  ASSUME Disciplined,
         SourceMode = "WAIT_FOR_BUFFER" => Synchronised /\ RefusalIsFinal /\ PreciseClock
  PROVE  Spec => []NoFutureError
<1>1. CASE SourceMode = "WAIT_FOR_BUFFER"
  <2>1. Init => PromiseInv
    BY PromiseInit
  <2>2. PromiseInv /\ [Next]_vars => PromiseInv'
    BY <1>1, PromiseStep
  <2>3. PromiseInv => NoFutureError
    BY DEF PromiseInv
  <2> QED BY <2>1, <2>2, <2>3, PTL DEF Spec
<1>2. CASE SourceMode = "IMMEDIATE_RETURN"
  <2>1. Init => ImmediateInv
    <3>1. ASSUME Init PROVE ImmediateInv
      <4>1. sched.queue = <<>> /\ ~sched.thrown
        BY <3>1 DEF Init, InitialScheduler
      <4>2. NobodyWaits
        <5>1. \A s \in Sources : src[s].pc \in {"off", "idle"}
          BY <3>1 DEF Init
        <5> QED BY <3>1, <5>1, TypeInit DEF NobodyWaits
      <4> QED BY <3>1, <4>1, <4>2, BufferInit DEF ImmediateInv, NoFrameQueued, NoFutureError
    <3> QED BY <3>1
  <2>2. ImmediateInv /\ [Next]_vars => ImmediateInv'
    BY <1>2, ImmediateStep
  <2>3. ImmediateInv => NoFutureError
    BY DEF ImmediateInv
  <2> QED BY <2>1, <2>2, <2>3, PTL DEF Spec
<1> QED BY <1>1, <1>2, TimeDomainAssumption
=============================================================================
