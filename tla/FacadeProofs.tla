---------------------------- MODULE FacadeProofs ----------------------------
(***************************************************************************)
(* A running Facade and its stop, for any number of time domains, finishing *)
(* sources, signals and player components.                                  *)
(*                                                                         *)
(* The first part is the replay of the global player: recordings of any    *)
(* length are sent in order, at the distances of their timestamps, and     *)
(* completely.  ReplayInv says what makes it so: the queue has the next    *)
(* value of every component that has one left, nothing in it is older than *)
(* what was sent, and all of its times have one offset to their timestamps. *)
(*                                                                         *)
(* The second part is the stop: the promise is set once, the destructor    *)
(* releases the network only when nobody is inside its stop(), and the     *)
(* taskflows that still run by then are those that stop() gave up after    *)
(* kDataflowStopTimeout; without that timeout there are none.  None of     *)
(* these is inductive.  StopInv adds why: should_stop_ lets one thread     *)
(* into network_->stop(), the owner deletes the facade when that thread    *)
(* has left it or when nothing was started, a time domain for which stop   *)
(* was called is running only while some thread is inside its stop, and a  *)
(* taskflow runs in a time domain that runs or was given up.               *)
(*                                                                         *)
(* The third part are the types of the variables.  The fourth is the end:  *)
(* the destructor leaves no taskflow, no source and no thread but that of  *)
(* the global player.  ThreadInv adds the order of the events in the       *)
(* queues: the components of a time domain see START before STOP, and STOP *)
(* before the taskflow ends, so that no source is on by then.              *)
(***************************************************************************)
EXTENDS Facade, FiniteSetTheorems, SequenceTheorems, TLAPS

-----------------------------------------------------------------------------
(* The replay *)

\* outputs_ is complete before the thread is created.
Listed ==
  /\ outputs \in {{}, PlayerComponents}
  /\ replay # "none" => outputs = PlayerComponents
  /\ replay \in {"none", "created"} =>
       /\ played = [ts |-> 0, time |-> 0]
       /\ events = {}
       /\ \A p \in PlayerComponents : recording[p] # {}

\* The queue holds the next value of a component.
InQueue ==
  \A e \in events :
    /\ e.ts \in recording[e.component]
    /\ \A ts \in recording[e.component] : e.ts <= ts

\* No component with values left is missing, and none is there twice.
OnePerComponent ==
  /\ replay \in {"playing", "finished"} =>
       \A p \in PlayerComponents :
         recording[p] # {} => \E e \in events : e.component = p
  /\ \A e, f \in events : e.component = f.component => e = f
  /\ replay = "finished" => events = {}

\* What was sent lies before all that is in the queue.
NotOlder == \A e \in events : played.ts <= e.ts

\* Times and timestamps may be compared.
ReplayTypes ==
  /\ recording \in [PlayerComponents -> SUBSET RecordedTimes]
  /\ replay \in {"none", "created", "playing", "finished"}
  /\ events \subseteq [component : PlayerComponents, ts : Nat, time : Int]
  /\ played.ts \in Nat /\ played.time \in Int

ReplayInv ==
  /\ ReplayTypes
  /\ Listed
  /\ InQueue
  /\ OnePerComponent
  /\ NotOlder
  /\ SameOffset

\* getNextTimestamp of a component that has values left.
LEMMA MinOfTimes ==
  ASSUME NEW S \in SUBSET Nat, S # {}
  PROVE  Min(S) \in S /\ \A n \in S : Min(S) <= n
<1> DEFINE below(n) == {m \in S : m < n}
           B == {below(n) : n \in S}
<1>1. B \subseteq FiniteSubsetsOf(S)
  <2> SUFFICES ASSUME NEW n \in S PROVE below(n) \in FiniteSubsetsOf(S)
    OBVIOUS
  <2>1. below(n) \in SUBSET Nat /\ n \in Nat /\ \A m \in below(n) : m <= n
    <3>1. below(n) \in SUBSET Nat /\ n \in Nat
      OBVIOUS
    <3>2. \A m \in below(n) : m \in Nat /\ m < n
      OBVIOUS
    <3>3. \A m \in Nat : m < n => m <= n
      BY <3>1
    <3> HIDE DEF below
    <3> QED BY <3>1, <3>2, <3>3
  <2>2. IsFiniteSet(below(n))
    BY <2>1, FS_BoundedSetOfNaturals
  <2> QED BY <2>2 DEF FiniteSubsetsOf
<1>2. \E X \in B : \A Y \in B : <<Y, X>> \notin StrictSubsetOrdering(S)
  <2>1. B # {}
    OBVIOUS
  <2> HIDE DEF B
  <2> QED BY <1>1, <2>1, FS_StrictSubsetOrderingWellFounded, WFMin
<1>3. PICK n \in S : \A m \in S : <<below(m), below(n)>> \notin StrictSubsetOrdering(S)
  BY <1>2
<1>4. ASSUME NEW m \in S, m < n PROVE FALSE
  <2>1. below(m) \subseteq below(n) /\ m \in below(n) /\ m \notin below(m)
    <3>1. m \in Nat /\ n \in Nat /\ m < n
      BY <1>4
    <3>2. ~(m < m)
      BY <3>1
    <3>3. \A k \in S : k < m => k < n
      <4>1. \A k \in S : k \in Nat
        OBVIOUS
      <4> QED BY <3>1, <4>1
    <3> QED BY <3>1, <3>2, <3>3
  <2>2. below(m) # below(n) /\ below(m) \in SUBSET S /\ below(n) \in SUBSET S
    BY <2>1
  <2> HIDE DEF below
  <2>3. <<below(m), below(n)>> \in StrictSubsetOrdering(S)
    BY <2>1, <2>2 DEF StrictSubsetOrdering
  <2> QED BY <2>3, <1>3
<1>5. \A m \in S : n <= m
  BY <1>4
<1> QED BY <1>5 DEF Min

\* Before the thread exists, all recordings are complete and none is empty.
LEMMA ReplayInit == Init => ReplayInv
<1> SUFFICES ASSUME Init PROVE ReplayInv
  OBVIOUS
<1>1. /\ recording \in [PlayerComponents -> (SUBSET RecordedTimes) \ {{}}]
      /\ outputs = {} /\ replay = "none" /\ events = {}
      /\ played = [ts |-> 0, time |-> 0]
  BY DEF Init, PlayerInit
<1>2. recording \in [PlayerComponents -> SUBSET RecordedTimes]
  BY <1>1
<1>3. \A p \in PlayerComponents : recording[p] # {}
  BY <1>1
<1>4. played.ts \in Nat /\ played.time \in Int
  BY <1>1
<1> QED BY <1>1, <1>2, <1>3, <1>4
        DEF ReplayInv, ReplayTypes, Listed, InQueue, OnePerComponent, NotOlder, SameOffset

\* Configuring and starting the components leaves the replay as it is or creates
\* the thread, when every component is listed.
LEMMA ModuleInv ==
  ASSUME ReplayInv, NEW e, ModuleComponent(e)
  PROVE  ReplayInv'
<1>1. UNCHANGED <<recording, events, played>>
  BY DEF ModuleComponent, ModuleInit, ModuleStart, ModuleStop, playerVars
<1>2. outputs' \in {outputs, PlayerComponents}
  BY DEF ModuleComponent, ModuleInit, ModuleStart, ModuleStop, playerVars
<1>3. replay' = replay \/ (replay = "none" /\ outputs # {} /\ replay' = "created"
                            /\ outputs' = outputs)
  BY DEF ModuleComponent, ModuleInit, ModuleStart, ModuleStop, playerVars
<1>4. ReplayTypes'
  BY <1>1, <1>3 DEF ReplayInv, ReplayTypes
<1>5. Listed'
  BY <1>1, <1>2, <1>3 DEF ReplayInv, Listed
<1>6. InQueue' /\ NotOlder' /\ SameOffset'
  BY <1>1 DEF ReplayInv, InQueue, NotOlder, SameOffset
<1>7. OnePerComponent'
  BY <1>1, <1>3 DEF ReplayInv, OnePerComponent
<1> QED BY <1>4, <1>5, <1>6, <1>7 DEF ReplayInv

\* The first event of every component: its first value, at one offset for all.
LEMMA BeginsInv ==
  ASSUME ReplayInv, ReplayBegins
  PROVE  ReplayInv'
<1> DEFINE first == Min({NextTimestamp(q) : q \in outputs})
<1>1. /\ outputs = PlayerComponents /\ outputs' = PlayerComponents
      /\ recording' = recording /\ played' = played
      /\ played = [ts |-> 0, time |-> 0] /\ replay' = "playing"
      /\ events' = {FirstEvent(p) : p \in PlayerComponents}
  BY DEF ReplayInv, Listed, ReplayBegins
<1>2. \A p \in PlayerComponents :
        /\ recording[p] \in SUBSET Nat
        /\ NextTimestamp(p) \in recording[p]
        /\ \A ts \in recording[p] : NextTimestamp(p) <= ts
  <2> SUFFICES ASSUME NEW p \in PlayerComponents
               PROVE  /\ recording[p] \in SUBSET Nat
                      /\ NextTimestamp(p) \in recording[p]
                      /\ \A ts \in recording[p] : NextTimestamp(p) <= ts
    OBVIOUS
  <2>1. recording[p] \in SUBSET Nat /\ recording[p] # {}
    BY GlobalPlayerAssumption DEF ReplayInv, ReplayTypes, Listed, ReplayBegins
  <2> QED BY <2>1, MinOfTimes DEF NextTimestamp
<1>3. \A p \in PlayerComponents :
        FirstEvent(p) = [component |-> p, ts |-> NextTimestamp(p),
                         time |-> ReplayStart + (NextTimestamp(p) - first)]
  BY DEF FirstEvent
<1>4. PlayerComponents # {} => first \in Nat
  <2> DEFINE all == {NextTimestamp(q) : q \in outputs}
  <2>1. all \in SUBSET Nat /\ (PlayerComponents # {} => all # {})
    BY <1>1, <1>2
  <2> HIDE DEF all
  <2>2. PlayerComponents # {} => Min(all) \in Nat
    BY <2>1, MinOfTimes
  <2> QED BY <2>2 DEF all
<1> HIDE DEF first
<1>5. \A e \in events' :
        /\ e.component \in PlayerComponents
        /\ e = FirstEvent(e.component)
        /\ e.ts = NextTimestamp(e.component) /\ e.ts \in Nat
        /\ e.time = ReplayStart + (e.ts - first) /\ e.time \in Int
        /\ first \in Int
  <2> SUFFICES ASSUME NEW p \in PlayerComponents
               PROVE  /\ NextTimestamp(p) \in Nat
                      /\ ReplayStart + (NextTimestamp(p) - first) \in Int
                      /\ first \in Int
    BY <1>1, <1>3
  <2>1. NextTimestamp(p) \in Nat /\ first \in Nat
    BY <1>2, <1>4
  <2> QED BY <2>1, GlobalPlayerAssumption
<1>6. ReplayTypes'
  BY <1>1, <1>3, <1>5 DEF ReplayInv, ReplayTypes
<1>7. Listed'
  BY <1>1 DEF Listed
<1>8. InQueue'
  BY <1>1, <1>2, <1>5 DEF InQueue
<1>9. OnePerComponent'
  <2>1. \A p \in PlayerComponents : FirstEvent(p).component = p
    BY <1>3
  <2> QED BY <2>1, <1>1, <1>5 DEF OnePerComponent
<1>10. NotOlder'
  BY <1>1, <1>5 DEF NotOlder
<1>11. SameOffset'
  <2>1. ReplayStart \in Int
    BY GlobalPlayerAssumption
  <2>2. \A e, f \in events' : e.time + f.ts = f.time + e.ts
    BY <2>1, <1>5
  <2> QED BY <2>2, <1>1 DEF SameOffset
<1> QED BY <1>6, <1>7, <1>8, <1>9, <1>10, <1>11 DEF ReplayInv

\* The earliest event is sent and followed by the next value of its component.
LEMMA SendInv ==
  ASSUME ReplayInv, SendNext
  PROVE  ReplayInv' /\ played'.ts >= played.ts
<1>1. PICK e \in Top :
        LET rest == recording[e.component] \ {e.ts} IN
        /\ played' = [ts |-> e.ts, time |-> e.time]
        /\ recording' = [recording EXCEPT ![e.component] = rest]
        /\ events' = IF rest = {} THEN events \ {e}
                     ELSE (events \ {e}) \cup {Following(e, rest)}
  BY DEF SendNext
<1> DEFINE p == e.component
           rest == recording[p] \ {e.ts}
           next == Following(e, rest)
<1>2. /\ e \in events /\ \A f \in events : e.ts <= f.ts
      /\ p \in PlayerComponents
      /\ e.ts \in Nat /\ e.time \in Int
      /\ e \in [component : PlayerComponents, ts : Nat, time : Int]
      /\ recording[p] \in SUBSET RecordedTimes
      /\ replay = "playing" /\ replay' = "playing" /\ outputs' = outputs
  BY DEF Top, SendNext, ReplayInv, ReplayTypes, InQueue
<1>3. /\ recording' \in [PlayerComponents -> SUBSET RecordedTimes]
      /\ recording'[p] = rest
      /\ \A q \in PlayerComponents : q # p => recording'[q] = recording[q]
  BY <1>1, <1>2 DEF ReplayInv, ReplayTypes
<1>4. rest # {} =>
        /\ next.component = p /\ next.ts = Min(rest)
        /\ next.time = e.time + (Min(rest) - e.ts)
        /\ next \in [component : PlayerComponents, ts : Nat, time : Int]
        /\ Min(rest) \in rest /\ Min(rest) \in Nat /\ Min(rest) >= e.ts
        /\ \A ts \in rest : Min(rest) <= ts
  <2>1. rest \in SUBSET Nat
    BY <1>2, GlobalPlayerAssumption
  <2>2. \A ts \in rest : e.ts <= ts
    BY <1>2 DEF ReplayInv, InQueue
  <2>3. rest # {} => Min(rest) \in rest /\ \A ts \in rest : Min(rest) <= ts
    BY <2>1, MinOfTimes
  <2>4. /\ next.component = p /\ next.ts = Min(rest)
        /\ next.time = e.time + (Min(rest) - e.ts)
    BY <1>2 DEF Following
  <2>5. Min(rest) \in Nat => next \in [component : PlayerComponents, ts : Nat, time : Int]
    <3> SUFFICES ASSUME Min(rest) \in Nat
                 PROVE  next \in [component : PlayerComponents, ts : Nat, time : Int]
      OBVIOUS
    <3>1. e.time + (Min(rest) - e.ts) \in Int
      BY <1>2
    <3> QED BY <3>1, <1>2 DEF Following
  <2> QED BY <2>1, <2>2, <2>3, <2>4, <2>5
<1>5. \A f \in events' :
        \/ f \in events /\ f # e /\ f.component # p
        \/ /\ rest # {} /\ f = next
           /\ f.component = p /\ f.ts = Min(rest)
           /\ f.time = e.time + (Min(rest) - e.ts)
  <2>1. \A f \in events : f # e => f.component # p
    BY <1>2 DEF ReplayInv, OnePerComponent
  <2>2. \A f \in events' : (f \in events /\ f # e) \/ (rest # {} /\ f = next)
    BY <1>1
  <2> QED BY <2>1, <2>2, <1>4
<1>6. \A f \in events' : /\ f.ts \in Nat /\ f.time \in Int
                         /\ f \in [component : PlayerComponents, ts : Nat, time : Int]
                         /\ e.ts <= f.ts
                         /\ f.time + e.ts = e.time + f.ts
  <2> SUFFICES ASSUME NEW f \in events'
               PROVE  /\ f.ts \in Nat /\ f.time \in Int
                      /\ f \in [component : PlayerComponents, ts : Nat, time : Int]
                      /\ e.ts <= f.ts
                      /\ f.time + e.ts = e.time + f.ts
    OBVIOUS
  <2>1. CASE f \in events
    BY <2>1, <1>2 DEF ReplayInv, ReplayTypes, SameOffset
  <2>2. CASE f \notin events
    <3>1. /\ rest # {} /\ f = next /\ f.ts = Min(rest)
          /\ f.time = e.time + (Min(rest) - e.ts)
      BY <2>2, <1>5
    <3>2. Min(rest) \in Nat /\ Min(rest) >= e.ts
      BY <3>1, <1>4
    <3>3. f \in [component : PlayerComponents, ts : Nat, time : Int]
      BY <3>1, <3>2, <1>2, <1>4
    <3> QED BY <3>1, <3>2, <3>3, <1>2
  <2> QED BY <2>1, <2>2
<1>7. ReplayTypes'
  BY <1>1, <1>2, <1>3, <1>6 DEF ReplayTypes
<1>8. Listed'
  BY <1>2 DEF ReplayInv, Listed
<1>9. InQueue'
  <2> SUFFICES ASSUME NEW f \in events'
               PROVE  /\ f.ts \in recording'[f.component]
                      /\ \A ts \in recording'[f.component] : f.ts <= ts
    BY DEF InQueue
  <2>1. CASE f \in events /\ f.component # p
    BY <2>1, <1>3 DEF ReplayInv, ReplayTypes, InQueue
  <2>2. CASE rest # {} /\ f.component = p /\ f.ts = Min(rest)
    BY <2>2, <1>2, <1>3, <1>4
  <2> QED BY <2>1, <2>2, <1>5
<1>10. OnePerComponent'
  <2>1. ASSUME NEW q \in PlayerComponents, recording'[q] # {}
        PROVE  \E f \in events' : f.component = q
    <3>1. CASE q = p
      BY <3>1, <2>1, <1>1, <1>3, <1>4
    <3>2. CASE q # p
      <4>1. PICK f \in events : f.component = q
        BY <3>2, <2>1, <1>2, <1>3 DEF ReplayInv, OnePerComponent
      <4>2. f \in events'
        BY <3>2, <4>1, <1>1
      <4> QED BY <4>1, <4>2
    <3> QED BY <3>1, <3>2
  <2>2. \A f, g \in events' : f.component = g.component => f = g
    BY <1>5 DEF ReplayInv, OnePerComponent
  <2> QED BY <2>1, <2>2, <1>2 DEF OnePerComponent
<1>11. NotOlder'
  BY <1>1, <1>6 DEF NotOlder
<1>12. SameOffset'
  <2>1. \A f, g \in events' : f.time + g.ts = g.time + f.ts
    BY <1>2, <1>6
  <2>2. played'.ts = e.ts /\ played'.time = e.time
    BY <1>1
  <2> QED BY <2>1, <2>2, <1>6 DEF SameOffset
<1>13. played'.ts >= played.ts
  BY <1>1, <1>2 DEF ReplayInv, NotOlder, ReplayTypes
<1> QED BY <1>7, <1>8, <1>9, <1>10, <1>11, <1>12, <1>13 DEF ReplayInv

\* The thread ends with an empty queue.
LEMMA EndsInv ==
  ASSUME ReplayInv, ReplayEnds
  PROVE  ReplayInv'
BY DEF ReplayEnds, LoopEnds, ReplayInv, ReplayTypes, Listed, InQueue, OnePerComponent,
       NotOlder, SameOffset

\* What a step of the facade does to the global player: a call of its module by the
\* taskflow, a step of its thread, or nothing.
LEMMA PlayerSteps ==
  ASSUME [Next]_vars
  PROVE  UNCHANGED playerVars \/ (\E e : ModuleComponent(e)) \/ ReplayNext
<1>1. CASE MainNext
  BY <1>1 DEF MainNext, loadDataflow, Abandon, CreateTimeDomain, InitTimeDomains,
     StartTimeDomain, SchedulerConfigured, SchedulerStarted, StartReturns, OwnerStops,
     OwnerStopped, FutureReady, DestructorStops, DestructorReleases, DestructorResets,
     DestructorJoins
<1>2. ASSUME NEW t \in Threads, StopNext(t)
      PROVE  UNCHANGED playerVars
  BY <1>2 DEF StopNext, StopLocked, CheckTimeDomain, SetStopCalled, SchedulerStop,
              StopNotifies, StopReturns
<1>3. CASE StopperEnds \/ Signal \/ parameterChanged \/ ReleaseCrashes
  BY <1>3 DEF StopperEnds, Signal, parameterChanged, ReleaseCrashes
<1>4. ASSUME NEW d \in TimeDomains, FlowNext(d), ~FlowRuns(d)
      PROVE  UNCHANGED playerVars
  BY <1>4 DEF FlowNext, StartSources, PlayerStop, PlayerEnds, SourceFinished, OpenFrame,
              Deliver
<1>5. ASSUME NEW d \in TimeDomains, FlowRuns(d)
      PROVE  UNCHANGED playerVars \/ ModuleComponent(Head(queue[d]).type)
  BY <1>5 DEF FlowRuns
<1>6. CASE GlobalPlayerRuns
  BY <1>6 DEF GlobalPlayerRuns
<1>7. CASE WaitTimeout \/ Terminated \/ UNCHANGED vars
  BY <1>7 DEF WaitTimeout, Terminated, vars, playerVars
<1> QED BY <1>1, <1>2, <1>3, <1>4, <1>5, <1>6, <1>7 DEF Next

\* Every step of the facade keeps the invariant, and what it sends is not older
\* than what was sent before.
LEMMA ReplayStep ==
  ASSUME ReplayInv, [Next]_vars
  PROVE  /\ ReplayInv'
         /\ played' # played => played'.ts >= played.ts
<1>1. CASE UNCHANGED playerVars
  BY <1>1 DEF playerVars, ReplayInv, ReplayTypes, Listed, InQueue, OnePerComponent,
              NotOlder, SameOffset
<1>2. ASSUME NEW e, ModuleComponent(e)
      PROVE  ReplayInv' /\ played' = played
  BY <1>2, ModuleInv DEF ModuleComponent, ModuleInit, ModuleStart, ModuleStop, playerVars
<1>3. CASE ReplayNext
  BY <1>3, BeginsInv, SendInv, EndsInv DEF ReplayNext, ReplayBegins, ReplayEnds
<1> QED BY <1>1, <1>2, <1>3, PlayerSteps

\* The invariant holds in every reachable state.
THEOREM ReplayInvariant == Spec => []ReplayInv
BY ReplayInit, ReplayStep, PTL DEF Spec

\* All times of the queue and of the value sent last have one offset to their
\* timestamps, whatever the recordings are (PlayerBaseModule::threadLoop).
THEOREM DistancesAreKept == Spec => []SameOffset
<1>1. ReplayInv => SameOffset
  BY DEF ReplayInv
<1> QED BY <1>1, ReplayInvariant, PTL

\* The recordings are sent in the order of their timestamps.
THEOREM ReplayIsOrdered == Spec => ReplayOrder
<1>1. ReplayInv /\ [Next]_vars => [played' # played => played'.ts >= played.ts]_playerVars
  BY ReplayStep
<1> QED BY <1>1, ReplayInvariant, PTL DEF Spec, ReplayOrder

\* A thread that has ended has sent every recorded value.
THEOREM ReplayIsComplete == Spec => []ReplayComplete
<1>1. ReplayInv => ReplayComplete
  BY DEF ReplayInv, OnePerComponent, Listed, ReplayComplete
<1> QED BY <1>1, ReplayInvariant, PTL

-----------------------------------------------------------------------------
(* The stop *)

Waits == {"STOP", "cancelled", "TEARDOWN", "DATAFLOW_STOP"}
InStop == {"check", "set"} \cup Waits
Inside(t) == call[t].pc \in InStop

\* The destructor has begun to release the network.
Gone == main.pc \in {"releasing", "joining", "deleted", "crashed"}
Deleting == main.pc = "delete" \/ Gone

\* Thread t is in network_->stop() on behalf of Facade::stop.
Stops(t) == Inside(t) /\ ~(t = "main" /\ Deleting)

DomainFlags == [running : BOOLEAN, stopCalled : BOOLEAN, gaveUp : BOOLEAN]

StopTypes ==
  /\ program \in Programs
  /\ main \in [pc : MainPc, at : Nat]
  /\ call \in [Threads -> [pc : CallPc, at : Nat, end : Nat]]
  /\ shouldStop \in BOOLEAN
  /\ promises \in Nat
  /\ made \in Nat /\ made <= TimeDomainCount
  /\ domain \in [TimeDomains -> DomainFlags]
  /\ flow \in [TimeDomains -> {"none", "running", "ended"}]
  /\ source \in [TimeDomains -> {"off", "on", "finished", "stopped"}]

\* should_stop_ lets one thread in, and that one sets the promise.
OneStop ==
  /\ ~shouldStop => promises = 0 /\ \A t \in Threads : ~Stops(t)
  /\ promises > 0 => \A t \in Threads : ~Stops(t)
  /\ promises <= 1
  /\ \A t, u \in Threads : Stops(t) /\ Stops(u) => t = u

\* A call only looks at time domains that exist, and stops those that run.
CallsInRange ==
  \A t \in Threads :
    Inside(t) =>
      /\ call[t].at <= call[t].end /\ call[t].end <= made
      /\ call[t].pc # "check" => call[t].at < call[t].end
      /\ call[t].pc = "set" =>
           domain[call[t].at].running \/ domain[call[t].at].stopCalled

\* Where the calls of the threads belong.
CallsInPlace ==
  /\ call["main"].pc # "idle" => main.pc \in {"stopping", "delete"}
  /\ main.pc = "delete" => call["main"].pc \notin {"lock", "flag"}
  /\ main.pc = "stopping" /\ call["main"].pc # "lock" => shouldStop
  /\ program # "console" => call["handler"].pc = "idle"
  /\ program = "test" \/ stopThread = "none" => call["stopper"].pc = "idle"

\* Time domains are started one after the other, once all of them exist.
Early == main.pc \in {"load", "failed", "create"}
StartOrder ==
  /\ ~Early /\ ~Deleting => made = TimeDomainCount
  /\ Early => /\ call["stopper"].pc = "idle"
              /\ \A d \in TimeDomains : source[d] # "on"
  /\ \A d \in TimeDomains :
       domain[d].running \/ domain[d].stopCalled \/ flow[d] # "none" =>
         /\ ~Early
         /\ made = TimeDomainCount
         /\ main.pc = "start" => d < main.at
         /\ main.pc \in {"configuring", "starting"} => d <= main.at

\* A time domain for which stop was called runs only until that call returns.
StopUnderWay ==
  \A d \in TimeDomains :
    domain[d].running /\ domain[d].stopCalled =>
      \E t \in Threads : call[t].pc \in Waits /\ call[t].at = d

\* A taskflow runs in a time domain that runs, or in one whose stop() gave it up.
FlowsKnown ==
  \A d \in TimeDomains :
    flow[d] = "running" => domain[d].running \/ domain[d].gaveUp

\* Nothing was started and nobody can ask for a stop any more.
NothingStarted ==
  /\ program # "console"
  /\ call["stopper"].pc = "idle"
  /\ \A d \in TimeDomains :
       ~domain[d].running /\ flow[d] # "running" /\ source[d] # "on"

\* The facade is deleted after the stop, and the destructor stops the rest.
DeleteAfterStop ==
  /\ Deleting => (\A t \in Threads : ~Stops(t)) /\ (shouldStop \/ NothingStarted)
  /\ main.pc = "delete" /\ Inside("main") =>
       /\ call["main"].end = made
       /\ \A d \in TimeDomains : d < call["main"].at => ~domain[d].running
  /\ Gone => \A d \in TimeDomains : ~domain[d].running
  /\ network # "alive" => Gone

StopInv ==
  /\ StopTypes
  /\ OneStop
  /\ CallsInRange
  /\ CallsInPlace
  /\ StartOrder
  /\ StopUnderWay
  /\ FlowsKnown
  /\ DeleteAfterStop

\* The moves of a call within stop() keep its type.
LEMMA CallAtType ==
  ASSUME StopTypes, NEW t \in Threads, NEW pc \in CallPc, CallAt(t, pc)
  PROVE  call' \in [Threads -> [pc : CallPc, at : Nat, end : Nat]]
BY DEF StopTypes, CallAt

LEMMA NextDomainType ==
  ASSUME StopTypes, NEW t \in Threads
  PROVE  NextDomain(t) \in [Threads -> [pc : CallPc, at : Nat, end : Nat]]
<1>1. [pc |-> "check", at |-> call[t].at + 1, end |-> call[t].end]
        \in [pc : CallPc, at : Nat, end : Nat]
  BY DEF StopTypes, CallPc
<1> QED BY <1>1 DEF NextDomain, StopTypes

\* The owner loads and starts the dataflow: the time domains are created and their
\* schedulers go through CONFIGURE and START one after the other.
LEMMA OwnerStartsInv ==
  ASSUME StopInv,
         loadDataflow \/ CreateTimeDomain \/ InitTimeDomains \/
         SchedulerConfigured \/ SchedulerStarted \/ StartReturns
  PROVE  StopInv'
<1>1. StopTypes'
  <2>1. CASE loadDataflow
    BY <2>1 DEF loadDataflow, MainStep, facadeVars, domainVars, sourceVars, StopInv,
       StopTypes, Threads, MainPc, CallPc, TimeDomains
  <2>2. CASE CreateTimeDomain
    BY <2>2, FacadeAssumption, SMTT(30) DEF CreateTimeDomain, MainStep, CreateNext, facadeVars,
       sourceVars, StopInv, StopTypes, Threads, MainPc, CallPc, TimeDomains
  <2>3. CASE InitTimeDomains
    BY <2>3 DEF InitTimeDomains, MainStep, facadeVars, domainVars, sourceVars, StopInv,
       StopTypes, Threads, MainPc, CallPc, TimeDomains
  <2>4. CASE SchedulerConfigured
    BY <2>4 DEF SchedulerConfigured, MainStep, facadeVars, sourceVars, StopInv,
       StopTypes, Threads, MainPc, CallPc, TimeDomains
  <2>5. CASE SchedulerStarted
    BY <2>5 DEF SchedulerStarted, facadeVars, domainVars, sourceVars, StopInv,
       StopTypes, Threads, MainPc, CallPc, TimeDomains
  <2>6. CASE StartReturns
    BY <2>6 DEF StartReturns, MainStep, domainVars, sourceVars, StopInv, StopTypes,
       Threads, MainPc, CallPc, TimeDomains
  <2> QED BY <2>1, <2>2, <2>3, <2>4, <2>5, <2>6
<1>2. OneStop'
  BY DEF loadDataflow, CreateTimeDomain, InitTimeDomains, SchedulerConfigured,
     SchedulerStarted, StartReturns, MainStep, facadeVars, domainVars, sourceVars,
     CreateNext, StopInv, StopTypes, Threads, OneStop, Stops, Inside, InStop, Waits,
     Deleting, Gone
<1>3. CallsInRange'
  BY DEF loadDataflow, CreateTimeDomain, InitTimeDomains, SchedulerConfigured,
     SchedulerStarted, StartReturns, MainStep, facadeVars, domainVars, sourceVars,
     CreateNext, StopInv, StopTypes, Threads, CallsInRange, Inside, InStop, Waits
<1>4. CallsInPlace'
  BY DEF loadDataflow, CreateTimeDomain, InitTimeDomains, SchedulerConfigured,
     SchedulerStarted, StartReturns, MainStep, facadeVars, domainVars, sourceVars,
     CreateNext, StopInv, StopTypes, Threads, CallsInPlace
<1>5. StartOrder'
  <2>1. CASE loadDataflow
    BY <2>1 DEF loadDataflow, MainStep, facadeVars, domainVars, sourceVars, StopInv,
       StopTypes, Threads, StartOrder, Early, Deleting, Gone
  <2>2. CASE CreateTimeDomain
    BY <2>2 DEF CreateTimeDomain, MainStep, CreateNext, facadeVars, sourceVars, StopInv,
       StopTypes, Threads, StartOrder, Early, Deleting, Gone
  <2>3. CASE InitTimeDomains
    BY <2>3 DEF InitTimeDomains, MainStep, facadeVars, domainVars, sourceVars, StopInv,
       StopTypes, Threads, StartOrder, Early, Deleting, Gone
  <2>4. CASE SchedulerConfigured
    BY <2>4 DEF SchedulerConfigured, MainStep, facadeVars, sourceVars, StopInv,
       StopTypes, Threads, StartOrder, Early, Deleting, Gone
  <2>5. CASE SchedulerStarted
    BY <2>5 DEF SchedulerStarted, facadeVars, domainVars, sourceVars, StopInv,
       StopTypes, Threads, StartOrder, Early, Deleting, Gone, TimeDomains
  <2>6. CASE StartReturns
    BY <2>6 DEF StartReturns, MainStep, domainVars, sourceVars, StopInv, StopTypes,
       Threads, StartOrder, Early, Deleting, Gone
  <2> QED BY <2>1, <2>2, <2>3, <2>4, <2>5, <2>6
<1>6. StopUnderWay'
  BY DEF loadDataflow, CreateTimeDomain, InitTimeDomains, SchedulerConfigured,
     SchedulerStarted, StartReturns, MainStep, facadeVars, domainVars, sourceVars,
     CreateNext, StopInv, StopTypes, Threads, StopUnderWay, Waits
<1>7. DeleteAfterStop'
  BY DEF loadDataflow, CreateTimeDomain, InitTimeDomains, SchedulerConfigured,
     SchedulerStarted, StartReturns, MainStep, facadeVars, domainVars, sourceVars,
     CreateNext, StopInv, StopTypes, Threads, DeleteAfterStop, Deleting, Gone, Stops,
     Inside, InStop, Waits, NothingStarted
<1>8. FlowsKnown'
  BY DEF loadDataflow, CreateTimeDomain, InitTimeDomains, SchedulerConfigured,
     SchedulerStarted, StartReturns, domainVars, StopInv, FlowsKnown
<1> QED BY <1>1, <1>2, <1>3, <1>4, <1>5, <1>6, <1>7, <1>8 DEF StopInv

\* The owner asks for the stop and deletes the facade: after a failed load, in a test
\* where no other thread calls stop(), or when the future is ready, set by a thread
\* that has left network_->stop().
LEMMA OwnerDeletesInv ==
  ASSUME StopInv,
         OwnerStops \/ Abandon \/ OwnerStopped \/ FutureReady
  PROVE  StopInv'
<1>1. StopTypes'
  BY DEF OwnerStops, Abandon, OwnerStopped, FutureReady, MainStep, CallAt, facadeVars,
     domainVars, sourceVars, StopInv, StopTypes, Threads, MainPc, CallPc, TimeDomains
<1>2. OneStop'
  BY DEF OwnerStops, Abandon, OwnerStopped, FutureReady, MainStep, CallAt, facadeVars,
     domainVars, sourceVars, StopInv, StopTypes, Threads, OneStop, Stops, Inside,
     InStop, Waits, Deleting, Gone
<1>3. CallsInRange'
  BY DEF OwnerStops, Abandon, OwnerStopped, FutureReady, MainStep, CallAt, facadeVars,
     domainVars, sourceVars, StopInv, StopTypes, Threads, CallsInRange, Inside,
     InStop, Waits
<1>4. CallsInPlace'
  BY DEF OwnerStops, Abandon, OwnerStopped, FutureReady, MainStep, CallAt, facadeVars,
     domainVars, sourceVars, StopInv, StopTypes, Threads, CallsInPlace
<1>5. StartOrder'
  BY DEF OwnerStops, Abandon, OwnerStopped, FutureReady, MainStep, CallAt, facadeVars,
     domainVars, sourceVars, StopInv, StopTypes, Threads, StartOrder, Early, Deleting, Gone
<1>6. StopUnderWay'
  BY DEF OwnerStops, Abandon, OwnerStopped, FutureReady, MainStep, CallAt, facadeVars,
     domainVars, sourceVars, StopInv, StopTypes, Threads, StopUnderWay, Waits
<1>7. DeleteAfterStop'
  BY DEF OwnerStops, Abandon, OwnerStopped, FutureReady, MainStep, CallAt, facadeVars,
     domainVars, sourceVars, StopInv, StopTypes, Threads, DeleteAfterStop, Deleting, Gone,
     Stops, Inside, InStop, Waits, NothingStarted, CallsInPlace, StartOrder, Early,
     OneStop
<1>8. FlowsKnown'
  BY DEF OwnerStops, Abandon, OwnerStopped, FutureReady, domainVars, StopInv, FlowsKnown
<1> QED BY <1>1, <1>2, <1>3, <1>4, <1>5, <1>6, <1>7, <1>8 DEF StopInv

\* A time domain is started after those before it; stop() was not called for it.
LEMMA StartTimeDomainInv ==
  ASSUME StopInv, StartTimeDomain
  PROVE  StopInv'
<1>1. StopTypes'
  BY DEF StartTimeDomain, MainStep, facadeVars, sourceVars, StopInv, StopTypes,
     DomainFlags, MainPc, CallPc, Threads, TimeDomains
<1>2. OneStop'
  BY DEF StartTimeDomain, MainStep, facadeVars, sourceVars, StopInv, StopTypes,
     Threads, OneStop, Stops, Inside, InStop, Waits, Deleting, Gone
<1>3. CallsInRange'
  BY DEF StartTimeDomain, MainStep, facadeVars, sourceVars, StopInv, StopTypes,
     Threads, CallsInRange, Inside, InStop, Waits
<1>4. CallsInPlace'
  BY DEF StartTimeDomain, MainStep, facadeVars, sourceVars, StopInv, StopTypes,
     Threads, CallsInPlace
<1>5. StartOrder'
  BY FacadeAssumption DEF StartTimeDomain, MainStep, facadeVars, sourceVars, StopInv,
     StopTypes, Threads, StartOrder, Early, Deleting, Gone, TimeDomains
<1>6. StopUnderWay'
  BY FacadeAssumption DEF StartTimeDomain, MainStep, facadeVars, sourceVars, StopInv,
     StopTypes, Threads, StopUnderWay, Waits, StartOrder, Early, TimeDomains
<1>7. DeleteAfterStop'
  BY DEF StartTimeDomain, MainStep, facadeVars, sourceVars, StopInv, StopTypes,
     Threads, DeleteAfterStop, Deleting, Gone, Stops, Inside, InStop, Waits, NothingStarted
<1>8. FlowsKnown'
  BY DEF StartTimeDomain, StopInv, StopTypes, FlowsKnown
<1> QED BY <1>1, <1>2, <1>3, <1>4, <1>5, <1>6, <1>7, <1>8 DEF StopInv

\* The destructor looks at every time domain before it releases the network: none is
\* running then.
LEMMA DestructorInv ==
  ASSUME StopInv,
         \/ DestructorStops \/ DestructorReleases \/ ReleaseCrashes
         \/ DestructorResets \/ DestructorJoins
  PROVE  StopInv'
<1>1. StopTypes'
  BY DEF DestructorStops, DestructorReleases, ReleaseCrashes, DestructorResets,
     DestructorJoins, DestructorNetworkStop, NetworkStop, Idle, facadeVars, domainVars, sourceVars, NetworkStopped, MainStep,
     JoinStopThread, StopInv, StopTypes, Threads, MainPc, CallPc, TimeDomains
<1>2. OneStop'
  BY DEF DestructorStops, DestructorReleases, ReleaseCrashes, DestructorResets,
     DestructorJoins, DestructorNetworkStop, NetworkStop, Idle, facadeVars, domainVars, sourceVars, NetworkStopped, MainStep,
     JoinStopThread, StopInv, StopTypes, Threads, OneStop, Stops, Inside, InStop,
     Waits, Deleting, Gone
<1>3. CallsInRange'
  BY DEF DestructorStops, DestructorReleases, ReleaseCrashes, DestructorResets,
     DestructorJoins, DestructorNetworkStop, NetworkStop, Idle, facadeVars, domainVars, sourceVars, NetworkStopped, MainStep,
     JoinStopThread, StopInv, StopTypes, Threads, CallsInRange, Inside, InStop, Waits
<1>4. CallsInPlace'
  BY DEF DestructorStops, DestructorReleases, ReleaseCrashes, DestructorResets,
     DestructorJoins, DestructorNetworkStop, NetworkStop, Idle, facadeVars, domainVars, sourceVars, NetworkStopped, MainStep,
     JoinStopThread, StopInv, StopTypes, Threads, CallsInPlace
<1>5. StartOrder'
  BY DEF DestructorStops, DestructorReleases, ReleaseCrashes, DestructorResets,
     DestructorJoins, DestructorNetworkStop, NetworkStop, Idle, facadeVars, domainVars, sourceVars, NetworkStopped, MainStep,
     JoinStopThread, StopInv, StopTypes, Threads, StartOrder, Early, Deleting, Gone
<1>6. StopUnderWay'
  BY DEF DestructorStops, DestructorReleases, ReleaseCrashes, DestructorResets,
     DestructorJoins, DestructorNetworkStop, NetworkStop, Idle, facadeVars, domainVars, sourceVars, NetworkStopped, MainStep,
     JoinStopThread, StopInv, StopTypes, Threads, StopUnderWay, Waits
<1>7. DeleteAfterStop'
  <2>1. CASE DestructorStops
    BY <2>1 DEF DestructorStops, DestructorNetworkStop, NetworkStop, Idle, facadeVars,
       domainVars, sourceVars, StopInv, StopTypes, Threads, DeleteAfterStop, Deleting, Gone,
       Stops, Inside, InStop, Waits, NothingStarted, TimeDomains
  <2>2. CASE DestructorReleases
    BY <2>2 DEF DestructorReleases, NetworkStopped, Idle, domainVars, sourceVars, StopInv,
       StopTypes, Threads, DeleteAfterStop, Deleting, Gone, Stops, Inside, InStop, Waits,
       NothingStarted, StartOrder, TimeDomains
  <2>3. CASE ReleaseCrashes \/ DestructorResets
    BY <2>3 DEF ReleaseCrashes, DestructorResets, facadeVars, domainVars, sourceVars,
       StopInv, StopTypes, Threads, DeleteAfterStop, Deleting, Gone, Stops, Inside, InStop,
       Waits, NothingStarted
  <2>4. CASE DestructorJoins
    BY <2>4 DEF DestructorJoins, MainStep, JoinStopThread, domainVars, sourceVars,
       StopInv, StopTypes, Threads, DeleteAfterStop, Deleting, Gone, Stops, Inside, InStop,
       Waits, NothingStarted
  <2> QED BY <2>1, <2>2, <2>3, <2>4
<1>8. FlowsKnown'
  BY DEF DestructorStops, DestructorReleases, DestructorResets, DestructorJoins,
     ReleaseCrashes, domainVars, StopInv, FlowsKnown
<1> QED BY <1>1, <1>2, <1>3, <1>4, <1>5, <1>6, <1>7, <1>8 DEF StopInv

\* should_stop_ is tested and set: one thread enters network_->stop(), and none
\* once the facade is being deleted.
LEMMA StopLockedInv ==
  ASSUME StopInv, NEW t \in Threads, StopLocked(t)
  PROVE  StopInv'
<1>1. StopTypes'
  BY DEF StopLocked, StopOnce, NetworkStop, Idle, domainVars, sourceVars, StopInv,
     StopTypes, MainPc, CallPc, Threads, TimeDomains
<1>2. OneStop'
  BY DEF StopLocked, StopOnce, NetworkStop, Idle, domainVars, sourceVars, StopInv,
     StopTypes, Threads, OneStop, Stops, Inside, InStop, Waits, Deleting, Gone
<1>3. CallsInRange'
  BY DEF StopLocked, StopOnce, NetworkStop, Idle, domainVars, sourceVars, StopInv,
     StopTypes, Threads, CallsInRange, Inside, InStop, Waits
<1>4. CallsInPlace'
  BY DEF StopLocked, StopOnce, NetworkStop, Idle, domainVars, sourceVars, StopInv,
     StopTypes, Threads, CallsInPlace
<1>5. StartOrder'
  BY DEF StopLocked, StopOnce, NetworkStop, Idle, domainVars, sourceVars, StopInv,
     StopTypes, Threads, StartOrder, Early, Deleting, Gone
<1>6. StopUnderWay'
  <2>1. call[t].pc = "lock" /\ domain' = domain
    BY DEF StopLocked, StopOnce, domainVars
  <2>2. \A u \in Threads : u # t => call'[u] = call[u]
    BY DEF StopLocked, StopOnce, NetworkStop, Idle, StopInv, StopTypes
  <2>3. \A u \in Threads : call[u].pc \in Waits => call'[u] = call[u]
    BY <2>1, <2>2 DEF Waits
  <2> QED BY <2>1, <2>3 DEF StopInv, StopUnderWay
<1>7. DeleteAfterStop'
  BY DEF StopLocked, StopOnce, NetworkStop, Idle, domainVars, sourceVars, StopInv,
     StopTypes, Threads, DeleteAfterStop, Deleting, Gone, Stops, Inside, InStop, Waits,
     NothingStarted, CallsInPlace
<1>8. FlowsKnown'
  BY DEF StopLocked, domainVars, StopInv, FlowsKnown
<1> QED BY <1>1, <1>2, <1>3, <1>4, <1>5, <1>6, <1>7, <1>8 DEF StopInv

\* A call looks at a time domain; the destructor passes one by only if it does
\* not run, because nobody else is stopping it.
LEMMA CheckTimeDomainInv ==
  ASSUME StopInv, NEW t \in Threads, CheckTimeDomain(t)
  PROVE  StopInv'
<1>1. StopTypes'
  <2>1. call' \in [Threads -> [pc : CallPc, at : Nat, end : Nat]]
    BY CallAtType, NextDomainType
       DEF CheckTimeDomain, StopInv, StopTypes, CallPc
  <2> QED BY <2>1 DEF CheckTimeDomain, facadeVars, domainVars, sourceVars,
                      StopInv, StopTypes
<1>2. OneStop'
  BY DEF CheckTimeDomain, NextDomain, MustStop, CallAt, facadeVars, domainVars,
     sourceVars, StopInv, StopTypes, Threads, OneStop, Stops, Inside, InStop, Waits,
     Deleting, Gone
<1>3. CallsInRange'
  BY DEF CheckTimeDomain, NextDomain, MustStop, CallAt, facadeVars, domainVars,
     sourceVars, StopInv, StopTypes, Threads, CallsInRange, Inside, InStop, Waits
<1>4. CallsInPlace'
  BY DEF CheckTimeDomain, NextDomain, MustStop, CallAt, facadeVars, domainVars,
     sourceVars, StopInv, StopTypes, Threads, CallsInPlace
<1>5. StartOrder'
  BY DEF CheckTimeDomain, NextDomain, MustStop, CallAt, facadeVars, domainVars,
     sourceVars, StopInv, StopTypes, Threads, StartOrder, Early, Deleting, Gone
<1>6. StopUnderWay'
  BY DEF CheckTimeDomain, NextDomain, MustStop, CallAt, facadeVars, domainVars,
     sourceVars, StopInv, StopTypes, Threads, StopUnderWay, Waits
<1>7. DeleteAfterStop'
  BY DEF CheckTimeDomain, NextDomain, MustStop, CallAt, facadeVars, domainVars,
     sourceVars, StopInv, StopTypes, Threads, DeleteAfterStop, Deleting, Gone, Stops,
     Inside, InStop, Waits, NothingStarted, CallsInPlace, StopUnderWay, TimeDomains
<1>8. FlowsKnown'
  BY DEF CheckTimeDomain, domainVars, StopInv, FlowsKnown
<1> QED BY <1>1, <1>2, <1>3, <1>4, <1>5, <1>6, <1>7, <1>8 DEF StopInv

\* A call sets stop_called_ and waits for STOP.
LEMMA SetStopCalledInv ==
  ASSUME StopInv, NEW t \in Threads, SetStopCalled(t)
  PROVE  StopInv'
<1>1. StopTypes'
  <2>1. call' \in [Threads -> [pc : CallPc, at : Nat, end : Nat]]
    BY CallAtType DEF SetStopCalled, StopInv, StopTypes, CallPc
  <2>2. domain' \in [TimeDomains -> DomainFlags]
    BY DEF SetStopCalled, StopInv, StopTypes, DomainFlags
  <2> QED BY <2>1, <2>2 DEF SetStopCalled, facadeVars, sourceVars, StopInv, StopTypes
<1>2. OneStop'
  BY DEF SetStopCalled, CallAt, facadeVars, sourceVars, StopInv, StopTypes, Threads,
     OneStop, Stops, Inside, InStop, Waits, Deleting, Gone
<1>3. CallsInRange'
  BY DEF SetStopCalled, CallAt, facadeVars, sourceVars, StopInv, StopTypes, Threads,
     CallsInRange, Inside, InStop, Waits
<1>4. CallsInPlace'
  BY DEF SetStopCalled, CallAt, facadeVars, sourceVars, StopInv, StopTypes, Threads,
     CallsInPlace
<1>5. StartOrder'
  BY DEF SetStopCalled, CallAt, facadeVars, sourceVars, StopInv, StopTypes, Threads,
     StartOrder, Early, Deleting, Gone, CallsInRange, Inside, InStop, TimeDomains
<1>6. StopUnderWay'
  BY DEF SetStopCalled, CallAt, facadeVars, sourceVars, StopInv, StopTypes, Threads,
     StopUnderWay, Waits
<1>7. DeleteAfterStop'
  BY DEF SetStopCalled, CallAt, facadeVars, sourceVars, StopInv, StopTypes, Threads,
     DeleteAfterStop, Deleting, Gone, Stops, Inside, InStop, Waits, NothingStarted
<1>8. FlowsKnown'
  BY DEF SetStopCalled, StopInv, StopTypes, FlowsKnown
<1> QED BY <1>1, <1>2, <1>3, <1>4, <1>5, <1>6, <1>7, <1>8 DEF StopInv

\* The call waits for STOP, TEARDOWN and DATAFLOW_STOP of its time domain, which
\* runs until the last of them.
LEMMA SchedulerStopInv ==
  ASSUME StopInv, NEW t \in Threads, SchedulerStop(t)
  PROVE  StopInv'
<1> DEFINE d == call[t].at
<1>1. /\ call[t].pc \in Waits /\ call'[t].pc \in {"check"} \cup Waits
      /\ call' \in [Threads -> [pc : CallPc, at : Nat, end : Nat]]
      /\ call'[t].end = call[t].end
      /\ \A u \in Threads : u # t => call'[u] = call[u]
  <2>1. call' \in [Threads -> [pc : CallPc, at : Nat, end : Nat]]
    BY CallAtType, NextDomainType
       DEF SchedulerStop, StopTimesOut, Teardown, EndFlow, FlowAwaited, StopInv, StopTypes,
           CallPc
  <2> QED BY <2>1 DEF SchedulerStop, StopTimesOut, Teardown, EndFlow, FlowAwaited, CallAt,
                      NextDomain, Waits, StopInv, StopTypes
<1>2. d \in TimeDomains /\ d + 1 <= call[t].end /\ call[t].end <= made
  <2>1. d < call[t].end /\ call[t].end <= made
    BY <1>1 DEF Inside, InStop, Waits, StopInv, CallsInRange
  <2> QED BY <2>1, FacadeAssumption DEF TimeDomains, StopInv, StopTypes
<1>3. \/ call'[t].pc \in Waits /\ call'[t].at = d /\ domain' = domain
      \/ /\ call'[t].pc = "check" /\ call'[t].at = d + 1
         /\ domain' = [domain EXCEPT ![d].running = FALSE,
                                     ![d].gaveUp = (flow[d] = "running")]
  BY DEF SchedulerStop, StopTimesOut, Teardown, EndFlow, FlowAwaited, CallAt, NextDomain, Waits,
         StopInv, StopTypes
<1>4. /\ domain' \in [TimeDomains -> DomainFlags]
      /\ \A e \in TimeDomains : /\ domain'[e].stopCalled = domain[e].stopCalled
                                /\ domain'[e].running => domain[e].running
                                /\ e # d => domain'[e] = domain[e]
  <2>1. CASE domain' = domain
    BY <2>1 DEF StopInv, StopTypes
  <2>2. CASE domain' = [domain EXCEPT ![d].running = FALSE,
                                      ![d].gaveUp = (flow[d] = "running")]
    <3>1. domain' \in [TimeDomains -> DomainFlags]
      <4> DEFINE gaveUp == flow[d] = "running"
      <4>1. gaveUp \in BOOLEAN
        BY Zenon
      <4>2. domain' = [domain EXCEPT ![d].running = FALSE, ![d].gaveUp = gaveUp]
        BY <2>2, Zenon
      <4> HIDE DEF gaveUp
      <4> QED BY <4>1, <4>2 DEF StopInv, StopTypes, DomainFlags
    <3>2. \A e \in TimeDomains : e # d => domain'[e] = domain[e]
      BY <2>2 DEF StopInv, StopTypes
    <3>3. ~domain'[d].running /\ domain'[d].stopCalled = domain[d].stopCalled
      BY <2>2, <1>2 DEF StopInv, StopTypes, DomainFlags
    <3> QED BY <3>1, <3>2, <3>3
  <2> QED BY <2>1, <2>2, <1>3
<1>5. call'[t].pc = "check" => call'[t].at = d + 1 /\ ~domain'[d].running
  BY <1>2, <1>3 DEF StopInv, StopTypes, DomainFlags, Waits
<1>6. UNCHANGED <<program, main, shouldStop, promises, stopThread, network, made, flow,
                  source>>
  BY DEF SchedulerStop, facadeVars, sourceVars
<1>7. /\ t \in Threads
      /\ \A u \in Threads : /\ call'[u].pc \in InStop <=> call[u].pc \in InStop
                            /\ call'[u] = call[u] \/ call'[u].pc \in {"check"} \cup Waits
                            /\ call[u].pc \in InStop => u = t
  <2>1. \A u \in Threads : call[u].pc \in InStop => u = t
    BY <1>1 DEF StopInv, OneStop, DeleteAfterStop, Stops, Inside, InStop
  <2> QED BY <2>1, <1>1 DEF InStop
<1>8. StopTypes'
  BY <1>1, <1>4, <1>6 DEF StopInv, StopTypes
<1>9. OneStop'
  BY <1>6, <1>7 DEF StopInv, OneStop, Stops, Inside, Deleting, Gone
<1>10. CallsInRange'
  <2> SUFFICES /\ call'[t].at <= call'[t].end /\ call'[t].end <= made
               /\ call'[t].pc # "check" => call'[t].at < call'[t].end
               /\ call'[t].pc # "set"
    BY <1>6, <1>7 DEF CallsInRange, Inside
  <2> QED BY <1>1, <1>2, <1>3 DEF StopInv, StopTypes, Waits
<1>11. CallsInPlace'
  <2> DEFINE outside == {"idle", "lock", "flag"}
  <2>1. \A u \in Threads : \/ call'[u] = call[u]
                           \/ call'[u].pc \notin outside /\ call[u].pc \notin outside
    BY <1>1, <1>7 DEF Waits
  <2> QED BY <2>1, <1>6 DEF StopInv, CallsInPlace, Threads
<1>12. call["stopper"].pc = "idle" => call'["stopper"].pc = "idle"
  BY <1>1 DEF Waits, Threads
<1>13. StartOrder'
  BY <1>12, <1>4, <1>6 DEF StopInv, StartOrder, Early, Deleting, Gone
<1>14. StopUnderWay'
  <2> SUFFICES ASSUME NEW e \in TimeDomains,
                      domain'[e].running, domain'[e].stopCalled
               PROVE  \E u \in Threads : call'[u].pc \in Waits /\ call'[u].at = e
    BY DEF StopUnderWay
  <2>1. domain[e].running /\ domain[e].stopCalled
    BY <1>4
  <2>2. PICK u \in Threads : call[u].pc \in Waits /\ call[u].at = e
    BY <2>1 DEF StopInv, StopUnderWay
  <2>3. CASE u = t
    BY <2>2, <2>3, <1>3, <1>5
  <2>4. CASE u # t
    BY <2>2, <2>4, <1>1
  <2> QED BY <2>3, <2>4
<1>15. DeleteAfterStop'
  <2>1. NothingStarted => NothingStarted'
    BY <1>12, <1>4, <1>6 DEF NothingStarted
  <2>2. ASSUME main.pc = "delete", call'["main"].pc \in InStop
        PROVE  /\ call'["main"].end = made
               /\ \A e \in TimeDomains : e < call'["main"].at => ~domain'[e].running
    <3>1. t = "main"
      BY <2>2, <1>7 DEF Threads
    <3>2. /\ call[t].end = made
          /\ \A e \in TimeDomains : e < d => ~domain[e].running
      BY <2>2, <3>1, <1>7 DEF StopInv, DeleteAfterStop, Inside, Threads
    <3>3. \A e \in TimeDomains : e < call'[t].at => ~domain'[e].running
      <4>1. call'[t].pc # "check" => call'[t].at = d
        BY <1>3
      <4>2. \A e \in TimeDomains : e \in Nat
        BY FacadeAssumption DEF TimeDomains
      <4> QED BY <3>2, <4>1, <4>2, <1>2, <1>4, <1>5
    <3> QED BY <3>1, <3>2, <3>3, <1>1
  <2> QED BY <2>1, <2>2, <1>4, <1>6, <1>7
          DEF StopInv, DeleteAfterStop, Deleting, Gone, Stops, Inside
<1>16. FlowsKnown'
  <2> SUFFICES ASSUME NEW e \in TimeDomains, flow[e] = "running"
               PROVE  domain'[e].running \/ domain'[e].gaveUp
    BY <1>6 DEF FlowsKnown
  <2>1. domain[e].running \/ domain[e].gaveUp
    BY DEF StopInv, FlowsKnown
  <2>2. CASE e = d /\ domain' # domain
    BY <2>2, <1>3 DEF StopInv, StopTypes, DomainFlags
  <2>3. CASE e # d \/ domain' = domain
    BY <2>1, <2>3, <1>4
  <2> QED BY <2>2, <2>3
<1> QED BY <1>8, <1>9, <1>10, <1>11, <1>13, <1>14, <1>15, <1>16
        DEF StopInv

\* stop() is called by a signal, sets the promise as the only thread in
\* network_->stop(), and returns.
LEMMA CallsInv ==
  ASSUME StopInv, NEW t \in Threads,
         Signal \/ StopNotifies(t) \/ StopReturns(t)
  PROVE  StopInv'
<1>1. StopTypes'
  BY DEF Signal, StopNotifies, StopReturns, CallAt, Idle, facadeVars, domainVars,
     sourceVars, SetPromise, NetworkStopped, StopInv, StopTypes, Threads, MainPc,
     CallPc, TimeDomains
<1>2. OneStop'
  BY DEF Signal, StopNotifies, StopReturns, CallAt, Idle, facadeVars, domainVars,
     sourceVars, SetPromise, NetworkStopped, StopInv, StopTypes, Threads, OneStop,
     Stops, Inside, InStop, Waits, Deleting, Gone, CallsInPlace
<1>3. CallsInRange'
  BY DEF Signal, StopNotifies, StopReturns, CallAt, Idle, facadeVars, domainVars,
     sourceVars, SetPromise, NetworkStopped, StopInv, StopTypes, Threads,
     CallsInRange, Inside, InStop, Waits
<1>4. CallsInPlace'
  BY DEF Signal, StopNotifies, StopReturns, CallAt, Idle, facadeVars, domainVars,
     sourceVars, SetPromise, NetworkStopped, StopInv, StopTypes, Threads, CallsInPlace
<1>5. StartOrder'
  BY DEF Signal, StopNotifies, StopReturns, CallAt, Idle, facadeVars, domainVars,
     sourceVars, SetPromise, NetworkStopped, StopInv, StopTypes, Threads, StartOrder,
     Early, Deleting, Gone
<1>6. StopUnderWay'
  BY DEF Signal, StopNotifies, StopReturns, CallAt, Idle, facadeVars, domainVars,
     sourceVars, SetPromise, NetworkStopped, StopInv, StopTypes, Threads,
     StopUnderWay, Waits
<1>7. DeleteAfterStop'
  BY DEF Signal, StopNotifies, StopReturns, CallAt, Idle, facadeVars, domainVars,
     sourceVars, SetPromise, NetworkStopped, StopInv, StopTypes, Threads,
     DeleteAfterStop, Deleting, Gone, Stops, Inside, InStop, Waits, NothingStarted
<1>8. FlowsKnown'
  BY DEF Signal, StopNotifies, StopReturns, domainVars, StopInv, FlowsKnown
<1> QED BY <1>1, <1>2, <1>3, <1>4, <1>5, <1>6, <1>7, <1>8 DEF StopInv

\* A source is switched on by a taskflow that runs, so some time domain was started.
LEMMA FlowRunsInv ==
  ASSUME StopInv, NEW d \in TimeDomains, FlowRuns(d) \/ StartSources(d)
  PROVE  StopInv'
<1>1. /\ flow[d] = "running"
      /\ flow' \in [TimeDomains -> {"none", "running", "ended"}]
      /\ \A e \in TimeDomains : flow'[e] # flow[e] => flow[e] = "running" /\ flow'[e] = "ended"
      /\ source' \in [TimeDomains -> {"off", "on", "finished", "stopped"}]
      /\ UNCHANGED <<program, main, call, shouldStop, promises, stopThread, network, made,
                     domain>>
  BY DEF FlowRuns, StartSources, facadeVars, domainVars, StopInv, StopTypes
<1>2. ~Early /\ ~NothingStarted
  BY <1>1 DEF StopInv, StartOrder, NothingStarted
<1>3. StopTypes'
  BY <1>1 DEF StopInv, StopTypes
<1>4. OneStop' /\ CallsInRange' /\ CallsInPlace' /\ StopUnderWay'
  BY <1>1 DEF StopInv, OneStop, CallsInRange, CallsInPlace, StopUnderWay, Stops, Inside,
              Deleting, Gone
<1>5. StartOrder'
  BY <1>1, <1>2 DEF StopInv, StartOrder, Early, Deleting, Gone
<1>6. FlowsKnown'
  BY <1>1 DEF StopInv, FlowsKnown
<1>7. DeleteAfterStop'
  BY <1>1, <1>2 DEF StopInv, DeleteAfterStop, Deleting, Gone, Stops, Inside
<1> QED BY <1>3, <1>4, <1>5, <1>6, <1>7 DEF StopInv

\* A source calls stopAsync: the thread it creates has not yet entered stop().
LEMMA SourceFinishedInv ==
  ASSUME StopInv, NEW d \in TimeDomains, SourceFinished(d)
  PROVE  StopInv'
<1>1. /\ program # "test" /\ source[d] = "on"
      /\ source' = [source EXCEPT ![d] = "finished"]
      /\ UNCHANGED <<program, main, shouldStop, promises, network, made, domain, flow>>
  BY DEF SourceFinished, domainVars
<1>2. \/ UNCHANGED call
      \/ call' = [call EXCEPT !["stopper"] = [pc |-> "lock", at |-> 0, end |-> 0]]
  BY DEF SourceFinished, CreateStopThread, Idle
<1>3. StopTypes'
  <2>1. [pc |-> "lock", at |-> 0, end |-> 0] \in [pc : CallPc, at : Nat, end : Nat]
    BY DEF CallPc
  <2>2. call' \in [Threads -> [pc : CallPc, at : Nat, end : Nat]]
    BY <1>2, <2>1 DEF StopInv, StopTypes
  <2> QED BY <1>1, <2>2 DEF StopInv, StopTypes
<1>4. \A u \in Threads : /\ call'[u].pc \in InStop <=> call[u].pc \in InStop
                         /\ call[u].pc \in InStop => call'[u] = call[u]
  <2>1. call' # call => call["stopper"].pc = "idle"
    BY DEF SourceFinished, CreateStopThread, StopInv, CallsInPlace
  <2> QED BY <2>1, <1>1, <1>2 DEF StopInv, StopTypes, InStop, Waits
<1>5. OneStop'
  BY <1>1, <1>4 DEF StopInv, OneStop, Stops, Inside, Deleting, Gone
<1>6. CallsInRange'
  BY <1>1, <1>4 DEF StopInv, CallsInRange, Inside
<1>7. CallsInPlace'
  <2>1. call'["main"] = call["main"] /\ call'["handler"] = call["handler"]
    BY <1>2 DEF StopInv, StopTypes, Threads
  <2>2. stopThread' = "none" => stopThread = "none" /\ call' = call
    BY DEF SourceFinished, CreateStopThread
  <2> QED BY <2>1, <2>2, <1>1 DEF StopInv, CallsInPlace
<1>8. ~Early /\ ~NothingStarted
  BY <1>1 DEF StopInv, StartOrder, NothingStarted
<1>9. StartOrder'
  BY <1>1, <1>8 DEF StopInv, StartOrder, Early, Deleting, Gone
<1>10. StopUnderWay'
  BY <1>1, <1>4 DEF StopInv, StopUnderWay, InStop
<1>11. DeleteAfterStop'
  BY <1>1, <1>4, <1>8
     DEF StopInv, DeleteAfterStop, Deleting, Gone, Stops, Inside, Threads
<1>12. FlowsKnown'
  BY <1>1 DEF StopInv, FlowsKnown
<1> QED BY <1>3, <1>5, <1>6, <1>7, <1>9, <1>10, <1>11, <1>12 DEF StopInv

\* Before anything was loaded nobody stops anything.
LEMMA StopInit == Init => StopInv
<1> SUFFICES ASSUME Init PROVE StopInv
  OBVIOUS
<1>1. StopTypes
  <2>1. main \in [pc : MainPc, at : Nat]
    BY DEF Init, MainPc
  <2>2. call \in [Threads -> [pc : CallPc, at : Nat, end : Nat]]
    BY DEF Init, Idle, CallPc
  <2>3. /\ domain \in [TimeDomains -> DomainFlags]
        /\ flow \in [TimeDomains -> {"none", "running", "ended"}]
    BY DEF Init, DomainFlags
  <2>4. source \in [TimeDomains -> {"off", "on", "finished", "stopped"}]
    BY DEF Init
  <2>5. program \in Programs /\ shouldStop \in BOOLEAN
    BY DEF Init
  <2>6. promises \in Nat /\ made \in Nat /\ made <= TimeDomainCount
    <3>1. promises = 0 /\ made = 0
      BY DEF Init
    <3> QED BY <3>1, FacadeAssumption
  <2> QED BY <2>1, <2>2, <2>3, <2>4, <2>5, <2>6 DEF StopTypes
<1>2. OneStop /\ CallsInRange /\ CallsInPlace
  BY DEF Init, Idle, OneStop, CallsInRange, CallsInPlace, Stops, Inside, InStop,
         Waits, Threads
<1>3. StartOrder /\ StopUnderWay /\ FlowsKnown /\ DeleteAfterStop
  BY DEF Init, Idle, StartOrder, StopUnderWay, FlowsKnown, DeleteAfterStop, Early, Deleting,
         Gone,
         Inside, InStop, Waits, Threads
<1> QED BY <1>1, <1>2, <1>3 DEF StopInv

\* Steps of the flows, the players and the application that the stop does not
\* look at.
LEMMA OtherInv ==
  ASSUME StopInv,
         \/ UNCHANGED vars
         \/ StopperEnds \/ GlobalPlayerRuns \/ parameterChanged
         \/ \E d \in TimeDomains :
              \/ PlayerStop(d) \/ PlayerEnds(d)
              \/ \E c \in SourcesOf(d) :
                   OpenFrame(d, c) \/ \E k \in DOMAIN queue[d] : Deliver(d, k, c)
  PROVE  StopInv'
<1>1. UNCHANGED <<program, main, call, shouldStop, promises, network, domain, flow, made,
                  source>>
  BY DEF vars, StopperEnds, GlobalPlayerRuns, parameterChanged, PlayerStop,
         PlayerEnds, OpenFrame, Deliver, facadeVars, domainVars, sourceVars
<1>2. stopThread' = "none" => stopThread = "none"
  BY DEF vars, StopperEnds, GlobalPlayerRuns, parameterChanged, PlayerStop,
         PlayerEnds, OpenFrame, Deliver, facadeVars
<1>3. StopTypes' /\ OneStop' /\ CallsInRange'
  BY <1>1 DEF StopInv, StopTypes, OneStop, CallsInRange, Stops, Inside, Deleting, Gone
<1>4. CallsInPlace'
  BY <1>1, <1>2 DEF StopInv, CallsInPlace
<1>5. StartOrder' /\ StopUnderWay' /\ FlowsKnown' /\ DeleteAfterStop'
  BY <1>1 DEF StopInv, StartOrder, StopUnderWay, FlowsKnown, DeleteAfterStop, Early,
              Deleting, Gone,
              NothingStarted, Stops, Inside
<1> QED BY <1>3, <1>4, <1>5 DEF StopInv

\* Every step keeps the invariant.
LEMMA StopStep == StopInv /\ [Next]_vars => StopInv'
<1> SUFFICES ASSUME StopInv, [Next]_vars PROVE StopInv'
  OBVIOUS
<1>1. CASE MainNext
  BY <1>1, OwnerStartsInv, StartTimeDomainInv, OwnerDeletesInv, DestructorInv DEF MainNext
<1>2. ASSUME NEW t \in Threads, StopNext(t) PROVE StopInv'
  BY <1>2, StopLockedInv, CheckTimeDomainInv, SetStopCalledInv, SchedulerStopInv,
     CallsInv DEF StopNext
<1>3. CASE Signal
  BY <1>3, CallsInv DEF Threads
<1>4. ASSUME NEW d \in TimeDomains, FlowNext(d) PROVE StopInv'
  BY <1>4, FlowRunsInv, SourceFinishedInv, OtherInv DEF FlowNext
<1>5. CASE ReleaseCrashes
  BY <1>5, DestructorInv
<1>6. CASE StopperEnds \/ GlobalPlayerRuns \/ parameterChanged
  BY <1>6, OtherInv
<1>7. CASE WaitTimeout \/ Terminated \/ UNCHANGED vars
  BY <1>7, OtherInv DEF WaitTimeout, Terminated
<1> QED BY <1>1, <1>2, <1>3, <1>4, <1>5, <1>6, <1>7 DEF Next

\* The invariant holds in every reachable state.
THEOREM StopInvariant == Spec => []StopInv
BY StopInit, StopStep, PTL DEF Spec

\* finished_promise_ is set at most once, whoever calls Facade::stop, stopAsync and
\* the destructor, and in whatever order: should_stop_ admits one caller.
THEOREM PromiseOnce == Spec => []PromiseSetOnce
<1>1. StopInv => PromiseSetOnce
  BY DEF StopInv, OneStop, PromiseSetOnce
<1> QED BY <1>1, StopInvariant, PTL

\* When ~Facade releases the network, no thread is inside network_->stop(), and every
\* taskflow that still runs was given up by its stop() after kDataflowStopTimeout: the
\* destructor waits for all other calls that stop() left over.
THEOREM NetworkReleasedLast == Spec => []NoUseAfterReset
<1>1. StopInv => NoUseAfterReset
  <2> SUFFICES ASSUME StopInv, network # "alive"
               PROVE  /\ \A t \in Threads : call[t].pc \in {"idle", "lock", "flag"}
                      /\ \A d \in TimeDomains : flow[d] = "running" => domain[d].gaveUp
    BY DEF NoUseAfterReset
  <2>1. Gone
    BY DEF StopInv, DeleteAfterStop
  <2>2. call["main"].pc = "idle"
    BY <2>1 DEF StopInv, CallsInPlace, Gone
  <2>3. \A t \in Threads : t # "main" => ~Inside(t)
    BY <2>1 DEF StopInv, DeleteAfterStop, Deleting, Stops
  <2>4. \A t \in Threads : call[t].pc \in CallPc
    BY DEF StopInv, StopTypes
  <2>5. \A d \in TimeDomains : flow[d] = "running" => domain[d].gaveUp
    BY <2>1 DEF StopInv, DeleteAfterStop, FlowsKnown
  <2> QED BY <2>2, <2>3, <2>4, <2>5 DEF Inside, InStop, Waits, CallPc
<1> QED BY <1>1, StopInvariant, PTL

\* No stop() gives up a taskflow unless kDataflowStopTimeout expires.
NoneGivenUp == \A d \in TimeDomains : ~domain[d].gaveUp

LEMMA NoneGivesUp ==
  ASSUME ~StopTimeouts, StopInv, NoneGivenUp, [Next]_vars
  PROVE  NoneGivenUp'
<1>1. CASE MainNext
  <2>1. CASE StartTimeDomain
    BY <2>1 DEF StartTimeDomain, StopInv, StopTypes, DomainFlags, NoneGivenUp
  <2>2. CASE ~StartTimeDomain
    BY <1>1, <2>2
       DEF MainNext, loadDataflow, Abandon, CreateTimeDomain, InitTimeDomains,
           SchedulerConfigured, SchedulerStarted, StartReturns, OwnerStops, OwnerStopped,
           FutureReady, DestructorStops, DestructorReleases, DestructorResets,
           DestructorJoins, domainVars, NoneGivenUp
  <2> QED BY <2>1, <2>2
<1>2. ASSUME NEW t \in Threads, StopNext(t) PROVE NoneGivenUp'
  <2>1. CASE SetStopCalled(t)
    BY <2>1 DEF SetStopCalled, StopInv, StopTypes, DomainFlags, NoneGivenUp
  <2>2. CASE SchedulerStop(t)
    BY <2>2 DEF SchedulerStop, StopTimesOut, Teardown, EndFlow, FlowAwaited, StopInv,
                StopTypes, DomainFlags, NoneGivenUp
  <2>3. CASE ~SetStopCalled(t) /\ ~SchedulerStop(t)
    BY <1>2, <2>3 DEF StopNext, StopLocked, CheckTimeDomain, StopNotifies, StopReturns,
                      domainVars, NoneGivenUp
  <2> QED BY <2>1, <2>2, <2>3
<1>3. ASSUME NEW d \in TimeDomains, FlowNext(d) PROVE NoneGivenUp'
  BY <1>3 DEF FlowNext, FlowRuns, StartSources, PlayerStop, PlayerEnds, SourceFinished,
              OpenFrame, Deliver, domainVars, NoneGivenUp
<1>4. CASE StopperEnds \/ Signal \/ GlobalPlayerRuns \/ parameterChanged \/ ReleaseCrashes
  BY <1>4 DEF StopperEnds, Signal, GlobalPlayerRuns, parameterChanged, ReleaseCrashes,
              domainVars, NoneGivenUp
<1>5. CASE WaitTimeout \/ Terminated \/ UNCHANGED vars
  BY <1>5 DEF WaitTimeout, Terminated, vars, domainVars, NoneGivenUp
<1> QED BY <1>1, <1>2, <1>3, <1>4, <1>5 DEF Next

\* While kDataflowStopTimeout does not expire ~Facade releases no network whose
\* taskflows still run.  (When it does, it may: TaskFlowInFlowScheduler::stop returns.)
THEOREM NothingRunsAfterReset ==
  ~StopTimeouts =>
    (Spec => [](network # "alive" => \A d \in TimeDomains : flow[d] # "running"))
<1> SUFFICES ASSUME ~StopTimeouts
             PROVE  Spec => [](network # "alive" =>
                                 \A d \in TimeDomains : flow[d] # "running")
  OBVIOUS
<1>1. Init => NoneGivenUp
  BY DEF Init, NoneGivenUp
<1>2. StopInv /\ NoneGivenUp /\ [Next]_vars => NoneGivenUp'
  BY NoneGivesUp
<1>3. StopInv /\ NoneGivenUp =>
        (network # "alive" => \A d \in TimeDomains : flow[d] # "running")
  BY DEF StopInv, DeleteAfterStop, FlowsKnown, NoneGivenUp
<1> QED BY <1>1, <1>2, <1>3, StopInvariant, PTL DEF Spec

-----------------------------------------------------------------------------
(* Types *)

\* Where the owner is in start(), and the types of all variables.
TypeInv ==
  /\ TypeOK
  /\ main.pc \in {"configuring", "starting"} => main.at < TimeDomainCount

\* The queue of the global player and what it sent have times that are numbers.
LEMMA PlayerTypes ==
  ASSUME PlayerTypeOK, ReplayInv, [Next]_vars
  PROVE  PlayerTypeOK'
<1> USE GlobalPlayerAssumption
<1>1. CASE UNCHANGED playerVars
  BY <1>1 DEF playerVars, PlayerTypeOK, Event
<1>2. ASSUME NEW e, ModuleComponent(e)
      PROVE  PlayerTypeOK'
  BY <1>2 DEF ModuleComponent, ModuleInit, ModuleStart, ModuleStop, playerVars,
              PlayerTypeOK, Event
<1>3. CASE ReplayBegins
  <2>1. \A p \in outputs : recording[p] \in SUBSET Nat /\ recording[p] # {}
    BY <1>3 DEF ReplayBegins, PlayerTypeOK, ReplayInv, Listed
  <2>2. \A p \in outputs :
          NextTimestamp(p) \in recording[p] /\ NextTimestamp(p) \in Nat
    BY <2>1, MinOfTimes DEF NextTimestamp
  <2> DEFINE S == {NextTimestamp(q) : q \in outputs}
  <2>3. ASSUME NEW p \in outputs
        PROVE  FirstEvent(p) \in Event
    <3>1. S \in SUBSET Nat /\ S # {} /\ NextTimestamp(p) \in S
      BY <2>2
    <3>2. Min(S) \in Nat /\ Min(S) <= NextTimestamp(p)
      BY <3>1, MinOfTimes
    <3>3. ReplayStart + (NextTimestamp(p) - Min(S)) \in Nat
      BY <3>2, <2>2
    <3>4. p \in PlayerComponents
      BY DEF PlayerTypeOK
    <3> QED BY <3>3, <3>4, <2>2 DEF FirstEvent, Event
  <2> QED BY <1>3, <2>3 DEF ReplayBegins, PlayerTypeOK
<1>4. CASE SendNext
  <2>1. PICK e \in Top :
          LET rest == recording[e.component] \ {e.ts} IN
          /\ played' = [ts |-> e.ts, time |-> e.time]
          /\ recording' = [recording EXCEPT ![e.component] = rest]
          /\ events' = IF rest = {} THEN events \ {e}
                       ELSE (events \ {e}) \cup {Following(e, rest)}
    BY <1>4 DEF SendNext
  <2> DEFINE rest == recording[e.component] \ {e.ts}
  <2>2. e \in events /\ e \in Event
    BY DEF Top, PlayerTypeOK
  <2>3. /\ e.component \in PlayerComponents /\ e.ts \in Nat /\ e.time \in Nat
        /\ recording[e.component] \in SUBSET RecordedTimes
    BY <2>2 DEF Event, PlayerTypeOK
  <2>4. recording' \in [PlayerComponents -> SUBSET RecordedTimes]
    BY <2>1, <2>3 DEF PlayerTypeOK
  <2>5. ASSUME rest # {} PROVE Following(e, rest) \in Event
    <3>1. rest \in SUBSET Nat
      BY <2>3
    <3>2. Min(rest) \in rest
      BY <3>1, <2>5, MinOfTimes
    <3>3. e.ts <= Min(rest)
      BY <3>2, <2>2 DEF ReplayInv, InQueue
    <3>4. Min(rest) \in Nat /\ e.time + (Min(rest) - e.ts) \in Nat
      BY <3>1, <3>2, <3>3, <2>3
    <3> HIDE DEF rest
    <3> QED BY <3>4, <2>2 DEF Following, Event
  <2>6. events' \subseteq Event
    BY <2>1, <2>5 DEF PlayerTypeOK
  <2>7. played' \in [ts : Nat, time : Nat]
    BY <2>1, <2>3
  <2> QED BY <1>4, <2>4, <2>6, <2>7 DEF SendNext, PlayerTypeOK
<1>5. CASE ReplayEnds
  BY <1>5 DEF ReplayEnds, PlayerTypeOK
<1> QED BY <1>1, <1>2, <1>3, <1>4, <1>5, PlayerSteps DEF ReplayNext

Calls == [Threads -> [pc : CallPc, at : Nat, end : Nat]]

Queues == [TimeDomains -> Seq(Message)]
PlayerState == [run : BOOLEAN, joins : BOOLEAN,
                thread : {"none", "loop", "ended", "joined"}]

\* Events of one type are appended to the queue of a time domain.
LEMMA MessagesType ==
  ASSUME NEW n \in Nat, NEW type \in EventType
  PROVE  /\ Messages(n, type) \in Seq(Message)
         /\ Len(Messages(n, type)) = n
         /\ \A i \in 1 .. n : Messages(n, type)[i].type = type
<1>1. [type |-> type, owed |-> {}] \in Message
  BY DEF Message
<1>2. Messages(n, type) \in [1 .. n -> Message]
  BY <1>1 DEF Messages
<1>3. Messages(n, type) \in Seq(Message)
  BY <1>2, SeqDef
<1>4. Len(Messages(n, type)) = n
  BY DEF Messages
<1> QED BY <1>3, <1>4 DEF Messages

LEMMA ScheduleType ==
  ASSUME queue \in Queues, NEW d, NEW n \in Nat, NEW type \in EventType,
         Schedule(d, n, type)
  PROVE  queue' \in Queues
<1>1. \A c \in TimeDomains : queue'[c] \in Seq(Message)
  <2> SUFFICES ASSUME NEW c \in TimeDomains PROVE queue'[c] \in Seq(Message)
    OBVIOUS
  <2>1. queue[c] \in Seq(Message) /\ Messages(n, type) \in Seq(Message)
    BY MessagesType DEF Queues
  <2>2. queue'[c] = queue[c] \/ queue'[c] = queue[c] \o Messages(n, type)
    BY DEF Schedule, Queues
  <2> QED BY <2>1, <2>2, ConcatProperties
<1> QED BY <1>1 DEF Schedule, Queues

\* Sources that deliver or are given up leave the events as they are.
LEMMA SetInputType ==
  ASSUME NEW q \in Seq(Message), NEW k, NEW c
  PROVE  /\ SetInput(q, k, c) \in Seq(Message)
         /\ Len(SetInput(q, k, c)) = Len(q)
         /\ \A i \in 1 .. Len(q) : SetInput(q, k, c)[i].type = q[i].type
<1>1. Len(q) \in Nat /\ DOMAIN q = 1 .. Len(q)
  OBVIOUS
<1>2. \A i \in 1 .. Len(q) :
        /\ SetInput(q, k, c)[i] \in Message
        /\ SetInput(q, k, c)[i].type = q[i].type
  <2> SUFFICES ASSUME NEW i \in 1 .. Len(q)
               PROVE  /\ SetInput(q, k, c)[i] \in Message
                      /\ SetInput(q, k, c)[i].type = q[i].type
    OBVIOUS
  <2>1. q[i] \in Message
    OBVIOUS
  <2>2. SetInput(q, k, c)[i] \in {q[i], [q[i] EXCEPT !.owed = @ \ {c}]}
    BY <1>1 DEF SetInput
  <2> QED BY <2>1, <2>2 DEF Message
<1>3. SetInput(q, k, c) \in [1 .. Len(q) -> Message]
  BY <1>1, <1>2 DEF SetInput
<1>4. SetInput(q, k, c) \in Seq(Message)
  BY <1>1, <1>3, SeqDef
<1>5. Len(SetInput(q, k, c)) = Len(q)
  BY <1>1 DEF SetInput
<1> QED BY <1>2, <1>4, <1>5

LEMMA CancelType ==
  ASSUME queue \in Queues, NEW d \in TimeDomains, CancelSources(d)
  PROVE  /\ queue' \in Queues
         /\ \A c \in TimeDomains :
              /\ Len(queue'[c]) = Len(queue[c])
              /\ \A i \in 1 .. Len(queue[c]) : queue'[c][i].type = queue[c][i].type
<1> DEFINE q == queue[d]
           r == [i \in DOMAIN q |-> [q[i] EXCEPT !.owed = {}]]
<1>1. q \in Seq(Message) /\ Len(q) \in Nat /\ DOMAIN q = 1 .. Len(q)
  BY DEF Queues
<1>2. queue' = [queue EXCEPT ![d] = r]
  BY DEF CancelSources
<1>3. \A i \in 1 .. Len(q) : r[i] \in Message /\ r[i].type = q[i].type
  <2> SUFFICES ASSUME NEW i \in 1 .. Len(q)
               PROVE  r[i] \in Message /\ r[i].type = q[i].type
    OBVIOUS
  <2>1. q[i] \in Message
    BY <1>1
  <2>2. r[i] = [q[i] EXCEPT !.owed = {}]
    BY <1>1
  <2> HIDE DEF r
  <2> QED BY <2>1, <2>2 DEF Message
<1>4. r \in [1 .. Len(q) -> Message]
  BY <1>1, <1>3
<1>5. r \in Seq(Message) /\ Len(r) = Len(q)
  BY <1>1, <1>4, SeqDef
<1> HIDE DEF r
<1> QED BY <1>1, <1>2, <1>3, <1>5 DEF Queues

\* A call of a thread is replaced.
LEMMA CallType ==
  ASSUME NEW f \in Calls, NEW t, NEW pc \in CallPc, NEW at \in Nat, NEW end \in Nat
  PROVE  [f EXCEPT ![t] = [pc |-> pc, at |-> at, end |-> end]] \in Calls
<1>1. [pc |-> pc, at |-> at, end |-> end] \in [pc : CallPc, at : Nat, end : Nat]
  OBVIOUS
<1> HIDE DEF CallPc
<1> QED BY <1>1 DEF Calls

LEMMA CallAtCalls ==
  ASSUME call \in Calls, NEW t, NEW pc \in CallPc, CallAt(t, pc)
  PROVE  call' \in Calls
<1>1. \A u \in Threads : [call[u] EXCEPT !.pc = pc] \in [pc : CallPc, at : Nat, end : Nat]
  BY DEF Calls
<1> HIDE DEF CallPc
<1> QED BY <1>1 DEF CallAt, Calls

LEMMA NetworkStopCalls ==
  ASSUME call \in Calls, made \in Nat, NEW t, NetworkStop(t)
  PROVE  call' \in Calls
<1>1. "check" \in CallPc /\ 0 \in Nat
  BY DEF CallPc
<1> QED BY <1>1, CallType DEF NetworkStop

\* The steps of the owner keep the types.
LEMMA OwnerTypes ==
  ASSUME TypeInv, PlayerTypeOK', MainNext
  PROVE  TypeInv'
<1> USE FacadeAssumption DEF TypeInv, TypeOK, Calls, DomainFlags, PlayerState
<1>1. CASE loadDataflow \/ Abandon \/ InitTimeDomains \/ OwnerStopped \/ FutureReady
  BY <1>1, ZenonT(30) DEF loadDataflow, Abandon, InitTimeDomains, OwnerStopped, FutureReady,
     MainStep, MainPc, facadeVars, domainVars, sourceVars
<1>2. CASE CreateTimeDomain
  <2>1. made' \in 0 .. TimeDomainCount
    BY <1>2 DEF CreateTimeDomain, CreateNext
  <2>2. main' \in [pc : MainPc, at : 0 .. TimeDomainCount] /\ main'.pc = "create"
    BY <1>2 DEF CreateTimeDomain, MainStep, MainPc
  <2> QED BY <1>2, <2>1, <2>2 DEF CreateTimeDomain, facadeVars, sourceVars
<1>3. CASE StartTimeDomain
  <2>1. /\ main' \in [pc : MainPc, at : 0 .. TimeDomainCount]
        /\ main'.at = main.at /\ main.at < TimeDomainCount
    BY <1>3 DEF StartTimeDomain, MainStep, MainPc
  <2>2. domain' \in [TimeDomains -> DomainFlags]
    BY <1>3, ZenonT(30) DEF StartTimeDomain
  <2>3. queue' \in [TimeDomains -> Seq(Message)]
    BY <1>3, ScheduleType DEF StartTimeDomain, EventType, Flagged, Queues
  <2>4. flow' \in [TimeDomains -> {"none", "running", "ended"}]
    BY <1>3 DEF StartTimeDomain
  <2> QED BY <1>3, <2>1, <2>2, <2>3, <2>4 DEF StartTimeDomain, facadeVars, sourceVars
<1>4. CASE SchedulerConfigured
  <2>1. /\ main' \in [pc : MainPc, at : 0 .. TimeDomainCount]
        /\ main'.at = main.at /\ main.at < TimeDomainCount
    BY <1>4 DEF SchedulerConfigured, MainStep, MainPc
  <2>2. queue' \in [TimeDomains -> Seq(Message)]
    BY <1>4, ScheduleType DEF SchedulerConfigured, EventType, Flagged, Queues
  <2> QED BY <1>4, <2>1, <2>2 DEF SchedulerConfigured, facadeVars, sourceVars
<1>5. CASE SchedulerStarted
  BY <1>5 DEF SchedulerStarted, MainPc, facadeVars, domainVars, sourceVars
<1>6. CASE StartReturns
  BY <1>6 DEF StartReturns, MainStep, MainPc, domainVars, sourceVars
<1>7. CASE OwnerStops
  <2>1. call' \in Calls
    BY <1>7, CallAtCalls DEF OwnerStops, CallPc, Calls
  <2> QED BY <1>7, <2>1 DEF OwnerStops, MainStep, MainPc, facadeVars, domainVars,
             sourceVars
<1>8. CASE DestructorStops
  <2>1. call' \in Calls
    BY <1>8, NetworkStopCalls DEF DestructorStops, DestructorNetworkStop, Calls
  <2> QED BY <1>8, <2>1 DEF DestructorStops, facadeVars, domainVars, sourceVars
<1>9. CASE DestructorReleases
  <2>1. call' \in Calls
    <3>1. "idle" \in CallPc /\ 0 \in Nat /\ call \in Calls
      BY DEF CallPc
    <3>2. call' = [call EXCEPT !["main"] = [pc |-> "idle", at |-> 0, end |-> 0]]
      BY <1>9 DEF DestructorReleases, Idle
    <3> HIDE DEF TypeInv, Calls
    <3> QED BY <3>1, <3>2, CallType
  <2>2. main' \in [pc : MainPc, at : 0 .. TimeDomainCount]
    BY <1>9 DEF DestructorReleases, MainPc
  <2> QED BY <1>9, <2>1, <2>2 DEF DestructorReleases, domainVars, sourceVars
<1>11. CASE DestructorResets
  <2>1. player' \in [TimeDomains -> PlayerState]
    <3>1. \A d \in TimeDomains : player[d] \in PlayerState
      OBVIOUS
    <3>2. \A d \in TimeDomains : [player[d] EXCEPT !.thread = "joined"] \in PlayerState
      <4> SUFFICES ASSUME NEW p \in PlayerState
                   PROVE  [p EXCEPT !.thread = "joined"] \in PlayerState
        BY <3>1
      <4> HIDE DEF TypeInv
      <4> QED OBVIOUS
    <3> HIDE DEF TypeInv, PlayerState
    <3> QED BY <1>11, <3>1, <3>2 DEF DestructorResets, JoinPlayers
  <2>2. main' \in [pc : MainPc, at : 0 .. TimeDomainCount]
    BY <1>11 DEF DestructorResets, MainPc
  <2> QED BY <1>11, <2>1, <2>2 DEF DestructorResets, domainVars, facadeVars
<1>10. CASE DestructorJoins
  BY <1>10 DEF DestructorJoins, MainStep, MainPc, JoinStopThread, domainVars, sourceVars
<1> QED BY <1>1, <1>2, <1>3, <1>4, <1>5, <1>6, <1>7, <1>8, <1>9, <1>10, <1>11 DEF MainNext

\* So do the calls of stop().
LEMMA CallTypes ==
  ASSUME TypeInv, StopInv, PlayerTypeOK', NEW t \in Threads, StopNext(t) \/ Signal
  PROVE  TypeInv'
<1> USE FacadeAssumption DEF TypeInv, TypeOK, Calls, DomainFlags, PlayerState
<1>1. StopTypes
  BY DEF StopInv
<1>2. CASE StopLocked(t)
  <2>1. call' \in Calls
    <3>1. CASE NetworkStop(t)
      BY <3>1, NetworkStopCalls DEF Calls
    <3>2. CASE call' = [call EXCEPT ![t] = Idle]
      <4>1. "idle" \in CallPc /\ 0 \in Nat
        BY DEF CallPc
      <4> QED BY <3>2, <4>1, CallType DEF Calls, Idle
    <3> QED BY <1>2, <3>1, <3>2 DEF StopLocked, StopOnce
  <2> QED BY <1>2, <2>1 DEF StopLocked, StopOnce, domainVars, sourceVars
<1>3. CASE CheckTimeDomain(t)
  <2>1. call' \in Calls
    BY <1>1, <1>3, CallAtType, NextDomainType DEF CheckTimeDomain, CallPc
  <2> QED BY <1>3, <2>1 DEF CheckTimeDomain, facadeVars, domainVars, sourceVars
<1>4. CASE SetStopCalled(t)
  <2>1. call' \in Calls
    BY <1>1, <1>4, CallAtType DEF SetStopCalled, CallPc
  <2>2. domain' \in [TimeDomains -> DomainFlags]
    BY <1>4, ZenonT(30) DEF SetStopCalled
  <2>3. queue' \in [TimeDomains -> Seq(Message)]
    BY <1>4, ScheduleType DEF SetStopCalled, EventType, Flagged, Queues
  <2> QED BY <1>4, <2>1, <2>2, <2>3 DEF SetStopCalled, facadeVars, sourceVars
<1>5. CASE SchedulerStop(t)
  <2>1. call' \in Calls
    <3>1. CASE FlowAwaited(t)
      BY <1>1, <3>1, NextDomainType DEF FlowAwaited
    <3>2. CASE ~FlowAwaited(t)
      <4>1. /\ "cancelled" \in CallPc /\ "TEARDOWN" \in CallPc
            /\ "DATAFLOW_STOP" \in CallPc /\ call \in Calls
        BY DEF CallPc
      <4>2. \/ CallAt(t, "cancelled") \/ CallAt(t, "TEARDOWN")
            \/ CallAt(t, "DATAFLOW_STOP")
        BY <1>5, <3>2 DEF SchedulerStop, StopTimesOut, Teardown, EndFlow
      <4> QED BY <4>1, <4>2, CallAtCalls
    <3> QED BY <3>1, <3>2
  <2>2. domain' \in [TimeDomains -> DomainFlags]
    BY <1>5, SchedulerStopInv DEF StopInv, StopTypes
  <2>3. queue' \in [TimeDomains -> Seq(Message)]
    <3>1. call[t].at \in TimeDomains
      <4>1. call[t].pc \in Waits
        BY <1>5 DEF SchedulerStop, StopTimesOut, Teardown, EndFlow, FlowAwaited, Waits
      <4>2. call[t].at < call[t].end /\ call[t].end <= made
        BY <4>1 DEF StopInv, CallsInRange, Inside, InStop, Waits
      <4>3. /\ call[t].at \in Nat /\ call[t].end \in Nat
            /\ made \in Nat /\ made <= TimeDomainCount
        BY <1>1 DEF StopTypes
      <4> QED BY <4>2, <4>3 DEF TimeDomains
    <3>2. queue \in Queues /\ RingSize \in Nat /\ 1 \in Nat
      BY DEF Queues
    <3>3. "TEARDOWN" \in EventType /\ "DATAFLOW_STOP" \in EventType
      BY DEF EventType, Flagged
    <3>4. \/ CancelSources(call[t].at) \/ UNCHANGED queue
          \/ Schedule(call[t].at, 1, "TEARDOWN")
          \/ Schedule(call[t].at, RingSize, "DATAFLOW_STOP")
      BY <1>5 DEF SchedulerStop, StopTimesOut, Teardown, EndFlow, FlowAwaited
    <3> HIDE DEF TypeInv, TypeOK
    <3>5. queue' \in Queues
      BY <3>1, <3>2, <3>3, <3>4, ScheduleType, CancelType
    <3> QED BY <3>5 DEF Queues
  <2> QED BY <1>5, <2>1, <2>2, <2>3 DEF SchedulerStop, DomainFlags, facadeVars, sourceVars
<1>6. CASE StopNotifies(t) \/ StopReturns(t) \/ Signal
  <2>1. call' \in Calls
    <3>1. CASE StopNotifies(t)
      BY <1>1, <3>1, CallAtType DEF StopNotifies, SetPromise, CallPc
    <3>2. CASE StopReturns(t)
      BY <3>2, CallType DEF StopReturns, Idle, Calls, CallPc
    <3>3. CASE Signal
      BY <1>1, <3>3, CallAtType DEF Signal, CallPc, Threads
    <3> QED BY <1>6, <3>1, <3>2, <3>3
  <2>2. promises' \in Nat /\ isRunning' \in BOOLEAN
    <3>1. promises \in Nat /\ isRunning \in BOOLEAN
      OBVIOUS
    <3> HIDE DEF TypeInv, TypeOK
    <3>2. CASE StopNotifies(t)
      BY <3>1, <3>2 DEF StopNotifies, SetPromise
    <3>3. CASE StopReturns(t)
      BY <3>1, <3>3 DEF StopReturns
    <3>4. CASE Signal
      BY <3>1, <3>4 DEF Signal, facadeVars
    <3> QED BY <1>6, <3>2, <3>3, <3>4
  <2>3. UNCHANGED <<program, main, shouldStop, stopThread, network, domainVars, sourceVars,
                    params>>
    BY <1>6 DEF StopNotifies, StopReturns, Signal, facadeVars
  <2> QED BY <2>1, <2>2, <2>3 DEF domainVars, sourceVars
<1> QED BY <1>2, <1>3, <1>4, <1>5, <1>6 DEF StopNext

\* And the taskflows, players and sources.
LEMMA FlowTypes ==
  ASSUME TypeInv, PlayerTypeOK', NEW d \in TimeDomains, FlowNext(d)
  PROVE  TypeInv'
<1> USE DEF TypeInv, TypeOK, Calls
<1>1. CASE FlowRuns(d)
  <2>1. queue[d] \in Seq(Message) /\ queue[d] # <<>>
    BY <1>1 DEF FlowRuns
  <2>2. Tail(queue[d]) \in Seq(Message)
    BY <2>1
  <2>3. queue' \in [TimeDomains -> Seq(Message)]
    BY <1>1, <2>2 DEF FlowRuns
  <2>4. finished' \in [TimeDomains -> SUBSET Flagged]
    <3>1. finished' = [finished EXCEPT ![d] =
                         @ \cup ({FlagOf(queue[d])} \cap Flagged)]
      BY <1>1 DEF FlowRuns
    <3> HIDE DEF Flagged
    <3> QED BY <3>1
  <2>5. player' \in [TimeDomains -> PlayerState]
    <3>1. CASE player' = [player EXCEPT ![d].thread = "joined"]
      BY <3>1, ZenonT(30) DEF PlayerState
    <3>2. UNCHANGED player \/ player' = [player EXCEPT ![d].thread = "joined"]
      BY <1>1 DEF FlowRuns, JoinPlayer
    <3> QED BY <3>1, <3>2 DEF PlayerState
  <2>6. source' \in [TimeDomains -> {"off", "on", "finished", "stopped"}]
    BY <1>1 DEF FlowRuns
  <2>7. flow' \in [TimeDomains -> {"none", "running", "ended"}]
    BY <1>1 DEF FlowRuns
  <2> QED BY <1>1, <2>3, <2>4, <2>5, <2>6, <2>7 DEF FlowRuns, facadeVars, PlayerState
<1>2. CASE StartSources(d) \/ PlayerStop(d) \/ PlayerEnds(d)
  <2>1. player' \in [TimeDomains -> PlayerState]
    <3>1. CASE PlayerStop(d)
      BY <3>1, ZenonT(30) DEF PlayerStop, PlayerState
    <3>2. CASE PlayerEnds(d)
      BY <3>2, ZenonT(30) DEF PlayerEnds, PlayerState
    <3>3. CASE StartSources(d)
      BY <3>3 DEF StartSources, PlayerState
    <3> QED BY <1>2, <3>1, <3>2, <3>3
  <2>2. source' \in [TimeDomains -> {"off", "on", "finished", "stopped"}]
    BY <1>2 DEF StartSources, PlayerStop, PlayerEnds
  <2> QED BY <1>2, <2>1, <2>2 DEF StartSources, PlayerStop, PlayerEnds, facadeVars,
             domainVars, PlayerState
<1>3. CASE SourceFinished(d)
  <2>1. call' \in Calls
    <3>1. call' = call \/ call' = [call EXCEPT !["stopper"] =
                                     [pc |-> "lock", at |-> 0, end |-> 0]]
      BY <1>3 DEF SourceFinished, CreateStopThread, Idle
    <3>2. "lock" \in CallPc /\ 0 \in Nat /\ call \in Calls
      BY DEF CallPc
    <3>3. [call EXCEPT !["stopper"] = [pc |-> "lock", at |-> 0, end |-> 0]] \in Calls
      <4> HIDE DEF Calls, TypeInv, CallPc
      <4> QED BY <3>2, CallType
    <3> QED BY <3>1, <3>2, <3>3
  <2>2. stopThread' \in {"none", "running", "ended", "joined"}
    BY <1>3 DEF SourceFinished, CreateStopThread
  <2>3. source' \in [TimeDomains -> {"off", "on", "finished", "stopped"}]
    BY <1>3 DEF SourceFinished
  <2> QED BY <1>3, <2>1, <2>2, <2>3 DEF SourceFinished, domainVars
<1>4. ASSUME NEW c \in SourcesOf(d), NEW k, OpenFrame(d, c) \/ Deliver(d, k, c)
      PROVE  TypeInv'
  <2>1. queue[d] \in Seq(Message) /\ queue \in Queues
    BY DEF Queues
  <2>2. [type |-> "DATA", owed |-> SourcesOf(d) \ {c}] \in Message
    BY DEF SourcesOf, Source, Message, EventType
  <2>3. \/ queue' = [queue EXCEPT ![d] = SetInput(@, k, c)]
        \/ queue' = [queue EXCEPT ![d] =
                       Append(SetInput(@, Len(@), c),
                              [type |-> "DATA", owed |-> SourcesOf(d) \ {c}])]
    BY <1>4 DEF OpenFrame, Deliver
  <2>4. /\ SetInput(queue[d], k, c) \in Seq(Message)
        /\ SetInput(queue[d], Len(queue[d]), c) \in Seq(Message)
    BY <2>1, SetInputType
  <2> HIDE DEF TypeInv, TypeOK
  <2>5. queue' \in Queues
    <3>1. PICK q \in Seq(Message) : queue' = [queue EXCEPT ![d] = q]
      <4>1. Append(SetInput(queue[d], Len(queue[d]), c),
                   [type |-> "DATA", owed |-> SourcesOf(d) \ {c}]) \in Seq(Message)
        BY <2>2, <2>4
      <4> QED BY <2>3, <2>4, <4>1
    <3> QED BY <2>1, <3>1 DEF Queues
  <2> QED BY <1>4, <2>5 DEF OpenFrame, Deliver, facadeVars, sourceVars, Queues, TypeInv,
             TypeOK
<1> QED BY <1>1, <1>2, <1>3, <1>4 DEF FlowNext

LEMMA TypeStep ==
  ASSUME TypeInv, StopInv, ReplayInv, [Next]_vars
  PROVE  TypeInv'
<1>1. PlayerTypeOK'
  BY PlayerTypes DEF TypeInv, TypeOK
<1>2. CASE MainNext
  BY <1>1, <1>2, OwnerTypes
<1>3. ASSUME NEW t \in Threads, StopNext(t) \/ Signal PROVE TypeInv'
  BY <1>1, <1>3, CallTypes
<1>4. ASSUME NEW d \in TimeDomains, FlowNext(d) PROVE TypeInv'
  BY <1>1, <1>4, FlowTypes
<1>5. CASE StopperEnds \/ GlobalPlayerRuns
  BY <1>1, <1>5 DEF StopperEnds, GlobalPlayerRuns, TypeInv, TypeOK, facadeVars,
     domainVars, sourceVars
<1>6. CASE parameterChanged
  <2>1. \A d \in TimeDomains : queue[d] \in Seq(Message)
    BY DEF TypeInv, TypeOK
  <2>2. Messages(1, "PARAMETER_CHANGE") \in Seq(Message)
    BY MessagesType DEF EventType
  <2>3. \A d \in TimeDomains : queue[d] \o Messages(1, "PARAMETER_CHANGE") \in Seq(Message)
    BY <2>1, <2>2, ConcatProperties
  <2>4. queue' \in [TimeDomains -> Seq(Message)]
    BY <1>6, <2>1, <2>3 DEF parameterChanged
  <2> QED BY <1>1, <1>6, <2>4 DEF parameterChanged, TypeInv, TypeOK, facadeVars, sourceVars
<1>7. CASE ReleaseCrashes
  <2>1. main' \in [pc : MainPc, at : 0 .. TimeDomainCount] /\ main'.pc = "crashed"
    BY <1>7 DEF ReleaseCrashes, MainPc, TypeInv, TypeOK
  <2> QED BY <1>1, <1>7, <2>1 DEF ReleaseCrashes, TypeInv, TypeOK, facadeVars, domainVars,
             sourceVars
<1>8. CASE WaitTimeout \/ Terminated \/ UNCHANGED vars
  BY <1>1, <1>8 DEF WaitTimeout, Terminated, vars, TypeInv, TypeOK, facadeVars,
     domainVars, sourceVars
<1> QED BY <1>2, <1>3, <1>4, <1>5, <1>6, <1>7, <1>8 DEF Next, Threads

LEMMA TypeInit == Init => TypeInv
<1> SUFFICES ASSUME Init PROVE TypeInv
  OBVIOUS
<1> USE FacadeAssumption, GlobalPlayerAssumption DEF Init
<1>1. PlayerTypeOK
  BY DEF PlayerInit, PlayerTypeOK
<1>2. main \in [pc : MainPc, at : 0 .. TimeDomainCount] /\ made \in 0 .. TimeDomainCount
  BY DEF MainPc
<1>3. call \in [Threads -> [pc : CallPc, at : Nat, end : Nat]]
  BY DEF Idle, CallPc
<1>4. /\ queue \in [TimeDomains -> Seq(Message)]
      /\ finished \in [TimeDomains -> SUBSET Flagged]
      /\ flow \in [TimeDomains -> {"none", "running", "ended"}]
      /\ source \in [TimeDomains -> {"off", "on", "finished", "stopped"}]
      /\ domain \in [TimeDomains -> DomainFlags]
      /\ player \in [TimeDomains -> PlayerState]
  BY DEF DomainFlags, PlayerState
<1> QED BY <1>1, <1>2, <1>3, <1>4 DEF TypeInv, TypeOK, DomainFlags, PlayerState

\* Every variable of the facade, its time domains and its players has its type.
THEOREM FacadeTypes == Spec => []TypeOK
<1>1. TypeInv => TypeOK
  BY DEF TypeInv
<1> QED BY <1>1, TypeInit, TypeStep, StopInvariant, ReplayInvariant, PTL DEF Spec

-----------------------------------------------------------------------------
(* No thread is left *)

\* A source can only end by itself when every time domain was started: one that
\* ended earlier would stop a time domain whose START is still to come.
OnlyTheLastFinishes == Finishing \subseteq {TimeDomainCount - 1}

Has(q, e) == \E i \in 1 .. Len(q) : q[i].type = e
Before(q, i, e) == \E j \in 1 .. Len(q) : j < i /\ q[j].type = e

\* An event waits in the queue of d, or what it brings has come.
StopDue(d) == Has(queue[d], "STOP") \/ source[d] = "stopped"
EndDue(d) == Has(queue[d], "DATAFLOW_STOP") \/ flow[d] = "ended"

\* start() has scheduled the START of time domain d.
StartScheduled(d) == d < main.at \/ (d = main.at /\ main.pc = "starting")

\* START and STOP are scheduled by start() and stop() alone.
EventsScheduled ==
  \A d \in TimeDomains :
    /\ Has(queue[d], "START") \/ source[d] \in {"on", "finished"} => StartScheduled(d)
    /\ StopDue(d) => domain[d].stopCalled

\* While a taskflow runs its components see STOP before it ends, and no START from
\* STOP on.
EventsOrdered ==
  \A d \in TimeDomains :
    flow[d] # "ended" =>
      \A i \in 1 .. Len(queue[d]) :
        /\ queue[d][i].type = "DATAFLOW_STOP" =>
             source[d] = "stopped" \/ Before(queue[d], i, "STOP")
        /\ queue[d][i].type = "START" =>
             \/ source[d] # "stopped" /\ ~Before(queue[d], i, "STOP")
             \/ Before(queue[d], i, "DATAFLOW_STOP")

\* A call that waits in stop() has scheduled its events.  Only Ctrl-C can stop a time
\* domain that waits for its CONFIGURE, and it has stopped it for good before main
\* goes on.
StopsScheduled ==
  /\ \A t \in Threads :
       /\ call[t].pc \in Waits => StopDue(call[t].at)
       /\ call[t].pc = "DATAFLOW_STOP" => EndDue(call[t].at)
  /\ main.pc = "configuring" /\ domain[main.at].stopCalled =>
       \/ EndDue(main.at)
       \/ call["handler"].pc \in Waits /\ call["handler"].at = main.at

\* A source is on only while its taskflow runs, so that it can end by itself.
SourcesBetween ==
  /\ \A d \in TimeDomains : source[d] \in {"on", "finished"} => flow[d] = "running"
  /\ stopThread # "none" => StartScheduled(TimeDomainCount - 1)

\* What the destructor has waited for and joined, and who is gone by then.
Joined ==
  /\ main.pc \in {"joining", "deleted"} =>
       \A d \in TimeDomains :
         flow[d] # "running" /\ player[d].thread \in {"none", "joined"}
  /\ network = "deleted" <=> main.pc = "deleted"
  /\ network = "deleted" =>
       stopThread \in {"none", "joined"} /\ call["handler"].pc = "idle"
  /\ stopThread # "running" => call["stopper"].pc = "idle"

ThreadInv ==
  /\ EventsScheduled
  /\ EventsOrdered
  /\ StopsScheduled
  /\ SourcesBetween
  /\ Joined

\* Which actions write a variable.
MainWritten == UNCHANGED main \/ MainNext \/ ReleaseCrashes
FlowWritten ==
  UNCHANGED flow \/ StartTimeDomain \/ \E d \in TimeDomains : FlowRuns(d)
SourceWritten ==
  \/ UNCHANGED source
  \/ \E d \in TimeDomains : FlowRuns(d) \/ StartSources(d) \/ SourceFinished(d)
PlayerWritten ==
  \/ UNCHANGED player \/ DestructorResets
  \/ \E d \in TimeDomains :
       FlowRuns(d) \/ StartSources(d) \/ PlayerStop(d) \/ PlayerEnds(d)
ThreadWritten ==
  \/ UNCHANGED stopThread \/ StopperEnds \/ DestructorJoins
  \/ \E d \in TimeDomains : SourceFinished(d)
NetworkWritten == UNCHANGED network \/ DestructorReleases \/ DestructorJoins
DomainWritten ==
  \/ UNCHANGED domain \/ StartTimeDomain
  \/ \E t \in Threads : SetStopCalled(t) \/ FlowAwaited(t)
CallWritten ==
  \/ UNCHANGED call \/ OwnerStops \/ DestructorStops \/ DestructorReleases \/ Signal
  \/ \E t \in Threads : StopNext(t)
  \/ \E d \in TimeDomains : SourceFinished(d)
QueueWritten ==
  \/ UNCHANGED queue \/ StartTimeDomain \/ SchedulerConfigured \/ parameterChanged
  \/ \E t \in Threads : SetStopCalled(t) \/ SchedulerStop(t)
  \/ \E d \in TimeDomains :
       \/ FlowRuns(d)
       \/ \E c \in SourcesOf(d) :
            OpenFrame(d, c) \/ \E k \in DOMAIN queue[d] : Deliver(d, k, c)
Written ==
  /\ MainWritten /\ FlowWritten /\ SourceWritten /\ PlayerWritten /\ ThreadWritten
  /\ NetworkWritten /\ DomainWritten /\ CallWritten /\ QueueWritten

LEMMA Writers ==
  ASSUME [Next]_vars
  PROVE  Written
<1> USE DEF Written, MainWritten, FlowWritten, SourceWritten, PlayerWritten,
        ThreadWritten, NetworkWritten, DomainWritten, CallWritten, QueueWritten
<1>1. CASE MainNext
  BY <1>1 DEF MainNext, loadDataflow, Abandon, CreateTimeDomain, InitTimeDomains,
     StartTimeDomain, SchedulerConfigured, SchedulerStarted, StartReturns, OwnerStops,
     OwnerStopped, FutureReady, DestructorStops, DestructorReleases, DestructorResets,
     DestructorJoins, facadeVars, domainVars, sourceVars
<1>2. ASSUME NEW t \in Threads, StopNext(t) PROVE Written
  BY <1>2 DEF StopNext, StopLocked, CheckTimeDomain, SetStopCalled, SchedulerStop,
     StopTimesOut, Teardown, EndFlow, FlowAwaited, StopNotifies, StopReturns, facadeVars,
     domainVars, sourceVars
<1>3. ASSUME NEW d \in TimeDomains, FlowNext(d) PROVE Written
  <2>1. CASE FlowRuns(d) \/ StartSources(d) \/ PlayerStop(d) \/ PlayerEnds(d)
    BY <2>1 DEF FlowRuns, StartSources, PlayerStop, PlayerEnds, facadeVars, domainVars
  <2>2. CASE SourceFinished(d)
    BY <2>2 DEF SourceFinished, domainVars
  <2>3. ASSUME NEW c \in SourcesOf(d),
               OpenFrame(d, c) \/ \E k \in DOMAIN queue[d] : Deliver(d, k, c)
        PROVE  Written
    BY <2>3 DEF OpenFrame, Deliver, facadeVars, sourceVars
  <2> QED BY <1>3, <2>1, <2>2, <2>3 DEF FlowNext
<1>4. CASE StopperEnds \/ Signal \/ GlobalPlayerRuns \/ parameterChanged \/ ReleaseCrashes
  BY <1>4 DEF StopperEnds, Signal, GlobalPlayerRuns, parameterChanged, ReleaseCrashes,
     facadeVars, domainVars, sourceVars
<1>5. CASE WaitTimeout \/ Terminated \/ UNCHANGED vars
  BY <1>5 DEF WaitTimeout, Terminated, vars, facadeVars, domainVars, sourceVars
<1> HIDE DEF Written
<1> QED BY <1>1, <1>2, <1>3, <1>4, <1>5 DEF Next

\* What never goes back: start() goes on, stop_called_ remains.
Grows ==
  /\ \A d \in Int : StartScheduled(d) => StartScheduled(d)'
  /\ \A d \in TimeDomains : domain[d].stopCalled => domain'[d].stopCalled

LEMMA StepGrows ==
  ASSUME TypeInv, [Next]_vars
  PROVE  Grows
<1>1. \A d \in Int : StartScheduled(d) => StartScheduled(d)'
  <2>1. \/ main'.at = main.at /\ (main.pc # "starting" \/ main' = main)
        \/ main'.at = main.at + 1 /\ main.pc = "starting"
    <3>1. main \in [pc : MainPc, at : 0 .. TimeDomainCount]
      BY DEF TypeInv, TypeOK
    <3>2. CASE MainNext
      BY <3>1, <3>2 DEF MainNext, loadDataflow, Abandon, CreateTimeDomain, InitTimeDomains,
         StartTimeDomain, SchedulerConfigured, SchedulerStarted, StartReturns, OwnerStops,
         OwnerStopped, FutureReady, DestructorStops, DestructorReleases, DestructorResets,
         DestructorJoins, MainStep
    <3>3. CASE ReleaseCrashes
      BY <3>1, <3>3 DEF ReleaseCrashes
    <3> QED BY <3>2, <3>3, Writers DEF Written, MainWritten
  <2>2. main.at \in Int
    BY FacadeAssumption DEF TypeInv, TypeOK
  <2> QED BY <2>1, <2>2 DEF StartScheduled
<1>2. \A d \in TimeDomains : domain[d].stopCalled => domain'[d].stopCalled
  <2>1. domain \in [TimeDomains -> DomainFlags]
    BY DEF TypeInv, TypeOK, DomainFlags
  <2>2. CASE StartTimeDomain
    BY <2>1, <2>2 DEF StartTimeDomain, DomainFlags
  <2>3. ASSUME NEW t \in Threads, SetStopCalled(t)
        PROVE  \A d \in TimeDomains : domain[d].stopCalled => domain'[d].stopCalled
    BY <2>1, <2>3 DEF SetStopCalled, DomainFlags
  <2>4. ASSUME NEW t \in Threads, FlowAwaited(t)
        PROVE  \A d \in TimeDomains : domain[d].stopCalled => domain'[d].stopCalled
    BY <2>1, <2>4 DEF FlowAwaited, DomainFlags
  <2> QED BY <2>2, <2>3, <2>4, Writers DEF Written, DomainWritten
<1> QED BY <1>1, <1>2 DEF Grows

\* No type but e is added to a queue.
Longer(q, r, e) ==
  /\ Len(q) \in Nat /\ Len(r) \in Nat /\ Len(q) <= Len(r)
  /\ \A i \in 1 .. Len(q) : r[i].type = q[i].type
  /\ \A i \in 1 .. Len(r) : i > Len(q) => r[i].type = e

LEMMA LongerOrder ==
  ASSUME NEW q, NEW r, NEW e, Longer(q, r, e)
  PROVE  /\ \A x : Has(r, x) => Has(q, x) \/ x = e
         /\ \A x : Has(q, x) => Has(r, x)
         /\ \A i \in 1 .. Len(q) : \A x : Before(r, i, x) <=> Before(q, i, x)
         /\ \A i \in 1 .. Len(r) : \A x :
              i > Len(q) => /\ Has(q, x) => Before(r, i, x)
                            /\ Before(r, i, x) => Has(q, x) \/ x = e
BY DEF Longer, Has, Before

\* What taking the first event does.
LEMMA TailOrder ==
  ASSUME NEW q \in Seq(Message), q # <<>>
  PROVE  LET r == Tail(q) IN
         /\ \A x : Has(r, x) => Has(q, x)
         /\ \A x : Has(q, x) => Has(r, x) \/ x = Head(q).type
         /\ \A i \in 1 .. Len(r) :
              /\ i + 1 \in 1 .. Len(q) /\ r[i].type = q[i + 1].type
              /\ \A x : Before(r, i, x) => Before(q, i + 1, x)
              /\ \A x : Before(q, i + 1, x) => Before(r, i, x) \/ x = Head(q).type
              /\ Before(q, i + 1, Head(q).type)
<1> DEFINE r == Tail(q)
<1>1. /\ Len(q) \in Nat /\ Len(q) > 0 /\ Len(r) = Len(q) - 1 /\ Head(q) = q[1]
      /\ \A i \in 1 .. Len(r) : r[i] = q[i + 1]
  OBVIOUS
<1> HIDE DEF r
<1>2. \A i \in 1 .. Len(r) : i + 1 \in 1 .. Len(q) /\ i + 1 > 1
  BY <1>1
<1>3. 1 \in 1 .. Len(q)
  BY <1>1
<1>4. \A j \in 1 .. Len(q) : j = 1 \/ j - 1 \in 1 .. Len(r)
  BY <1>1
<1>5. \A j \in 1 .. Len(q) : j # 1 => r[j - 1] = q[j]
  <2> SUFFICES ASSUME NEW j \in 1 .. Len(q), j # 1 PROVE r[j - 1] = q[j]
    OBVIOUS
  <2>1. r[j - 1] = q[(j - 1) + 1]
    BY <1>1, <1>4
  <2> QED BY <1>1, <2>1
<1>6. \A x : Has(r, x) => Has(q, x)
  BY <1>1, <1>2 DEF Has
<1>7. \A x : Has(q, x) => Has(r, x) \/ x = Head(q).type
  BY <1>1, <1>4, <1>5 DEF Has
<1>8. ASSUME NEW i \in 1 .. Len(r)
      PROVE  /\ \A x : Before(r, i, x) => Before(q, i + 1, x)
             /\ \A x : Before(q, i + 1, x) => Before(r, i, x) \/ x = Head(q).type
             /\ Before(q, i + 1, Head(q).type)
  <2>1. ASSUME NEW x, Before(r, i, x) PROVE Before(q, i + 1, x)
    <3>1. PICK j \in 1 .. Len(r) : j < i /\ r[j].type = x
      BY <2>1 DEF Before
    <3>2. j + 1 < i + 1 /\ j + 1 \in 1 .. Len(q) /\ q[j + 1].type = x
      BY <1>1, <1>2, <3>1
    <3> QED BY <3>2 DEF Before
  <2>2. ASSUME NEW x, Before(q, i + 1, x), x # Head(q).type PROVE Before(r, i, x)
    <3>1. PICK j \in 1 .. Len(q) : j < i + 1 /\ q[j].type = x
      BY <2>2 DEF Before
    <3>2. j # 1
      BY <1>1, <2>2, <3>1
    <3>3. j - 1 \in 1 .. Len(r) /\ r[j - 1].type = x /\ j - 1 < i
      BY <1>4, <1>5, <3>1, <3>2
    <3> QED BY <3>3 DEF Before
  <2>3. Before(q, i + 1, Head(q).type)
    BY <1>1, <1>2, <1>3 DEF Before
  <2> QED BY <2>1, <2>2, <2>3
<1> QED BY <1>1, <1>2, <1>6, <1>7, <1>8 DEF r

\* Events of type e are appended, those with an order of their own to queue d alone.
Ordered == {"START", "STOP", "DATAFLOW_STOP"}
Appends(d, e) ==
  /\ \A c \in TimeDomains : Longer(queue[c], queue'[c], e)
  /\ e \in Ordered => \A c \in TimeDomains : c # d => queue'[c] = queue[c]

LEMMA SameAppends ==
  ASSUME TypeOK, UNCHANGED queue, NEW d
  PROVE  Appends(d, "DATA")
<1>1. \A c \in TimeDomains : queue[c] \in Seq(Message)
  BY DEF TypeOK
<1>2. \A c \in TimeDomains : Len(queue[c]) \in Nat
  BY <1>1
<1> QED BY <1>2 DEF Appends, Longer, Ordered

LEMMA ConcatLonger ==
  ASSUME NEW q \in Seq(Message), NEW n \in Nat, NEW e \in EventType
  PROVE  Longer(q, q \o Messages(n, e), e)
<1> DEFINE m == Messages(n, e)
           r == q \o m
<1>1. m \in Seq(Message) /\ Len(m) = n /\ \A i \in 1 .. n : m[i].type = e
  BY MessagesType
<1>2. /\ Len(q) \in Nat /\ Len(r) = Len(q) + n
      /\ \A i \in 1 .. Len(q) + n : r[i] = IF i <= Len(q) THEN q[i] ELSE m[i - Len(q)]
  <2> HIDE DEF m
  <2>1. /\ Len(q \o m) = Len(q) + Len(m)
        /\ \A i \in 1 .. Len(q) + Len(m) :
             (q \o m)[i] = IF i <= Len(q) THEN q[i] ELSE m[i - Len(q)]
    BY <1>1, ConcatProperties, Zenon
  <2>2. Len(q) \in Nat
    OBVIOUS
  <2> HIDE DEF r
  <2>3. r = q \o m
    BY DEF r
  <2> QED BY <1>1, <2>1, <2>2, <2>3
<1>3. \A i \in 1 .. Len(r) : i > Len(q) => i - Len(q) \in 1 .. n
  <2> HIDE DEF m, r
  <2> QED BY <1>2
<1> HIDE DEF m, r
<1>4. Longer(q, r, e)
  BY <1>1, <1>2, <1>3 DEF Longer
<1> QED BY <1>4 DEF r, m

LEMMA ScheduleAppends ==
  ASSUME TypeOK, NEW d \in TimeDomains, NEW n \in Nat, NEW e \in EventType,
         Schedule(d, n, e)
  PROVE  Appends(d, e) /\ (n > 0 => Has(queue'[d], e))
<1>1. \A c \in TimeDomains : queue[c] \in Seq(Message)
  BY DEF TypeOK
<1>2. /\ queue'[d] = queue[d] \o Messages(n, e)
      /\ \A c \in TimeDomains : c # d => queue'[c] = queue[c]
  BY DEF Schedule, TypeOK
<1>3. Longer(queue[d], queue'[d], e)
  BY <1>1, <1>2, ConcatLonger
<1>4. \A c \in TimeDomains : c # d => Longer(queue[c], queue'[c], e)
  <2>1. \A c \in TimeDomains : Len(queue[c]) \in Nat
    BY <1>1
  <2> QED BY <1>2, <2>1 DEF Longer
<1>5. n > 0 => Has(queue'[d], e)
  <2>1. Len(queue'[d]) = Len(queue[d]) + n /\ Len(queue[d]) \in Nat
    <3>1. Messages(n, e) \in Seq(Message) /\ Len(Messages(n, e)) = n
      BY MessagesType
    <3>2. queue[d] \in Seq(Message) /\ Len(queue[d]) \in Nat
      BY <1>1
    <3>3. Len(queue[d] \o Messages(n, e)) = Len(queue[d]) + Len(Messages(n, e))
      BY <3>1, <3>2, ConcatProperties, Zenon
    <3> QED BY <1>2, <3>1, <3>2, <3>3
  <2>2. n > 0 => Len(queue'[d]) \in 1 .. Len(queue'[d]) /\ Len(queue'[d]) > Len(queue[d])
    BY <2>1
  <2> QED BY <1>3, <2>2 DEF Longer, Has
<1> QED BY <1>2, <1>3, <1>4, <1>5 DEF Appends

\* Frames, sources that deliver or are given up, and parameter changes.
LEMMA FrameAppends ==
  ASSUME TypeOK, NEW d \in TimeDomains, NEW c \in SourcesOf(d), NEW k,
         OpenFrame(d, c) \/ Deliver(d, k, c)
  PROVE  Appends(d, "DATA")
<1> DEFINE q == queue[d]
           s == SetInput(q, Len(q), c)
           u == SetInput(q, k, c)
           m == [type |-> "DATA", owed |-> SourcesOf(d) \ {c}]
<1>1. \A b \in TimeDomains : queue[b] \in Seq(Message) /\ Len(queue[b]) \in Nat
  BY DEF TypeOK
<1>2. /\ s \in Seq(Message) /\ Len(s) = Len(q) /\ \A i \in 1 .. Len(q) : s[i].type = q[i].type
      /\ u \in Seq(Message) /\ Len(u) = Len(q) /\ \A i \in 1 .. Len(q) : u[i].type = q[i].type
  BY <1>1, SetInputType
<1>3. m \in Message /\ m.type = "DATA"
  BY DEF SourcesOf, Source, Message, EventType
<1>4. /\ queue'[d] = Append(s, m) \/ queue'[d] = u
      /\ \A b \in TimeDomains : b # d => queue'[b] = queue[b]
  BY DEF OpenFrame, Deliver, TypeOK
<1> HIDE DEF s, u, m
<1>5. Longer(q, u, "DATA")
  BY <1>1, <1>2 DEF Longer
<1>6. Longer(q, Append(s, m), "DATA")
  <2>1. /\ Len(Append(s, m)) = Len(q) + 1
        /\ \A i \in 1 .. Len(q) : Append(s, m)[i] = s[i]
        /\ Append(s, m)[Len(q) + 1] = m
    BY <1>1, <1>2, <1>3
  <2>2. Len(q) \in Nat
    BY <1>1
  <2> HIDE DEF q
  <2>3. \A i \in 1 .. Len(Append(s, m)) : i > Len(q) => i = Len(q) + 1
    BY <2>1, <2>2
  <2> QED BY <1>2, <1>3, <2>1, <2>2, <2>3 DEF Longer
<1>7. \A b \in TimeDomains : b # d => Longer(queue[b], queue'[b], "DATA")
  BY <1>1, <1>4 DEF Longer
<1> QED BY <1>4, <1>5, <1>6, <1>7 DEF Appends, Ordered

LEMMA CancelAppends ==
  ASSUME TypeOK, NEW d \in TimeDomains, CancelSources(d)
  PROVE  Appends(d, "DATA")
<1>1. queue \in Queues /\ \A c \in TimeDomains : Len(queue[c]) \in Nat
  <2>1. queue \in [TimeDomains -> Seq(Message)]
    BY DEF TypeOK
  <2> QED BY <2>1 DEF Queues
<1>2. \A c \in TimeDomains :
        /\ Len(queue'[c]) = Len(queue[c])
        /\ \A i \in 1 .. Len(queue[c]) : queue'[c][i].type = queue[c][i].type
  BY <1>1, CancelType
<1> QED BY <1>1, <1>2 DEF Appends, Longer, Ordered

LEMMA ParameterAppends ==
  ASSUME TypeOK, parameterChanged, NEW d
  PROVE  Appends(d, "PARAMETER_CHANGE")
<1> DEFINE e == "PARAMETER_CHANGE"
<1>1. \A c \in TimeDomains : queue[c] \in Seq(Message) /\ Len(queue[c]) \in Nat
  BY DEF TypeOK
<1>2. e \in EventType /\ 1 \in Nat
  BY DEF EventType
<1>3. ASSUME NEW c \in TimeDomains
      PROVE  Longer(queue[c], queue'[c], e)
  <2>1. queue'[c] = queue[c] \/ queue'[c] = queue[c] \o Messages(1, e)
    BY DEF parameterChanged
  <2>2. Longer(queue[c], queue[c] \o Messages(1, e), e)
    BY <1>1, <1>2, ConcatLonger
  <2>3. Longer(queue[c], queue[c], e)
    BY <1>1 DEF Longer
  <2> QED BY <2>1, <2>2, <2>3
<1> QED BY <1>3 DEF Appends, Ordered

\* What is due stays due.
Kept ==
  \A c \in TimeDomains : (StopDue(c) => StopDue(c)') /\ (EndDue(c) => EndDue(c)')

\* Events are appended: START before STOP or behind the end of the taskflow, and
\* the end behind STOP.
LEMMA AppendKeeps ==
  ASSUME EventsScheduled, EventsOrdered, Grows, UNCHANGED source,
         \A c \in TimeDomains : flow'[c] = flow[c] \/ (flow[c] # "ended" /\ flow'[c] # "ended"),
         NEW d \in TimeDomains, NEW e, Appends(d, e),
         e = "START" => StartScheduled(d)' /\ (EndDue(d) \/ ~domain[d].stopCalled),
         e = "STOP" => domain'[d].stopCalled,
         e = "DATAFLOW_STOP" => StopDue(d)
  PROVE  EventsScheduled' /\ EventsOrdered' /\ Kept
<1>1. \A c \in TimeDomains : c \in Int
  BY FacadeAssumption DEF TimeDomains
<1>2. \A c \in TimeDomains : Longer(queue[c], queue'[c], e)
  BY DEF Appends
<1>3. \A c \in TimeDomains :
        /\ \A x : Has(queue'[c], x) => Has(queue[c], x) \/ (x = e /\ (x \in Ordered => c = d))
        /\ \A x : Has(queue[c], x) => Has(queue'[c], x)
  <2> SUFFICES ASSUME NEW c \in TimeDomains, NEW x
               PROVE  /\ Has(queue'[c], x) =>
                           Has(queue[c], x) \/ (x = e /\ (x \in Ordered => c = d))
                      /\ Has(queue[c], x) => Has(queue'[c], x)
    OBVIOUS
  <2>1. /\ Has(queue'[c], x) => Has(queue[c], x) \/ x = e
        /\ Has(queue[c], x) => Has(queue'[c], x)
    BY <1>2, LongerOrder
  <2>2. e \in Ordered /\ c # d => queue'[c] = queue[c]
    BY DEF Appends
  <2> QED BY <2>1, <2>2
<1>4. Kept
  BY <1>3 DEF Kept, StopDue, EndDue
<1>5. EventsScheduled'
  <2> SUFFICES ASSUME NEW c \in TimeDomains
      PROVE  /\ Has(queue'[c], "START") \/ source[c] \in {"on", "finished"} =>
                  StartScheduled(c)'
             /\ Has(queue'[c], "STOP") \/ source[c] = "stopped" => domain'[c].stopCalled
    BY DEF EventsScheduled, StopDue
  <2>1. /\ Has(queue'[c], "START") => Has(queue[c], "START") \/ (e = "START" /\ c = d)
        /\ Has(queue'[c], "STOP") => Has(queue[c], "STOP") \/ (e = "STOP" /\ c = d)
    BY <1>3 DEF Ordered
  <2> QED BY <1>1, <2>1 DEF EventsScheduled, Grows, StopDue
<1>6. EventsOrdered'
  <2> SUFFICES ASSUME NEW c \in TimeDomains, flow'[c] # "ended",
                      NEW i \in 1 .. Len(queue'[c])
      PROVE  /\ queue'[c][i].type = "DATAFLOW_STOP" =>
                  source[c] = "stopped" \/ Before(queue'[c], i, "STOP")
             /\ queue'[c][i].type = "START" =>
                  \/ source[c] # "stopped" /\ ~Before(queue'[c], i, "STOP")
                  \/ Before(queue'[c], i, "DATAFLOW_STOP")
    BY DEF EventsOrdered
  <2>1. flow[c] # "ended" /\ Longer(queue[c], queue'[c], e)
    BY <1>2
  <2>2. CASE i <= Len(queue[c])
    <3>1. i \in 1 .. Len(queue[c]) /\ queue'[c][i].type = queue[c][i].type
      BY <2>1, <2>2 DEF Longer
    <3>2. \A x : Before(queue'[c], i, x) <=> Before(queue[c], i, x)
      BY <2>1, <3>1, LongerOrder
    <3> QED BY <2>1, <3>1, <3>2 DEF EventsOrdered
  <2>3. CASE i > Len(queue[c])
    <3>1. queue'[c][i].type = e
      BY <2>1, <2>3 DEF Longer
    <3>2. /\ \A x : Has(queue[c], x) => Before(queue'[c], i, x)
          /\ \A x : Before(queue'[c], i, x) => Has(queue[c], x) \/ x = e
      BY <2>1, <2>3, LongerOrder
    <3>3. e \in Ordered => c = d
      <4>1. queue'[c] # queue[c]
        BY <2>1, <2>3 DEF Longer
      <4> QED BY <4>1 DEF Appends
    <3>4. CASE e = "DATAFLOW_STOP"
      BY <3>1, <3>2, <3>3, <3>4 DEF Ordered, StopDue
    <3>5. CASE e = "START"
      <4>1. c = d
        BY <3>3, <3>5 DEF Ordered
      <4>2. CASE EndDue(d)
        BY <2>1, <3>2, <3>5, <3>1, <4>1, <4>2 DEF EndDue
      <4>3. CASE ~domain[d].stopCalled
        BY <3>1, <3>2, <3>5, <4>1, <4>3 DEF EventsScheduled, StopDue
      <4> QED BY <3>5, <4>2, <4>3
    <3> QED BY <3>1, <3>4, <3>5
  <2>4. i <= Len(queue[c]) \/ i > Len(queue[c])
    BY <2>1 DEF Longer
  <2> QED BY <2>2, <2>3, <2>4
<1> QED BY <1>4, <1>5, <1>6

\* A call that is to stop a time domain, or waits for one, has a time domain.
LEMMA CallInDomain ==
  ASSUME TypeInv, StopInv, NEW t \in Threads, call[t].pc \in Waits \cup {"set"}
  PROVE  call[t].at \in TimeDomains
<1>1. call[t].at < call[t].end /\ call[t].end <= made
  BY DEF StopInv, CallsInRange, Inside, InStop, Waits
<1>2. call[t].at \in Nat /\ call[t].end \in Nat /\ made \in Nat /\ made <= TimeDomainCount
  BY DEF StopInv, StopTypes
<1> QED BY <1>1, <1>2, FacadeAssumption DEF TimeDomains

\* The components see the first event of the queue.
LEMMA HandleKeeps ==
  ASSUME TypeInv, EventsScheduled, EventsOrdered, Grows,
         NEW d \in TimeDomains, FlowRuns(d)
  PROVE  EventsScheduled' /\ EventsOrdered' /\ Kept
<1> DEFINE q == queue[d]
           h == Head(q).type
<1>1. \A c \in TimeDomains : c \in Int
  BY FacadeAssumption DEF TimeDomains
<1>2. /\ q \in Seq(Message) /\ q # <<>> /\ queue'[d] = Tail(q) /\ flow[d] = "running"
      /\ source'[d] = IF h = "STOP" THEN "stopped" ELSE source[d]
      /\ flow'[d] = IF h = "DATAFLOW_STOP" THEN "ended" ELSE flow[d]
      /\ \A c \in TimeDomains : c # d =>
           queue'[c] = queue[c] /\ source'[c] = source[c] /\ flow'[c] = flow[c]
      /\ UNCHANGED <<main, domain>>
  BY DEF FlowRuns, TypeInv, TypeOK
<1>3. /\ \A x : Has(queue'[d], x) => Has(q, x)
      /\ \A x : Has(q, x) => Has(queue'[d], x) \/ x = h
      /\ Has(q, h)
  <2>1. Has(q, h)
    <3>1. 1 \in 1 .. Len(q) /\ Head(q) = q[1]
      BY <1>2
    <3> QED BY <3>1 DEF Has
  <2> HIDE DEF q, h
  <2> QED BY <1>2, <2>1, TailOrder DEF h
<1>4. \A i \in 1 .. Len(queue'[d]) :
        /\ i + 1 \in 1 .. Len(q) /\ queue'[d][i].type = q[i + 1].type
        /\ \A x : Before(queue'[d], i, x) => Before(q, i + 1, x)
        /\ \A x : Before(q, i + 1, x) => Before(queue'[d], i, x) \/ x = h
        /\ Before(q, i + 1, h)
  <2> HIDE DEF q
  <2> QED BY <1>2, TailOrder
<1> HIDE DEF h
<1>5. Kept
  BY <1>2, <1>3 DEF Kept, StopDue, EndDue
<1>6. EventsScheduled'
  <2> SUFFICES ASSUME NEW c \in TimeDomains
      PROVE  /\ Has(queue'[c], "START") \/ source'[c] \in {"on", "finished"} =>
                  StartScheduled(c)'
             /\ Has(queue'[c], "STOP") \/ source'[c] = "stopped" => domain'[c].stopCalled
    BY DEF EventsScheduled, StopDue
  <2>1. StartScheduled(c)' <=> StartScheduled(c)
    BY <1>2 DEF StartScheduled
  <2>2. CASE c # d
    BY <1>2, <2>1, <2>2 DEF EventsScheduled, StopDue
  <2>3. CASE c = d
    BY <1>2, <1>3, <2>1, <2>3 DEF EventsScheduled, StopDue
  <2> QED BY <2>2, <2>3
<1>7. EventsOrdered'
  <2> SUFFICES ASSUME NEW c \in TimeDomains, flow'[c] # "ended",
                      NEW i \in 1 .. Len(queue'[c])
      PROVE  /\ queue'[c][i].type = "DATAFLOW_STOP" =>
                  source'[c] = "stopped" \/ Before(queue'[c], i, "STOP")
             /\ queue'[c][i].type = "START" =>
                  \/ source'[c] # "stopped" /\ ~Before(queue'[c], i, "STOP")
                  \/ Before(queue'[c], i, "DATAFLOW_STOP")
    BY DEF EventsOrdered
  <2>1. CASE c # d
    BY <1>2, <2>1 DEF EventsOrdered
  <2>2. CASE c = d
    <3>1. h # "DATAFLOW_STOP" /\ flow[d] # "ended"
      BY <1>2, <2>2
    <3>2. /\ i + 1 \in 1 .. Len(q) /\ queue'[d][i].type = q[i + 1].type
          /\ \A x : Before(queue'[d], i, x) => Before(q, i + 1, x)
          /\ \A x : Before(q, i + 1, x) => Before(queue'[d], i, x) \/ x = h
          /\ Before(q, i + 1, h)
      BY <1>4, <2>2
    <3>3. /\ q[i + 1].type = "DATAFLOW_STOP" =>
               source[d] = "stopped" \/ Before(q, i + 1, "STOP")
          /\ q[i + 1].type = "START" =>
               \/ source[d] # "stopped" /\ ~Before(q, i + 1, "STOP")
               \/ Before(q, i + 1, "DATAFLOW_STOP")
      BY <3>1, <3>2 DEF EventsOrdered
    <3> HIDE DEF q
    <3> QED BY <1>2, <2>2, <3>1, <3>2, <3>3
  <2> QED BY <2>1, <2>2
<1> QED BY <1>5, <1>6, <1>7

\* START reaches the sources: they were not stopped before.
LEMMA StartKeeps ==
  ASSUME TypeInv, EventsScheduled, EventsOrdered, NEW d \in TimeDomains, StartSources(d)
  PROVE  EventsScheduled' /\ EventsOrdered' /\ Kept /\ source[d] = "off"
<1>1. /\ UNCHANGED <<main, queue, flow, domain>> /\ flow[d] = "running"
      /\ source' = [source EXCEPT ![d] = "on"]
      /\ source[d] \in {"off", "stopped"}
  BY DEF StartSources, domainVars
<1>2. queue[d] \in Seq(Message) /\ queue[d] # <<>> /\ Head(queue[d]).type = "START"
  BY DEF StartSources, TypeInv, TypeOK
<1>3. 1 \in 1 .. Len(queue[d]) /\ queue[d][1].type = "START"
  BY <1>2
<1>4. \A x : ~Before(queue[d], 1, x)
  BY DEF Before
<1>5. source[d] = "off"
  BY <1>1, <1>3, <1>4 DEF EventsOrdered
<1>6. StartScheduled(d)
  BY <1>3 DEF EventsScheduled, Has
<1>7. \A c \in TimeDomains : source'[c] = IF c = d THEN "on" ELSE source[c]
  BY <1>1 DEF TypeInv, TypeOK
<1>8. EventsScheduled' /\ Kept
  BY <1>1, <1>5, <1>6, <1>7 DEF EventsScheduled, Kept, StopDue, EndDue, StartScheduled
<1>9. EventsOrdered'
  BY <1>1, <1>5, <1>7 DEF EventsOrdered
<1> QED BY <1>5, <1>8, <1>9

LEMMA FinishKeeps ==
  ASSUME TypeInv, EventsScheduled, EventsOrdered, NEW d \in TimeDomains, SourceFinished(d)
  PROVE  EventsScheduled' /\ EventsOrdered' /\ Kept
<1>1. /\ UNCHANGED <<main, queue, flow, domain>> /\ source[d] = "on"
      /\ \A c \in TimeDomains : source'[c] = IF c = d THEN "finished" ELSE source[c]
  BY DEF SourceFinished, domainVars, TypeInv, TypeOK
<1>2. EventsScheduled' /\ Kept
  BY <1>1 DEF EventsScheduled, Kept, StopDue, EndDue, StartScheduled
<1>3. EventsOrdered'
  BY <1>1 DEF EventsOrdered
<1> QED BY <1>2, <1>3

\* Every step keeps the order of the events.
LEMMA EventsStep ==
  ASSUME TypeInv, StopInv, ThreadInv, [Next]_vars
  PROVE  EventsScheduled' /\ EventsOrdered' /\ Kept
<1>1. Grows /\ TypeOK /\ EventsScheduled /\ EventsOrdered
  BY StepGrows DEF TypeInv, ThreadInv
<1> DEFINE Goal == EventsScheduled' /\ EventsOrdered' /\ Kept
           Same == UNCHANGED <<source, flow>>
<1>2. CASE UNCHANGED queue /\ Same
  <2>1. ASSUME NEW d \in TimeDomains PROVE Goal
    BY <1>1, <1>2, SameAppends, AppendKeeps
  <2>2. CASE TimeDomains = {}
    BY <2>2 DEF EventsScheduled, EventsOrdered, Kept
  <2> HIDE DEF Goal
  <2> QED BY <2>1, <2>2 DEF Goal
<1>3. CASE StartTimeDomain
  <2>1. /\ main.at \in TimeDomains /\ main.pc = "start"
        /\ Schedule(main.at, 1, "CONFIGURE") /\ UNCHANGED source
        /\ flow' = [flow EXCEPT ![main.at] = "running"]
    BY <1>3, FacadeAssumption DEF StartTimeDomain, MainStep, sourceVars, TimeDomains,
       TypeInv, TypeOK
  <2>2. flow[main.at] = "none"
    BY <2>1, FacadeAssumption DEF StopInv, StartOrder, TimeDomains
  <2>3. \A c \in TimeDomains :
          flow'[c] = flow[c] \/ (flow[c] # "ended" /\ flow'[c] # "ended")
    BY <2>1, <2>2 DEF TypeInv, TypeOK
  <2>4. Appends(main.at, "CONFIGURE")
    BY <1>1, <2>1, ScheduleAppends DEF EventType, Flagged
  <2> QED BY <1>1, <2>1, <2>3, <2>4, AppendKeeps
<1>4. CASE SchedulerConfigured
  <2>1. /\ main.at \in TimeDomains /\ main.pc = "configuring"
        /\ Schedule(main.at, 1, "START") /\ Same /\ main'.pc = "starting"
        /\ main'.at = main.at /\ call["handler"].pc = "idle"
    BY <1>4, FacadeAssumption DEF SchedulerConfigured, MainStep, sourceVars, TimeDomains,
       TypeInv, TypeOK
  <2>2. Appends(main.at, "START")
    BY <1>1, <2>1, ScheduleAppends DEF EventType, Flagged
  <2>3. EndDue(main.at) \/ ~domain[main.at].stopCalled
    BY <2>1 DEF ThreadInv, StopsScheduled, Waits
  <2>4. StartScheduled(main.at)'
    BY <2>1 DEF StartScheduled
  <2>5. PICK d \in TimeDomains : d = main.at
    BY <2>1
  <2>6. StartScheduled(d)'
    BY <2>1, <2>5 DEF StartScheduled
  <2> QED BY <1>1, <2>1, <2>2, <2>3, <2>5, <2>6, AppendKeeps
<1>5. CASE parameterChanged
  <2>1. Same
    BY <1>5 DEF parameterChanged, sourceVars
  <2>2. ASSUME NEW d \in TimeDomains PROVE Goal
    BY <1>1, <1>5, <2>1, ParameterAppends, AppendKeeps
  <2>3. CASE TimeDomains = {}
    BY <2>3 DEF EventsScheduled, EventsOrdered, Kept
  <2> HIDE DEF Goal
  <2> QED BY <2>2, <2>3 DEF Goal
<1>6. ASSUME NEW t \in Threads, SetStopCalled(t) PROVE Goal
  <2>1. PICK d \in TimeDomains : d = call[t].at
    BY <1>6, CallInDomain DEF SetStopCalled
  <2>2. /\ Schedule(d, 1, "STOP") /\ Same
        /\ domain' = [domain EXCEPT ![d].stopCalled = TRUE]
    BY <1>6, <2>1 DEF SetStopCalled, sourceVars
  <2>3. domain'[d].stopCalled
    BY <2>2 DEF TypeInv, TypeOK
  <2>4. Appends(d, "STOP")
    BY <1>1, <2>2, ScheduleAppends DEF EventType, Flagged
  <2> QED BY <1>1, <2>2, <2>3, <2>4, AppendKeeps
<1>7. ASSUME NEW t \in Threads, SchedulerStop(t) PROVE Goal
  <2>1. call[t].pc \in Waits
    BY <1>7 DEF SchedulerStop, StopTimesOut, Teardown, EndFlow, FlowAwaited, Waits
  <2>2. PICK d \in TimeDomains : d = call[t].at
    BY <2>1, CallInDomain
  <2>3. Same /\ \/ CancelSources(d) \/ UNCHANGED queue
                \/ Schedule(d, 1, "TEARDOWN") \/ Schedule(d, RingSize, "DATAFLOW_STOP")
    BY <1>7, <2>2 DEF SchedulerStop, StopTimesOut, Teardown, EndFlow, FlowAwaited, sourceVars
  <2>4. StopDue(d)
    BY <2>1, <2>2 DEF ThreadInv, StopsScheduled
  <2>5. CASE CancelSources(d)
    BY <1>1, <2>3, <2>5, CancelAppends, AppendKeeps
  <2>6. CASE Schedule(d, 1, "TEARDOWN")
    <3>1. Appends(d, "TEARDOWN")
      BY <1>1, <2>6, ScheduleAppends DEF EventType, Flagged
    <3> QED BY <1>1, <2>3, <3>1, AppendKeeps
  <2>7. CASE Schedule(d, RingSize, "DATAFLOW_STOP")
    <3>1. RingSize \in Nat
      BY FacadeAssumption
    <3>2. Appends(d, "DATAFLOW_STOP")
      BY <1>1, <2>7, <3>1, ScheduleAppends DEF EventType
    <3> QED BY <1>1, <2>3, <2>4, <3>2, AppendKeeps
  <2> QED BY <1>2, <2>3, <2>5, <2>6, <2>7
<1>8. ASSUME NEW d \in TimeDomains, NEW c \in SourcesOf(d), NEW k,
             OpenFrame(d, c) \/ Deliver(d, k, c)
      PROVE  Goal
  <2>1. Same
    BY <1>8 DEF OpenFrame, Deliver, sourceVars
  <2>2. Appends(d, "DATA")
    BY <1>1, <1>8, FrameAppends
  <2> QED BY <1>1, <2>1, <2>2, AppendKeeps
<1>9. ASSUME NEW d \in TimeDomains, FlowRuns(d) \/ StartSources(d) \/ SourceFinished(d)
      PROVE  Goal
  BY <1>1, <1>9, HandleKeeps, StartKeeps, FinishKeeps
<1>10. \/ UNCHANGED queue /\ Same
       \/ StartTimeDomain \/ SchedulerConfigured \/ parameterChanged
       \/ \E t \in Threads : SetStopCalled(t) \/ SchedulerStop(t)
       \/ \E d \in TimeDomains :
            \/ FlowRuns(d) \/ StartSources(d) \/ SourceFinished(d)
            \/ \E c \in SourcesOf(d) :
                 OpenFrame(d, c) \/ \E k \in DOMAIN queue[d] : Deliver(d, k, c)
  BY Writers DEF Written, QueueWritten, FlowWritten, SourceWritten
<1> HIDE DEF Same
<1>11. CASE \E t \in Threads : SetStopCalled(t) \/ SchedulerStop(t)
  BY <1>6, <1>7, <1>11, Zenon
<1>12. CASE \E d \in TimeDomains : FlowRuns(d) \/ StartSources(d) \/ SourceFinished(d)
  BY <1>9, <1>12, Zenon
<1>13. CASE \E d \in TimeDomains : \E c \in SourcesOf(d) :
              OpenFrame(d, c) \/ \E k \in DOMAIN queue[d] : Deliver(d, k, c)
  <2>1. PICK d \in TimeDomains :
          \E c \in SourcesOf(d) :
            OpenFrame(d, c) \/ \E k \in DOMAIN queue[d] : Deliver(d, k, c)
    BY <1>13, Zenon
  <2>2. PICK c \in SourcesOf(d) :
          OpenFrame(d, c) \/ \E k \in DOMAIN queue[d] : Deliver(d, k, c)
    BY <2>1, Zenon
  <2> QED BY <1>8, <2>2, Zenon
<1> QED BY <1>2, <1>3, <1>4, <1>5, <1>10, <1>11, <1>12, <1>13, Zenon

\* How a step changes the call of a thread.
LEMMA CallMoves ==
  ASSUME TypeInv, StopInv, [Next]_vars, NEW t \in Threads
  PROVE  \/ call'[t] = call[t]
         \/ /\ call'[t].pc \notin Waits
            /\ call[t].pc \in Waits => call[t].pc = "DATAFLOW_STOP"
         \/ SetStopCalled(t) /\ call'[t].pc = "STOP" /\ call'[t].at = call[t].at
         \/ /\ SchedulerStop(t) /\ call[t].pc \in Waits /\ call'[t].pc \in Waits
            /\ call'[t].at = call[t].at
            /\ call'[t].pc = "DATAFLOW_STOP" => EndFlow(t)
<1> DEFINE Goal ==
      \/ call'[t] = call[t]
      \/ /\ call'[t].pc \notin Waits
         /\ call[t].pc \in Waits => call[t].pc = "DATAFLOW_STOP"
      \/ SetStopCalled(t) /\ call'[t].pc = "STOP" /\ call'[t].at = call[t].at
      \/ /\ SchedulerStop(t) /\ call[t].pc \in Waits /\ call'[t].pc \in Waits
         /\ call'[t].at = call[t].at
         /\ call'[t].pc = "DATAFLOW_STOP" => EndFlow(t)
<1>1. call \in Calls
  BY DEF TypeInv, TypeOK, Calls
<1>2. CASE OwnerStops \/ DestructorStops \/ DestructorReleases
  <2>1. /\ call["main"].pc \notin Waits /\ call'["main"].pc \notin Waits
        /\ \A u \in Threads : u # "main" => call'[u] = call[u]
    BY <1>1, <1>2 DEF OwnerStops, MainStep, DestructorStops, DestructorReleases,
       NetworkStopped, DestructorNetworkStop, NetworkStop, CallAt, Idle, Calls, Threads, Waits
  <2> QED BY <2>1
<1>3. CASE Signal
  <2>1. /\ call["handler"].pc \notin Waits /\ call'["handler"].pc \notin Waits
        /\ \A u \in Threads : u # "handler" => call'[u] = call[u]
    BY <1>1, <1>3 DEF Signal, CallAt, Idle, Calls, Threads, Waits
  <2> QED BY <2>1
<1>4. ASSUME NEW d \in TimeDomains, SourceFinished(d) PROVE Goal
  <2>1. /\ \A u \in Threads : u # "stopper" => call'[u] = call[u]
        /\ \/ call' = call
           \/ stopThread = "none" /\ call'["stopper"].pc = "lock"
    BY <1>1, <1>4 DEF SourceFinished, CreateStopThread, Idle, Calls, Threads
  <2>2. stopThread = "none" => call["stopper"].pc \notin Waits
    BY DEF StopInv, CallsInPlace, Waits
  <2> QED BY <2>1, <2>2 DEF Waits
<1>5. ASSUME NEW u \in Threads, StopNext(u), u # t PROVE Goal
  <2>1. call'[t] = call[t]
    BY <1>1, <1>5 DEF StopNext, StopLocked, StopOnce, NetworkStop, CheckTimeDomain,
       SetStopCalled, SchedulerStop, StopTimesOut, Teardown, EndFlow, FlowAwaited,
       StopNotifies, SetPromise, StopReturns, CallAt, NextDomain, Calls
  <2> QED BY <2>1
<1>6. CASE StopNext(t)
  <2> USE <1>1 DEF Waits, Calls
  <2>1. CASE StopLocked(t)
    BY <2>1 DEF StopLocked, StopOnce, NetworkStop, Idle
  <2>2. CASE CheckTimeDomain(t)
    BY <2>2 DEF CheckTimeDomain, CallAt, NextDomain
  <2>3. CASE SetStopCalled(t)
    BY <2>3 DEF SetStopCalled, CallAt
  <2>4. CASE SchedulerStop(t)
    <3>1. CASE StopTimesOut(t) \/ Teardown(t)
      BY <2>4, <3>1 DEF StopTimesOut, Teardown, CallAt
    <3>2. CASE EndFlow(t)
      BY <2>4, <3>2 DEF EndFlow, CallAt
    <3>3. CASE FlowAwaited(t)
      BY <3>3 DEF FlowAwaited, NextDomain
    <3> QED BY <2>4, <3>1, <3>2, <3>3 DEF SchedulerStop
  <2>5. CASE StopNotifies(t)
    BY <2>5 DEF StopNotifies, SetPromise, NetworkStopped, CallAt
  <2>6. CASE StopReturns(t)
    BY <2>6 DEF StopReturns, Idle
  <2> QED BY <1>6, <2>1, <2>2, <2>3, <2>4, <2>5, <2>6 DEF StopNext
<1>7. CASE UNCHANGED call
  BY <1>7
<1> QED BY <1>2, <1>3, <1>4, <1>5, <1>6, <1>7, Writers, Zenon DEF Written, CallWritten

\* In a time domain that waits for its CONFIGURE only Ctrl-C gets so far: the owner is
\* in start(), and no source can have ended.
LEMMA HandlerAlone ==
  ASSUME TypeInv, StopInv, ThreadInv, main.pc = "configuring",
         NEW t \in Threads, call[t].pc # "idle"
  PROVE  t = "handler"
<1>1. t # "main"
  BY DEF StopInv, CallsInPlace
<1>2. ~StartScheduled(TimeDomainCount - 1)
  BY FacadeAssumption DEF StartScheduled, TypeInv, TypeOK
<1>3. t # "stopper"
  BY <1>2 DEF ThreadInv, SourcesBetween, StopInv, CallsInPlace
<1> QED BY <1>1, <1>3 DEF Threads

LEMMA StopsStep ==
  ASSUME TypeInv, StopInv, ThreadInv, [Next]_vars
  PROVE  StopsScheduled'
<1> DEFINE StopIsDue(c) == Has(queue'[c], "STOP") \/ source'[c] = "stopped"
           EndIsDue(c) == Has(queue'[c], "DATAFLOW_STOP") \/ flow'[c] = "ended"
<1>1. Kept /\ TypeOK /\ StopsScheduled
  BY EventsStep DEF TypeInv, ThreadInv
<1>2. ASSUME NEW t \in Threads, call'[t].pc \in Waits
      PROVE  StopIsDue(call'[t].at)
  <2>1. CASE call[t].pc \in Waits /\ call'[t].at = call[t].at
    <3>1. call[t].at \in TimeDomains
      BY <2>1, CallInDomain
    <3> QED BY <1>1, <2>1, <3>1 DEF Kept, StopsScheduled, StopDue
  <2>2. CASE SetStopCalled(t) /\ call'[t].at = call[t].at
    <3>1. PICK d \in TimeDomains : d = call[t].at
      BY <2>2, CallInDomain DEF SetStopCalled
    <3>2. Schedule(d, 1, "STOP")
      BY <2>2, <3>1 DEF SetStopCalled
    <3>3. Has(queue'[d], "STOP")
      BY <1>1, <3>2, ScheduleAppends DEF EventType, Flagged
    <3> QED BY <2>2, <3>1, <3>3
  <2> QED BY <1>2, <2>1, <2>2, CallMoves
<1>3. ASSUME NEW t \in Threads, call'[t].pc = "DATAFLOW_STOP"
      PROVE  EndIsDue(call'[t].at)
  <2>1. CASE call'[t] = call[t]
    <3>1. call[t].at \in TimeDomains
      BY <1>3, <2>1, CallInDomain DEF Waits
    <3> QED BY <1>1, <1>3, <2>1, <3>1 DEF Kept, StopsScheduled, EndDue
  <2>2. CASE EndFlow(t) /\ call'[t].at = call[t].at
    <3>1. PICK d \in TimeDomains : d = call[t].at
      BY <2>2, CallInDomain DEF EndFlow, Waits
    <3>2. Schedule(d, RingSize, "DATAFLOW_STOP") /\ RingSize \in Nat /\ RingSize > 0
      BY <2>2, <3>1, FacadeAssumption DEF EndFlow
    <3>3. Has(queue'[d], "DATAFLOW_STOP")
      BY <1>1, <3>2, ScheduleAppends DEF EventType
    <3> QED BY <2>2, <3>1, <3>3
  <2> QED BY <1>3, <2>1, <2>2, CallMoves DEF Waits
<1>4. ASSUME main'.pc = "configuring", domain'[main'.at].stopCalled
      PROVE  \/ EndIsDue(main'.at)
             \/ call'["handler"].pc \in Waits /\ call'["handler"].at = main'.at
  <2>1. CASE main' = main
    <3>1. PICK d \in TimeDomains : d = main.at
      BY <1>4, <2>1, FacadeAssumption DEF TimeDomains, TypeInv, TypeOK
    <3>2. CASE ~domain[d].stopCalled
      <4>1. PICK t \in Threads : SetStopCalled(t) /\ call[t].at = d
        <5>1. domain \in [TimeDomains -> DomainFlags]
          BY DEF TypeOK, TypeInv, DomainFlags
        <5>2. ~StartTimeDomain
          BY <1>4, <2>1 DEF StartTimeDomain, MainStep
        <5>3. domain' # domain
          BY <1>4, <2>1, <3>1, <3>2
        <5>4. PICK t \in Threads : SetStopCalled(t) \/ FlowAwaited(t)
          BY <5>2, <5>3, Writers DEF Written, DomainWritten
        <5>5. CASE FlowAwaited(t)
          BY <1>4, <2>1, <3>1, <3>2, <5>1, <5>5 DEF FlowAwaited, DomainFlags
        <5>6. CASE SetStopCalled(t) /\ call[t].at # d
          BY <1>4, <2>1, <3>1, <3>2, <5>1, <5>6 DEF SetStopCalled, DomainFlags
        <5> QED BY <5>4, <5>5, <5>6
      <4>2. t = "handler"
        BY <1>4, <2>1, <4>1, HandlerAlone DEF SetStopCalled
      <4>3. call'["handler"].pc = "STOP" /\ call'["handler"].at = d
        BY <4>1, <4>2 DEF SetStopCalled, CallAt, TypeOK, TypeInv, Threads
      <4> QED BY <2>1, <3>1, <4>3 DEF Waits
    <3>3. CASE EndDue(d)
      BY <1>1, <2>1, <3>1, <3>3 DEF Kept, EndDue
    <3>4. CASE call["handler"].pc \in Waits /\ call["handler"].at = d
      <4>1. "handler" \in Threads
        BY DEF Threads
      <4>2. call["handler"].pc = "DATAFLOW_STOP" => EndDue(d)
        BY <1>1, <3>4, <4>1 DEF StopsScheduled
      <4>3. ~SetStopCalled("handler")
        BY <3>4 DEF SetStopCalled, Waits
      <4>4. \/ call["handler"].pc = "DATAFLOW_STOP"
            \/ call'["handler"].pc \in Waits /\ call'["handler"].at = d
        BY <3>4, <4>1, <4>3, CallMoves
      <4> QED BY <2>1, <3>1, <3>3, <4>2, <4>4
    <3> QED BY <1>1, <1>4, <2>1, <3>1, <3>2, <3>3, <3>4 DEF StopsScheduled
  <2>2. CASE main' # main
    <3>1. StartTimeDomain
      <4>1. main \in [pc : MainPc, at : 0 .. TimeDomainCount]
        BY DEF TypeInv, TypeOK
      <4>2. ~ReleaseCrashes
        BY <1>4, <4>1 DEF ReleaseCrashes
      <4>3. MainNext
        BY <2>2, <4>2, Writers DEF Written, MainWritten
      <4> QED BY <1>4, <2>2, <4>1, <4>3 DEF MainNext, loadDataflow, Abandon,
                 CreateTimeDomain, InitTimeDomains, SchedulerConfigured, SchedulerStarted,
                 StartReturns, OwnerStops, OwnerStopped, FutureReady, DestructorStops,
                 DestructorReleases, DestructorResets, DestructorJoins, MainStep
    <3>2. main'.at = main.at /\ main.at \in TimeDomains /\ main.pc = "start"
      BY <3>1, FacadeAssumption DEF StartTimeDomain, MainStep, TypeInv, TypeOK, TimeDomains
    <3>3. ~domain[main.at].stopCalled
      BY <3>2, FacadeAssumption DEF StopInv, StartOrder, TimeDomains
    <3>4. ~domain'[main.at].stopCalled
      BY <3>1, <3>2, <3>3 DEF StartTimeDomain, TypeInv, TypeOK
    <3> QED BY <1>4, <3>2, <3>4
  <2> QED BY <2>1, <2>2
<1> QED BY <1>2, <1>3, <1>4 DEF StopsScheduled, StopDue, EndDue

\* A source is on from START to STOP, and the taskflow does not end in between.
LEMMA SourcesStep ==
  ASSUME OnlyTheLastFinishes, TypeInv, StopInv, ThreadInv, [Next]_vars
  PROVE  SourcesBetween'
<1>1. EventsScheduled /\ EventsOrdered /\ SourcesBetween /\ TypeOK
  BY DEF ThreadInv, TypeInv
<1>2. Grows
  BY StepGrows
<1> DEFINE On == \A d \in TimeDomains : source'[d] \in {"on", "finished"} => flow'[d] = "running"
<1>3. ASSUME NEW d \in TimeDomains, FlowRuns(d) PROVE On
  <2> DEFINE q == queue[d]
  <2>1. /\ q \in Seq(Message) /\ q # <<>> /\ flow[d] = "running"
        /\ source'[d] = IF Head(q).type = "STOP" THEN "stopped" ELSE source[d]
        /\ flow'[d] = IF Head(q).type = "DATAFLOW_STOP" THEN "ended" ELSE flow[d]
        /\ \A c \in TimeDomains : c # d =>
             source'[c] = source[c] /\ flow'[c] = flow[c]
    BY <1>3 DEF FlowRuns, TypeInv, TypeOK
  <2>2. 1 \in 1 .. Len(q) /\ Head(q) = q[1]
    BY <2>1
  <2>3. \A x : ~Before(q, 1, x)
    BY DEF Before
  <2>4. Head(q).type = "DATAFLOW_STOP" => source[d] = "stopped"
    BY <1>1, <2>1, <2>2, <2>3 DEF EventsOrdered
  <2> HIDE DEF q
  <2> QED BY <1>1, <2>1, <2>4 DEF SourcesBetween
<1>4. ASSUME NEW d \in TimeDomains, StartSources(d) \/ SourceFinished(d) PROVE On
  BY <1>1, <1>4 DEF StartSources, SourceFinished, domainVars, SourcesBetween, TypeOK
<1>5. ASSUME StartTimeDomain PROVE On
  BY <1>1, <1>5 DEF StartTimeDomain, sourceVars, SourcesBetween, TypeOK
<1>6. ASSUME UNCHANGED <<source, flow>> PROVE On
  BY <1>1, <1>6 DEF SourcesBetween
<1>7. On
  <2> HIDE DEF On
  <2>1. CASE \E d \in TimeDomains : FlowRuns(d) \/ StartSources(d) \/ SourceFinished(d)
    BY <1>3, <1>4, <2>1, Zenon
  <2> QED BY <1>5, <1>6, <2>1, Writers DEF Written, SourceWritten, FlowWritten
<1>8. stopThread' # "none" => StartScheduled(TimeDomainCount - 1)'
  <2>1. TimeDomainCount - 1 \in Int
    BY FacadeAssumption
  <2>2. CASE stopThread # "none"
    BY <1>1, <1>2, <2>1, <2>2 DEF Grows, SourcesBetween
  <2>3. ASSUME NEW d \in TimeDomains, SourceFinished(d)
        PROVE  StartScheduled(TimeDomainCount - 1)'
    <3>1. d = TimeDomainCount - 1 /\ source[d] = "on"
      BY <2>3 DEF SourceFinished, OnlyTheLastFinishes
    <3>2. StartScheduled(TimeDomainCount - 1)
      BY <1>1, <3>1 DEF EventsScheduled
    <3> QED BY <1>2, <2>1, <3>2 DEF Grows
  <2>4. CASE StopperEnds \/ DestructorJoins
    BY <2>2, <2>4 DEF StopperEnds, DestructorJoins, JoinStopThread
  <2> QED BY <2>2, <2>3, <2>4, Writers DEF Written, ThreadWritten
<1> QED BY <1>7, <1>8 DEF SourcesBetween

\* The destructor waits for the taskflows, joins the players and then the thread of
\* stopAsync; when the facade is gone no source is on that could end any more, and
\* should_stop_ keeps Ctrl-C out.
LEMMA JoinedStep ==
  ASSUME TypeInv, StopInv, ThreadInv, [Next]_vars
  PROVE  Joined'
<1>1. Joined /\ SourcesBetween
  BY DEF ThreadInv
<1>2. /\ main \in [pc : MainPc, at : 0 .. TimeDomainCount]
      /\ call \in Calls
      /\ player \in [TimeDomains -> PlayerState]
      /\ flow \in [TimeDomains -> {"none", "running", "ended"}]
      /\ stopThread \in {"none", "running", "ended", "joined"}
  BY DEF TypeInv, TypeOK, Calls, PlayerState
<1>3. \/ main' = main
      \/ DestructorResets \/ DestructorJoins
      \/ main.pc \notin {"joining", "deleted"} /\ main'.pc \notin {"joining", "deleted"}
  <2>1. CASE MainNext
    BY <1>2, <2>1 DEF MainNext, loadDataflow, Abandon, CreateTimeDomain, InitTimeDomains,
       StartTimeDomain, SchedulerConfigured, SchedulerStarted, StartReturns, OwnerStops,
       OwnerStopped, FutureReady, DestructorStops, DestructorReleases, MainStep
  <2>2. CASE ReleaseCrashes
    BY <1>2, <2>2 DEF ReleaseCrashes
  <2> QED BY <2>1, <2>2, Writers DEF Written, MainWritten
<1>4. main'.pc \in {"joining", "deleted"} =>
        \A d \in TimeDomains :
          flow'[d] # "running" /\ player'[d].thread \in {"none", "joined"}
  <2>1. CASE DestructorResets
    <3>1. \A d \in TimeDomains : player'[d].thread \in {"none", "joined"}
      <4>1. \A d \in TimeDomains : player[d] \in PlayerState
        BY <1>2
      <4>2. /\ \A d \in TimeDomains : player[d].thread # "loop"
            /\ \A d \in TimeDomains :
                 player'[d] = IF player[d].thread = "ended"
                              THEN [player[d] EXCEPT !.thread = "joined"] ELSE player[d]
        BY <2>1 DEF DestructorResets, JoinPlayers
      <4> QED BY <4>1, <4>2 DEF PlayerState
    <3>2. \A d \in TimeDomains : flow'[d] # "running"
      BY <2>1 DEF DestructorResets, domainVars
    <3> QED BY <3>1, <3>2
  <2>2. CASE main.pc \in {"joining", "deleted"} /\ ~DestructorResets
    <3>1. \A d \in TimeDomains :
            flow[d] # "running" /\ player[d].thread \in {"none", "joined"}
      BY <1>1, <2>2 DEF Joined
    <3>2. \A d \in TimeDomains :
            ~FlowRuns(d) /\ ~StartSources(d) /\ ~PlayerStop(d) /\ ~PlayerEnds(d)
      BY <3>1 DEF FlowRuns, StartSources, PlayerStop, PlayerEnds
    <3>3. ~StartTimeDomain
      BY <2>2 DEF StartTimeDomain, MainStep
    <3>4. UNCHANGED <<flow, player>>
      BY <2>2, <3>2, <3>3, Writers DEF Written, FlowWritten, PlayerWritten
    <3> QED BY <3>1, <3>4
  <2>3. CASE DestructorJoins
    BY <2>2, <2>3 DEF DestructorJoins, DestructorResets, MainStep
  <2> QED BY <1>3, <2>1, <2>2, <2>3
<1>5. network' = "deleted" <=> main'.pc = "deleted"
  <2>1. CASE DestructorJoins
    BY <1>2, <2>1 DEF DestructorJoins, MainStep
  <2>2. CASE DestructorReleases
    BY <1>2, <2>2 DEF DestructorReleases
  <2>3. CASE DestructorResets
    BY <1>1, <1>2, <2>3 DEF DestructorResets, facadeVars, Joined
  <2>4. CASE UNCHANGED network /\ ~DestructorResets /\ ~DestructorJoins
    BY <1>1, <1>3, <2>4 DEF Joined
  <2> QED BY <2>1, <2>2, <2>3, <2>4, Writers DEF Written, NetworkWritten
<1>6. ASSUME network = "deleted"
      PROVE  /\ \A d \in TimeDomains : ~SourceFinished(d)
             /\ ~Signal
  <2>1. main.pc = "deleted"
    BY <1>1, <1>6 DEF Joined
  <2>2. \A d \in TimeDomains : source[d] # "on"
    BY <1>1, <2>1 DEF Joined, SourcesBetween
  <2>3. shouldStop \/ program # "console"
    BY <2>1 DEF StopInv, DeleteAfterStop, Deleting, Gone, NothingStarted
  <2> QED BY <2>2, <2>3 DEF SourceFinished, Signal
<1>7. stopThread' # "running" => call'["stopper"].pc = "idle"
  <2>1. call["stopper"].pc = "idle" =>
          call'["stopper"].pc = "idle" \/ stopThread' = "running"
    <3>1. CASE OwnerStops \/ DestructorStops \/ DestructorReleases \/ Signal
      BY <1>2, <3>1 DEF OwnerStops, DestructorStops, DestructorReleases, Signal,
         DestructorNetworkStop, NetworkStop, CallAt, Calls, Threads
    <3>2. ASSUME NEW d \in TimeDomains, SourceFinished(d)
          PROVE  call' = call \/ stopThread' = "running"
      BY <3>2 DEF SourceFinished, CreateStopThread
    <3>3. ASSUME NEW t \in Threads, StopNext(t), call["stopper"].pc = "idle"
          PROVE  call'["stopper"] = call["stopper"]
      <4>1. call[t].pc # "idle"
        BY <3>3 DEF StopNext, StopLocked, StopOnce, CheckTimeDomain, SetStopCalled,
           SchedulerStop, StopTimesOut, Teardown, EndFlow, FlowAwaited, StopNotifies,
           SetPromise, NetworkStopped, StopReturns
      <4>2. t # "stopper" /\ "stopper" \in Threads
        BY <3>3, <4>1 DEF Threads
      <4> QED BY <1>2, <3>3, <4>2 DEF StopNext, StopLocked, StopOnce, NetworkStop,
               CheckTimeDomain, SetStopCalled, SchedulerStop, StopTimesOut, Teardown,
               EndFlow, FlowAwaited, StopNotifies, SetPromise, StopReturns, CallAt,
               NextDomain, Calls
    <3> QED BY <3>1, <3>2, <3>3, Writers DEF Written, CallWritten
  <2>2. stopThread = "running" /\ stopThread' # "running" =>
          StopperEnds
    <3>1. ~(stopThread = "running" /\ DestructorJoins)
      BY DEF DestructorJoins, JoinStopThread
    <3>2. \A d \in TimeDomains :
            SourceFinished(d) /\ stopThread = "running" => stopThread' = "running"
      BY DEF SourceFinished, CreateStopThread
    <3> QED BY <3>1, <3>2, Writers DEF Written, ThreadWritten
  <2>3. CASE StopperEnds
    BY <2>3 DEF StopperEnds
  <2> QED BY <1>1, <2>1, <2>2, <2>3 DEF Joined
<1>8. network' = "deleted" =>
        stopThread' \in {"none", "joined"} /\ call'["handler"].pc = "idle"
  <2>1. CASE DestructorJoins
    BY <1>2, <2>1 DEF DestructorJoins, MainStep, JoinStopThread
  <2>2. CASE network = "deleted" /\ ~DestructorJoins
    <3>1. /\ stopThread \in {"none", "joined"} /\ call["handler"].pc = "idle"
          /\ main.pc = "deleted"
      BY <1>1, <2>2 DEF Joined
    <3>2. stopThread' = stopThread
      <4>1. ~StopperEnds
        BY <3>1 DEF StopperEnds
      <4> QED BY <1>6, <2>2, <4>1, Writers DEF Written, ThreadWritten
    <3>3. call'["handler"] = call["handler"]
      <4>1. ~OwnerStops /\ ~DestructorStops /\ ~DestructorReleases
        BY <3>1 DEF OwnerStops, MainStep, DestructorStops, DestructorReleases
      <4>2. ASSUME NEW t \in Threads, StopNext(t) PROVE call'["handler"] = call["handler"]
        <5>1. call[t].pc # "idle"
          BY <4>2 DEF StopNext, StopLocked, StopOnce, CheckTimeDomain, SetStopCalled,
             SchedulerStop, StopTimesOut, Teardown, EndFlow, FlowAwaited, StopNotifies,
             SetPromise, NetworkStopped, StopReturns
        <5>2. t # "handler" /\ "handler" \in Threads
          BY <3>1, <5>1 DEF Threads
        <5> QED BY <1>2, <4>2, <5>2 DEF StopNext, StopLocked, StopOnce, NetworkStop,
                 CheckTimeDomain, SetStopCalled, SchedulerStop, StopTimesOut, Teardown,
                 EndFlow, FlowAwaited, StopNotifies, SetPromise, StopReturns, CallAt,
                 NextDomain, Calls
      <4> QED BY <1>6, <2>2, <4>1, <4>2, Writers DEF Written, CallWritten
    <3> QED BY <3>1, <3>2, <3>3
  <2>3. network' = "deleted" => network = "deleted" \/ DestructorJoins
    BY Writers DEF Written, NetworkWritten, DestructorReleases
  <2> QED BY <2>1, <2>2, <2>3
<1> QED BY <1>4, <1>5, <1>7, <1>8 DEF Joined

LEMMA ThreadStep ==
  ASSUME OnlyTheLastFinishes, TypeInv, StopInv, ThreadInv, [Next]_vars
  PROVE  ThreadInv'
BY EventsStep, StopsStep, SourcesStep, JoinedStep DEF ThreadInv

LEMMA ThreadInit == Init => ThreadInv
<1> SUFFICES ASSUME Init PROVE ThreadInv
  OBVIOUS
<1> USE DEF Init
<1>1. EventsScheduled /\ EventsOrdered
  BY DEF EventsScheduled, EventsOrdered, StopDue, Has
<1>2. StopsScheduled /\ SourcesBetween /\ Joined
  BY DEF StopsScheduled, SourcesBetween, Joined, Idle, Threads, Waits
<1> QED BY <1>1, <1>2 DEF ThreadInv

\* When ~Facade has returned, no taskflow runs, the thread of stopAsync and the threads
\* of the file players were joined, nobody is inside stop(), and every source saw STOP
\* or was never started: also when stop() gave a taskflow up, as the destructor then
\* waits for it.  The thread of the global player is not among those meant.  Finishing
\* sources must be in the last time domain, see OnlyTheLastFinishes.
THEOREM ThreadsAreJoined == OnlyTheLastFinishes => (Spec => []NoThreadLeft)
<1> SUFFICES ASSUME OnlyTheLastFinishes PROVE Spec => []NoThreadLeft
  OBVIOUS
<1>1. TypeInv /\ StopInv /\ ThreadInv => NoThreadLeft
  <2> SUFFICES ASSUME TypeInv, StopInv, ThreadInv, network = "deleted"
               PROVE  /\ stopThread \in {"none", "joined"}
                      /\ \A t \in Threads : call[t].pc = "idle"
                      /\ \A d \in TimeDomains :
                           /\ flow[d] # "running"
                           /\ source[d] \in {"off", "stopped"}
                           /\ player[d].thread \in {"none", "joined"}
    BY DEF NoThreadLeft
  <2>1. /\ main.pc = "deleted" /\ stopThread \in {"none", "joined"}
        /\ call["handler"].pc = "idle" /\ call["stopper"].pc = "idle"
        /\ \A d \in TimeDomains :
             flow[d] # "running" /\ player[d].thread \in {"none", "joined"}
    BY DEF ThreadInv, Joined
  <2>2. call["main"].pc = "idle"
    BY <2>1 DEF StopInv, CallsInPlace
  <2>3. \A d \in TimeDomains : source[d] \in {"off", "on", "finished", "stopped"}
    BY DEF TypeInv, TypeOK
  <2> QED BY <2>1, <2>2, <2>3 DEF ThreadInv, SourcesBetween, Threads
<1>2. TypeInv /\ StopInv /\ ReplayInv /\ ThreadInv /\ [Next]_vars => TypeInv' /\ ThreadInv'
  BY TypeStep, ThreadStep
<1> QED BY <1>1, <1>2, TypeInit, ThreadInit, StopInvariant, ReplayInvariant, PTL DEF Spec
=============================================================================
