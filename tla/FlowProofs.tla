----------------------------- MODULE FlowProofs -----------------------------
(***************************************************************************)
(* Safety of a running taskflow, for any number of components, CUDA graphs *)
(* and time steps.                                                         *)
(*                                                                         *)
(* Beside the counters of the library the proof follows, per node, the     *)
(* last event that the node has handled, and the seams that the flow has   *)
(* passed since their target has run.  A counter is the number of          *)
(* predecessors that are not ahead of the node plus the number of seams    *)
(* not passed.  From this, a node that is due has only predecessors that   *)
(* have handled the next event of the time step, and a serial task is due  *)
(* in one time step only.                                                  *)
(***************************************************************************)
EXTENDS GraphProofs

-----------------------------------------------------------------------------
(* Rounds. *)

\* The event that follows r in time step i; 0 stands for no event.
FollowingEvent(r, i) == IF r = 0 THEN i + 1 ELSE r + TimeStepCount

\* f[i] is the last one of the events 1..(b + k) that belongs to time step i: b
\* events make complete rounds through the ring, and it is the turn of step k.
Rounds(f, b, k) ==
  /\ b = 0 \/ b >= TimeStepCount
  /\ \A i \in Steps :
       f[i] = IF i < k THEN b + i + 1
              ELSE IF b = 0 THEN 0 ELSE b - TimeStepCount + i + 1

InTurn(f) == \E b \in Nat, k \in Steps : Rounds(f, b, k)

\* The time steps are the numbers from 0 on.
LEMMA StepsType ==
  /\ TimeStepCount \in Nat /\ TimeStepCount >= 1
  /\ LastStep \in Steps /\ 0 \in Steps /\ LastStep + 1 = TimeStepCount
  /\ Steps \subseteq Nat
  /\ \A i \in Steps : i <= LastStep
BY RingAssumption DEF Steps, LastStep

\* The event that was loaded last is the number of the events so far.
LEMMA RoundsLast ==
  ASSUME NEW f \in [Steps -> Nat], NEW b \in Nat, NEW k \in Steps, Rounds(f, b, k)
  PROVE  MaxOf({f[i] : i \in Steps}) = b + k
<1> DEFINE S == {f[i] : i \in Steps}
<1>1. \A m \in S : m <= b + k
  BY StepsType DEF Rounds, Steps
<1>2. b + k \in S
  <2>1. CASE k > 0
    <3>1. k - 1 \in Steps /\ f[k - 1] = b + k
      BY <2>1, StepsType DEF Rounds, Steps
    <3> QED BY <3>1
  <2>2. CASE k = 0
    <3>1. f[LastStep] = b
      BY <2>2, StepsType DEF Rounds, Steps, LastStep
    <3> QED BY <2>2, <3>1, StepsType
  <2> QED BY <2>1, <2>2, StepsType
<1>3. \A m \in S : m \in Nat
  OBVIOUS
<1> HIDE DEF S
<1>4. \A m \in S : (\A n \in S : n <= m) => m = b + k
  BY <1>1, <1>2, <1>3
<1> QED BY <1>1, <1>2, <1>4 DEF MaxOf, S

\* A time step is ahead of the next one exactly where it is the turn of the next.
LEMMA RoundsTurn ==
  ASSUME NEW f \in [Steps -> Nat], NEW b \in Nat, NEW k \in Steps, Rounds(f, b, k)
  PROVE  /\ \A i \in Steps : i # 0 => (f[i - 1] > f[i] <=> i = k)
         /\ f[LastStep] >= f[0] => k = 0
         /\ \A i \in Steps : i # LastStep /\ i = k => f[i] <= f[i + 1]
BY StepsType DEF Rounds, Steps, LastStep

\* When the time step in turn gets its next event, it is the turn of the step
\* after it.
LEMMA RoundsNext ==
  ASSUME NEW f \in [Steps -> Nat], NEW b \in Nat, NEW k \in Steps, Rounds(f, b, k),
         NEW g \in [Steps -> Nat], g[k] = FollowingEvent(f[k], k),
         \A i \in Steps \ {k} : g[i] = f[i]
  PROVE  /\ g[k] = b + k + 1
         /\ k # LastStep => Rounds(g, b, k + 1) /\ g[k] > f[k + 1]
         /\ k = LastStep => Rounds(g, b + TimeStepCount, 0)
         /\ k # 0 => g[k] > f[k - 1]
         /\ g[LastStep] >= g[0] \/ k # LastStep
<1>1. g[k] = b + k + 1
  BY StepsType DEF Rounds, FollowingEvent, Steps
<1>2. ASSUME k # LastStep
      PROVE  Rounds(g, b, k + 1) /\ g[k] > f[k + 1]
  <2>1. k + 1 \in Steps /\ k + 1 # k
    BY <1>2, StepsType DEF Steps, LastStep
  <2>2. Rounds(g, b, k + 1)
    <3>1. ASSUME NEW i \in Steps
          PROVE  g[i] = IF i < k + 1 THEN b + i + 1
                        ELSE IF b = 0 THEN 0 ELSE b - TimeStepCount + i + 1
      <4>1. f[i] = IF i < k THEN b + i + 1
                   ELSE IF b = 0 THEN 0 ELSE b - TimeStepCount + i + 1
        BY DEF Rounds
      <4>2. i \in Int /\ k \in Int
        BY StepsType
      <4> QED BY <1>1, <4>1, <4>2
    <3> QED BY <3>1 DEF Rounds
  <2>3. f[k + 1] = IF b = 0 THEN 0 ELSE b - TimeStepCount + (k + 1) + 1
    BY <2>1, StepsType DEF Rounds
  <2>4. g[k] > f[k + 1]
    BY <1>1, <1>2, <2>3, StepsType DEF Steps, LastStep
  <2> QED BY <2>2, <2>4
<1>3. ASSUME k = LastStep
      PROVE  Rounds(g, b + TimeStepCount, 0)
  BY <1>1, <1>3, StepsType, SMTT(30) DEF Rounds, Steps, LastStep
<1>4. k # 0 => g[k] > f[k - 1]
  BY <1>1, StepsType DEF Rounds, Steps
<1>5. k = LastStep => g[LastStep] >= g[0]
  BY <1>1, StepsType DEF Rounds, Steps, LastStep
<1> QED BY <1>1, <1>2, <1>3, <1>4, <1>5

\* The time step in turn is the number of the events modulo the size of the ring.
LEMMA RoundsModulo ==
  ASSUME NEW q \in Nat, NEW k \in Steps
  PROVE  /\ (q * TimeStepCount + k) % TimeStepCount = k
         /\ (q + 1) * TimeStepCount = q * TimeStepCount + TimeStepCount
         /\ q * TimeStepCount \in Nat
<1>1. ASSUME NEW N \in Nat, N >= 1, k \in 0..(N - 1)
      PROVE  (q * N + k) % N = k /\ (q + 1) * N = q * N + N /\ q * N \in Nat
  BY <1>1
<1> QED BY <1>1, StepsType DEF Steps

-----------------------------------------------------------------------------
(* The dataflows that are considered: WellBuilt, of module TaskFlowGraph. *)

\* The graph of a running dataflow.
Runnable(g) ==
  /\ GoodGraph(g)
  /\ checkRunnable(g)
  /\ SyncSources(g) # {} => AsyncSources(g) # {}
  /\ Links(g) = Executed

-----------------------------------------------------------------------------
(* The task graph. *)

\* The first component of a pair precedes the second one.
Precedes(g) == Links(g) \cup {<<SyncSourceStartPoint(g), p>> : p \in SyncSources(g)}

\* The dependencies between components follow the connections and the start
\* point of the synchronous sources, and every component that waits for data
\* has one.
LEMMA PrecedesFacts ==
  ASSUME WellBuilt, NEW g, Runnable(g)
  PROVE  /\ \A e \in Precedes(g) :
              e = <<e[1], e[2]>> /\ e[1] \in g.patterns /\ e[2] \in g.patterns /\ e[1] # e[2]
         /\ ComponentEdges(g) = {<<Component(e[1]), Component(e[2])>> : e \in Precedes(g)}
         /\ \A p \in g.patterns : getComponentType[p] \notin SourceTypes =>
              \E e \in Precedes(g) : e[2] = p
         /\ SyncSources(g) # {} =>
              /\ SyncSourceStartPoint(g) \in Instances
              /\ CudaGraphName[SyncSourceStartPoint(g)] = ""
              /\ \A e \in Links(g) : e[2] # SyncSourceStartPoint(g)
<1> DEFINE first == SyncSourceStartPoint(g)
<1>1. g.patterns \subseteq Instances /\ ConnectedPortsExist(g) /\ SomeSink(g)
  BY DEF Runnable, GoodGraph, WellFormed
<1>2. ASSUME NEW e \in Links(g)
      PROVE  e = <<e[1], e[2]>> /\ e[1] \in g.patterns /\ e[2] \in g.patterns /\ e[1] # e[2]
  <2>1. e = <<e[1], e[2]>> /\ e[1] \in g.patterns /\ e[2] \in g.patterns
    BY <1>1, <1>2, LinksOfPatterns
  <2>2. {e[1]} \in (SUBSET g.patterns) \ {{}}
    BY <2>1
  <2>3. PICK p \in {e[1]} : \A f \in Links(g) : f[2] \in {e[1]} => f[1] # p
    BY <1>1, <2>2 DEF SomeSink
  <2> QED BY <1>2, <2>1, <2>3
<1>3. SyncSources(g) # {} =>
        /\ first \in g.patterns /\ getComponentType[first] = "ASYNC_SOURCE"
        /\ first \in Instances /\ CudaGraphName[first] = ""
        /\ \A e \in Links(g) : e[2] # first
  <2>1. SyncSources(g) # {} => first \in AsyncSources(g)
    BY DEF Runnable, SyncSourceStartPoint
  <2>2. \A e \in Links(g) : \E c \in Consumers : c.of = e[2]
    BY DEF Links
  <2> QED BY <1>1, <2>1, <2>2 DEF AsyncSources, WellBuilt, SourcesStandAlone
<1>4. \A p \in SyncSources(g) : p \in g.patterns /\ getComponentType[p] = "SYNC_SOURCE"
  BY DEF SyncSources
<1> DEFINE starts == {<<first, p>> : p \in SyncSources(g)}
<1>a. Precedes(g) = Links(g) \cup starts
  BY DEF Precedes
<1>b. \A e \in starts : e = <<e[1], e[2]>> /\ e[1] = first /\ e[2] \in SyncSources(g)
  OBVIOUS
<1>c. \A p \in SyncSources(g) : <<first, p>> \in starts
  OBVIOUS
<1> HIDE DEF starts, first
<1>5. \A e \in Precedes(g) :
        e = <<e[1], e[2]>> /\ e[1] \in g.patterns /\ e[2] \in g.patterns /\ e[1] # e[2]
  <2>1. \A e \in starts : SyncSources(g) # {} /\ e[1] # e[2]
    BY <1>3, <1>4, <1>b
  <2> QED BY <1>2, <1>3, <1>4, <1>a, <1>b, <2>1
<1>6. ComponentEdges(g) = {<<Component(e[1]), Component(e[2])>> : e \in Precedes(g)}
  <2>1. PortEdges(g) = {<<Component(e[1]), Component(e[2])>> : e \in Links(g)}
    <3>1. ASSUME NEW x \in PortEdges(g)
          PROVE  x \in {<<Component(e[1]), Component(e[2])>> : e \in Links(g)}
      BY DEF PortEdges, Downstream
    <3>2. ASSUME NEW e \in Links(g)
          PROVE  <<Component(e[1]), Component(e[2])>> \in PortEdges(g)
      <4>1. e[1] \in g.patterns /\ e[2] \in Downstream(g, e[1])
        BY <1>2 DEF Downstream
      <4> QED BY <4>1 DEF PortEdges
    <3> QED BY <3>1, <3>2
  <2>2. {<<Component(first), Component(p)>> : p \in SyncSources(g)}
          = {<<Component(e[1]), Component(e[2])>> : e \in starts}
    BY <1>b, <1>c
  <2> QED BY <1>a, <2>1, <2>2 DEF ComponentEdges, first
<1>7. ASSUME NEW p \in g.patterns, getComponentType[p] \notin SourceTypes
      PROVE  \E e \in Precedes(g) : e[2] = p
  <2>1. CASE getComponentType[p] = "SYNC_SOURCE"
    <3>1. p \in SyncSources(g)
      BY <1>7, <2>1 DEF SyncSources
    <3> QED BY <1>a, <1>b, <1>c, <3>1
  <2>2. CASE getComponentType[p] # "SYNC_SOURCE"
    <3>1. PICK c \in Consumers : c.of = p /\ c.group = kDefaultPortGroup /\ c.inst = 0
      BY <1>1, <1>7, <2>2 DEF WellBuilt, EveryoneWaits
    <3>2. IsPortOf(g, c)
      BY <1>1, <3>1 DEF IsPortOf, getPortGroupCount, Runnable, GoodGraph, DefaultGroupsExist
    <3>3. g.connected_to[c] # NoPort
      BY <3>1, <3>2 DEF Runnable, checkRunnable, connectedToPtr, Consumers
    <3>4. <<g.connected_to[c].of, p>> \in Links(g)
      BY <3>1, <3>3 DEF Links
    <3> QED BY <1>a, <3>4
  <2> QED BY <2>1, <2>2
<1> QED BY <1>3, <1>5, <1>6, <1>7 DEF first

\* Every set of units has one that precedes no other of the set.
LEMMA SomeLastUnit ==
  ASSUME WellBuilt, NEW g, Runnable(g), NEW V \in SUBSET {Unit(p) : p \in Instances}, V # {}
  PROVE  \E x \in V : \A e \in Precedes(g) :
           Unit(e[1]) = x /\ Unit(e[2]) \in V => Unit(e[2]) = x
<1> DEFINE first == SyncSourceStartPoint(g)
<1>1. \A W \in (SUBSET {Unit(p) : p \in Instances}) \ {{}} :
        \E x \in W : \A e \in Links(g) : Unit(e[1]) = x /\ Unit(e[2]) \in W => Unit(e[2]) = x
  BY DEF WellBuilt, UnitsFormNoLoop, Runnable
<1>2. CASE SyncSources(g) = {}
  <2>1. Precedes(g) = Links(g)
    BY <1>2 DEF Precedes
  <2> QED BY <1>1, <2>1
<1>3. CASE SyncSources(g) # {} /\ V = {Unit(first)}
  BY <1>3
<1>4. CASE SyncSources(g) # {} /\ V # {Unit(first)}
  <2>1. V \ {Unit(first)} \in (SUBSET {Unit(p) : p \in Instances}) \ {{}}
    BY <1>4
  <2>2. PICK x \in V \ {Unit(first)} : \A e \in Links(g) :
          Unit(e[1]) = x /\ Unit(e[2]) \in V \ {Unit(first)} => Unit(e[2]) = x
    BY <1>1, <2>1
  <2>3. \A e \in Links(g) : Unit(e[2]) # Unit(first)
    <3>1. Unit(first) = Component(first) /\ \A e \in Links(g) : e[2] # first
      BY <1>4, PrecedesFacts DEF Unit
    <3> QED BY <3>1 DEF Unit, Component, CudaGraph
  <2>4. \A e \in Precedes(g) : Unit(e[1]) = x /\ Unit(e[2]) \in V => Unit(e[2]) = x
    BY <2>2, <2>3 DEF Precedes
  <2> QED BY <2>4
<1> QED BY <1>2, <1>3, <1>4

\* Whether p is part of a CUDA graph, and the task of this graph.
IsPart(p) == CudaGraphName[p] # ""
GraphOf(p) == CudaGraph(CudaGraphName[p])

\* Different components and CUDA graphs have different tasks.
LEMMA TaskNames ==
  /\ \A p, q : Component(p) = Component(q) <=> p = q
  /\ \A p, q : GraphOf(p) = GraphOf(q) <=> CudaGraphName[p] = CudaGraphName[q]
  /\ \A p, q : Component(p) # GraphOf(q)
  /\ \A p : IsComponent(Component(p)) /\ Component(p)[2] = p
  /\ \A p : ~IsComponent(GraphOf(p)) /\ isCudaGraph(GraphOf(p))
  /\ \A p : Component(p) # TimeStepStart /\ Component(p) # TimeStepEnd
  /\ \A p : GraphOf(p) # TimeStepStart /\ GraphOf(p) # TimeStepEnd
  /\ \A p : Unit(p) = IF IsPart(p) THEN GraphOf(p) ELSE Component(p)
<1>1. \A p, q : Component(p) = Component(q) <=> p = q
  BY DEF Component
<1>2. \A p, q : GraphOf(p) = GraphOf(q) <=> CudaGraphName[p] = CudaGraphName[q]
  BY DEF GraphOf, CudaGraph
<1>3. \A p, q : Component(p) # GraphOf(q)
  BY DEF GraphOf, CudaGraph, Component
<1>4. \A p : IsComponent(Component(p)) /\ Component(p)[2] = p
  BY DEF IsComponent, Component
<1>5. \A p : ~IsComponent(GraphOf(p)) /\ isCudaGraph(GraphOf(p))
  BY DEF IsComponent, isCudaGraph, GraphOf, CudaGraph
<1>6. \A p : Component(p) # TimeStepStart /\ Component(p) # TimeStepEnd
  BY DEF Component, TimeStepStart, TimeStepEnd
<1>7. \A p : GraphOf(p) # TimeStepStart /\ GraphOf(p) # TimeStepEnd
  BY DEF GraphOf, CudaGraph, TimeStepStart, TimeStepEnd
<1>8. \A p : Unit(p) = IF IsPart(p) THEN GraphOf(p) ELSE Component(p)
  BY DEF Unit, IsPart, GraphOf
<1> QED BY <1>1, <1>2, <1>3, <1>4, <1>5, <1>6, <1>7, <1>8

\* The tasks are the components and the CUDA graphs.
LEMMA TasksAre ==
  ASSUME WellBuilt, NEW g, Runnable(g)
  PROVE  /\ Modules(g) = {}
         /\ \A t : t \in Tasks(g) <=>
              \/ \E p \in g.patterns : t = Component(p)
              \/ \E p \in g.patterns : IsPart(p) /\ t = GraphOf(p)
<1>1. g.patterns \subseteq Instances
  BY DEF Runnable, GoodGraph, WellFormed
<1>2. Modules(g) = {}
  BY <1>1 DEF Modules, WellBuilt, NoConstrainedModules
<1>3. getPatternsForTimeDomain(g) = g.patterns
  BY <1>1, PatternAssumption DEF getPatternsForTimeDomain, IsPattern, getComponentType
<1>4. ModuleTasks(g) = {}
  BY <1>2 DEF ModuleTasks
<1>5. CudaTasks(g) = {GraphOf(p) : p \in {q \in g.patterns : IsPart(q)}}
  BY DEF CudaTasks, CudaGraphs, IsPart, GraphOf
<1> QED BY <1>2, <1>3, <1>4, <1>5 DEF Tasks, ComponentTasks

\* A dependency between two tasks comes from a dependency of two components: of
\* these themselves, or of the CUDA graph that one of them is part of.
LEMMA TaskEdgesAre ==
  ASSUME WellBuilt, NEW g, Runnable(g), NEW x
  PROVE  x \in TaskEdges(g) <=>
           \/ \E d \in Precedes(g) : x = <<Component(d[1]), Component(d[2])>>
           \/ \E p \in g.patterns :
                IsPart(p) /\ x = <<Component(p), GraphOf(p)>>
           \/ \E d \in Precedes(g) :
                /\ IsPart(d[1]) /\ GraphOf(d[2]) # GraphOf(d[1])
                /\ x = <<GraphOf(d[1]), Component(d[2])>>
<1> USE DEF IsPart, GraphOf
<1>1. TaskEdges(g) = ComponentEdges(g) \cup (UNION {CudaEdges(g, c) : c \in CudaGraphs(g)})
  BY TasksAre DEF TaskEdges
<1>2. ComponentEdges(g) = {<<Component(d[1]), Component(d[2])>> : d \in Precedes(g)}
  BY PrecedesFacts
<1>3. \A d \in Precedes(g) : d[1] \in g.patterns /\ d[2] \in g.patterns
  BY PrecedesFacts
<1>4. ASSUME NEW p \in g.patterns, NEW y
      PROVE  y \in Successors(ComponentEdges(g), Component(p)) <=>
               \E d \in Precedes(g) : d[1] = p /\ y = Component(d[2])
  <2> DEFINE edges == ComponentEdges(g)
  <2>1. y \in Successors(edges, Component(p)) <=>
          \E e \in edges : e[1] = Component(p) /\ y = e[2]
    BY DEF Successors
  <2>2. ASSUME NEW e \in edges, e[1] = Component(p), y = e[2]
        PROVE  \E d \in Precedes(g) : d[1] = p /\ y = Component(d[2])
    <3>1. PICK d \in Precedes(g) : e = <<Component(d[1]), Component(d[2])>>
      BY <1>2
    <3> QED BY <2>2, <3>1 DEF Component
  <2>3. ASSUME NEW d \in Precedes(g), d[1] = p, y = Component(d[2])
        PROVE  \E e \in edges : e[1] = Component(p) /\ y = e[2]
    <3>1. <<Component(d[1]), Component(d[2])>> \in edges
      BY <1>2
    <3> QED BY <2>3, <3>1
  <2> HIDE DEF edges
  <2> QED BY <2>1, <2>2, <2>3 DEF edges
<1>5. ASSUME NEW c
      PROVE  x \in CudaEdges(g, c) <=>
               \/ \E p \in Parts(g, c) : x = <<Component(p), CudaGraph(c)>>
               \/ \E d \in Precedes(g) :
                    /\ d[1] \in Parts(g, c) /\ d[2] \notin Parts(g, c)
                    /\ x = <<CudaGraph(c), Component(d[2])>>
  <2>1. Parts(g, c) \subseteq g.patterns
    BY DEF Parts
  <2>2. ASSUME NEW p \in Parts(g, c), NEW y
        PROVE  y \in Successors(ComponentEdges(g), Component(p))
                     \ {Component(q) : q \in Parts(g, c)} <=>
                 \E d \in Precedes(g) :
                   d[1] = p /\ d[2] \notin Parts(g, c) /\ y = Component(d[2])
    BY <1>4, <2>1 DEF Component
  <2>3. x \in UNION {{<<CudaGraph(c), t>> :
                       t \in Successors(ComponentEdges(g), Component(p))
                               \ {Component(q) : q \in Parts(g, c)}} : p \in Parts(g, c)} <=>
          \E p \in Parts(g, c) :
            \E t \in Successors(ComponentEdges(g), Component(p))
                       \ {Component(q) : q \in Parts(g, c)} : x = <<CudaGraph(c), t>>
    OBVIOUS
  <2> QED BY <2>2, <2>3 DEF CudaEdges
<1>6. \A p \in g.patterns : \A c : p \in Parts(g, c) <=> CudaGraphName[p] = c
  BY DEF Parts
<1>7. \A c : c \in CudaGraphs(g) <=> c # "" /\ \E p \in g.patterns : CudaGraphName[p] = c
  BY DEF CudaGraphs
<1>8. \A c : Parts(g, c) \subseteq g.patterns
  BY DEF Parts
<1>9. (\E c \in CudaGraphs(g) : x \in CudaEdges(g, c)) <=>
        \/ \E p \in g.patterns :
                /\ CudaGraphName[p] # ""
                /\ x = <<Component(p), CudaGraph(CudaGraphName[p])>>
        \/ \E d \in Precedes(g) :
                /\ CudaGraphName[d[1]] # "" /\ CudaGraphName[d[2]] # CudaGraphName[d[1]]
                /\ x = <<CudaGraph(CudaGraphName[d[1]]), Component(d[2])>>
  <2>1. ASSUME NEW c \in CudaGraphs(g), x \in CudaEdges(g, c)
        PROVE  \/ \E p \in g.patterns :
                    /\ CudaGraphName[p] # ""
                    /\ x = <<Component(p), CudaGraph(CudaGraphName[p])>>
               \/ \E d \in Precedes(g) :
                    /\ CudaGraphName[d[1]] # "" /\ CudaGraphName[d[2]] # CudaGraphName[d[1]]
                    /\ x = <<CudaGraph(CudaGraphName[d[1]]), Component(d[2])>>
    <3>1. CASE \E p \in Parts(g, c) : x = <<Component(p), CudaGraph(c)>>
      BY <1>6, <1>7, <1>8, <3>1
    <3>2. CASE \E d \in Precedes(g) :
                 /\ d[1] \in Parts(g, c) /\ d[2] \notin Parts(g, c)
                 /\ x = <<CudaGraph(c), Component(d[2])>>
      <4>1. PICK d \in Precedes(g) :
              /\ d[1] \in Parts(g, c) /\ d[2] \notin Parts(g, c)
              /\ x = <<CudaGraph(c), Component(d[2])>>
        BY <3>2
      <4>2. d[1] \in g.patterns /\ d[2] \in g.patterns
        BY <1>3
      <4>3. CudaGraphName[d[1]] = c /\ CudaGraphName[d[2]] # c /\ c # ""
        <5>1. c # ""
          BY <1>7
        <5>2. CudaGraphName[d[1]] = c
          BY <4>1 DEF Parts
        <5>3. CudaGraphName[d[2]] # c
          BY <4>1, <4>2 DEF Parts
        <5> QED BY <5>1, <5>2, <5>3
      <4>4. CudaGraph(CudaGraphName[d[2]]) # CudaGraph(c)
        BY <4>3 DEF CudaGraph
      <4> QED BY <4>1, <4>3, <4>4
    <3> QED BY <1>5, <2>1, <3>1, <3>2
  <2>2. ASSUME NEW p \in g.patterns, CudaGraphName[p] # "",
               x = <<Component(p), CudaGraph(CudaGraphName[p])>>
        PROVE  \E c \in CudaGraphs(g) : x \in CudaEdges(g, c)
    <3>1. p \in Parts(g, CudaGraphName[p])
      BY <1>6
    <3>2. x \in CudaEdges(g, CudaGraphName[p])
      BY <1>5, <2>2, <3>1
    <3> QED BY <1>7, <2>2, <3>2
  <2>3. ASSUME NEW d \in Precedes(g), CudaGraphName[d[1]] # "",
               CudaGraphName[d[2]] # CudaGraphName[d[1]],
               x = <<CudaGraph(CudaGraphName[d[1]]), Component(d[2])>>
        PROVE  \E c \in CudaGraphs(g) : x \in CudaEdges(g, c)
    <3>1. d[1] \in Parts(g, CudaGraphName[d[1]]) /\ d[2] \notin Parts(g, CudaGraphName[d[1]])
      <4>1. d[1] \in g.patterns /\ d[2] \in g.patterns
        BY <1>3
      <4> QED BY <2>3, <4>1 DEF Parts
    <3>2. x \in CudaEdges(g, CudaGraphName[d[1]])
      BY <1>5, <2>3, <3>1
    <3> QED BY <1>3, <1>7, <2>3, <3>2
  <2> QED BY <2>1, <2>2, <2>3
<1>10. \A p, q : GraphOf(p) = GraphOf(q) <=> CudaGraphName[p] = CudaGraphName[q]
  BY TaskNames
<1> QED BY <1>1, <1>2, <1>9, <1>10

\* The dependencies are between tasks, no task is a start or an end, and a task
\* that is not a source follows another one.
LEMMA TaskFacts ==
  ASSUME WellBuilt, NEW g, Runnable(g)
  PROVE  /\ \A e \in TaskEdges(g) : e = <<e[1], e[2]>> /\ e[1] \in Tasks(g) /\ e[2] \in Tasks(g)
         /\ \A t \in Tasks(g) : t # TimeStepStart /\ t # TimeStepEnd
         /\ \A t \in Tasks(g) : IsComponent(t) \/ isCudaGraph(t)
         /\ \A t \in Tasks(g) : IsComponent(t) => t[2] \in g.patterns /\ t = Component(t[2])
         /\ \A t \in Tasks(g) : ~(IsComponent(t) /\ getComponentType[t[2]] \in SourceTypes) =>
              \E e \in TaskEdges(g) : e[2] = t
         /\ Tasks(g) # {} /\ IsFiniteSet(Tasks(g))
<1>1. \A t : t \in Tasks(g) <=>
              \/ \E p \in g.patterns : t = Component(p)
              \/ \E p \in g.patterns : IsPart(p) /\ t = GraphOf(p)
  BY TasksAre
<1>2. \A d \in Precedes(g) : d[1] \in g.patterns /\ d[2] \in g.patterns
  BY PrecedesFacts
<1>3. ASSUME NEW e \in TaskEdges(g)
      PROVE  e = <<e[1], e[2]>> /\ e[1] \in Tasks(g) /\ e[2] \in Tasks(g)
  <2>1. CASE \E d \in Precedes(g) : e = <<Component(d[1]), Component(d[2])>>
    BY <1>1, <1>2, <2>1
  <2>2. CASE \E p \in g.patterns : IsPart(p) /\ e = <<Component(p), GraphOf(p)>>
    BY <1>1, <2>2
  <2>3. CASE \E d \in Precedes(g) :
               /\ IsPart(d[1]) /\ GraphOf(d[2]) # GraphOf(d[1])
               /\ e = <<GraphOf(d[1]), Component(d[2])>>
    BY <1>1, <1>2, <2>3
  <2> QED BY <2>1, <2>2, <2>3, TaskEdgesAre
<1>4. \A t \in Tasks(g) : t # TimeStepStart /\ t # TimeStepEnd
  BY <1>1, TaskNames
<1>5. \A t \in Tasks(g) : IsComponent(t) \/ isCudaGraph(t)
  BY <1>1, TaskNames
<1>6. \A t \in Tasks(g) : IsComponent(t) => t[2] \in g.patterns /\ t = Component(t[2])
  BY <1>1, TaskNames
<1>7. ASSUME NEW t \in Tasks(g), ~(IsComponent(t) /\ getComponentType[t[2]] \in SourceTypes)
      PROVE  \E e \in TaskEdges(g) : e[2] = t
  <2>1. CASE IsComponent(t)
    <3>1. PICK d \in Precedes(g) : d[2] = t[2]
      BY <1>6, <1>7, <2>1, PrecedesFacts
    <3>2. <<Component(d[1]), Component(d[2])>> \in TaskEdges(g)
      BY TaskEdgesAre
    <3> QED BY <1>6, <2>1, <3>1, <3>2
  <2>2. CASE ~IsComponent(t)
    <3>1. PICK p \in g.patterns : IsPart(p) /\ t = GraphOf(p)
      BY <1>1, <2>2, TaskNames
    <3>2. <<Component(p), GraphOf(p)>> \in TaskEdges(g)
      BY <3>1, TaskEdgesAre
    <3> QED BY <3>1, <3>2
  <2> QED BY <2>1, <2>2
<1>8. Tasks(g) # {}
  <2>1. PICK e \in Precedes(g) : TRUE
    BY DEF Precedes, Runnable, WellBuilt
  <2>2. Component(e[1]) \in Tasks(g)
    BY <1>1, <1>2
  <2> QED BY <2>2
<1>9. IsFiniteSet(Tasks(g))
  <2>1. IsFiniteSet(g.patterns)
    BY DEF Runnable, GoodGraph
  <2> DEFINE f == [p \in g.patterns |-> Component(p)]
             h == [p \in g.patterns |-> GraphOf(p)]
             A == {Component(p) : p \in g.patterns}
             B == {GraphOf(p) : p \in g.patterns}
  <2>2. f \in Surjection(g.patterns, A) /\ h \in Surjection(g.patterns, B)
    BY DEF Surjection
  <2> HIDE DEF f, h
  <2>3. IsFiniteSet(A) /\ IsFiniteSet(B)
    BY <2>1, <2>2, FS_Surjection
  <2>4. Tasks(g) \subseteq A \cup B
    BY <1>1
  <2> HIDE DEF A, B
  <2>5. IsFiniteSet(A \cup B)
    BY <2>3, FS_Union
  <2> QED BY <2>4, <2>5, FS_Subset
<1> QED BY <1>3, <1>4, <1>5, <1>6, <1>7, <1>8, <1>9

\* Every set of tasks has one that precedes no other of the set, although a CUDA
\* graph follows and precedes other tasks than its components do.
LEMMA SomeLastTask ==
  ASSUME WellBuilt, NEW g, Runnable(g), NEW S \in SUBSET Tasks(g), S # {}
  PROVE  \E t \in S : \A e \in TaskEdges(g) : e[1] = t => e[2] \notin S
<1> DEFINE UnitOf(t) == IF IsComponent(t) THEN Unit(t[2]) ELSE t
           V == {UnitOf(t) : t \in S}
<1>1. g.patterns \subseteq Instances /\ SomeSink(g)
  BY DEF Runnable, GoodGraph, WellFormed
<1>2. \A t \in S :
        \/ \E p \in g.patterns : t = Component(p)
        \/ \E p \in g.patterns : IsPart(p) /\ t = GraphOf(p)
  BY TasksAre
<1>3. /\ \A p : UnitOf(Component(p)) = Unit(p)
      /\ \A p : UnitOf(GraphOf(p)) = GraphOf(p)
  BY TaskNames
<1>4. V \subseteq {Unit(p) : p \in Instances}
  <2>1. ASSUME NEW t \in S
        PROVE  \E p \in Instances : UnitOf(t) = Unit(p)
    <3> HIDE DEF UnitOf
    <3>1. CASE \E p \in g.patterns : t = Component(p)
      BY <1>1, <1>3, <3>1
    <3>2. CASE \E p \in g.patterns : IsPart(p) /\ t = GraphOf(p)
      BY <1>1, <1>3, <3>2, TaskNames
    <3> QED BY <1>2, <3>1, <3>2
  <2> HIDE DEF UnitOf
  <2> QED BY <2>1
<1>5. V # {}
  OBVIOUS
<1>6. /\ \A p : Component(p) \in S => Unit(p) \in V
      /\ \A x \in V : \E t \in S : x = UnitOf(t)
  <2> HIDE DEF UnitOf
  <2> QED BY <1>3
<1> HIDE DEF V
<1>7. PICK x \in V : \A e \in Precedes(g) :
        Unit(e[1]) = x /\ Unit(e[2]) \in V => Unit(e[2]) = x
  BY <1>4, <1>5, SomeLastUnit
<1>8. ASSUME NEW e \in TaskEdges(g)
      PROVE  \/ \E d \in Precedes(g) : e[1] = Component(d[1]) /\ e[2] = Component(d[2])
             \/ \E p \in g.patterns : IsPart(p) /\ e[1] = Component(p) /\ e[2] = GraphOf(p)
             \/ \E d \in Precedes(g) :
                  /\ IsPart(d[1]) /\ GraphOf(d[2]) # GraphOf(d[1])
                  /\ e[1] = GraphOf(d[1]) /\ e[2] = Component(d[2])
  BY TaskEdgesAre
<1>9. PICK t \in S : x = UnitOf(t)
  BY <1>6
<1>10. \A d \in Precedes(g) : d[1] \in g.patterns /\ d[2] \in g.patterns /\ d[1] # d[2]
  BY PrecedesFacts
<1> HIDE DEF UnitOf
\* A component outside of all CUDA graphs.
<1>11. ASSUME NEW p \in g.patterns, ~IsPart(p), t = Component(p)
       PROVE  \A e \in TaskEdges(g) : e[1] = t => e[2] \notin S
  <2>1. x = Component(p) /\ Unit(p) = x
    BY <1>3, <1>9, <1>11, TaskNames
  <2>2. ASSUME NEW e \in TaskEdges(g), e[1] = t, e[2] \in S
        PROVE  FALSE
    <3>1. PICK d \in Precedes(g) : e[1] = Component(d[1]) /\ e[2] = Component(d[2])
      BY <1>8, <1>11, <2>2, TaskNames
    <3>2. d[1] = p
      <4>1. Component(d[1]) = Component(p)
        BY <1>11, <2>2, <3>1
      <4> QED BY <4>1, TaskNames
    <3>3. Unit(d[2]) \in V
      BY <1>6, <2>2, <3>1
    <3>4. Unit(d[2]) = x
      BY <1>7, <2>1, <3>2, <3>3
    <3>5. d[2] = p
      BY <2>1, <3>4, TaskNames
    <3> QED BY <1>10, <3>2, <3>5
  <2> QED BY <2>2
\* A CUDA graph.
<1>12. ASSUME NEW p \in g.patterns, IsPart(p), x = GraphOf(p), x \in S
       PROVE  \A e \in TaskEdges(g) : e[1] = x => e[2] \notin S
  <2>1. ASSUME NEW e \in TaskEdges(g), e[1] = x, e[2] \in S
        PROVE  FALSE
    <3>1. PICK d \in Precedes(g) :
            /\ IsPart(d[1]) /\ GraphOf(d[2]) # GraphOf(d[1])
            /\ e[1] = GraphOf(d[1]) /\ e[2] = Component(d[2])
      BY <1>8, <1>12, <2>1, TaskNames
    <3>2. Unit(d[1]) = x
      BY <2>1, <3>1, TaskNames
    <3>3. Unit(d[2]) \in V
      BY <1>6, <2>1, <3>1
    <3>4. Unit(d[2]) = x
      BY <1>7, <3>2, <3>3
    <3> QED BY <1>12, <2>1, <3>1, <3>4, TaskNames
  <2> QED BY <2>1
\* A component of a CUDA graph that is itself not in the set.
<1>13. ASSUME NEW r \in g.patterns, IsPart(r), t = Component(r), x \notin S
       PROVE  \E u \in S : \A e \in TaskEdges(g) : e[1] = u => e[2] \notin S
  <2>1. x = GraphOf(r)
    BY <1>3, <1>9, <1>13, TaskNames
  <2> DEFINE P == {p \in g.patterns : Component(p) \in S /\ Unit(p) = x}
  <2>2. r \in P
    BY <1>9, <1>13, <2>1, TaskNames
  <2>3. PICK p \in P : \A e \in Links(g) : e[2] \in P => e[1] # p
    <3>1. P \in (SUBSET g.patterns) \ {{}}
      BY <2>2
    <3> QED BY <1>1, <3>1 DEF SomeSink
  <2>4. p \in g.patterns /\ Component(p) \in S /\ Unit(p) = x
    OBVIOUS
  <2>5. IsPart(p)
    BY <2>1, <2>4, TaskNames
  <2>6. \A e \in Precedes(g) : e[2] \in P => e[1] # p
    <3>1. SyncSources(g) # {} => ~IsPart(SyncSourceStartPoint(g))
      BY PrecedesFacts DEF IsPart
    <3>2. \A e \in Precedes(g) :
            e \in Links(g) \/ (SyncSources(g) # {} /\ e[1] = SyncSourceStartPoint(g))
      BY DEF Precedes
    <3> HIDE DEF P
    <3> QED BY <2>3, <2>5, <3>1, <3>2
  <2>7. ASSUME NEW e \in TaskEdges(g), e[1] = Component(p), e[2] \in S
        PROVE  FALSE
    <3>1. CASE \E d \in Precedes(g) : e[1] = Component(d[1]) /\ e[2] = Component(d[2])
      <4>1. PICK d \in Precedes(g) : e[1] = Component(d[1]) /\ e[2] = Component(d[2])
        BY <3>1
      <4>2. d[1] = p /\ d[2] \in g.patterns
        BY <1>10, <2>7, <4>1, TaskNames, ZenonT(30)
      <4>3. Unit(d[2]) \in V
        BY <1>6, <2>7, <4>1
      <4>4. Unit(d[2]) = x
        BY <1>7, <2>4, <4>2, <4>3
      <4>5. d[2] \in P
        BY <2>7, <4>1, <4>2, <4>4
      <4> QED BY <2>6, <4>2, <4>5
    <3>2. CASE \E q \in g.patterns : IsPart(q) /\ e[1] = Component(q) /\ e[2] = GraphOf(q)
      <4>1. PICK q \in g.patterns : IsPart(q) /\ e[1] = Component(q) /\ e[2] = GraphOf(q)
        BY <3>2
      <4>2. q = p
        BY <2>7, <4>1, TaskNames
      <4>3. GraphOf(p) = x
        BY <2>4, <2>5, TaskNames
      <4> QED BY <1>13, <2>7, <4>1, <4>2, <4>3
    <3> QED BY <1>8, <2>7, <3>1, <3>2, TaskNames
  <2> QED BY <2>4, <2>7
<1> QED
  <2>1. CASE \E p \in g.patterns : t = Component(p)
    <3>1. PICK p \in g.patterns : t = Component(p)
      BY <2>1
    <3>2. IsPart(p) => x = GraphOf(p)
      BY <1>3, <1>9, <3>1, TaskNames
    <3> QED BY <1>11, <1>12, <1>13, <3>1, <3>2
  <2>2. CASE \E p \in g.patterns : IsPart(p) /\ t = GraphOf(p)
    <3>1. PICK p \in g.patterns : IsPart(p) /\ t = GraphOf(p)
      BY <2>2
    <3>2. x = t
      BY <1>3, <1>9, <3>1
    <3> QED BY <1>12, <3>1, <3>2
  <2> QED BY <1>2, <2>1, <2>2

-----------------------------------------------------------------------------
(* The taskflow. *)

\* What precedes what within a time step, the start and the end included.
Before(g) ==
  TaskEdges(g)
    \cup {<<TimeStepStart, t>> : t \in {u \in Tasks(g) : isStartPoint(TaskEdges(g), u)}}
    \cup {<<t, TimeStepEnd>> : t \in {u \in Tasks(g) : isEndPoint(TaskEdges(g), u)}}

StepTasks(g) == Tasks(g) \cup {TimeStepStart, TimeStepEnd}

\* Within a time step every task follows the start or a task, the end follows a
\* task, and no set of tasks is without a way to the end.
LEMMA BeforeFacts ==
  ASSUME WellBuilt, NEW g, Runnable(g)
  PROVE  /\ \A d \in Before(g) : /\ d = <<d[1], d[2]>> /\ d[1] # d[2]
                                 /\ d[1] \in Tasks(g) \cup {TimeStepStart}
                                 /\ d[2] \in Tasks(g) \cup {TimeStepEnd}
         /\ \A t \in Tasks(g) : \E d \in Before(g) : d[2] = t
         /\ \A t \in Tasks(g) : ~(IsComponent(t) /\ getComponentType[t[2]] \in SourceTypes) =>
              \E d \in Before(g) : d[1] \in Tasks(g) /\ d[2] = t
         /\ \E d \in Before(g) : d[1] \in Tasks(g) /\ d[2] = TimeStepEnd
         /\ \A S \in SUBSET Tasks(g) : S # {} => \E d \in Before(g) : d[1] \in S /\ d[2] \notin S
<1> DEFINE E == TaskEdges(g)
           T == Tasks(g)
<1>1. /\ \A e \in E : e = <<e[1], e[2]>> /\ e[1] \in T /\ e[2] \in T
      /\ \A t \in T : t # TimeStepStart /\ t # TimeStepEnd
      /\ \A t \in T : ~(IsComponent(t) /\ getComponentType[t[2]] \in SourceTypes) =>
           \E e \in E : e[2] = t
      /\ T # {}
  BY TaskFacts
<1>2. \A S \in SUBSET T : S # {} => \E t \in S : \A e \in E : e[1] = t => e[2] \notin S
  BY SomeLastTask
<1>3. ASSUME NEW d
      PROVE  d \in Before(g) <=>
               \/ d \in E
               \/ \E t \in T : isStartPoint(E, t) /\ d = <<TimeStepStart, t>>
               \/ \E t \in T : isEndPoint(E, t) /\ d = <<t, TimeStepEnd>>
  BY DEF Before
<1> HIDE DEF E, T
<1>4. ASSUME NEW d \in Before(g)
      PROVE  /\ d = <<d[1], d[2]>> /\ d[1] # d[2]
             /\ d[1] \in T \cup {TimeStepStart} /\ d[2] \in T \cup {TimeStepEnd}
  <2>1. CASE d \in E
    <3>1. d[1] \in T
      BY <1>1, <2>1
    <3>2. d[1] # d[2]
      BY <1>2, <2>1, <3>1
    <3> QED BY <1>1, <2>1, <3>2
  <2>2. CASE \E t \in T : isStartPoint(E, t) /\ d = <<TimeStepStart, t>>
    BY <1>1, <2>2
  <2>3. CASE \E t \in T : isEndPoint(E, t) /\ d = <<t, TimeStepEnd>>
    BY <1>1, <2>3
  <2> QED BY <1>3, <2>1, <2>2, <2>3
<1>5. ASSUME NEW t \in T
      PROVE  \E d \in Before(g) : d[2] = t
  <2>1. CASE isStartPoint(E, t)
    <3>1. <<TimeStepStart, t>> \in Before(g)
      BY <1>3, <2>1
    <3> QED BY <3>1
  <2>2. CASE ~isStartPoint(E, t)
    BY <1>3, <2>2 DEF isStartPoint
  <2> QED BY <2>1, <2>2
<1>6. ASSUME NEW t \in T, ~(IsComponent(t) /\ getComponentType[t[2]] \in SourceTypes)
      PROVE  \E d \in Before(g) : d[1] \in T /\ d[2] = t
  BY <1>1, <1>3, <1>6
<1>7. ASSUME NEW S \in SUBSET T, S # {}
      PROVE  \E d \in Before(g) : d[1] \in S /\ d[2] \notin S
  <2>1. PICK t \in S : \A e \in E : e[1] = t => e[2] \notin S
    BY <1>2, <1>7
  <2>2. CASE isEndPoint(E, t)
    <3>1. <<t, TimeStepEnd>> \in Before(g) /\ TimeStepEnd \notin S
      BY <1>1, <1>3, <2>2
    <3> QED BY <3>1
  <2>3. CASE ~isEndPoint(E, t)
    <3>1. PICK e \in E : e[1] = t
      BY <2>3 DEF isEndPoint
    <3> QED BY <1>3, <2>1, <3>1
  <2> QED BY <2>2, <2>3
<1>8. \E d \in Before(g) : d[1] \in T /\ d[2] = TimeStepEnd
  <2>1. PICK d \in Before(g) : d[1] \in T /\ d[2] \notin T
    BY <1>1, <1>7
  <2> QED BY <1>4, <2>1
<1> QED BY <1>4, <1>5, <1>6, <1>7, <1>8 DEF E, T

\* The nodes, edges and seams of the taskflow.
LEMMA FlowIs ==
  ASSUME WellBuilt, NEW g, Runnable(g)
  PROVE  /\ Nodes(g) = StepTasks(g) \X Steps
         /\ TimeStepStart \in Rings(g) /\ TimeStepEnd \in Rings(g) /\ Rings(g) \subseteq StepTasks(g)
         /\ \A e : e \in FlowEdges(g) <=>
              \/ \E d \in Before(g), i \in Steps : e = << <<d[1], i>>, <<d[2], i>> >>
              \/ \E t \in Rings(g), i \in Steps :
                   i # LastStep /\ e = << <<t, i>>, <<t, i + 1>> >>
         /\ \A s : s \in FlowSeams(g) <=>
              \/ \E i \in Steps : s = Seam(<<TimeStepEnd, i>>, <<TimeStepStart, i>>, i)
              \/ \E t \in Rings(g) : s = Seam(<<t, LastStep>>, <<t, 0>>, 0)
<1>1. Nodes(g) = StepTasks(g) \X Steps
  BY DEF Nodes, TaskData, StepTasks
<1>2. Modules(g) = {}
  BY TasksAre
<1>3. /\ TimeStepStart \in Rings(g) /\ TimeStepEnd \in Rings(g)
      /\ Rings(g) \subseteq StepTasks(g)
  <2>1. \A p \in g.patterns : Component(p) \in Tasks(g)
    BY TasksAre
  <2> QED BY <2>1 DEF Rings, SerialTasks, StepTasks
<1>4. ASSUME NEW e
      PROVE  e \in FlowEdges(g) <=>
              \/ \E d \in Before(g), i \in Steps : e = << <<d[1], i>>, <<d[2], i>> >>
              \/ \E t \in Rings(g), i \in Steps :
                   i # LastStep /\ e = << <<t, i>>, <<t, i + 1>> >>
  <2> DEFINE E == TaskEdges(g)
  <2>1. e \in FlowEdges(g) <=>
          \/ \E i \in Steps : e \in connectTimeStepComponents(E, i) \cup StartEndEdges(g, E, i)
          \/ \E t \in Rings(g) : e \in InterConnect(t)
    BY <1>2 DEF FlowEdges
  <2>2. ASSUME NEW i
        PROVE  e \in connectTimeStepComponents(E, i) \cup StartEndEdges(g, E, i) <=>
                 \E d \in Before(g) : e = << <<d[1], i>>, <<d[2], i>> >>
    <3>1. e \in connectTimeStepComponents(E, i) \cup StartEndEdges(g, E, i) <=>
            \/ \E d \in E : e = << <<d[1], i>>, <<d[2], i>> >>
            \/ \E t \in Tasks(g) :
                 isStartPoint(E, t) /\ e = << <<TimeStepStart, i>>, <<t, i>> >>
            \/ \E t \in Tasks(g) :
                 isEndPoint(E, t) /\ e = << <<t, i>>, <<TimeStepEnd, i>> >>
      BY DEF connectTimeStepComponents, StartEndEdges
    <3>2. \A d : d \in Before(g) <=>
            \/ d \in E
            \/ \E t \in Tasks(g) : isStartPoint(E, t) /\ d = <<TimeStepStart, t>>
            \/ \E t \in Tasks(g) : isEndPoint(E, t) /\ d = <<t, TimeStepEnd>>
      BY DEF Before
    <3> HIDE DEF E
    <3>3. ASSUME NEW t \in Tasks(g), isStartPoint(E, t)
          PROVE  <<TimeStepStart, t>> \in Before(g)
      BY <3>2, <3>3
    <3>4. ASSUME NEW t \in Tasks(g), isEndPoint(E, t)
          PROVE  <<t, TimeStepEnd>> \in Before(g)
      BY <3>2, <3>4
    <3>5. ASSUME NEW t \in Tasks(g), isStartPoint(E, t),
                 e = << <<TimeStepStart, i>>, <<t, i>> >>
          PROVE  \E d \in Before(g) : e = << <<d[1], i>>, <<d[2], i>> >>
      <4> DEFINE d == <<TimeStepStart, t>>
      <4>1. d[1] = TimeStepStart /\ d[2] = t /\ d \in Before(g)
        BY <3>3, <3>5
      <4> QED BY <3>5, <4>1
    <3>6. ASSUME NEW t \in Tasks(g), isEndPoint(E, t),
                 e = << <<t, i>>, <<TimeStepEnd, i>> >>
          PROVE  \E d \in Before(g) : e = << <<d[1], i>>, <<d[2], i>> >>
      <4> DEFINE d == <<t, TimeStepEnd>>
      <4>1. d[1] = t /\ d[2] = TimeStepEnd /\ d \in Before(g)
        BY <3>4, <3>6
      <4> QED BY <3>6, <4>1
    <3>7. ASSUME NEW d \in Before(g), e = << <<d[1], i>>, <<d[2], i>> >>
          PROVE  \/ \E f \in E : e = << <<f[1], i>>, <<f[2], i>> >>
                 \/ \E t \in Tasks(g) :
                      isStartPoint(E, t) /\ e = << <<TimeStepStart, i>>, <<t, i>> >>
                 \/ \E t \in Tasks(g) :
                      isEndPoint(E, t) /\ e = << <<t, i>>, <<TimeStepEnd, i>> >>
      <4>1. CASE d \in E
        BY <3>7, <4>1
      <4>2. CASE \E t \in Tasks(g) : isStartPoint(E, t) /\ d = <<TimeStepStart, t>>
        BY <3>7, <4>2
      <4>3. CASE \E t \in Tasks(g) : isEndPoint(E, t) /\ d = <<t, TimeStepEnd>>
        BY <3>7, <4>3
      <4> QED BY <3>2, <4>1, <4>2, <4>3
    <3>8. E \subseteq Before(g)
      BY <3>2
    <3> QED BY <3>1, <3>5, <3>6, <3>7, <3>8
  <2>3. ASSUME NEW t
        PROVE  e \in InterConnect(t) <=>
                 \E i \in Steps : i # LastStep /\ e = << <<t, i>>, <<t, i + 1>> >>
    <3>1. \A i : i \in 0..(LastStep - 1) <=> i \in Steps /\ i # LastStep
      BY StepsType DEF Steps, LastStep
    <3> QED BY <3>1 DEF InterConnect
  <2> HIDE DEF E
  <2> QED BY <2>1, <2>2, <2>3
<1>5. ASSUME NEW s
      PROVE  s \in FlowSeams(g) <=>
              \/ \E i \in Steps : s = Seam(<<TimeStepEnd, i>>, <<TimeStepStart, i>>, i)
              \/ \E t \in Rings(g) : s = Seam(<<t, LastStep>>, <<t, 0>>, 0)
  BY <1>2 DEF FlowSeams, SelfSeams, RingSeam
<1> QED BY <1>1, <1>3, <1>4, <1>5

\* There are finitely many edges and seams.
LEMMA FlowFinite ==
  ASSUME WellBuilt, NEW g, Runnable(g)
  PROVE  IsFiniteSet(FlowEdges(g)) /\ IsFiniteSet(FlowSeams(g))
<1>1. IsFiniteSet(Steps)
  BY StepsType, FS_Interval DEF Steps
<1>2. IsFiniteSet(StepTasks(g))
  <2>1. IsFiniteSet({TimeStepStart, TimeStepEnd})
    <3>1. IsFiniteSet({TimeStepStart})
      BY FS_Singleton
    <3>2. IsFiniteSet({TimeStepStart} \cup {TimeStepEnd})
      BY <3>1, FS_AddElement
    <3>3. {TimeStepStart} \cup {TimeStepEnd} = {TimeStepStart, TimeStepEnd}
      OBVIOUS
    <3> QED BY <3>2, <3>3
  <2> QED BY <2>1, TaskFacts, FS_Union DEF StepTasks
<1>3. IsFiniteSet(FlowEdges(g))
  <2>1. IsFiniteSet(StepTasks(g) \X Steps)
    BY <1>1, <1>2, FS_Product
  <2> DEFINE N == StepTasks(g) \X Steps
  <2>2. FlowEdges(g) \subseteq N \X N
    <3>1. \A d \in Before(g) : d[1] \in StepTasks(g) /\ d[2] \in StepTasks(g)
      BY BeforeFacts DEF StepTasks
    <3>2. \A i \in Steps : i # LastStep => i + 1 \in Steps
      BY StepsType DEF Steps, LastStep
    <3>3. ASSUME NEW e \in FlowEdges(g)
          PROVE  e \in N \X N
      <4>1. CASE \E d \in Before(g), i \in Steps : e = << <<d[1], i>>, <<d[2], i>> >>
        BY <3>1, <4>1
      <4>2. CASE \E t \in Rings(g), i \in Steps :
                   i # LastStep /\ e = << <<t, i>>, <<t, i + 1>> >>
        BY <3>2, <4>2, FlowIs
      <4> QED BY <4>1, <4>2, FlowIs
    <3> QED BY <3>3
  <2> HIDE DEF N
  <2>3. IsFiniteSet(N \X N)
    BY <2>1, FS_Product DEF N
  <2> QED BY <2>2, <2>3, FS_Subset
<1>4. IsFiniteSet(FlowSeams(g))
  <2> DEFINE Self(i) == Seam(<<TimeStepEnd, i>>, <<TimeStepStart, i>>, i)
             Ring(t) == Seam(<<t, LastStep>>, <<t, 0>>, 0)
             A == {Self(i) : i \in Steps}
             B == {Ring(t) : t \in Rings(g)}
             f == [i \in Steps |-> Self(i)]
             h == [t \in Rings(g) |-> Ring(t)]
  <2>1. f \in Surjection(Steps, A) /\ h \in Surjection(Rings(g), B)
    BY DEF Surjection
  <2>2. IsFiniteSet(Rings(g))
    BY <1>2, FlowIs, FS_Subset
  <2>3. FlowSeams(g) = A \cup B
    BY FlowIs
  <2> HIDE DEF A, B, f, h
  <2>4. IsFiniteSet(A) /\ IsFiniteSet(B)
    BY <1>1, <2>1, <2>2, FS_Surjection
  <2> QED BY <2>3, <2>4, FS_Union
<1> QED BY <1>3, <1>4

-----------------------------------------------------------------------------
(* The invariant of a running taskflow. *)

\* The event that the tasks of time step i handle next: the end is the last one
\* to handle an event.
NextOf(v, i) == FollowingEvent(v[<<TimeStepEnd, i>>], i)

\* v gives for every node the last event that it has handled.  In a time step
\* all nodes handle an event before one handles the next, in the order of the
\* dependencies; a serial task, like the start and the end, takes the time steps
\* in turn.
Ordered(g, v) ==
  /\ \A t \in Rings(g) : InTurn([i \in Steps |-> v[<<t, i>>]])
  /\ \A n \in Nodes(g) : v[n] \in {v[<<TimeStepEnd, n[2]>>], NextOf(v, n[2])}
  /\ \A i \in Steps : \A d \in Before(g) : v[<<d[2], i>>] <= v[<<d[1], i>>]
  /\ \A i \in Steps : \A t \in Tasks(g) : v[<<t, i>>] <= v[<<TimeStepStart, i>>]

\* What a node waits for: the predecessors that have not handled a newer event,
\* and the seams that have not let the flow pass since the node has run.
MissingEdges(g, v, n) == {e \in FlowEdges(g) : e[2] = n /\ ~(v[e[1]] > v[n])}
MissingSeams(g, tok, n) == {s \in FlowSeams(g) : s.to = n /\ s \notin tok}

\* The counters of the library are these.
Counted(g, v, tok, count, open) ==
  /\ open \subseteq FlowSeams(g) /\ open \cap tok = {}
  /\ \A s \in open \cup tok : v[s.from] >= v[s.to]
  /\ \A n \in Nodes(g) :
       count[n] = Cardinality(MissingEdges(g, v, n)) + Cardinality(MissingSeams(g, tok, n))

\* The following event is a later one.
LEMMA FollowingType ==
  ASSUME NEW r \in Nat, NEW i \in Steps
  PROVE  FollowingEvent(r, i) \in Nat /\ FollowingEvent(r, i) > r
BY StepsType DEF FollowingEvent

\* Task t of time step i is due.
DueState(g, v, tok, count, open, t, i) ==
  /\ Runnable(g) /\ v \in [Nodes(g) -> Nat] /\ tok \in SUBSET FlowSeams(g)
  /\ Ordered(g, v) /\ Counted(g, v, tok, count, open)
  /\ t \in StepTasks(g) /\ i \in Steps /\ count[<<t, i>>] = 0

\* The values of a node that is due: all that it waits for has handled the next
\* event, what waits for it has not, and a serial task is in turn.
WhenDue(g, v, tok, t, i) ==
  /\ \A e \in FlowEdges(g) : e[2] = <<t, i>> => v[e[1]] > v[<<t, i>>]
  /\ \A s \in FlowSeams(g) : s.to = <<t, i>> => s \in tok
  /\ v[<<t, i>>] = v[<<TimeStepEnd, i>>]
  /\ \A d \in Before(g) : d[2] = t => v[<<d[1], i>>] = NextOf(v, i)
  /\ \A d \in Before(g) : d[1] = t => v[<<d[2], i>>] = v[<<t, i>>]
  /\ t \in Tasks(g) => v[<<TimeStepStart, i>>] = NextOf(v, i)
  /\ t = TimeStepEnd => \A u \in Tasks(g) \cup {TimeStepStart} : v[<<u, i>>] = NextOf(v, i)
  /\ t \in Rings(g) => \E b \in Nat : Rounds([k \in Steps |-> v[<<t, k>>]], b, i)

\* WhenDue holds for a node that is due.
LEMMA DueFacts ==
  ASSUME WellBuilt, NEW g, NEW v, NEW tok, NEW count, NEW open, NEW t, NEW i,
         DueState(g, v, tok, count, open, t, i)
  PROVE  WhenDue(g, v, tok, t, i)
<1> DEFINE n == <<t, i>>
           end == v[<<TimeStepEnd, i>>]
           next == NextOf(v, i)
<1> USE DEF DueState
<1>1. /\ Nodes(g) = StepTasks(g) \X Steps
      /\ TimeStepStart \in StepTasks(g) /\ TimeStepEnd \in StepTasks(g)
      /\ Tasks(g) \subseteq StepTasks(g)
      /\ n \in Nodes(g)
  BY FlowIs DEF StepTasks
<1>2. end \in Nat /\ next \in Nat /\ next > end
  BY <1>1, FollowingType DEF NextOf
<1>3. \A u \in StepTasks(g) : v[<<u, i>>] \in {end, next}
  BY <1>1 DEF Ordered
<1>4. MissingEdges(g, v, n) = {} /\ MissingSeams(g, tok, n) = {}
  <2>1. IsFiniteSet(MissingEdges(g, v, n)) /\ IsFiniteSet(MissingSeams(g, tok, n))
    BY FlowFinite, FS_Subset DEF MissingEdges, MissingSeams
  <2>2. 0 = Cardinality(MissingEdges(g, v, n)) + Cardinality(MissingSeams(g, tok, n))
    BY <1>1 DEF Counted
  <2>3. /\ Cardinality(MissingEdges(g, v, n)) \in Nat
        /\ Cardinality(MissingSeams(g, tok, n)) \in Nat
    BY <2>1, FS_CardinalityType
  <2>4. Cardinality(MissingEdges(g, v, n)) = 0 /\ Cardinality(MissingSeams(g, tok, n)) = 0
    BY <2>2, <2>3
  <2> QED BY <2>1, <2>4, FS_EmptySet
<1>5. \A e \in FlowEdges(g) : e[2] = n => v[e[1]] > v[n]
  BY <1>4 DEF MissingEdges
<1>6. \A s \in FlowSeams(g) : s.to = n => s \in tok
  BY <1>4 DEF MissingSeams
<1>7. \A d \in Before(g) : /\ d[1] \in StepTasks(g) /\ d[2] \in StepTasks(g)
                           /\ v[<<d[2], i>>] <= v[<<d[1], i>>]
  BY BeforeFacts DEF StepTasks, Ordered
<1>8. ASSUME NEW d \in Before(g), d[2] = t
      PROVE  v[<<d[1], i>>] = next /\ v[n] = end
  <2>1. << <<d[1], i>>, n>> \in FlowEdges(g)
    BY <1>8, FlowIs
  <2>2. v[<<d[1], i>>] > v[n]
    BY <1>5, <2>1
  <2>3. v[<<d[1], i>>] \in {end, next} /\ v[n] \in {end, next}
    <3>1. d[1] \in StepTasks(g)
      BY <1>7
    <3> QED BY <1>3, <3>1
  <2> HIDE DEF end, next
  <2> QED BY <1>2, <2>2, <2>3
<1>9. v[n] = end
  <2>1. CASE t \in Tasks(g)
    <3>1. PICK d \in Before(g) : d[2] = t
      BY <2>1, BeforeFacts
    <3> QED BY <1>8, <3>1
  <2>2. CASE t = TimeStepStart
    <3> DEFINE s == Seam(<<TimeStepEnd, i>>, n, i)
    <3>1. s.from = <<TimeStepEnd, i>> /\ s.to = n
      BY DEF Seam
    <3>2. s \in FlowSeams(g)
      BY <2>2, FlowIs
    <3>3. end >= v[n]
      BY <1>6, <3>1, <3>2 DEF Counted
    <3> HIDE DEF end, next
    <3> QED BY <1>2, <1>3, <3>3
  <2> QED BY <2>1, <2>2 DEF StepTasks
<1>10. ASSUME NEW d \in Before(g), d[1] = t
       PROVE  v[<<d[2], i>>] = v[n]
  <2> HIDE DEF end, next
  <2> QED BY <1>2, <1>3, <1>7, <1>9, <1>10
<1>11. ASSUME NEW u \in Tasks(g), v[<<u, i>>] = next
       PROVE  v[<<TimeStepStart, i>>] = next
  <2>1. v[<<u, i>>] <= v[<<TimeStepStart, i>>]
    BY DEF Ordered
  <2> HIDE DEF end, next
  <2> QED BY <1>1, <1>2, <1>3, <1>11, <2>1
<1>12. ASSUME t \in Tasks(g)
       PROVE  v[<<TimeStepStart, i>>] = next
  <2>1. PICK d \in Before(g) : d[2] = t
    BY <1>12, BeforeFacts
  <2>2. d[1] \in Tasks(g) \cup {TimeStepStart}
    BY BeforeFacts
  <2> QED BY <1>8, <1>11, <2>1, <2>2
<1>13. ASSUME t = TimeStepEnd
       PROVE  \A u \in Tasks(g) \cup {TimeStepStart} : v[<<u, i>>] = next
  <2> DEFINE S == {u \in Tasks(g) : v[<<u, i>>] = end}
  <2>1. ASSUME S # {}
        PROVE  FALSE
    <3>1. PICK d \in Before(g) : d[1] \in S /\ d[2] \notin S
      BY <2>1, BeforeFacts
    <3>2. v[<<d[1], i>>] = end
      BY <3>1
    <3>3. d[2] # TimeStepEnd
      BY <1>2, <1>8, <1>13, <3>2
    <3>4. d[2] \in Tasks(g)
      BY <3>3, BeforeFacts
    <3>5. v[<<d[2], i>>] = next
      BY <1>1, <1>3, <3>1, <3>4
    <3>6. v[<<d[2], i>>] <= v[<<d[1], i>>]
      BY <1>7
    <3> HIDE DEF end, next
    <3> QED BY <1>2, <3>2, <3>5, <3>6
  <2>2. \A u \in Tasks(g) : v[<<u, i>>] = next
    BY <1>1, <1>3, <2>1
  <2>3. PICK u \in Tasks(g) : TRUE
    BY TaskFacts
  <2>4. v[<<TimeStepStart, i>>] = next
    BY <1>11, <2>2, <2>3
  <2> QED BY <2>2, <2>4
<1>14. ASSUME t \in Rings(g)
       PROVE  \E b \in Nat : Rounds([k \in Steps |-> v[<<t, k>>]], b, i)
  <2> DEFINE f == [k \in Steps |-> v[<<t, k>>]]
  <2>1. f \in [Steps -> Nat]
    BY <1>1
  <2>2. PICK b \in Nat, k \in Steps : Rounds(f, b, k)
    BY <1>14 DEF Ordered, InTurn
  <2>3. /\ \A x \in Steps : x # 0 => (f[x - 1] > f[x] <=> x = k)
        /\ f[LastStep] >= f[0] => k = 0
    BY <2>1, <2>2, RoundsTurn
  <2>4. CASE i # 0
    <3>1. i - 1 \in Steps /\ i - 1 # LastStep /\ (i - 1) + 1 = i
      BY <2>4, StepsType DEF Steps, LastStep
    <3>2. << <<t, i - 1>>, n>> \in FlowEdges(g)
      BY <1>14, <3>1, FlowIs
    <3>3. v[<<t, i - 1>>] > v[n]
      BY <1>5, <3>2
    <3>4. f[i - 1] > f[i]
      BY <3>1, <3>3
    <3> QED BY <2>2, <2>3, <2>4, <3>4
  <2>5. CASE i = 0
    <3> DEFINE s == Seam(<<t, LastStep>>, <<t, 0>>, 0)
    <3>1. s.from = <<t, LastStep>> /\ s.to = <<t, 0>>
      BY DEF Seam
    <3>2. s \in FlowSeams(g)
      BY <1>14, FlowIs
    <3>3. v[<<t, LastStep>>] >= v[<<t, 0>>]
      BY <1>6, <2>5, <3>1, <3>2 DEF Counted
    <3>4. f[LastStep] >= f[0]
      BY <3>3, StepsType
    <3> QED BY <2>2, <2>3, <2>5, <3>4
  <2> QED BY <2>4, <2>5
<1> QED BY <1>5, <1>6, <1>8, <1>9, <1>10, <1>12, <1>13, <1>14 DEF WhenDue

\* In time step i the serial task t handles the next event: w is v after that.
TurnPassed(v, w, t, i) ==
  /\ InTurn([k \in Steps |-> w[<<t, k>>]])
  /\ i # LastStep => v[<<t, i>>] <= v[<<t, i + 1>>] /\ w[<<t, i>>] > v[<<t, i + 1>>]
  /\ i # 0 => w[<<t, i>>] > v[<<t, i - 1>>]
  /\ i = LastStep => w[<<t, LastStep>>] >= w[<<t, 0>>]
  /\ v[<<t, LastStep>>] >= v[<<t, 0>>] => i = 0

\* When a serial task has handled the next event of its time step, it is the turn
\* of the next time step.
LEMMA RingAfter ==
  ASSUME WellBuilt, NEW g, NEW v, NEW tok, NEW count, NEW open, NEW t, NEW i,
         DueState(g, v, tok, count, open, t, i), t \in Rings(g),
         NEW w, w = [v EXCEPT ![<<t, i>>] = NextOf(v, i)]
  PROVE  TurnPassed(v, w, t, i)
<1> DEFINE f == [k \in Steps |-> v[<<t, k>>]]
           h == [k \in Steps |-> w[<<t, k>>]]
<1>0. Runnable(g) /\ v \in [Nodes(g) -> Nat] /\ i \in Steps
  BY DEF DueState
<1>1. Nodes(g) = StepTasks(g) \X Steps /\ t \in StepTasks(g) /\ TimeStepEnd \in StepTasks(g)
  BY <1>0, FlowIs DEF StepTasks
<1>2. NextOf(v, i) \in Nat
  BY <1>0, <1>1, FollowingType DEF NextOf
<1>3. w \in [Nodes(g) -> Nat]
  BY <1>0, <1>2
<1>4. f \in [Steps -> Nat] /\ h \in [Steps -> Nat]
  BY <1>0, <1>1, <1>3
<1>5. /\ \A k \in Steps : f[k] = v[<<t, k>>] /\ h[k] = w[<<t, k>>]
      /\ w[<<t, i>>] = NextOf(v, i)
      /\ \A k \in Steps \ {i} : w[<<t, k>>] = v[<<t, k>>]
  BY <1>0, <1>1
<1>6. v[<<t, i>>] = v[<<TimeStepEnd, i>>] /\ \E b \in Nat : Rounds(f, b, i)
  <2>1. WhenDue(g, v, tok, t, i)
    BY DueFacts
  <2> QED BY <2>1 DEF WhenDue
<1>7. PICK b \in Nat : Rounds(f, b, i)
  BY <1>6
<1> HIDE DEF f, h
<1>8. h[i] = FollowingEvent(f[i], i) /\ \A k \in Steps \ {i} : h[k] = f[k]
  BY <1>0, <1>5, <1>6 DEF NextOf
<1>9. /\ i # LastStep => Rounds(h, b, i + 1) /\ h[i] > f[i + 1]
      /\ i = LastStep => Rounds(h, b + TimeStepCount, 0)
      /\ i # 0 => h[i] > f[i - 1]
      /\ h[LastStep] >= h[0] \/ i # LastStep
  BY <1>0, <1>4, <1>7, <1>8, RoundsNext
<1>10. /\ f[LastStep] >= f[0] => i = 0
       /\ i # LastStep => f[i] <= f[i + 1]
  BY <1>0, <1>4, <1>7, RoundsTurn
<1>11. /\ 0 \in Steps /\ LastStep \in Steps
       /\ i # LastStep => i + 1 \in Steps
       /\ i # 0 => i - 1 \in Steps
       /\ b + TimeStepCount \in Nat
  BY <1>0, StepsType DEF Steps, LastStep
<1>12. InTurn(h)
  <2>1. CASE i = LastStep
    BY <1>9, <1>11, <2>1 DEF InTurn
  <2>2. CASE i # LastStep
    BY <1>9, <1>11, <2>2 DEF InTurn
  <2> QED BY <2>1, <2>2
<1>13. InTurn([k \in Steps |-> w[<<t, k>>]])
  BY <1>12 DEF h
<1>14. ASSUME i # LastStep
       PROVE  v[<<t, i>>] <= v[<<t, i + 1>>] /\ w[<<t, i>>] > v[<<t, i + 1>>]
  BY <1>0, <1>5, <1>9, <1>10, <1>11, <1>14
<1>15. ASSUME i # 0
       PROVE  w[<<t, i>>] > v[<<t, i - 1>>]
  BY <1>0, <1>5, <1>9, <1>11, <1>15
<1>16. i = LastStep => w[<<t, LastStep>>] >= w[<<t, 0>>]
  BY <1>5, <1>9, <1>11
<1>17. v[<<t, LastStep>>] >= v[<<t, 0>>] => i = 0
  BY <1>5, <1>10, <1>11
<1> QED BY <1>13, <1>14, <1>15, <1>16, <1>17 DEF TurnPassed

\* The order is kept when a node that is due is executed.
LEMMA OrderedAfter ==
  ASSUME WellBuilt, NEW g, NEW v, NEW tok, NEW count, NEW open, NEW t, NEW i,
         DueState(g, v, tok, count, open, t, i),
         NEW w, w = [v EXCEPT ![<<t, i>>] = NextOf(v, i)]
  PROVE  w \in [Nodes(g) -> Nat] /\ Ordered(g, w)
<1> DEFINE n == <<t, i>>
           next == NextOf(v, i)
           end == v[<<TimeStepEnd, i>>]
<1>0. /\ Runnable(g) /\ v \in [Nodes(g) -> Nat] /\ Ordered(g, v)
      /\ t \in StepTasks(g) /\ i \in Steps
  BY DEF DueState
<1>d. /\ v[n] = end
      /\ \A d \in Before(g) : d[2] = t => v[<<d[1], i>>] = next
      /\ \A d \in Before(g) : d[1] = t => v[<<d[2], i>>] = v[n]
      /\ t \in Tasks(g) => v[<<TimeStepStart, i>>] = next
      /\ t = TimeStepEnd => \A u \in Tasks(g) \cup {TimeStepStart} : v[<<u, i>>] = next
  <2>1. WhenDue(g, v, tok, t, i)
    BY DueFacts
  <2> QED BY <2>1 DEF WhenDue
<1>1. /\ Nodes(g) = StepTasks(g) \X Steps /\ n \in Nodes(g)
      /\ TimeStepEnd \in StepTasks(g) /\ TimeStepStart \in StepTasks(g)
      /\ Tasks(g) \subseteq StepTasks(g) /\ Rings(g) \subseteq StepTasks(g)
      /\ TimeStepEnd \notin Tasks(g) /\ TimeStepStart \notin Tasks(g)
      /\ TimeStepEnd # TimeStepStart
  <2>1. TimeStepEnd \notin Tasks(g) /\ TimeStepStart \notin Tasks(g)
    BY <1>0, TaskFacts
  <2>2. TimeStepEnd # TimeStepStart
    BY DEF TimeStepEnd, TimeStepStart
  <2> QED BY <1>0, <2>1, <2>2, FlowIs DEF StepTasks
<1>2. next \in Nat /\ end \in Nat /\ next > end /\ v[n] = end
  BY <1>0, <1>1, <1>d, FollowingType DEF NextOf
<1>3. w \in [Nodes(g) -> Nat] /\ w[n] = next /\ \A m \in Nodes(g) \ {n} : w[m] = v[m]
  BY <1>0, <1>1, <1>2
<1>4. \A u \in StepTasks(g), k \in Steps :
        /\ <<u, k>> \in Nodes(g)
        /\ <<u, k>> = n <=> u = t /\ k = i
        /\ v[<<u, k>>] \in {v[<<TimeStepEnd, k>>], NextOf(v, k)}
  BY <1>0, <1>1 DEF Ordered
<1>5. ASSUME NEW r \in Rings(g)
      PROVE  InTurn([k \in Steps |-> w[<<r, k>>]])
  <2>1. CASE r = t
    <3>1. TurnPassed(v, w, t, i)
      BY <2>1, RingAfter
    <3> QED BY <2>1, <3>1 DEF TurnPassed
  <2>2. CASE r # t
    <3>1. \A k \in Steps : w[<<r, k>>] = v[<<r, k>>]
      BY <1>1, <1>3, <1>4, <2>2
    <3>2. [k \in Steps |-> w[<<r, k>>]] = [k \in Steps |-> v[<<r, k>>]]
      BY <3>1
    <3> QED BY <1>0, <3>2 DEF Ordered
  <2> QED BY <2>1, <2>2
<1>6. t = TimeStepEnd => \A u \in Tasks(g) \cup {TimeStepStart} : v[<<u, i>>] = next
  BY <1>d
<1>7. ASSUME NEW u \in StepTasks(g), NEW k \in Steps
      PROVE  w[<<u, k>>] \in {w[<<TimeStepEnd, k>>], NextOf(w, k)}
  <2>1. CASE k # i
    <3>1. w[<<TimeStepEnd, k>>] = v[<<TimeStepEnd, k>>] /\ w[<<u, k>>] = v[<<u, k>>]
      BY <1>1, <1>3, <1>4, <2>1
    <3> QED BY <1>4, <3>1 DEF NextOf
  <2>2. CASE k = i /\ t # TimeStepEnd
    <3>1. w[<<TimeStepEnd, k>>] = v[<<TimeStepEnd, k>>]
      BY <1>1, <1>3, <1>4, <2>2
    <3>2. w[<<u, k>>] = v[<<u, k>>] \/ w[<<u, k>>] = NextOf(v, k)
      BY <1>3, <1>4, <2>2
    <3> QED BY <1>4, <3>1, <3>2 DEF NextOf
  <2>3. CASE k = i /\ t = TimeStepEnd
    <3>1. w[<<TimeStepEnd, k>>] = next
      BY <1>3, <2>3
    <3>2. CASE u = TimeStepEnd
      BY <3>2
    <3>3. CASE u # TimeStepEnd
      <4>1. v[<<u, i>>] = next /\ <<u, i>> # n
        BY <1>6, <2>3, <3>3 DEF StepTasks
      <4> QED BY <1>3, <1>4, <2>3, <3>1, <4>1
    <3> QED BY <3>2, <3>3
  <2> QED BY <2>1, <2>2, <2>3
<1>8. ASSUME NEW k \in Steps, NEW d \in Before(g)
      PROVE  w[<<d[2], k>>] <= w[<<d[1], k>>]
  <2>1. d[1] \in StepTasks(g) /\ d[2] \in StepTasks(g) /\ d[1] # d[2]
    BY <1>0, BeforeFacts DEF StepTasks
  <2>2. v[<<d[2], k>>] <= v[<<d[1], k>>]
    BY <1>0 DEF Ordered
  <2>3. CASE <<d[1], k>> = n
    <3>1. v[<<d[2], k>>] = end
      BY <1>2, <1>4, <1>d, <2>1, <2>3
    <3>2. w[<<d[2], k>>] = end /\ w[<<d[1], k>>] = next
      BY <1>3, <1>4, <2>1, <2>3, <3>1
    <3> HIDE DEF end, next
    <3> QED BY <1>2, <3>2
  <2>4. CASE <<d[2], k>> = n
    <3>1. d[2] = t /\ k = i
      BY <1>4, <2>1, <2>4
    <3>2. v[<<d[1], k>>] = next
      BY <1>d, <3>1
    <3>3. w[<<d[1], k>>] = next /\ w[<<d[2], k>>] = next
      BY <1>3, <1>4, <2>1, <2>4, <3>2
    <3> HIDE DEF end, next
    <3> QED BY <1>2, <3>3
  <2>5. CASE <<d[1], k>> # n /\ <<d[2], k>> # n
    BY <1>3, <1>4, <2>1, <2>2, <2>5
  <2> QED BY <2>3, <2>4, <2>5
<1>9. ASSUME NEW k \in Steps, NEW u \in Tasks(g)
      PROVE  w[<<u, k>>] <= w[<<TimeStepStart, k>>]
  <2>1. v[<<u, k>>] <= v[<<TimeStepStart, k>>]
    BY <1>0 DEF Ordered
  <2>2. v[<<u, k>>] \in Nat /\ v[<<TimeStepStart, k>>] \in Nat
    <3>1. <<u, k>> \in Nodes(g) /\ <<TimeStepStart, k>> \in Nodes(g)
      BY <1>1, <1>4
    <3> QED BY <1>0, <3>1
  <2>3. CASE <<u, k>> = n
    <3>1. u = t /\ k = i
      BY <1>1, <1>4, <2>3
    <3>2. v[<<TimeStepStart, k>>] = next
      BY <1>d, <3>1
    <3>3. w[<<TimeStepStart, k>>] = next /\ w[<<u, k>>] = next
      BY <1>1, <1>3, <1>4, <2>3, <3>1, <3>2
    <3> HIDE DEF end, next
    <3> QED BY <1>2, <3>3
  <2>4. CASE <<TimeStepStart, k>> = n
    <3>1. TimeStepStart = t /\ k = i
      BY <1>1, <1>4, <2>4
    <3>2. w[<<u, k>>] = v[<<u, k>>] /\ w[<<TimeStepStart, k>>] = next
      BY <1>1, <1>3, <1>4, <3>1
    <3>3. v[<<u, k>>] \in {end, next}
      BY <1>1, <1>4, <3>1
    <3> HIDE DEF end, next
    <3> QED BY <1>2, <3>2, <3>3
  <2>5. CASE <<u, k>> # n /\ <<TimeStepStart, k>> # n
    BY <1>1, <1>3, <1>4, <2>1, <2>5
  <2> QED BY <2>3, <2>4, <2>5
<1>10. \A m \in Nodes(g) : w[m] \in {w[<<TimeStepEnd, m[2]>>], NextOf(w, m[2])}
  <2> TAKE m \in Nodes(g)
  <2>1. PICK u \in StepTasks(g), k \in Steps : m = <<u, k>>
    BY <1>1
  <2>2. m[2] = k
    BY <2>1
  <2> QED BY <1>7, <2>1, <2>2
<1> QED BY <1>3, <1>5, <1>8, <1>9, <1>10 DEF Ordered

\* Of edge e when node n is executed: n has not handled more than a successor
\* before, and has handled more afterwards; its predecessors have not.
EdgePassed(g, v, w, n, e) ==
  /\ e = <<e[1], e[2]>> /\ e[1] \in Nodes(g) /\ e[2] \in Nodes(g) /\ e[1] # e[2]
  /\ e[1] = n => ~(v[e[1]] > v[e[2]]) /\ w[e[1]] > w[e[2]]
  /\ e[2] = n => ~(w[e[1]] > w[e[2]])

\* EdgePassed holds of all edges.
LEMMA EdgesAfter ==
  ASSUME WellBuilt, NEW g, NEW v, NEW tok, NEW count, NEW open, NEW t, NEW i,
         DueState(g, v, tok, count, open, t, i),
         NEW w, w = [v EXCEPT ![<<t, i>>] = NextOf(v, i)], NEW e \in FlowEdges(g)
  PROVE  EdgePassed(g, v, w, <<t, i>>, e)
<1> DEFINE n == <<t, i>>
           next == NextOf(v, i)
           end == v[<<TimeStepEnd, i>>]
<1>1. /\ Runnable(g) /\ v \in [Nodes(g) -> Nat] /\ Ordered(g, v)
      /\ t \in StepTasks(g) /\ i \in Steps
  BY DEF DueState
<1>2. /\ Nodes(g) = StepTasks(g) \X Steps /\ Rings(g) \subseteq StepTasks(g)
      /\ TimeStepEnd \in StepTasks(g)
  BY <1>1, FlowIs DEF StepTasks
<1>3. WhenDue(g, v, tok, t, i)
  BY DueFacts
<1>4. next \in Nat /\ end \in Nat /\ next > end /\ v[n] = end /\ n \in Nodes(g)
  BY <1>1, <1>2, <1>3, FollowingType DEF NextOf, WhenDue
<1>5. w \in [Nodes(g) -> Nat] /\ w[n] = next /\ \A m \in Nodes(g) \ {n} : w[m] = v[m]
  BY <1>1, <1>4
<1>6. CASE \E d \in Before(g), k \in Steps : e = << <<d[1], k>>, <<d[2], k>> >>
  <2>1. PICK d \in Before(g), k \in Steps : e = << <<d[1], k>>, <<d[2], k>> >>
    BY <1>6
  <2>2. d[1] \in StepTasks(g) /\ d[2] \in StepTasks(g) /\ d[1] # d[2]
    BY <1>1, BeforeFacts DEF StepTasks
  <2>3. /\ e = <<e[1], e[2]>> /\ e[1] \in Nodes(g) /\ e[2] \in Nodes(g) /\ e[1] # e[2]
        /\ e[1] = <<d[1], k>> /\ e[2] = <<d[2], k>>
    BY <1>2, <2>1, <2>2
  <2>4. ASSUME e[1] = n
        PROVE  ~(v[e[1]] > v[e[2]]) /\ w[e[1]] > w[e[2]]
    <3>1. d[1] = t /\ k = i
      BY <2>3, <2>4
    <3>2. v[e[2]] = end
      BY <1>3, <1>4, <2>3, <3>1 DEF WhenDue
    <3>3. w[e[2]] = end /\ w[e[1]] = next /\ v[e[1]] = end
      BY <1>4, <1>5, <2>3, <2>4, <3>2
    <3> HIDE DEF end, next
    <3> QED BY <1>4, <3>2, <3>3
  <2>5. ASSUME e[2] = n
        PROVE  ~(w[e[1]] > w[e[2]])
    <3>1. d[2] = t /\ k = i
      BY <2>3, <2>5
    <3>2. v[e[1]] = next
      BY <1>3, <2>3, <3>1 DEF WhenDue
    <3>3. w[e[1]] = next /\ w[e[2]] = next
      BY <1>5, <2>3, <2>5, <3>2
    <3> HIDE DEF end, next
    <3> QED BY <1>4, <3>3
  <2> QED BY <2>3, <2>4, <2>5 DEF EdgePassed
<1>7. CASE \E r \in Rings(g), k \in Steps :
             k # LastStep /\ e = << <<r, k>>, <<r, k + 1>> >>
  <2>1. PICK r \in Rings(g), k \in Steps : k # LastStep /\ e = << <<r, k>>, <<r, k + 1>> >>
    BY <1>7
  <2>2. k + 1 \in Steps /\ k + 1 # k /\ k + 1 # 0 /\ (k + 1) - 1 = k
    BY <2>1, StepsType DEF Steps, LastStep
  <2>3. /\ e = <<e[1], e[2]>> /\ e[1] \in Nodes(g) /\ e[2] \in Nodes(g) /\ e[1] # e[2]
        /\ e[1] = <<r, k>> /\ e[2] = <<r, k + 1>>
    BY <1>2, <2>1, <2>2
  <2>4. ASSUME e[1] = n
        PROVE  ~(v[e[1]] > v[e[2]]) /\ w[e[1]] > w[e[2]]
    <3>1. r = t /\ k = i
      BY <2>3, <2>4
    <3>2. TurnPassed(v, w, t, i)
      BY <3>1, RingAfter
    <3>3. v[e[1]] <= v[e[2]] /\ w[e[1]] > v[e[2]]
      BY <2>1, <2>3, <3>1, <3>2 DEF TurnPassed
    <3>4. w[e[2]] = v[e[2]] /\ v[e[1]] \in Nat /\ v[e[2]] \in Nat
      BY <1>1, <1>5, <2>3, <2>4
    <3> QED BY <3>3, <3>4
  <2>5. ASSUME e[2] = n
        PROVE  ~(w[e[1]] > w[e[2]])
    <3>1. r = t /\ k + 1 = i
      BY <2>3, <2>5
    <3>2. TurnPassed(v, w, t, i)
      BY <3>1, RingAfter
    <3>3. w[e[2]] > v[e[1]]
      BY <2>2, <2>3, <3>1, <3>2 DEF TurnPassed
    <3>4. w[e[1]] = v[e[1]] /\ w[e[2]] \in Nat /\ v[e[1]] \in Nat
      BY <1>1, <1>5, <2>3, <2>5
    <3> QED BY <3>3, <3>4
  <2> QED BY <2>3, <2>4, <2>5 DEF EdgePassed
<1> QED BY <1>1, <1>6, <1>7, FlowIs DEF EdgePassed

\* Of a seam that node n enters when it ends: it was not entered before, since
\* the flow went on, unless the seam leads back to the node itself.
SeamPassed(v, w, n, s) ==
  /\ v[s.from] >= v[s.to] => s.to = n
  /\ w[s.from] >= w[s.to]

\* SeamPassed holds of all seams that leave a node.
LEMMA SeamsAfter ==
  ASSUME WellBuilt, NEW g, NEW v, NEW tok, NEW count, NEW open, NEW t, NEW i,
         DueState(g, v, tok, count, open, t, i),
         NEW w, w = [v EXCEPT ![<<t, i>>] = NextOf(v, i)],
         NEW s \in FlowSeams(g), s.from = <<t, i>>
  PROVE  SeamPassed(v, w, <<t, i>>, s)
<1> DEFINE n == <<t, i>>
           next == NextOf(v, i)
           end == v[<<TimeStepEnd, i>>]
<1>1. /\ Runnable(g) /\ v \in [Nodes(g) -> Nat] /\ Ordered(g, v)
      /\ t \in StepTasks(g) /\ i \in Steps
  BY DEF DueState
<1>2. /\ Nodes(g) = StepTasks(g) \X Steps /\ Rings(g) \subseteq StepTasks(g)
      /\ TimeStepEnd \in StepTasks(g) /\ TimeStepStart \in StepTasks(g)
  BY <1>1, FlowIs DEF StepTasks
<1>3. WhenDue(g, v, tok, t, i)
  BY DueFacts
<1>4. next \in Nat /\ end \in Nat /\ next > end /\ v[n] = end /\ n \in Nodes(g)
  BY <1>1, <1>2, <1>3, FollowingType DEF NextOf, WhenDue
<1>5. w \in [Nodes(g) -> Nat] /\ w[n] = next /\ \A m \in Nodes(g) \ {n} : w[m] = v[m]
  BY <1>1, <1>4
<1>6. CASE \E k \in Steps : s = Seam(<<TimeStepEnd, k>>, <<TimeStepStart, k>>, k)
  <2>1. s.to = <<TimeStepStart, i>> /\ t = TimeStepEnd
    BY <1>6 DEF Seam
  <2>2. v[s.to] = next /\ s.to \in Nodes(g) /\ s.to # n
    BY <1>1, <1>2, <1>3, <2>1 DEF WhenDue, TimeStepStart, TimeStepEnd
  <2>3. w[s.to] = next
    BY <1>5, <2>2
  <2> HIDE DEF end, next
  <2> QED BY <1>4, <1>5, <2>2, <2>3 DEF SeamPassed
<1>7. CASE \E r \in Rings(g) : s = Seam(<<r, LastStep>>, <<r, 0>>, 0)
  <2>1. s.to = <<t, 0>> /\ t \in Rings(g) /\ i = LastStep
    BY <1>7 DEF Seam
  <2>2. TurnPassed(v, w, t, i)
    BY <2>1, RingAfter
  <2> QED BY <1>2, <2>1, <2>2, StepsType DEF TurnPassed, SeamPassed
<1>8. \/ \E k \in Steps : s = Seam(<<TimeStepEnd, k>>, <<TimeStepStart, k>>, k)
      \/ \E r \in Rings(g) : s = Seam(<<r, LastStep>>, <<r, 0>>, 0)
  <2>1. Runnable(g) /\ s \in FlowSeams(g)
    BY <1>1
  <2> HIDE DEF n, end, next
  <2>2. \A x : x \in FlowSeams(g) <=>
              \/ \E k \in Steps : x = Seam(<<TimeStepEnd, k>>, <<TimeStepStart, k>>, k)
              \/ \E r \in Rings(g) : x = Seam(<<r, LastStep>>, <<r, 0>>, 0)
    BY <2>1, FlowIs, Zenon
  <2> QED BY <2>1, <2>2
<1> QED BY <1>6, <1>7, <1>8

\* A seam leads from node to node.
LEMMA SeamNodes ==
  ASSUME WellBuilt, NEW g, Runnable(g), NEW s \in FlowSeams(g)
  PROVE  s.from \in Nodes(g) /\ s.to \in Nodes(g)
<1>1. /\ Nodes(g) = StepTasks(g) \X Steps /\ Rings(g) \subseteq StepTasks(g)
      /\ TimeStepEnd \in StepTasks(g) /\ TimeStepStart \in StepTasks(g)
      /\ 0 \in Steps /\ LastStep \in Steps
  BY FlowIs, StepsType DEF StepTasks
<1>2. \A x : x \in FlowSeams(g) <=>
          \/ \E k \in Steps : x = Seam(<<TimeStepEnd, k>>, <<TimeStepStart, k>>, k)
          \/ \E r \in Rings(g) : x = Seam(<<r, LastStep>>, <<r, 0>>, 0)
  BY FlowIs, Zenon
<1> QED BY <1>1, <1>2 DEF Seam

\* What the library does with the counters and the seams when node n has ended.
Ended(g, n, count, count2, open, open2) ==
  /\ \A m \in Nodes(g) :
       count2[m] = IF m = n THEN StrongDependents(FlowEdges(g), FlowSeams(g), n)
                   ELSE count[m] - (IF <<n, m>> \in FlowEdges(g) THEN 1 ELSE 0)
  /\ open2 = open \cup {s \in FlowSeams(g) : s.from = n}

\* The counters stay what they stand for when a node that is due is executed.
LEMMA CountedAfter ==
  ASSUME WellBuilt, NEW g, NEW v, NEW tok, NEW count, NEW open, NEW t, NEW i,
         DueState(g, v, tok, count, open, t, i),
         NEW w, w = [v EXCEPT ![<<t, i>>] = NextOf(v, i)],
         NEW tok2, tok2 = {s \in tok : s.to # <<t, i>>},
         NEW count2, NEW open2, Ended(g, <<t, i>>, count, count2, open, open2)
  PROVE  Counted(g, w, tok2, count2, open2)
<1> DEFINE n == <<t, i>>
           next == NextOf(v, i)
<1> USE DEF Ended
<1>1. /\ Runnable(g) /\ v \in [Nodes(g) -> Nat] /\ tok \subseteq FlowSeams(g)
      /\ Counted(g, v, tok, count, open)
      /\ t \in StepTasks(g) /\ i \in Steps
  BY DEF DueState
<1>2. WhenDue(g, v, tok, t, i)
  BY DueFacts
<1>3. n \in Nodes(g) /\ next \in Nat /\ next > v[n] /\ v[n] \in Nat
  <2>1. n \in Nodes(g) /\ <<TimeStepEnd, i>> \in Nodes(g)
    BY <1>1, FlowIs DEF StepTasks
  <2> QED BY <1>1, <1>2, <2>1, FollowingType DEF NextOf, WhenDue
<1>4. w \in [Nodes(g) -> Nat] /\ w[n] = next /\ \A m \in Nodes(g) \ {n} : w[m] = v[m]
  BY <1>1, <1>3
<1>5. \A e \in FlowEdges(g) :
         /\ e = <<e[1], e[2]>> /\ e[1] \in Nodes(g) /\ e[2] \in Nodes(g) /\ e[1] # e[2]
         /\ e[1] = n => ~(v[e[1]] > v[e[2]]) /\ w[e[1]] > w[e[2]]
         /\ e[2] = n => ~(w[e[1]] > w[e[2]])
  <2>1. \A e \in FlowEdges(g) : EdgePassed(g, v, w, <<t, i>>, e)
    BY EdgesAfter
  <2> QED BY <2>1 DEF EdgePassed
<1>6. \A s \in FlowSeams(g) : s.from = n =>
         /\ v[s.from] >= v[s.to] => s.to = n
         /\ w[s.from] >= w[s.to]
  <2>1. \A s \in FlowSeams(g) : s.from = <<t, i>> => SeamPassed(v, w, <<t, i>>, s)
    BY SeamsAfter
  <2> QED BY <2>1 DEF SeamPassed
<1>7. \A s \in FlowSeams(g) : s.from \in Nodes(g) /\ s.to \in Nodes(g)
  BY <1>1, SeamNodes
<1>8. \A s \in FlowSeams(g) : s.to = n => s \in tok
  BY <1>2 DEF WhenDue
<1>9. /\ open \subseteq FlowSeams(g) /\ open \cap tok = {}
      /\ \A s \in open \cup tok : v[s.from] >= v[s.to]
      /\ \A m \in Nodes(g) :
           count[m] = Cardinality(MissingEdges(g, v, m)) + Cardinality(MissingSeams(g, tok, m))
  BY <1>1 DEF Counted
<1> HIDE DEF next
<1>10. open2 \cap tok2 = {}
  <2>1. ASSUME NEW s \in tok2, s \in open2
        PROVE  FALSE
    <3>1. s \in FlowSeams(g) /\ s \in tok /\ s.to # n /\ s \notin open /\ s.from = n
      BY <1>1, <1>9, <2>1
    <3>2. v[s.from] >= v[s.to]
      BY <1>9, <3>1
    <3> QED BY <1>6, <3>1, <3>2
  <2> QED BY <2>1
<1>11. ASSUME NEW s \in open2 \cup tok2
       PROVE  w[s.from] >= w[s.to]
  <2>1. s \in FlowSeams(g)
    BY <1>1, <1>9
  <2>2. CASE s.from = n
    BY <1>6, <2>1, <2>2
  <2>3. CASE s.from # n
    <3>1. s \in open \cup tok /\ s.to # n
      BY <1>8, <1>9, <2>1, <2>3
    <3>2. w[s.from] = v[s.from] /\ w[s.to] = v[s.to]
      BY <1>4, <1>7, <2>1, <2>3, <3>1
    <3> QED BY <1>9, <3>1, <3>2
  <2> QED BY <2>2, <2>3
<1>12. ASSUME NEW m \in Nodes(g)
       PROVE  count2[m] = Cardinality(MissingEdges(g, w, m))
                            + Cardinality(MissingSeams(g, tok2, m))
  <2>1. CASE m = n
    <3>1. MissingEdges(g, w, n) = {e \in FlowEdges(g) : e[2] = n}
      BY <1>5 DEF MissingEdges
    <3>2. MissingSeams(g, tok2, n) = {s \in FlowSeams(g) : s.to = n}
      BY DEF MissingSeams
    <3> QED BY <2>1, <3>1, <3>2 DEF StrongDependents
  <2>2. CASE m # n
    <3>1. MissingSeams(g, tok2, m) = MissingSeams(g, tok, m)
      BY <2>2 DEF MissingSeams
    <3>2. w[m] = v[m] /\ v[m] \in Nat
      BY <1>1, <1>4, <2>2
    <3>3. ASSUME NEW e \in FlowEdges(g), e[2] = m, e[1] # n
          PROVE  w[e[1]] = v[e[1]]
      BY <1>4, <1>5, <3>3
    <3>4. MissingEdges(g, w, m) = MissingEdges(g, v, m) \ {<<n, m>>}
      <4>1. ASSUME NEW e \in FlowEdges(g), e[2] = m
            PROVE  ~(w[e[1]] > w[m]) <=> ~(v[e[1]] > v[m]) /\ e # <<n, m>>
        <5>1. CASE e[1] = n
          <6>1. e = <<n, m>>
            BY <1>5, <4>1, <5>1
          <6> QED BY <1>5, <4>1, <5>1, <6>1
        <5>2. CASE e[1] # n
          BY <3>2, <3>3, <4>1, <5>2
        <5> QED BY <5>1, <5>2
      <4> QED BY <4>1 DEF MissingEdges
    <3>5. <<n, m>> \in FlowEdges(g) <=> <<n, m>> \in MissingEdges(g, v, m)
      <4>1. ASSUME <<n, m>> \in FlowEdges(g)
            PROVE  <<n, m>> \in MissingEdges(g, v, m)
        <5> DEFINE e == <<n, m>>
        <5>1. e[1] = n /\ e[2] = m
          OBVIOUS
        <5>2. ~(v[e[1]] > v[e[2]])
          BY <1>5, <4>1, <5>1
        <5> QED BY <4>1, <5>1, <5>2 DEF MissingEdges
      <4> QED BY <4>1 DEF MissingEdges
    <3>6. IsFiniteSet(MissingEdges(g, v, m)) /\ IsFiniteSet(MissingSeams(g, tok, m))
      BY <1>1, FlowFinite, FS_Subset DEF MissingEdges, MissingSeams
    <3>7. Cardinality(MissingEdges(g, w, m))
            = Cardinality(MissingEdges(g, v, m))
                - (IF <<n, m>> \in FlowEdges(g) THEN 1 ELSE 0)
      <4>1. Cardinality(MissingEdges(g, v, m) \ {<<n, m>>})
              = IF <<n, m>> \in MissingEdges(g, v, m)
                THEN Cardinality(MissingEdges(g, v, m)) - 1
                ELSE Cardinality(MissingEdges(g, v, m))
        BY <3>6, FS_RemoveElement
      <4>2. Cardinality(MissingEdges(g, v, m)) \in Nat
        BY <3>6, FS_CardinalityType
      <4> DEFINE A == MissingEdges(g, v, m)
                 B == MissingEdges(g, w, m)
                 x == <<n, m>>
      <4>3. B = A \ {x} /\ (x \in FlowEdges(g) <=> x \in A)
        BY <3>4, <3>5
      <4>4. Cardinality(B) = IF x \in A THEN Cardinality(A) - 1 ELSE Cardinality(A)
        BY <4>1, <4>3
      <4>5. Cardinality(A) \in Nat
        BY <4>2
      <4> HIDE DEF A, B, x
      <4>6. Cardinality(B) = Cardinality(A) - (IF x \in FlowEdges(g) THEN 1 ELSE 0)
        BY <4>3, <4>4, <4>5
      <4> QED BY <4>6 DEF A, B, x
    <3>8. Cardinality(MissingEdges(g, v, m)) \in Nat /\ Cardinality(MissingSeams(g, tok, m)) \in Nat
      BY <3>6, FS_CardinalityType
    <3>9. count[m] = Cardinality(MissingEdges(g, v, m)) + Cardinality(MissingSeams(g, tok, m))
      BY <1>9
    <3>10. count2[m] = count[m] - (IF <<n, m>> \in FlowEdges(g) THEN 1 ELSE 0)
      BY <2>2
    <3> QED BY <3>1, <3>7, <3>8, <3>9, <3>10
  <2> QED BY <2>1, <2>2
<1>13. open2 \subseteq FlowSeams(g)
  BY <1>9
<1> QED BY <1>10, <1>11, <1>12, <1>13 DEF Counted

\* The counters of the nodes are numbers.
LEMMA CountedType ==
  ASSUME WellBuilt, NEW g, Runnable(g), NEW v, NEW tok, NEW count, NEW open,
         Counted(g, v, tok, count, open)
  PROVE  \A n \in Nodes(g) : count[n] \in Nat
<1> SUFFICES ASSUME NEW n \in Nodes(g)
             PROVE  count[n] \in Nat
  OBVIOUS
<1> DEFINE A == MissingEdges(g, v, n)
           B == MissingSeams(g, tok, n)
<1>1. count[n] = Cardinality(A) + Cardinality(B)
  BY DEF Counted
<1>2. IsFiniteSet(A) /\ IsFiniteSet(B)
  BY FlowFinite, FS_Subset DEF MissingEdges, MissingSeams
<1>3. Cardinality(A) \in Nat /\ Cardinality(B) \in Nat
  BY <1>2, FS_CardinalityType
<1> QED BY <1>1, <1>3

\* A node that is released once more has waited for it: its counter was above
\* zero.
LEMMA EntryAfter ==
  ASSUME WellBuilt, NEW g, Runnable(g), NEW v, NEW tok \in SUBSET FlowSeams(g),
         NEW count, NEW open, Counted(g, v, tok, count, open), NEW s \in open,
         NEW count2, DOMAIN count = Nodes(g),
         count2 = [count EXCEPT ![s.to] = @ - 1]
  PROVE  Counted(g, v, tok \cup {s}, count2, open \ {s})
<1> DEFINE tok2 == tok \cup {s}
           n == s.to
<1>1. /\ open \subseteq FlowSeams(g) /\ open \cap tok = {}
      /\ \A r \in open \cup tok : v[r.from] >= v[r.to]
      /\ \A m \in Nodes(g) :
           count[m] = Cardinality(MissingEdges(g, v, m)) + Cardinality(MissingSeams(g, tok, m))
  BY DEF Counted
<1>2. s \in FlowSeams(g) /\ s \notin tok /\ n \in Nodes(g)
  BY <1>1, SeamNodes
<1>3. ASSUME NEW m \in Nodes(g)
      PROVE  count2[m] = Cardinality(MissingEdges(g, v, m))
                           + Cardinality(MissingSeams(g, tok2, m))
  <2> DEFINE A == Cardinality(MissingEdges(g, v, m))
             M == MissingSeams(g, tok, m)
             M2 == MissingSeams(g, tok2, m)
  <2>1. IsFiniteSet(MissingEdges(g, v, m)) /\ IsFiniteSet(M)
    BY FlowFinite, FS_Subset DEF MissingEdges, MissingSeams
  <2>2. A \in Nat /\ Cardinality(M) \in Nat
    BY <2>1, FS_CardinalityType
  <2>3. count[m] = A + Cardinality(M)
    BY <1>1
  <2>4. CASE m = n
    <3>1. M2 = M \ {s} /\ s \in M
      BY <1>2, <2>4 DEF MissingSeams
    <3>2. Cardinality(M \ {s}) = IF s \in M THEN Cardinality(M) - 1 ELSE Cardinality(M)
      BY <2>1, FS_RemoveElement
    <3>3. Cardinality(M2) = Cardinality(M) - 1
      BY <3>1, <3>2
    <3>4. count2[m] = count[m] - 1
      BY <2>4
    <3> HIDE DEF M, M2
    <3>5. count2[m] = A + Cardinality(M2)
      <4> HIDE DEF A
      <4> QED BY <2>2, <2>3, <3>3, <3>4
    <3> QED BY <3>5 DEF M2
  <2>5. CASE m # n
    <3>1. M2 = M
      BY <1>2, <2>5 DEF MissingSeams
    <3>2. count2[m] = count[m]
      BY <2>5
    <3> QED BY <2>3, <3>1, <3>2
  <2> QED BY <2>4, <2>5
<1>4. /\ open \ {s} \subseteq FlowSeams(g) /\ (open \ {s}) \cap tok2 = {}
      /\ \A r \in (open \ {s}) \cup tok2 : v[r.from] >= v[r.to]
  BY <1>1
<1> QED BY <1>3, <1>4 DEF Counted

-----------------------------------------------------------------------------
(* Every step keeps the invariant. *)

\* v in terms of the state: the start of a time step may run before the event is
\* loaded; a time step is free when its end has handled the event, and then all
\* its tasks have.
Current(v) ==
  /\ \A n \in Nodes(graph) : n[1] # TimeStepStart => ran[n] = v[n]
  /\ \A i \in busy : event[i] = NextOf(v, i)
  /\ \A i \in Steps \ busy :
       /\ event[i] = v[<<TimeStepEnd, i>>]
       /\ \A t \in Tasks(graph) : v[<<t, i>>] = event[i]
       /\ fed[i] = {} /\ valid[i] = {}

Reached(v, tok) ==
  /\ v \in [Nodes(graph) -> Nat] /\ tok \in SUBSET FlowSeams(graph)
  /\ Ordered(graph, v) /\ Counted(graph, v, tok, joins, entered) /\ Current(v)

\* The events that are loaded take the time steps in turn, from the first one.
EventsInTurn == \E q \in Nat, k \in Steps : Rounds(event, q * TimeStepCount, k)

\* The values of a dataflow that runs.
RunTypes ==
  /\ joins \in [Nodes(graph) -> Nat]
  /\ waiting \subseteq Nodes(graph)
  /\ event \in [Steps -> 0..LastEvent]
  /\ busy \subseteq Steps
  /\ fed \in [Steps -> SUBSET graph.patterns]
  /\ valid \in [Steps -> SUBSET Producers]
  /\ ran \in [Nodes(graph) -> 0..LastEvent]

Executing ==
  /\ Runnable(graph) /\ flow = Flow(graph)
  /\ RunTypes /\ EventsInTurn
  /\ \E v, tok : Reached(v, tok)

\* The values of a dataflow that has not been started.
NotStarted ==
  /\ flow = NoFlow /\ joins = <<>> /\ entered = {} /\ waiting = {}
  /\ event = [i \in Steps |-> 0] /\ busy = {} /\ fed = [i \in Steps |-> {}]
  /\ valid = [i \in Steps |-> {}] /\ ran = <<>>

FlowInv ==
  /\ GoodGraph(graph)
  /\ phase \in {"edit", "loaded", "running"}
  /\ phase # "edit" =>
       checkRunnable(graph) /\ (SyncSources(graph) # {} => AsyncSources(graph) # {})
  /\ phase # "running" => NotStarted
  /\ phase = "running" => Executing
  /\ FreshData

\* The tasks of the nodes.
LEMMA NodeNames ==
  ASSUME WellBuilt, Runnable(graph), NEW n \in Nodes(graph)
  PROVE  /\ n[1] \in StepTasks(graph) /\ n[2] \in Steps /\ n = <<n[1], n[2]>>
         /\ n[1] \in Tasks(graph) \/ n[1] = TimeStepStart \/ n[1] = TimeStepEnd
BY FlowIs DEF StepTasks

\* A node is due in the sense of DueState.
LEMMA DueNodeState ==
  ASSUME WellBuilt, Runnable(graph), RunTypes, NEW v, NEW tok, Reached(v, tok),
         NEW n \in DueNodes
  PROVE  /\ n \in Nodes(graph)
         /\ DueState(graph, v, tok, joins, entered, n[1], n[2])
<1>1. n \in Nodes(graph) /\ joins[n] = 0
  BY DEF DueNodes, AllNodes, RunTypes
<1> QED BY <1>1, NodeNames DEF DueState, Reached

\* When a node is due that waits for a task, or for a source that was fed, its
\* time step has an event.
LEMMA DueIsBusy ==
  ASSUME WellBuilt, Runnable(graph), RunTypes, NEW v, NEW tok, Reached(v, tok),
         NEW n \in DueNodes, n[1] # TimeStepStart,
         IsSource(n) => fed[n[2]] # {}
  PROVE  n[2] \in busy /\ event[n[2]] = NextOf(v, n[2])
<1> DEFINE t == n[1]
           i == n[2]
<1>1. /\ n \in Nodes(graph) /\ WhenDue(graph, v, tok, t, i)
  BY DueNodeState, DueFacts
<1>2. /\ t \in StepTasks(graph) /\ i \in Steps
      /\ t \in Tasks(graph) \/ t = TimeStepEnd
  BY <1>1, NodeNames
<1>3. NextOf(v, i) # v[<<TimeStepEnd, i>>]
  <2>1. <<TimeStepEnd, i>> \in Nodes(graph)
    BY <1>2, FlowIs DEF StepTasks
  <2>2. v[<<TimeStepEnd, i>>] \in Nat
    BY <2>1 DEF Reached
  <2>3. FollowingEvent(v[<<TimeStepEnd, i>>], i) > v[<<TimeStepEnd, i>>]
    BY <1>2, <2>2, FollowingType
  <2> QED BY <2>2, <2>3 DEF NextOf
<1>4. ASSUME NEW u \in Tasks(graph), v[<<u, i>>] = NextOf(v, i)
      PROVE  i \in busy
  BY <1>2, <1>3, <1>4 DEF Reached, Current
<1>5. i \in busy
  <2>1. CASE t = TimeStepEnd
    <3>1. PICK d \in Before(graph) : d[1] \in Tasks(graph) /\ d[2] = TimeStepEnd
      BY BeforeFacts
    <3>2. v[<<d[1], i>>] = NextOf(v, i)
      BY <1>1, <2>1, <3>1 DEF WhenDue
    <3> QED BY <1>4, <3>1, <3>2
  <2>2. CASE t \in Tasks(graph) /\ IsSource(n)
    BY <1>2, <2>2 DEF Reached, Current
  <2>3. CASE t \in Tasks(graph) /\ ~IsSource(n)
    <3>1. PICK d \in Before(graph) : d[1] \in Tasks(graph) /\ d[2] = t
      BY <2>3, BeforeFacts DEF IsSource
    <3>2. v[<<d[1], i>>] = NextOf(v, i)
      BY <1>1, <3>1 DEF WhenDue
    <3> QED BY <1>4, <3>1, <3>2
  <2> QED BY <1>2, <2>1, <2>2, <2>3
<1> QED BY <1>5 DEF Reached, Current

\* The next nodes and the counters of the library.
LEMMA FlowFields ==
  ASSUME WellBuilt, NEW g, Runnable(g), NEW n \in Nodes(g)
  PROVE  /\ Flow(g).seams = FlowSeams(g)
         /\ Flow(g).strong[n] = StrongDependents(FlowEdges(g), FlowSeams(g), n)
         /\ \A m : m \in Flow(g).next[n] <=> <<n, m>> \in FlowEdges(g)
<1>1. Flow(g).seams = FlowSeams(g)
  BY DEF Flow
<1>2. Flow(g).strong[n] = StrongDependents(FlowEdges(g), FlowSeams(g), n)
  BY DEF Flow
<1>3. Flow(g).next[n] = {e[2] : e \in {f \in FlowEdges(g) : f[1] = n}}
  BY DEF Flow
<1>4. \A e \in FlowEdges(g) : e = <<e[1], e[2]>>
  BY FlowIs
<1>5. ASSUME NEW m
      PROVE  m \in Flow(g).next[n] <=> <<n, m>> \in FlowEdges(g)
  <2>1. ASSUME m \in Flow(g).next[n]
        PROVE  <<n, m>> \in FlowEdges(g)
    <3>1. PICK e \in FlowEdges(g) : e[1] = n /\ e[2] = m
      BY <1>3, <2>1
    <3> QED BY <1>4, <3>1
  <2>2. ASSUME <<n, m>> \in FlowEdges(g)
        PROVE  m \in Flow(g).next[n]
    <3>1. <<n, m>>[1] = n /\ <<n, m>>[2] = m
      OBVIOUS
    <3> QED BY <1>3, <2>2, <3>1
  <2> QED BY <2>1, <2>2
<1> QED BY <1>1, <1>2, <1>5

\* A node that is due and executed handles the event of its time step: the
\* counters, the seams and the order stay as the invariant says.
LEMMA NodeStep ==
  ASSUME WellBuilt, Runnable(graph), flow = Flow(graph), RunTypes,
         NEW v, NEW tok, Reached(v, tok),
         NEW n \in DueNodes, n[1] # TimeStepStart => n[2] \in busy,
         Finish(n), ran' = [ran EXCEPT ![n] = event[n[2]]],
         busy' = IF n[1] = TimeStepEnd THEN busy \ {n[2]} ELSE busy,
         \A i \in Steps \ busy : fed'[i] = {} /\ valid'[i] = {},
         n[1] = TimeStepEnd => fed'[n[2]] = {} /\ valid'[n[2]] = {},
         graph' = graph, event' = event
  PROVE  /\ \E w, tok2 : Reached(w, tok2)'
         /\ joins' \in [Nodes(graph) -> Nat]
         /\ ran' \in [Nodes(graph) -> 0..LastEvent]
<1> DEFINE t == n[1]
           i == n[2]
           w == [v EXCEPT ![n] = NextOf(v, i)]
           tok2 == {s \in tok : s.to # n}
<1>1. /\ n \in Nodes(graph) /\ n = <<t, i>> /\ t \in StepTasks(graph) /\ i \in Steps
      /\ DueState(graph, v, tok, joins, entered, t, i)
  BY DueNodeState, NodeNames
<1>2. WhenDue(graph, v, tok, t, i)
  BY <1>1, DueFacts
<1>3. w \in [Nodes(graph) -> Nat] /\ Ordered(graph, w)
  <2>1. w = [v EXCEPT ![<<t, i>>] = NextOf(v, i)]
    BY <1>1
  <2> HIDE DEF w, t, i
  <2> QED BY <1>1, <2>1, OrderedAfter
<1>4. v \in [Nodes(graph) -> Nat] /\ tok2 \in SUBSET FlowSeams(graph)
  BY DEF Reached
<1>5. Counted(graph, w, tok2, joins', entered')
  <2>1. AllNodes = Nodes(graph)
    BY DEF AllNodes, RunTypes
  <2>2. Ended(graph, <<t, i>>, joins, joins', entered, entered')
    BY <1>1, <2>1, FlowFields DEF Finish, Ended
  <2>3. w = [v EXCEPT ![<<t, i>>] = NextOf(v, i)] /\ tok2 = {s \in tok : s.to # <<t, i>>}
    BY <1>1
  <2> HIDE DEF w, tok2, t, i
  <2> QED BY <1>1, <2>2, <2>3, CountedAfter
<1>6. joins' \in [Nodes(graph) -> Nat]
  <2>1. \A m \in Nodes(graph) : joins'[m] \in Nat
    BY <1>5, CountedType
  <2>2. \E f : joins' = [m \in Nodes(graph) |-> f[m]]
    <3>1. AllNodes = Nodes(graph)
      BY DEF AllNodes, RunTypes
    <3>2. joins' = [m \in Nodes(graph) |-> joins'[m]]
      BY <3>1 DEF Finish
    <3> QED BY <3>2
  <2> QED BY <2>1, <2>2
<1>7. ran' \in [Nodes(graph) -> 0..LastEvent]
  BY <1>1 DEF RunTypes
<1>8. w[n] = NextOf(v, i) /\ \A m \in Nodes(graph) \ {n} : w[m] = v[m]
  BY <1>1, <1>4
<1>9. ran'[n] = event[i] /\ \A m \in Nodes(graph) \ {n} : ran'[m] = ran[m]
  BY <1>1 DEF RunTypes
<1>10. t # TimeStepStart => event[i] = NextOf(v, i)
  BY DEF Reached, Current
<1> HIDE DEF w, tok2
<1>11. \A m \in Nodes(graph) : m[1] # TimeStepStart => ran'[m] = w[m]
  BY <1>8, <1>9, <1>10 DEF Reached, Current
<1>12. /\ \A u \in StepTasks(graph), k \in Steps : <<u, k>> \in Nodes(graph)
       /\ TimeStepEnd \in StepTasks(graph) /\ Tasks(graph) \subseteq StepTasks(graph)
       /\ TimeStepEnd # TimeStepStart
       /\ TimeStepStart \notin Tasks(graph) /\ TimeStepEnd \notin Tasks(graph)
  BY FlowIs, TaskFacts DEF StepTasks, TimeStepEnd, TimeStepStart
<1>13. ASSUME NEW k \in busy'
       PROVE  event[k] = NextOf(w, k)
  <2>1. k \in busy /\ k \in Steps /\ <<TimeStepEnd, k>> # n
    BY <1>1, <1>13 DEF RunTypes
  <2>2. w[<<TimeStepEnd, k>>] = v[<<TimeStepEnd, k>>]
    BY <1>8, <1>12, <2>1
  <2> QED BY <2>1, <2>2 DEF NextOf, Reached, Current
<1>14. ASSUME NEW k \in Steps \ busy'
       PROVE  /\ event[k] = w[<<TimeStepEnd, k>>]
              /\ \A u \in Tasks(graph) : w[<<u, k>>] = event[k]
              /\ fed'[k] = {} /\ valid'[k] = {}
  <2>1. CASE k \notin busy
    <3>1. k # i \/ t = TimeStepStart
      BY <2>1
    <3>2. /\ event[k] = v[<<TimeStepEnd, k>>]
          /\ \A u \in Tasks(graph) : v[<<u, k>>] = event[k]
      BY <2>1 DEF Reached, Current
    <3>3. \A u \in Tasks(graph) \cup {TimeStepEnd} : <<u, k>> # n
      BY <1>1, <1>12, <3>1
    <3>4. \A u \in Tasks(graph) \cup {TimeStepEnd} : w[<<u, k>>] = v[<<u, k>>]
      BY <1>8, <1>12, <3>3
    <3> QED BY <2>1, <3>2, <3>4
  <2>2. CASE k \in busy
    <3>1. k = i /\ t = TimeStepEnd
      BY <2>2
    <3>2. \A u \in Tasks(graph) : v[<<u, i>>] = NextOf(v, i)
      BY <1>2, <3>1 DEF WhenDue
    <3>3. \A u \in Tasks(graph) : <<u, k>> # n
      BY <1>1, <1>12, <3>1
    <3>4. \A u \in Tasks(graph) : w[<<u, k>>] = v[<<u, k>>]
      BY <1>8, <1>12, <3>3
    <3>5. w[<<TimeStepEnd, k>>] = NextOf(v, i)
      BY <1>1, <1>8, <3>1
    <3> QED BY <1>10, <1>12, <3>1, <3>2, <3>4, <3>5
  <2> QED BY <2>1, <2>2
<1>15. Current(w)'
  BY <1>11, <1>13, <1>14 DEF Current, NextOf
<1>16. Reached(w, tok2)'
  BY <1>3, <1>4, <1>5, <1>15 DEF Reached
<1> QED BY <1>6, <1>7, <1>16

\* Of the nodes that are executed only those of components make ports VALID; all
\* other steps of nodes leave the events, and the sources that were fed, alone.
LEMMA FreshStep ==
  ASSUME WellBuilt, Runnable(graph), RunTypes, FreshData, NEW n \in Nodes(graph),
         graph' = graph, event' = event, busy' = busy, fed' = fed,
         ran' = [ran EXCEPT ![n] = event[n[2]]],
         \A i \in Steps : \A q \in valid'[i] :
           \/ q \in valid[i]
           \/ /\ i = n[2] /\ i \in busy /\ n = <<Component(q.of), i>>
              /\ getComponentType[q.of] \notin SourceTypes
  PROVE  FreshData'
<1> SUFFICES ASSUME NEW i \in Steps, NEW q \in valid'[i]
             PROVE  /\ i \in busy
                    /\ IF getComponentType[q.of] \in SourceTypes THEN q.of \in fed[i]
                       ELSE ran'[<<Component(q.of), i>>] = event[i]
  BY DEF FreshData
<1>1. n[2] \in Steps /\ ran'[n] = event[n[2]] /\ \A m \in Nodes(graph) \ {n} : ran'[m] = ran[m]
  BY NodeNames DEF RunTypes
<1>2. ran \in [Nodes(graph) -> 0..LastEvent]
  BY DEF RunTypes
<1> DEFINE m == <<Component(q.of), i>>
<1>3. m[2] = i
  OBVIOUS
<1>4. CASE q \in valid[i]
  <2>1. /\ i \in busy
        /\ IF getComponentType[q.of] \in SourceTypes THEN q.of \in fed[i]
           ELSE ran[m] = event[i]
    BY <1>4 DEF FreshData
  <2>2. CASE m = n
    BY <1>1, <1>3, <2>1, <2>2
  <2>3. CASE m # n
    <3>1. ran'[m] = ran[m]
      BY <2>3, <1>2
    <3> QED BY <2>1, <3>1
  <2> QED BY <2>2, <2>3
<1>5. CASE ~(q \in valid[i])
  BY <1>1, <1>5
<1> QED BY <1>4, <1>5

\* Every kind of node that is executed keeps the invariant.
LEMMA NodesKeep ==
  ASSUME WellBuilt, Executing, FreshData, RunNode
  PROVE  Executing' /\ FreshData'
<1>1. Runnable(graph) /\ flow = Flow(graph) /\ RunTypes /\ EventsInTurn
  BY DEF Executing
<1>2. PICK v, tok : Reached(v, tok)
  BY DEF Executing
<1>3. PICK n \in DueNodes :
        WaitForSource(n) \/ RunSource(n) \/ RunComponent(n) \/ RunCudaGraph(n)
          \/ RunOther(n) \/ RunTimeStepEnd(n)
  BY DEF RunNode
<1>4. n \in Nodes(graph) /\ n[2] \in Steps /\ n = <<n[1], n[2]>>
  BY <1>1, <1>2, DueNodeState, NodeNames
<1>5. /\ graph' = graph /\ flow' = flow /\ event' = event
  BY <1>3 DEF WaitForSource, RunSource, RunComponent, RunCudaGraph, RunOther, RunTimeStepEnd
<1>6. \A i \in Steps \ busy : fed[i] = {} /\ valid[i] = {}
  BY <1>2 DEF Reached, Current
<1>7. ~IsComponent(TimeStepEnd) /\ ~isCudaGraph(TimeStepEnd) /\ TimeStepEnd # TimeStepStart
      /\ ~IsComponent(TimeStepStart) /\ ~isCudaGraph(TimeStepStart)
  BY DEF IsComponent, isCudaGraph, TimeStepEnd, TimeStepStart
<1>8. RunTypes /\ waiting \subseteq Nodes(graph) /\ busy \subseteq Steps
      /\ fed \in [Steps -> SUBSET graph.patterns] /\ valid \in [Steps -> SUBSET Producers]
  BY <1>1 DEF RunTypes
<1>9. ASSUME NEW w, NEW tok2, Reached(w, tok2)', RunTypes'
       PROVE  Executing'
  BY <1>1, <1>5, <1>9 DEF Executing, EventsInTurn
<1>10. CASE WaitForSource(n)
  <2>1. /\ UNCHANGED <<graph, phase, flow, joins, entered, event, busy, fed, valid, ran>>
        /\ waiting' = waiting \cup {n}
    BY <1>10 DEF WaitForSource
  <2>2. Reached(v, tok)'
    BY <1>2, <2>1 DEF Reached, Current, NextOf
  <2>3. RunTypes'
    BY <1>1, <1>4, <2>1 DEF RunTypes
  <2>4. FreshData'
    BY <2>1 DEF FreshData
  <2> QED BY <1>9, <2>2, <2>3, <2>4
<1>11. CASE RunSource(n)
  <2>1. /\ UNCHANGED <<graph, phase, flow, event, busy, fed, valid>>
        /\ waiting' = waiting \ {n} /\ Finish(n) /\ IsSource(n)
        /\ ran' = [ran EXCEPT ![n] = event[n[2]]] /\ fed[n[2]] # {}
    BY <1>11 DEF RunSource
  <2>2. n[1] # TimeStepStart /\ n[1] # TimeStepEnd
    BY <1>7, <2>1 DEF IsSource
  <2>3. n[2] \in busy
    BY <1>1, <1>2, <2>1, <2>2, DueIsBusy
  <2>4. /\ \E w, tok2 : Reached(w, tok2)'
        /\ joins' \in [Nodes(graph) -> Nat]
        /\ ran' \in [Nodes(graph) -> 0..LastEvent]
    BY <1>1, <1>2, <1>6, <2>1, <2>2, <2>3, NodeStep
  <2>5. RunTypes'
    BY <1>1, <2>1, <2>4 DEF RunTypes
  <2>6. FreshData'
    BY <1>1, <1>4, <2>1, FreshStep
  <2> QED BY <1>9, <2>4, <2>5, <2>6
<1>12. CASE RunComponent(n)
  <2> DEFINE p == n[1][2]
             i == n[2]
  <2>1. /\ UNCHANGED <<graph, phase, flow, waiting, event, busy, fed>>
        /\ Finish(n) /\ ~IsSource(n) /\ IsComponent(n[1])
        /\ ran' = [ran EXCEPT ![n] = event[n[2]]]
        /\ \E out \in ProcessTimePoint(p, i) : valid' = [valid EXCEPT ![i] = @ \cup out]
    BY <1>12 DEF RunComponent
  <2>2. n[1] # TimeStepStart /\ n[1] # TimeStepEnd
    BY <1>7, <2>1
  <2>3. n[2] \in busy
    BY <1>1, <1>2, <2>1, <2>2, DueIsBusy
  <2>4. PICK out \in ProcessTimePoint(p, i) : valid' = [valid EXCEPT ![i] = @ \cup out]
    BY <2>1
  <2>5. \A q \in out : q \in Producers /\ q.of = p
    BY DEF ProcessTimePoint, Outputs, OwnPorts, Ports, Producers
  <2>6. /\ valid' \in [Steps -> SUBSET Producers]
        /\ \A k \in Steps : k # i => valid'[k] = valid[k]
        /\ valid'[i] = valid[i] \cup out
    BY <1>4, <1>8, <2>4, <2>5
  <2>7. \A k \in Steps \ busy : fed'[k] = {} /\ valid'[k] = {}
    BY <1>6, <2>1, <2>3, <2>6
  <2>8. /\ \E w, tok2 : Reached(w, tok2)'
        /\ joins' \in [Nodes(graph) -> Nat]
        /\ ran' \in [Nodes(graph) -> 0..LastEvent]
    BY <1>1, <1>2, <2>1, <2>2, <2>3, <2>7, NodeStep
  <2>9. RunTypes'
    BY <1>1, <2>1, <2>6, <2>8 DEF RunTypes
  <2>10. n[1] = Component(p) /\ getComponentType[p] \notin SourceTypes
    <3>1. n[1] \in Tasks(graph)
      BY <1>1, <1>4, <2>2, NodeNames
    <3> QED BY <1>1, <2>1, <3>1, TaskFacts DEF IsSource
  <2>11. \A k \in Steps : \A q \in valid'[k] :
           \/ q \in valid[k]
           \/ /\ k = n[2] /\ k \in busy /\ n = <<Component(q.of), k>>
              /\ getComponentType[q.of] \notin SourceTypes
    BY <1>4, <2>3, <2>5, <2>6, <2>10
  <2>12. FreshData'
    BY <1>1, <1>4, <2>1, <2>11, FreshStep
  <2> QED BY <1>9, <2>8, <2>9, <2>12
<1>13. CASE RunCudaGraph(n) \/ RunOther(n)
  <2>1. /\ UNCHANGED <<graph, phase, flow, waiting, event, busy, fed, valid>>
        /\ Finish(n) /\ ~IsComponent(n[1]) /\ n[1] # TimeStepEnd
        /\ ran' = [ran EXCEPT ![n] = event[n[2]]]
    BY <1>7, <1>13, Zenon DEF RunCudaGraph, RunOther, IsComponent, isCudaGraph
  <2>2. n[1] # TimeStepStart => n[2] \in busy
    BY <1>1, <1>2, <2>1, DueIsBusy DEF IsSource
  <2>3. /\ \E w, tok2 : Reached(w, tok2)'
        /\ joins' \in [Nodes(graph) -> Nat]
        /\ ran' \in [Nodes(graph) -> 0..LastEvent]
    BY <1>1, <1>2, <1>6, <2>1, <2>2, NodeStep
  <2>4. RunTypes'
    BY <1>1, <2>1, <2>3 DEF RunTypes
  <2>5. FreshData'
    BY <1>1, <1>4, <2>1, FreshStep
  <2> QED BY <1>9, <2>3, <2>4, <2>5
<1>14. CASE RunTimeStepEnd(n)
  <2> DEFINE i == n[2]
  <2>1. /\ UNCHANGED <<graph, phase, flow, waiting, event>>
        /\ Finish(n) /\ n[1] = TimeStepEnd
        /\ ran' = [ran EXCEPT ![n] = event[n[2]]]
        /\ fed' = [fed EXCEPT ![i] = {}] /\ valid' = [valid EXCEPT ![i] = {}]
        /\ busy' = busy \ {i}
    BY <1>14 DEF RunTimeStepEnd, freeTimeStep, resetNewEvent
  <2>2. n[2] \in busy /\ n[1] # TimeStepStart
    BY <1>1, <1>2, <1>7, <2>1, DueIsBusy DEF IsSource
  <2>3. /\ fed'[i] = {} /\ valid'[i] = {}
        /\ \A k \in Steps \ {i} : fed'[k] = fed[k] /\ valid'[k] = valid[k]
        /\ fed' \in [Steps -> SUBSET graph.patterns] /\ valid' \in [Steps -> SUBSET Producers]
    BY <1>4, <1>8, <2>1
  <2>4. \A k \in Steps \ busy : fed'[k] = {} /\ valid'[k] = {}
    BY <1>6, <2>2, <2>3
  <2>5. /\ \E w, tok2 : Reached(w, tok2)'
        /\ joins' \in [Nodes(graph) -> Nat]
        /\ ran' \in [Nodes(graph) -> 0..LastEvent]
    BY <1>1, <1>2, <2>1, <2>2, <2>3, <2>4, NodeStep
  <2>6. RunTypes'
    BY <1>1, <2>1, <2>3, <2>5 DEF RunTypes
  <2>7. ASSUME NEW k \in Steps, NEW q \in valid'[k]
        PROVE  /\ k \in busy'
               /\ IF getComponentType[q.of] \in SourceTypes THEN q.of \in fed'[k]
                  ELSE ran'[<<Component(q.of), k>>] = event[k]
    <3>1. k # i /\ q \in valid[k]
      BY <2>3, <2>7
    <3>2. <<Component(q.of), k>> # n
      BY <2>1, TaskNames
    <3>3. ran'[<<Component(q.of), k>>] = ran[<<Component(q.of), k>>]
      BY <1>1, <2>1, <3>2 DEF RunTypes
    <3> QED BY <2>1, <2>3, <3>1, <3>3 DEF FreshData
  <2>8. FreshData'
    BY <2>1, <2>7 DEF FreshData
  <2> QED BY <1>9, <2>5, <2>6, <2>8
<1> QED BY <1>3, <1>10, <1>11, <1>12, <1>13, <1>14

\* A seam that lets the flow pass, or ends it, keeps the invariant.
LEMMA SeamsKeep ==
  ASSUME WellBuilt, Executing, FreshData, NEW s \in flow.seams, SeamEntry(s)
  PROVE  Executing' /\ FreshData'
<1>1. Runnable(graph) /\ flow = Flow(graph) /\ RunTypes /\ EventsInTurn
  BY DEF Executing
<1>2. PICK v, tok : Reached(v, tok)
  BY DEF Executing
<1>3. /\ UNCHANGED <<graph, phase, flow, waiting, event, busy, fed, valid, ran>>
      /\ s \in entered /\ entered' = entered \ {s}
      /\ joins' = joins \/ joins' = [joins EXCEPT ![s.to] = @ - 1]
  BY DEF SeamEntry
<1>4. FreshData'
  BY <1>3 DEF FreshData
<1>5. /\ v \in [Nodes(graph) -> Nat] /\ tok \in SUBSET FlowSeams(graph)
      /\ Ordered(graph, v) /\ Counted(graph, v, tok, joins, entered) /\ Current(v)
  BY <1>2 DEF Reached
<1>6. DOMAIN joins = Nodes(graph) /\ s \in FlowSeams(graph) /\ s.to \in Nodes(graph)
  BY <1>1, <1>3, <1>5, SeamNodes DEF RunTypes, Counted
<1>7. Current(v)'
  BY <1>3, <1>5 DEF Current, NextOf
<1>8. ASSUME NEW tok2, tok2 \in SUBSET FlowSeams(graph),
             Counted(graph, v, tok2, joins', entered'), DOMAIN joins' = Nodes(graph),
             \E f : joins' = [n \in Nodes(graph) |-> f[n]]
      PROVE  Executing'
  <2>1. \A n \in Nodes(graph) : joins'[n] \in Nat
    BY <1>1, <1>8, CountedType
  <2>2. joins' \in [Nodes(graph) -> Nat]
    BY <1>8, <2>1
  <2>3. RunTypes'
    BY <1>1, <1>3, <2>2 DEF RunTypes
  <2>4. Reached(v, tok2)'
    BY <1>3, <1>5, <1>7, <1>8 DEF Reached
  <2> QED BY <1>1, <1>3, <2>3, <2>4 DEF Executing, EventsInTurn
<1>9. CASE joins' = joins
  <2>1. Counted(graph, v, tok, joins', entered')
    BY <1>3, <1>5, <1>9 DEF Counted
  <2>2. \E f : joins' = [n \in Nodes(graph) |-> f[n]]
    BY <1>1, <1>9 DEF RunTypes
  <2> QED BY <1>4, <1>5, <1>6, <1>8, <1>9, <2>1, <2>2
<1>10. CASE joins' = [joins EXCEPT ![s.to] = @ - 1]
  <2>1. Counted(graph, v, tok \cup {s}, joins', entered')
    BY <1>1, <1>3, <1>5, <1>6, <1>10, EntryAfter
  <2>2. DOMAIN joins' = Nodes(graph)
    BY <1>6, <1>10
  <2>3. joins' = [n \in Nodes(graph) |-> joins'[n]]
    BY <1>6, <1>10
  <2>4. tok \cup {s} \in SUBSET FlowSeams(graph)
    BY <1>5, <1>6
  <2> QED BY <1>4, <1>8, <2>1, <2>2, <2>3, <2>4
<1> QED BY <1>3, <1>4, <1>9, <1>10

\* The event that is loaded is the next one of its time step.
LEMMA LoadKeeps ==
  ASSUME WellBuilt, Executing, FreshData, LoadEvent
  PROVE  Executing' /\ FreshData'
<1>1. Runnable(graph) /\ flow = Flow(graph) /\ RunTypes /\ EventsInTurn
  BY DEF Executing
<1>2. PICK v, tok : Reached(v, tok)
  BY DEF Executing
<1>3. PICK q \in Nat, k \in Steps : Rounds(event, q * TimeStepCount, k)
  BY <1>1 DEF EventsInTurn
<1> DEFINE b == q * TimeStepCount
<1>4. /\ b \in Nat /\ (b + k) % TimeStepCount = k
      /\ (q + 1) * TimeStepCount = b + TimeStepCount /\ q + 1 \in Nat
  BY RoundsModulo
<1> HIDE DEF b
<1>5. event \in [Steps -> 0..LastEvent] /\ event \in [Steps -> Nat] /\ LastEvent \in Nat
  <2>1. LastEvent \in Nat
    BY RingAssumption DEF LastEvent, Teardown
  <2> QED BY <1>1, <2>1 DEF RunTypes
<1>6. Rounds(event, b, k)
  BY <1>3 DEF b
<1>7. Loaded = b + k
  BY <1>4, <1>5, <1>6, RoundsLast DEF Loaded
<1>8. /\ UNCHANGED <<graph, phase, flow, joins, entered, waiting, valid, ran>>
      /\ k \notin busy /\ busy' = busy \cup {k}
      /\ b + k + 1 <= LastEvent /\ event' = [event EXCEPT ![k] = b + k + 1]
      /\ \/ fed' = [fed EXCEPT ![k] = {}]
         \/ fed' = [fed EXCEPT ![k] = Sources(graph)]
  BY <1>4, <1>7 DEF LoadEvent
<1>9. b + k + 1 = FollowingEvent(event[k], k)
  BY <1>4, <1>5, <1>6, StepsType DEF Rounds, FollowingEvent
<1>10. event' \in [Steps -> 0..LastEvent] /\ event' \in [Steps -> Nat]
  BY <1>4, <1>5, <1>8, StepsType
<1>11. event'[k] = b + k + 1 /\ \A i \in Steps \ {k} : event'[i] = event[i]
  BY <1>5, <1>8
<1>12. EventsInTurn'
  <2>1. /\ k # LastStep => Rounds(event', b, k + 1)
        /\ k = LastStep => Rounds(event', b + TimeStepCount, 0)
    BY <1>4, <1>5, <1>6, <1>9, <1>10, <1>11, RoundsNext
  <2>2. CASE k # LastStep
    <3>1. k + 1 \in Steps
      BY <2>2, StepsType DEF Steps, LastStep
    <3>2. \E r \in Nat, j \in Steps : Rounds(event', r * TimeStepCount, j)
      BY <2>1, <2>2, <3>1 DEF b
    <3> QED BY <3>2 DEF EventsInTurn, Rounds
  <2>3. CASE k = LastStep
    <3>1. \E r \in Nat, j \in Steps : Rounds(event', r * TimeStepCount, j)
      BY <1>4, <2>1, <2>3, StepsType
    <3> QED BY <3>1 DEF EventsInTurn, Rounds
  <2> QED BY <2>2, <2>3
<1>13. /\ \A n \in Nodes(graph) : n[1] # TimeStepStart => ran[n] = v[n]
       /\ \A i \in busy : event[i] = NextOf(v, i)
       /\ \A i \in Steps \ busy :
            /\ event[i] = v[<<TimeStepEnd, i>>]
            /\ \A t \in Tasks(graph) : v[<<t, i>>] = event[i]
            /\ fed[i] = {} /\ valid[i] = {}
  BY <1>2 DEF Reached, Current
<1>14. busy \subseteq Steps /\ fed \in [Steps -> SUBSET graph.patterns]
  BY <1>1 DEF RunTypes
<1>15. \A i \in Steps \ {k} : fed'[i] = fed[i]
  BY <1>8, <1>14
<1>16. Reached(v, tok)'
  <2>1. event'[k] = NextOf(v, k)
    BY <1>8, <1>9, <1>11, <1>13 DEF NextOf
  <2>2. \A i \in busy' : event'[i] = NextOf(v, i)
    BY <1>8, <1>11, <1>13, <1>14, <2>1
  <2>3. \A i \in Steps \ busy' : i # k /\ i \notin busy
    BY <1>8
  <2>4. Current(v)'
    BY <1>8, <1>11, <1>13, <1>15, <2>2, <2>3 DEF Current, NextOf
  <2> QED BY <1>2, <1>8, <2>4 DEF Reached
<1>17. fed' \in [Steps -> SUBSET graph.patterns]
  <2>1. Sources(graph) \subseteq graph.patterns
    BY DEF Sources
  <2> QED BY <1>8, <1>14, <2>1
<1>18. RunTypes'
  BY <1>1, <1>8, <1>10, <1>14, <1>17 DEF RunTypes
<1>19. ASSUME NEW i \in Steps, NEW p \in valid'[i]
       PROVE  /\ i \in busy'
              /\ IF getComponentType[p.of] \in SourceTypes THEN p.of \in fed'[i]
                 ELSE ran'[<<Component(p.of), i>>] = event'[i]
  <2>1. i \in busy /\ i # k
    BY <1>8, <1>13, <1>19
  <2> QED BY <1>8, <1>11, <1>15, <1>19, <2>1 DEF FreshData
<1>20. FreshData'
  BY <1>19 DEF FreshData
<1> QED BY <1>1, <1>8, <1>12, <1>16, <1>18, <1>20 DEF Executing

\* A source that delivers does so for the event of a busy time step.
LEMMA DeliverKeeps ==
  ASSUME WellBuilt, Executing, FreshData, NEW p, NEW i \in Steps, Deliver(p, i)
  PROVE  Executing' /\ FreshData'
<1>1. Runnable(graph) /\ flow = Flow(graph) /\ RunTypes /\ EventsInTurn
  BY DEF Executing
<1>2. PICK v, tok : Reached(v, tok)
  BY DEF Executing
<1>3. PICK out \in {{}, Outputs(p)} : valid' = [valid EXCEPT ![i] = @ \cup out]
  BY DEF Deliver
<1>4. /\ UNCHANGED <<graph, phase, flow, joins, entered, waiting, event, busy, ran>>
      /\ i \in busy /\ p \in Sources(graph) /\ fed' = [fed EXCEPT ![i] = @ \cup {p}]
  BY DEF Deliver
<1>5. /\ \A q \in out : q \in Producers /\ q.of = p
      /\ p \in graph.patterns /\ getComponentType[p] \in SourceTypes
  BY <1>4 DEF Outputs, OwnPorts, Ports, Producers, Sources
<1>6. fed \in [Steps -> SUBSET graph.patterns] /\ valid \in [Steps -> SUBSET Producers]
  BY <1>1 DEF RunTypes
<1>7. /\ fed' \in [Steps -> SUBSET graph.patterns] /\ valid' \in [Steps -> SUBSET Producers]
      /\ fed'[i] = fed[i] \cup {p} /\ valid'[i] = valid[i] \cup out
      /\ \A k \in Steps \ {i} : fed'[k] = fed[k] /\ valid'[k] = valid[k]
  BY <1>3, <1>4, <1>5, <1>6
<1>8. RunTypes'
  BY <1>1, <1>4, <1>7 DEF RunTypes
<1>9. Reached(v, tok)'
  <2>1. Current(v)'
    BY <1>2, <1>4, <1>7 DEF Reached, Current, NextOf
  <2> QED BY <1>2, <1>4, <2>1 DEF Reached
<1>10. FreshData'
  BY <1>4, <1>5, <1>7 DEF FreshData
<1> QED BY <1>1, <1>4, <1>8, <1>9, <1>10 DEF Executing, EventsInTurn

\* A taskflow that starts has handled no event, and all its seams are entered.
LEMMA StartKeeps ==
  ASSUME WellBuilt, FlowInv, start
  PROVE  Executing' /\ FreshData'
<1>1. /\ NotStarted /\ phase = "loaded" /\ Runnable(graph)
  BY DEF start, FlowInv, Runnable
<1>2. /\ flow' = Flow(graph) /\ joins' = Flow(graph).strong /\ entered' = FlowSeams(graph)
      /\ ran' = [n \in Nodes(graph) |-> 0]
      /\ UNCHANGED <<graph, waiting, event, busy, fed, valid>>
  BY DEF start, Flow
<1>3. PICK v :
        /\ v \in [Nodes(graph) -> Nat] /\ {} \in SUBSET FlowSeams(graph)
        /\ \A n \in Nodes(graph) : v[n] = 0
  <2> DEFINE zero == [n \in Nodes(graph) |-> 0]
  <2>1. zero \in [Nodes(graph) -> Nat] /\ \A n \in Nodes(graph) : zero[n] = 0
    OBVIOUS
  <2> HIDE DEF zero
  <2> QED BY <2>1
<1>4. Nodes(graph) = StepTasks(graph) \X Steps /\ Rings(graph) \subseteq StepTasks(graph)
      /\ Tasks(graph) \subseteq StepTasks(graph)
      /\ TimeStepStart \in StepTasks(graph) /\ TimeStepEnd \in StepTasks(graph)
  BY <1>1, FlowIs DEF StepTasks
<1>5. Ordered(graph, v)
  <2>1. \A t \in StepTasks(graph), i \in Steps : v[<<t, i>>] = 0
    BY <1>3, <1>4
  <2>2. ASSUME NEW t \in Rings(graph)
        PROVE  InTurn([i \in Steps |-> v[<<t, i>>]])
    <3>1. Rounds([i \in Steps |-> v[<<t, i>>]], 0, 0)
      BY <1>4, <2>1, StepsType DEF Rounds
    <3> QED BY <3>1, StepsType DEF InTurn
  <2>3. \A n \in Nodes(graph) : v[n] = v[<<TimeStepEnd, n[2]>>]
    BY <1>3, <1>4, <2>1
  <2>4. \A i \in Steps : \A d \in Before(graph) : v[<<d[2], i>>] <= v[<<d[1], i>>]
    <3>1. \A d \in Before(graph) : d[1] \in StepTasks(graph) /\ d[2] \in StepTasks(graph)
      BY <1>1, BeforeFacts DEF StepTasks
    <3> QED BY <2>1, <3>1
  <2>5. \A i \in Steps : \A t \in Tasks(graph) : v[<<t, i>>] <= v[<<TimeStepStart, i>>]
    BY <1>4, <2>1
  <2> QED BY <2>2, <2>3, <2>4, <2>5 DEF Ordered
<1>6. Counted(graph, v, {}, joins', entered')
  <2>1. ASSUME NEW n \in Nodes(graph)
        PROVE  joins'[n] = Cardinality(MissingEdges(graph, v, n))
                             + Cardinality(MissingSeams(graph, {}, n))
    <3>1. joins'[n] = StrongDependents(FlowEdges(graph), FlowSeams(graph), n)
      BY <1>1, <1>2, FlowFields
    <3>2. MissingEdges(graph, v, n) = {e \in FlowEdges(graph) : e[2] = n}
      <4>1. \A e \in FlowEdges(graph) : e[1] \in Nodes(graph)
        <5>1. \A d \in Before(graph) : d[1] \in StepTasks(graph)
          BY <1>1, BeforeFacts DEF StepTasks
        <5> QED BY <1>1, <1>4, <5>1, FlowIs
      <4> QED BY <1>3, <4>1 DEF MissingEdges
    <3>3. MissingSeams(graph, {}, n) = {s \in FlowSeams(graph) : s.to = n}
      BY DEF MissingSeams
    <3> QED BY <3>1, <3>2, <3>3 DEF StrongDependents
  <2>2. \A s \in FlowSeams(graph) : v[s.from] >= v[s.to]
    BY <1>1, <1>3, SeamNodes
  <2> QED BY <1>2, <2>1, <2>2 DEF Counted
<1>7. /\ event' = [i \in Steps |-> 0] /\ busy' = {} /\ waiting' = {}
      /\ fed' = [i \in Steps |-> {}] /\ valid' = [i \in Steps |-> {}]
  BY <1>1, <1>2 DEF NotStarted
<1>8. Current(v)'
  BY <1>2, <1>3, <1>4, <1>7 DEF Current
<1>9. Reached(v, {})'
  BY <1>2, <1>3, <1>5, <1>6, <1>8 DEF Reached
<1>10. RunTypes'
  <2>1. \A n \in Nodes(graph) : joins'[n] \in Nat
    BY <1>1, <1>6, CountedType
  <2>2. joins' = [n \in Nodes(graph) |-> joins'[n]]
    BY <1>2 DEF Flow
  <2>3. LastEvent \in Nat
    BY RingAssumption DEF LastEvent, Teardown
  <2> QED BY <1>2, <1>7, <2>1, <2>2, <2>3 DEF RunTypes
<1>11. EventsInTurn'
  <2>1. Rounds(event', 0 * TimeStepCount, 0)
    BY <1>7, StepsType DEF Rounds
  <2>2. \E q \in Nat, k \in Steps : Rounds(event', q * TimeStepCount, k)
    BY <2>1, StepsType
  <2> QED BY <2>2 DEF EventsInTurn, Rounds
<1>12. FreshData'
  BY <1>7 DEF FreshData
<1> QED BY <1>1, <1>2, <1>9, <1>10, <1>11, <1>12 DEF Executing

\* Editing, loading and running a dataflow keep the invariant.
LEMMA FlowStep ==
  ASSUME WellBuilt, FlowInv, [Next]_vars
  PROVE  FlowInv'
<1>1. GoodGraph(graph')
  BY GraphStep DEF FlowInv
<1>2. CASE GraphNext /\ UNCHANGED flowVars
  <2>1. phase = "edit" /\ phase' = "edit"
    BY <1>2 DEF GraphNext, addPattern, instantiatePortGroup, setParameter, connect
  <2>2. NotStarted'
    BY <1>2, <2>1 DEF FlowInv, NotStarted, flowVars, runVars
  <2>3. FreshData'
    BY <2>2 DEF NotStarted, FreshData
  <2> QED BY <1>1, <2>1, <2>2, <2>3 DEF FlowInv
<1>3. CASE loadDataflow
  <2>1. from_json(to_json(graph)) = graph
    BY GraphRoundTrip DEF FlowInv, GoodGraph
  <2>2. /\ phase = "edit" /\ phase' = "loaded" /\ graph' = graph /\ checkRunnable(graph)
        /\ SyncSources(graph) # {} => AsyncSources(graph) # {}
        /\ UNCHANGED flowVars
    BY <1>3, <2>1 DEF loadDataflow
  <2>3. NotStarted'
    BY <2>2 DEF FlowInv, NotStarted, flowVars, runVars
  <2>4. FreshData'
    BY <2>3 DEF NotStarted, FreshData
  <2> QED BY <1>1, <2>2, <2>3, <2>4 DEF FlowInv
<1>4. CASE start
  <2>1. phase = "loaded" /\ phase' = "running" /\ graph' = graph
    BY <1>4 DEF start
  <2>2. Executing' /\ FreshData'
    BY <1>4, StartKeeps
  <2> QED BY <1>1, <2>1, <2>2 DEF FlowInv
<1>5. CASE FlowNext
  <2>1. graph' = graph /\ phase' = phase
    BY <1>5 DEF FlowNext, LoadEvent, Deliver, SeamEntry, RunNode, WaitForSource, RunSource,
         RunComponent, RunCudaGraph, RunOther, RunTimeStepEnd
  <2>2. phase = "running"
    <3>1. ASSUME NotStarted
          PROVE  phase = "running"
      <4>1. busy = {} /\ flow.seams = {} /\ DueNodes = {}
        BY <3>1 DEF NotStarted, NoFlow, DueNodes, AllNodes
      <4> QED BY <1>5, <4>1 DEF FlowNext, LoadEvent, Deliver, RunNode
    <3> QED BY <3>1 DEF FlowInv
  <2>3. Executing /\ FreshData
    BY <2>2 DEF FlowInv
  <2>4. Executing' /\ FreshData'
    <3>1. CASE LoadEvent
      BY <2>3, <3>1, LoadKeeps
    <3>2. CASE \E p \in Instances, i \in Steps : Deliver(p, i)
      BY <2>3, <3>2, DeliverKeeps
    <3>3. CASE \E s \in flow.seams : SeamEntry(s)
      BY <2>3, <3>3, SeamsKeep
    <3>4. CASE RunNode
      BY <2>3, <3>4, NodesKeep
    <3> QED BY <1>5, <3>1, <3>2, <3>3, <3>4 DEF FlowNext
  <2> QED BY <1>1, <2>1, <2>2, <2>4 DEF FlowInv
<1>6. CASE UNCHANGED vars
  <2>1. /\ UNCHANGED <<graph, phase, flow, joins, entered, waiting, event, busy, fed, valid, ran>>
    BY <1>6 DEF vars, flowVars, runVars
  <2>2. NotStarted => NotStarted'
    BY <2>1 DEF NotStarted
  <2>3. FreshData => FreshData'
    BY <2>1 DEF FreshData
  <2>4. ASSUME Executing
        PROVE  Executing'
    <3>1. PICK v, tok : Reached(v, tok)
      BY <2>4 DEF Executing
    <3>2. Reached(v, tok)'
      BY <2>1, <3>1 DEF Reached, Current, NextOf
    <3>3. RunTypes' /\ EventsInTurn'
      BY <2>1, <2>4 DEF Executing, RunTypes, EventsInTurn
    <3> QED BY <2>1, <2>4, <3>2, <3>3 DEF Executing
  <2> QED BY <1>1, <2>1, <2>2, <2>3, <2>4 DEF FlowInv
<1> QED BY <1>2, <1>3, <1>4, <1>5, <1>6 DEF Next

\* The invariant holds in every state.
LEMMA FlowInvariant ==
  ASSUME WellBuilt
  PROVE  Spec => []FlowInv
<1>1. Init => FlowInv
  <2> SUFFICES ASSUME Init
               PROVE  FlowInv
    OBVIOUS
  <2>1. GoodGraph(graph)
    BY GraphInitially DEF Init
  <2>2. phase = "edit" /\ NotStarted
    BY DEF Init, GraphInit, NotStarted
  <2>3. FreshData
    BY <2>2 DEF NotStarted, FreshData
  <2> QED BY <2>1, <2>2, <2>3 DEF FlowInv
<1>2. FlowInv /\ [Next]_vars => FlowInv'
  BY FlowStep
<1> QED BY <1>1, <1>2, PTL DEF Spec

-----------------------------------------------------------------------------
(* What the invariant implies. *)

\* Before a dataflow is started no node exists.
LEMMA NothingIsDue ==
  ASSUME NotStarted
  PROVE  AllNodes = {} /\ DueNodes = {}
BY DEF NotStarted, AllNodes, DueNodes

\* A component that is due and has an input: its inputs are written.
LEMMA InputsWritten ==
  ASSUME WellBuilt, Executing, NEW n \in DueNodes, IsComponent(n[1]), ~IsSource(n)
  PROVE  /\ n[2] \in busy
         /\ \A e \in Links(graph) : e[2] = n[1][2] =>
              /\ ran[<<Writer(e[1], n[1][2]), n[2]>>] = event[n[2]]
              /\ <<Writer(e[1], n[1][2]), n[2]>> \notin DueNodes
<1> DEFINE p == n[1][2]
           i == n[2]
<1>1. Runnable(graph) /\ RunTypes
  BY DEF Executing
<1>2. PICK v, tok : Reached(v, tok)
  BY DEF Executing
<1>3. n[1] # TimeStepStart /\ n[1] # TimeStepEnd
  BY DEF IsComponent, TimeStepStart, TimeStepEnd
<1>4. i \in busy /\ event[i] = NextOf(v, i)
  BY <1>1, <1>2, <1>3, DueIsBusy
<1>5. /\ n \in Nodes(graph) /\ n[1] = Component(p) /\ i \in Steps
      /\ WhenDue(graph, v, tok, n[1], i)
  <2>1. n \in Nodes(graph) /\ WhenDue(graph, v, tok, n[1], i)
    BY <1>1, <1>2, DueNodeState, DueFacts
  <2>2. n[1] \in Tasks(graph) /\ i \in Steps
    BY <1>1, <1>3, <2>1, NodeNames
  <2> QED BY <1>1, <2>1, <2>2, TaskFacts
<1> HIDE DEF p, i
<1>6. ASSUME NEW e \in Links(graph), e[2] = p
      PROVE  ran[<<Writer(e[1], p), i>>] = event[i] /\ <<Writer(e[1], p), i>> \notin DueNodes
  <2> DEFINE t == Writer(e[1], p)
             w == <<t, i>>
  <2>1. e \in Precedes(graph)
    BY DEF Precedes
  <2>2. <<t, Component(p)>> \in TaskEdges(graph)
    <3>1. CASE IsPart(e[1]) /\ CudaGraphName[e[1]] # CudaGraphName[p]
      <4>1. t = GraphOf(e[1])
        BY <3>1 DEF Writer, GraphOf, IsPart
      <4>2. GraphOf(e[2]) # GraphOf(e[1])
        BY <1>6, <3>1, TaskNames
      <4> QED BY <1>1, <1>6, <2>1, <3>1, <4>1, <4>2, TaskEdgesAre
    <3>2. CASE ~(IsPart(e[1]) /\ CudaGraphName[e[1]] # CudaGraphName[p])
      <4>1. t = Component(e[1])
        BY <3>2 DEF Writer, IsPart
      <4> QED BY <1>1, <1>6, <2>1, <4>1, TaskEdgesAre
    <3> QED BY <3>1, <3>2
  <2>3. <<t, Component(p)>> \in Before(graph) /\ t \in Tasks(graph)
    BY <1>1, <2>2, TaskFacts DEF Before
  <2> HIDE DEF t
  <2>4. v[w] = NextOf(v, i)
    <3> DEFINE d == <<t, Component(p)>>
    <3>1. d[1] = t /\ d[2] = n[1] /\ d \in Before(graph)
      BY <1>5, <2>3
    <3> QED BY <1>5, <3>1 DEF WhenDue
  <2>5. w \in Nodes(graph) /\ t # TimeStepStart /\ <<TimeStepEnd, i>> \in Nodes(graph)
    BY <1>1, <1>5, <2>3, FlowIs, TaskFacts DEF StepTasks
  <2>6. ran[w] = event[i]
    BY <1>2, <1>4, <2>4, <2>5 DEF Reached, Current
  <2>7. ASSUME w \in DueNodes
        PROVE  FALSE
    <3>1. WhenDue(graph, v, tok, w[1], w[2])
      BY <1>1, <1>2, <2>7, DueNodeState, DueFacts
    <3>2. v[w] = v[<<TimeStepEnd, i>>]
      BY <3>1 DEF WhenDue
    <3>3. v[<<TimeStepEnd, i>>] \in Nat
      BY <1>2, <2>5 DEF Reached
    <3>4. FollowingEvent(v[<<TimeStepEnd, i>>], i) > v[<<TimeStepEnd, i>>]
      BY <1>5, <3>3, StepsType, FollowingType
    <3> QED BY <2>4, <3>2, <3>3, <3>4 DEF NextOf
  <2> QED BY <2>6, <2>7 DEF t
<1> QED BY <1>4, <1>6 DEF p, i

\* For every dataflow of any components, CUDA graphs and time steps: while a
\* component may run, the tasks that write its inputs have handled the event of
\* its time step, and do not run again before the time step ends.
THEOREM InputsAreStable ==
  ASSUME WellBuilt
  PROVE  Spec => []InputsStable
<1>1. ASSUME FlowInv
      PROVE  InputsStable
  <2>1. CASE phase # "running"
    <3>1. DueNodes = {}
      BY <1>1, <2>1, NothingIsDue DEF FlowInv
    <3> QED BY <3>1 DEF InputsStable
  <2>2. CASE phase = "running"
    <3>1. Executing
      BY <1>1, <2>2 DEF FlowInv
    <3>2. ASSUME NEW n \in {m \in DueNodes : IsComponent(m[1]) /\ ~IsSource(m)}
          PROVE  /\ n[2] \in busy
                 /\ \A q \in {e[1] : e \in {f \in Links(graph) : f[2] = n[1][2]}} :
                      /\ ran[<<Writer(q, n[1][2]), n[2]>>] = event[n[2]]
                      /\ <<Writer(q, n[1][2]), n[2]>> \notin DueNodes
      <4>1. /\ n[2] \in busy
            /\ \A e \in Links(graph) : e[2] = n[1][2] =>
                 /\ ran[<<Writer(e[1], n[1][2]), n[2]>>] = event[n[2]]
                 /\ <<Writer(e[1], n[1][2]), n[2]>> \notin DueNodes
        BY <3>1, InputsWritten
      <4> QED BY <4>1
    <3> QED BY <3>2 DEF InputsStable
  <2> QED BY <2>1, <2>2
<1> QED BY <1>1, FlowInvariant, PTL

\* A serial component is never due in two time steps, and is due for the event
\* that follows the last one it has handled.
THEOREM SerialComponentsKeepTheOrder ==
  ASSUME WellBuilt
  PROVE  Spec => []SerialInOrder
<1>1. ASSUME FlowInv, phase = "running",
             NEW p \in graph.patterns, getConcurrency[p] = "SERIAL",
             NEW i \in Steps, <<Component(p), i>> \in DueNodes
      PROVE  /\ \A j \in Steps \ {i} : <<Component(p), j>> \notin DueNodes
             /\ \/ p \in Sources(graph) \ fed[i]
                \/ event[i] = 1 + MaxOf({ran[<<Component(p), j>>] : j \in Steps})
  <2> DEFINE t == Component(p)
  <2>1. Executing /\ Runnable(graph) /\ RunTypes
    BY <1>1 DEF FlowInv, Executing
  <2>2. PICK v, tok : Reached(v, tok)
    BY <2>1 DEF Executing
  <2> DEFINE f == [k \in Steps |-> v[<<t, k>>]]
  <2>3. t \in Rings(graph) /\ \A k \in Steps : <<t, k>> \in Nodes(graph)
    <3>1. t \in Rings(graph)
      BY <1>1 DEF Rings, SerialTasks
    <3> QED BY <2>1, <3>1, FlowIs
  <2>4. ASSUME NEW k \in Steps, <<t, k>> \in DueNodes
        PROVE  v[<<t, k>>] = v[<<TimeStepEnd, k>>] /\ \E b \in Nat : Rounds(f, b, k)
    <3>1. <<t, k>>[1] = t /\ <<t, k>>[2] = k
      OBVIOUS
    <3>2. WhenDue(graph, v, tok, t, k)
      <4> DEFINE n == <<t, k>>
      <4>1. n \in DueNodes
        BY <2>4
      <4>2. WhenDue(graph, v, tok, n[1], n[2])
        <5> HIDE DEF n, f
        <5> QED BY <2>1, <2>2, <4>1, DueNodeState, DueFacts
      <4> QED BY <3>1, <4>2
    <3> QED BY <2>3, <3>2 DEF WhenDue
  <2>5. f \in [Steps -> Nat]
    BY <2>2, <2>3 DEF Reached
  <2>6. PICK b \in Nat : Rounds(f, b, i)
    BY <1>1, <2>4
  <2>7. ASSUME NEW j \in Steps \ {i}, <<t, j>> \in DueNodes
        PROVE  FALSE
    <3>1. PICK c \in Nat : Rounds(f, c, j)
      BY <2>4, <2>7
    <3> HIDE DEF f
    <3>2. /\ \A k \in Steps : k # 0 => (f[k - 1] > f[k] <=> k = i)
          /\ f[LastStep] >= f[0] => i = 0
      BY <2>5, <2>6, RoundsTurn
    <3>3. /\ \A k \in Steps : k # 0 => (f[k - 1] > f[k] <=> k = j)
          /\ f[LastStep] >= f[0] => j = 0
      BY <2>5, <3>1, RoundsTurn
    <3> QED BY <2>7, <3>2, <3>3
  <2>8. ASSUME ~(p \in Sources(graph) \ fed[i])
        PROVE  event[i] = 1 + MaxOf({ran[<<t, j>>] : j \in Steps})
    <3>1. i \in busy /\ event[i] = NextOf(v, i)
      <4> DEFINE n == <<t, i>>
      <4>1. /\ n \in DueNodes /\ n[2] = i /\ n[1] # TimeStepStart
            /\ IsSource(n) => p \in Sources(graph)
        BY <1>1, TaskNames DEF IsSource, Sources
      <4>2. IsSource(n) => fed[n[2]] # {}
        BY <2>8, <4>1
      <4>3. n[2] \in busy /\ event[n[2]] = NextOf(v, n[2])
        <5> HIDE DEF n, f
        <5> QED BY <2>1, <2>2, <4>1, <4>2, DueIsBusy
      <4> QED BY <4>1, <4>3
    <3>2. NextOf(v, i) = FollowingEvent(f[i], i)
      BY <1>1, <2>4 DEF NextOf
    <3>3. {ran[<<t, j>>] : j \in Steps} = {f[j] : j \in Steps}
      <4>1. \A j \in Steps : ran[<<t, j>>] = f[j]
        BY <2>2, <2>3, TaskNames DEF Reached, Current
      <4> HIDE DEF f
      <4> QED BY <4>1
    <3> HIDE DEF f
    <3>4. MaxOf({f[j] : j \in Steps}) = b + i
      BY <2>5, <2>6, RoundsLast
    <3>5. FollowingEvent(f[i], i) = b + i + 1
      BY <2>5, <2>6, StepsType DEF Rounds, FollowingEvent
    <3>6. b \in Nat /\ i \in Nat
      BY StepsType
    <3>7. event[i] = b + i + 1
      BY <3>1, <3>2, <3>5
    <3>8. MaxOf({ran[<<t, j>>] : j \in Steps}) = b + i
      BY <3>3, <3>4
    <3> DEFINE last == MaxOf({ran[<<t, j>>] : j \in Steps})
    <3>9. last = b + i
      BY <3>8
    <3> HIDE DEF last
    <3>10. event[i] = 1 + last
      BY <3>6, <3>7, <3>9
    <3> QED BY <3>10 DEF last
  <2> QED BY <2>7, <2>8
<1>2. FlowInv => SerialInOrder
  BY <1>1 DEF SerialInOrder
<1> QED BY <1>2, FlowInvariant, PTL

\* A time step that is free has been completed: every task and the end of the
\* time step have handled its event.
THEOREM TimeStepsAreComplete ==
  ASSUME WellBuilt
  PROVE  Spec => []StepComplete
<1>1. ASSUME FlowInv
      PROVE  StepComplete
  <2>1. CASE phase # "running"
    BY <1>1, <2>1, NothingIsDue DEF FlowInv, StepComplete
  <2>2. CASE phase = "running"
    <3>1. Executing /\ Runnable(graph) /\ RunTypes
      BY <1>1, <2>2 DEF FlowInv, Executing
    <3>2. PICK v, tok : Reached(v, tok)
      BY <3>1 DEF Executing
    <3>3. ASSUME NEW i \in Steps \ busy, NEW n \in AllNodes, n[2] = i, n[1] # TimeStepStart
          PROVE  ran[n] = event[i]
      <4>1. n \in Nodes(graph)
        BY <3>1 DEF AllNodes, RunTypes
      <4>2. n = <<n[1], i>> /\ (n[1] \in Tasks(graph) \/ n[1] = TimeStepEnd)
        BY <3>1, <3>3, <4>1, NodeNames
      <4>3. ran[n] = v[n] /\ v[<<n[1], i>>] = event[i]
        BY <3>2, <3>3, <4>1, <4>2 DEF Reached, Current
      <4> QED BY <4>2, <4>3
    <3> QED BY <3>3 DEF StepComplete
  <2> QED BY <2>1, <2>2
<1> QED BY <1>1, FlowInvariant, PTL

\* A port that is VALID holds what was produced for the event of its time step.
THEOREM PortsAreFresh ==
  ASSUME WellBuilt
  PROVE  Spec => []FreshData
<1>1. FlowInv => FreshData
  BY DEF FlowInv
<1> QED BY <1>1, FlowInvariant, PTL

\* The variables of the taskflow keep their types: above all no node is released
\* more often than it has predecessors.
THEOREM TaskFlowTypes ==
  ASSUME WellBuilt
  PROVE  Spec => []TypeOK
<1>1. ASSUME FlowInv
      PROVE  TypeOK
  <2>1. GraphTypeOK
    <3>1. WellFormed(graph) /\ phase \in {"edit", "loaded", "running"}
      BY <1>1 DEF FlowInv, GoodGraph
    <3>2. ASSUME NEW p \in Instances, NEW k \in DOMAIN Groups[p],
                 NEW j \in DOMAIN graph.port_groups[p][k]
          PROVE  DOMAIN graph.port_groups[p][k][j] = DOMAIN Groups[p][k].parameter
      <4>1. graph.port_groups[p][k] \in Seq(ParameterList(p, k))
        BY <3>1 DEF WellFormed
      <4>2. graph.port_groups[p][k][j] \in ParameterList(p, k)
        BY <3>2, <4>1
      <4> QED BY <4>2 DEF ParameterList
    <3> QED BY <3>1, <3>2 DEF GraphTypeOK, WellFormed
  <2>2. CASE phase # "running"
    <3>1. NotStarted /\ AllNodes = {} /\ LastEvent \in Nat
      BY <1>1, <2>2, NothingIsDue, RingAssumption DEF FlowInv, LastEvent, Teardown
    <3> QED BY <2>1, <3>1 DEF TypeOK, NotStarted
  <2>3. CASE phase = "running"
    <3>1. Executing /\ RunTypes /\ AllNodes = Nodes(graph)
      BY <1>1, <2>3 DEF FlowInv, Executing, RunTypes, AllNodes
    <3>2. PICK v, tok : Reached(v, tok)
      BY <3>1 DEF Executing
    <3>3. flow.seams = FlowSeams(graph)
      BY <3>1 DEF Executing, Flow
    <3>4. entered \subseteq flow.seams
      BY <3>2, <3>3 DEF Reached, Counted
    <3> QED BY <2>1, <3>1, <3>4 DEF TypeOK, RunTypes
  <2> QED BY <2>2, <2>3
<1> QED BY <1>1, FlowInvariant, PTL
=============================================================================
