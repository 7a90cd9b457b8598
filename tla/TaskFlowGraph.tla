--------------------------- MODULE TaskFlowGraph ---------------------------
(***************************************************************************)
(* The taskflow of a time domain: how it is built from a dataflow graph,   *)
(* and how it runs.                                                        *)
(*                                                                         *)
(* The graph builders make one task per component, plus the tasks of       *)
(* constrained modules and of CUDA graphs, with the dependencies within a  *)
(* time step and between time steps.  The taskflow builders copy the tasks *)
(* for every time step of the ring and add the start, the end and the      *)
(* seams that close the ring.                                              *)
(*                                                                         *)
(* The library taskflow (external) keeps a counter per node: it runs the   *)
(* node when as many strong predecessors have finished as the node has,    *)
(* and sets the counter back when the node has finished.  A node that is   *)
(* due may be executed at any time, so two nodes that are due at the same  *)
(* time may run concurrently.                                              *)
(***************************************************************************)
EXTENDS JsonGraph

CONSTANTS
  ModuleKey,      \* per instance id its constrained module, "" for none
  CudaGraphName,  \* per instance id the CUDA graph it is part of, "" for none
  TimeStepCount,  \* ringbuffer_size
  Workers,        \* how many threads the executor has
  Frames,         \* how many DATA events there are
  LoadedWith,     \* a dataflow is loaded with at least these instances,
  Executed        \* or with just these links, and then executed (bounds)

ASSUME RingAssumption ==
  /\ TimeStepCount \in Nat \ {0}
  /\ Workers \in Nat \ {0}
  /\ Frames \in Nat
  /\ LoadedWith \subseteq Instances /\ LoadedWith # {}

Steps == 0..(TimeStepCount - 1)
LastStep == TimeStepCount - 1

-----------------------------------------------------------------------------
(* Tasks and dependencies of a time step. *)

Component(p) == <<"Component", p>>
ModuleStart(k) == <<"MODULE_START", k>>
ModuleMiddle(k) == <<"MODULE_MIDDLE", k>>
ModuleEnd(k) == <<"MODULE_END", k>>
CudaGraph(c) == <<"Cuda", c>>
TimeStepStart == <<"ControlFlow", "TimeStepStart">>
TimeStepEnd == <<"ControlFlow", "TimeStepEnd">>

IsComponent(t) == t[1] = "Component"
isCudaGraph(t) == t[1] = "Cuda"

\* The components that get a function to request buffers with.
Sources(g) == {p \in g.patterns : getComponentType[p] \in SourceTypes}

\* The components of a module, and those of them that end it.
ModuleComponents(g, k) == {p \in g.patterns : ModuleKey[p] = k}
EndComponents(g, k) == {p \in ModuleComponents(g, k) : getComponentType[p] = "SYNC_SOURCE"}
BeginComponents(g, k) == ModuleComponents(g, k) \ EndComponents(g, k)

\* The modules with tasks of their own: useConstraints() holds.
Modules(g) == {ModuleKey[p] : p \in g.patterns} \ {""}
UsesMiddle(g, k) == BeginComponents(g, k) # {} /\ EndComponents(g, k) # {}

\* The CUDA graphs, and the components of one.
CudaGraphs(g) == {CudaGraphName[p] : p \in g.patterns} \ {""}

\* What each of the three graph builders adds.
ComponentTasks(g) == {Component(p) : p \in getPatternsForTimeDomain(g)}
ModuleTasks(g) ==
  (UNION {{ModuleStart(k), ModuleEnd(k)} : k \in Modules(g)})
    \cup {ModuleMiddle(k) : k \in {m \in Modules(g) : UsesMiddle(g, m)}}
CudaTasks(g) == {CudaGraph(c) : c \in CudaGraphs(g)}

Tasks(g) == ComponentTasks(g) \cup ModuleTasks(g) \cup CudaTasks(g)

\* A component precedes the components that its ports are connected to.
PortEdges(g) ==
  UNION {{<<Component(p), Component(q)>> : q \in Downstream(g, p)} : p \in g.patterns}

AsyncSources(g) == {p \in g.patterns : getComponentType[p] = "ASYNC_SOURCE"}
SyncSources(g) == {p \in g.patterns : getComponentType[p] = "SYNC_SOURCE"}

\* findSyncSourceStartPoint: some asynchronous source.
SyncSourceStartPoint(g) == CHOOSE p \in AsyncSources(g) : TRUE

ComponentEdges(g) ==
  PortEdges(g)
    \cup {<<Component(SyncSourceStartPoint(g)), Component(p)>> : p \in SyncSources(g)}

\* An edge is what one call of precede or succeed adds.
Successors(edges, t) == {e[2] : e \in {f \in edges : f[1] = t}}

\* The module task between the components of the module, or after them.  The
\* successors of a component are read after the component has been made to
\* precede the module task, so the module task is one of them.
ModuleEdges(g, k) ==
  LET beginEnd == IF UsesMiddle(g, k) THEN ModuleMiddle(k) ELSE ModuleEnd(k)
      endStart == IF UsesMiddle(g, k) THEN ModuleMiddle(k) ELSE ModuleStart(k)
      Wrap(p, first, last) ==
        {<<first, Component(p)>>, <<Component(p), last>>}
          \cup {<<last, t>> : t \in Successors(ComponentEdges(g), Component(p)) \cup {last}}
  IN (UNION {Wrap(p, ModuleStart(k), beginEnd) : p \in BeginComponents(g, k)})
       \cup (UNION {Wrap(p, endStart, ModuleEnd(k)) : p \in EndComponents(g, k)})

\* The components that a CUDA graph consists of.
Parts(g, c) == {p \in g.patterns : CudaGraphName[p] = c}

\* Mutant: the CUDA graph does not precede what uses its results.
CudaEdges_noSuccessors(g, c) == {<<Component(p), CudaGraph(c)>> : p \in Parts(g, c)}

\* The CUDA graph follows the components it consists of, and precedes their
\* successors in other CUDA graphs and on the CPU.
CudaEdges(g, c) ==
  {<<Component(p), CudaGraph(c)>> : p \in Parts(g, c)}
    \cup (UNION {{<<CudaGraph(c), t>> :
                    t \in Successors(ComponentEdges(g), Component(p))
                            \ {Component(q) : q \in Parts(g, c)}} :
                  p \in Parts(g, c)})

\* The order in which the GPU executes the components of a CUDA graph.
InternalSuccessors(g, c) ==
  {e \in Parts(g, c) \X Parts(g, c) :
     Component(e[2]) \in Successors(ComponentEdges(g), Component(e[1]))}

TaskEdges(g) ==
  ComponentEdges(g)
    \cup (UNION {ModuleEdges(g, k) : k \in Modules(g)})
    \cup (UNION {CudaEdges(g, c) : c \in CudaGraphs(g)})

SerialTasks(g) == {Component(p) : p \in {q \in g.patterns : getConcurrency[q] = "SERIAL"}}

isStartPoint(edges, t) == \A e \in edges : e[2] # t

\* Mutant: the predecessors are looked at.
isEndPoint_first(edges, t) == \A e \in edges : e[2] # t

isEndPoint(edges, t) == \A e \in edges : e[1] # t

-----------------------------------------------------------------------------
(* The taskflow: nodes are pairs of a task and a time step. *)

\* TaskFlowTimeStep: the start and the end of time step i.
StartEndEdges(g, edges, i) ==
  {<< <<TimeStepStart, i>>, <<t, i>> >> : t \in {u \in Tasks(g) : isStartPoint(edges, u)}}
    \cup {<< <<t, i>>, <<TimeStepEnd, i>> >> : t \in {u \in Tasks(g) : isEndPoint(edges, u)}}

\* connectTimeStepComponents
connectTimeStepComponents(edges, i) == {<< <<e[1], i>>, <<e[2], i>> >> : e \in edges}

\* inter_connect_time_steps: a serial task follows itself in the next step.
InterConnect(t) == {<< <<t, i>>, <<t, i + 1>> >> : i \in 0..(LastStep - 1)}

\* connect_end_to_next_start, which takes both tasks of the current step.
ConnectEndToNextStart(start, end) ==
  {<< <<end, i>>, <<start, i>> >> : i \in 0..(LastStep - 1)}
    \cup {<< <<end, i>>, <<TimeStepEnd, i>> >> : i \in Steps}

\* A seam leads from one node to another through a task that looks at the
\* event of a time step and ends the flow there on DATAFLOW_STOP.
Seam(from, to, i) == [from |-> from, to |-> to, step |-> i]

\* connect_time_step_end_to_start
SelfSeams == {Seam(<<TimeStepEnd, i>>, <<TimeStepStart, i>>, i) : i \in Steps}
RingSeam(t) == Seam(<<t, LastStep>>, <<t, 0>>, 0)
ModuleSeam(start, end) == Seam(<<end, LastStep>>, <<start, 0>>, 0)

\* Mutant: the components are not chained through the time steps.
Rings_noSerial(g) == {TimeStepStart, TimeStepEnd}

Rings(g) == SerialTasks(g) \cup {TimeStepStart, TimeStepEnd}

\* createInterTimeStepDependencies.  The module start succeeds the module end:
\* the loop calls connect_end_to_next_start(end, start).
FlowEdges(g) ==
  LET edges == TaskEdges(g)
  IN (UNION {connectTimeStepComponents(edges, i)
               \cup StartEndEdges(g, edges, i) : i \in Steps})
       \cup (UNION {InterConnect(t) : t \in Rings(g)})
       \cup (UNION {ConnectEndToNextStart(ModuleEnd(k), ModuleStart(k)) :
                      k \in Modules(g)})

FlowSeams(g) ==
  SelfSeams \cup {RingSeam(t) : t \in Rings(g)}
    \cup {ModuleSeam(ModuleEnd(k), ModuleStart(k)) : k \in Modules(g)}

\* Every task has its data, and with it a node, in every time step.
TaskData(g) == Tasks(g) \X Steps
Nodes(g) == TaskData(g) \cup {TimeStepStart, TimeStepEnd} \X Steps

\* How many strong predecessors a node has, the seams that lead to it included.
StrongDependents(edges, seams, n) ==
  Cardinality({e \in edges : e[2] = n}) + Cardinality({s \in seams : s.to = n})

\* The taskflow, with what the library derives from its edges.
Flow(g) ==
  LET edges == FlowEdges(g)
      seams == FlowSeams(g)
  IN [seams |-> seams,
      next |-> [n \in Nodes(g) |-> {e[2] : e \in {f \in edges : f[1] = n}}],
      strong |-> [n \in Nodes(g) |-> StrongDependents(edges, seams, n)]]

-----------------------------------------------------------------------------
(* The events of a time domain, in the order in which they are loaded. *)

Stop == Frames + 3
Teardown == Frames + 4
LastEvent == Teardown + TimeStepCount

\* CONFIGURE, START, the frames, STOP, TEARDOWN and a DATAFLOW_STOP per step.
EventType(n) ==
  CASE n = 0 -> "INVALID"
    [] n = 1 -> "CONFIGURE"
    [] n = 2 -> "START"
    [] n \in 3..(Stop - 1) -> "DATA"
    [] n = Stop -> "STOP"
    [] n = Teardown -> "TEARDOWN"
    [] OTHER -> "DATAFLOW_STOP"

VARIABLES
  flow,     \* the taskflow, once it is built
  joins,    \* per node, how many strong predecessors have not finished yet
  entered,  \* the seams whose entry task is to run
  waiting,  \* the nodes of sources in which a worker waits for a value
  event,    \* per time step, the number of the event that was loaded last
  busy,     \* the time steps with an event
  fed,      \* per time step, the sources whose lock was released
  valid,    \* per time step, the producer ports that are VALID
  ran       \* per node, the event that it has processed last

runVars == <<joins, entered, waiting, event, busy, fed, valid, ran>>
flowVars == <<flow, runVars>>
vars == <<graph, phase, flowVars>>

AllNodes == DOMAIN joins
Loaded == MaxOf({event[i] : i \in Steps})
EventOf(n) == EventType(event[n[2]])
DueNodes == {n \in AllNodes : joins[n] = 0}

NoFlow == [seams |-> {}, next |-> <<>>, strong |-> <<>>]

Init ==
  /\ GraphInit
  /\ flow = NoFlow
  /\ joins = <<>>
  /\ entered = {}
  /\ waiting = {}
  /\ event = [i \in Steps |-> 0]
  /\ busy = {}
  /\ fed = [i \in Steps |-> {}]
  /\ valid = [i \in Steps |-> {}]
  /\ ran = <<>>

\* A node is never released more often than it has predecessors.
TypeOK ==
  /\ GraphTypeOK
  /\ joins \in [AllNodes -> Nat]
  /\ entered \subseteq flow.seams
  /\ waiting \subseteq AllNodes
  /\ event \in [Steps -> 0..LastEvent]
  /\ busy \subseteq Steps
  /\ fed \in [Steps -> SUBSET graph.patterns]
  /\ valid \in [Steps -> SUBSET Producers]
  /\ ran \in [AllNodes -> 0..LastEvent]

\* The graph of the application, or one that is read from a file it has saved,
\* is loaded and the network built; a synchronous source needs an asynchronous
\* one.
loadDataflow ==
  /\ phase = "edit"
  /\ LoadedWith \subseteq graph.patterns \/ Links(graph) = Executed
  /\ HasDefaultParameters(graph)  \* (bound) the taskflow does not look at them
  /\ \E loaded \in {graph, from_json(to_json(graph))} :
       /\ checkRunnable(loaded)
       /\ graph' = loaded
  /\ SyncSources(graph) # {} => AsyncSources(graph) # {}
  /\ phase' = "loaded"
  /\ UNCHANGED flowVars

\* The taskflow starts: its start entry enters every seam.
start ==
  /\ phase = "loaded"
  /\ Links(graph) = Executed
  /\ phase' = "running"
  /\ flow' = Flow(graph)
  /\ joins' = flow'.strong
  /\ entered' = flow'.seams
  /\ ran' = [n \in Nodes(graph) |-> 0]
  /\ UNCHANGED <<graph, waiting, event, busy, fed, valid>>

-----------------------------------------------------------------------------
(* The tasks. *)

\* The end of a node: its successors are released, its own counter set back.
Finish(n) ==
  /\ joins' = [m \in AllNodes |->
                 IF m = n THEN flow.strong[n]
                 ELSE joins[m] - (IF m \in flow.next[n] THEN 1 ELSE 0)]
  /\ entered' = entered \cup {s \in flow.seams : s.from = n}

\* A worker that no waiting source occupies.
WorkerFree == Cardinality(waiting) < Workers

\* createSeamEntryTask, with the seam start that follows it.
SeamEntry(s) ==
  /\ s \in entered
  /\ WorkerFree
  /\ entered' = entered \ {s}
  /\ joins' = IF EventType(event[s.step]) = "DATAFLOW_STOP" THEN joins
              ELSE [joins EXCEPT ![s.to] = @ - 1]
  /\ UNCHANGED <<graph, phase, flow, waiting, event, busy, fed, valid, ran>>

IsSource(n) == IsComponent(n[1]) /\ getComponentType[n[1][2]] \in SourceTypes

\* TaskFlowSourceTask waits in its worker thread until its lock is released.
WaitForSource(n) ==
  /\ IsSource(n)
  /\ n \notin waiting
  /\ n[1][2] \notin fed[n[2]]
  /\ WorkerFree
  /\ waiting' = waiting \cup {n}
  /\ UNCHANGED <<graph, phase, flow, joins, entered, event, busy, fed, valid, ran>>

\* TaskFlowSourceTask: the source has its data, or handles another event.
RunSource(n) ==
  /\ IsSource(n)
  /\ n[1][2] \in fed[n[2]]
  /\ n \in waiting \/ WorkerFree
  /\ waiting' = waiting \ {n}
  /\ ran' = [ran EXCEPT ![n] = event[n[2]]]
  /\ Finish(n)
  /\ UNCHANGED <<graph, phase, flow, event, busy, fed, valid>>

Outputs(p) == OwnPorts(graph, p, "PRODUCER")

isAllInputValid(p, i) ==
  \A q \in OwnPorts(graph, p, "CONSUMER") : graph.connected_to[q] \in valid[i]

\* What a component may make VALID: it calls processTimePoint, which produces
\* its outputs or not, or processTimePointWithInvalid, which does nothing.
ProcessTimePoint(p, i) ==
  IF EventType(event[i]) = "DATA" /\ isAllInputValid(p, i)
  THEN {{}, Outputs(p)} ELSE {{}}

\* TaskFlowComponentTask.
RunComponent(n) ==
  LET p == n[1][2]
      i == n[2]
  IN /\ IsComponent(n[1]) /\ ~IsSource(n)
     /\ WorkerFree
     /\ \E out \in ProcessTimePoint(p, i) :
          valid' = [valid EXCEPT ![i] = @ \cup out]
     /\ ran' = [ran EXCEPT ![n] = event[i]]
     /\ Finish(n)
     /\ UNCHANGED <<graph, phase, flow, waiting, event, busy, fed>>

\* The CUDA graph runs the GPU tasks of its components, each after those that
\* InternalSuccessors puts before it, and ends when all of them have ended.
RunCudaGraph(n) ==
  /\ isCudaGraph(n[1])
  /\ WorkerFree
  /\ ran' = [ran EXCEPT ![n] = event[n[2]]]
  /\ Finish(n)
  /\ UNCHANGED <<graph, phase, flow, waiting, event, busy, fed, valid>>

\* TaskFlowModuleTask, and the empty TimeStepStart.
RunOther(n) ==
  /\ ~IsComponent(n[1]) /\ ~isCudaGraph(n[1]) /\ n[1] # TimeStepEnd
  /\ WorkerFree
  /\ ran' = [ran EXCEPT ![n] = event[n[2]]]
  /\ Finish(n)
  /\ UNCHANGED <<graph, phase, flow, waiting, event, busy, fed, valid>>

\* Mutant: the port states are kept.
resetNewEvent_keepValid(i) ==
  /\ fed' = [fed EXCEPT ![i] = {}]
  /\ UNCHANGED valid

\* All locks are taken again, and no port is valid.
resetNewEvent(i) ==
  /\ fed' = [fed EXCEPT ![i] = {}]
  /\ valid' = [valid EXCEPT ![i] = {}]

\* Mutant: the time step stays marked as running.
freeTimeStep_running(i) ==
  /\ resetNewEvent(i)
  /\ UNCHANGED busy

freeTimeStep(i) ==
  /\ resetNewEvent(i)
  /\ busy' = busy \ {i}

\* timeStepEnded frees the time step; its event type stays.
RunTimeStepEnd(n) ==
  /\ n[1] = TimeStepEnd
  /\ WorkerFree
  /\ freeTimeStep(n[2])
  /\ ran' = [ran EXCEPT ![n] = event[n[2]]]
  /\ Finish(n)
  /\ UNCHANGED <<graph, phase, flow, waiting, event>>

\* A node that is due is executed.
RunNode ==
  \E n \in DueNodes :
    \/ WaitForSource(n)
    \/ RunSource(n)
    \/ RunComponent(n)
    \/ RunCudaGraph(n)
    \/ RunOther(n)
    \/ RunTimeStepEnd(n)

-----------------------------------------------------------------------------
(* The threads outside of the taskflow. *)

\* The scheduler loads the next event into the next time step, as module
\* TimeDomain describes.  start() waits for the end of CONFIGURE; all other
\* events may follow each other without a pause.
LoadEvent ==
  LET n == Loaded + 1
      i == Loaded % TimeStepCount
  IN /\ phase = "running"
     /\ n <= LastEvent
     /\ i \notin busy
     /\ n = 2 => busy = {}
     /\ event' = [event EXCEPT ![i] = n]
     /\ busy' = busy \cup {i}
     /\ fed' = [fed EXCEPT ![i] = IF EventType(n) = "DATA" THEN {} ELSE Sources(graph)]
     /\ UNCHANGED <<graph, phase, flow, joins, entered, waiting, valid, ran>>

\* A source thread commits the frame in time step i, with a value or without.
Deliver(p, i) ==
  /\ i \in busy
  /\ EventType(event[i]) = "DATA"
  /\ p \in Sources(graph) \ fed[i]
  /\ fed' = [fed EXCEPT ![i] = @ \cup {p}]
  /\ \E out \in {{}, Outputs(p)} : valid' = [valid EXCEPT ![i] = @ \cup out]
  /\ UNCHANGED <<graph, phase, flow, joins, entered, waiting, event, busy, ran>>

FlowNext ==
  \/ LoadEvent
  \/ \E p \in Instances, i \in Steps : Deliver(p, i)
  \/ \E s \in flow.seams : SeamEntry(s)
  \/ RunNode

\* No task is left to run.
Idle == entered = {} /\ DueNodes = {}

Next ==
  \/ GraphNext /\ UNCHANGED flowVars
  \/ loadDataflow
  \/ start
  \/ FlowNext

Spec == Init /\ [][Next]_vars

\* The executor runs every task that is due, and every source delivers its
\* frame or is cancelled.
FairSpec == Spec /\ WF_runVars(FlowNext)

-----------------------------------------------------------------------------
(* The dataflows that the proofs are about. *)

\* The part of the task graph that p belongs to: itself or its CUDA graph.
Unit(p) == IF CudaGraphName[p] = "" THEN Component(p) ELSE CudaGraph(CudaGraphName[p])

\* No component is part of a constrained module: its tasks never start.
NoConstrainedModules == \A p \in Instances : ModuleKey[p] = ""

\* Every component has data to wait for, or is started by a source.
EveryoneWaits ==
  \A p \in Instances :
    \/ getComponentType[p] \in SourceTypes \cup {"SYNC_SOURCE"}
    \/ \E c \in Consumers : c.of = p /\ c.group = kDefaultPortGroup /\ c.inst = 0

\* Asynchronous sources have no inputs, and are not part of a CUDA graph.
SourcesStandAlone ==
  \A p \in Instances : getComponentType[p] = "ASYNC_SOURCE" =>
    CudaGraphName[p] = "" /\ \A c \in Consumers : c.of # p

\* No CUDA graph waits for itself through other components.
UnitsFormNoLoop ==
  \A S \in (SUBSET {Unit(p) : p \in Instances}) \ {{}} :
    \E x \in S : \A e \in Executed : Unit(e[1]) = x /\ Unit(e[2]) \in S => Unit(e[2]) = x

WellBuilt ==
  /\ NoConstrainedModules /\ EveryoneWaits /\ SourcesStandAlone /\ UnitsFormNoLoop
  /\ Executed # {}

-----------------------------------------------------------------------------
(* Properties of a running dataflow. *)

\* The task that completes the data of component q, for component p: within a
\* CUDA graph the component tasks only record their part of it.
Writer(q, p) ==
  IF CudaGraphName[q] # "" /\ CudaGraphName[q] # CudaGraphName[p]
  THEN CudaGraph(CudaGraphName[q]) ELSE Component(q)

\* While a component may run, every task that writes its inputs has finished
\* with the event of this time step and is not running again, and the time step
\* is not given to another event.  Two components of one CUDA graph are also in
\* this order on the GPU.
InputsStable ==
  LET links == Links(graph)
  IN \A n \in {m \in DueNodes : IsComponent(m[1]) /\ ~IsSource(m)} :
       LET p == n[1][2]
           i == n[2]
       IN /\ i \in busy
          /\ \A q \in {e[1] : e \in {f \in links : f[2] = p}} :
               LET w == <<Writer(q, p), i>>
               IN ran[w] = event[i] /\ w \notin DueNodes

\* A serial component runs in one time step at a time, and there for the event
\* that follows the last one it has seen.
SerialInOrder ==
  phase = "running" =>
    \A p \in {q \in graph.patterns : getConcurrency[q] = "SERIAL"} :
      LET At(i) == <<Component(p), i>>
      IN \A i \in {j \in Steps : At(j) \in DueNodes} :
           /\ \A j \in Steps \ {i} : At(j) \notin DueNodes
           /\ \/ p \in Sources(graph) \ fed[i]
              \/ event[i] = 1 + MaxOf({ran[At(j)] : j \in Steps})

\* A time step is only freed when every task has handled its event.
StepComplete ==
  \A i \in Steps \ busy :
    \A n \in AllNodes : n[2] = i /\ n[1] # TimeStepStart => ran[n] = event[i]

\* A VALID port holds the data of the event in its time step, never what is
\* left from the last round.
FreshData ==
  \A i \in Steps : \A q \in valid[i] :
    /\ i \in busy
    /\ IF getComponentType[q.of] \in SourceTypes THEN q.of \in fed[i]
       ELSE ran[<<Component(q.of), i>>] = event[i]

\* The taskflow comes to its end, and every component was torn down before,
\* although the tasks that wait for source data each hold a worker thread.
FlowEnds ==
  phase = "running" ~>
    /\ Idle
    /\ \A p \in graph.patterns :
         \E n \in AllNodes : n[1] = Component(p) /\ ran[n] >= Teardown

\* The task of a constrained module is executed.
ModuleRuns ==
  phase = "running" ~>
    \A k \in Modules(graph) :
      \E n \in AllNodes : n[1] = ModuleEnd(k) /\ ran[n] > 0
=============================================================================
