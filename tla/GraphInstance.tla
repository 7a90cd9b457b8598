--------------------------- MODULE GraphInstance ---------------------------
(***************************************************************************)
(* The description of a dataflow and the buffers made from it.             *)
(*                                                                         *)
(* An application adds instances of patterns to a GraphInstance, adds      *)
(* instances of their port groups, and connects ports.  When the dataflow  *)
(* is loaded and started, TimeDomainBuffer gives every producer port a     *)
(* slot in the buffer of each time step, and every component a local view  *)
(* of these slots, in the order of its port indices.                       *)
(*                                                                         *)
(* A port is identified by its place: pattern instance, port group, number *)
(* of the port group instance, direction and position in the list of the   *)
(* group.  checkName makes the names of a group unique, so the place       *)
(* stands for the name.  All patterns are in time domain 0.                *)
(***************************************************************************)
EXTENDS Pattern, Integers, FiniteSets

CONSTANTS
  Instances,         \* the instance ids that the application may add
  PatternOf,         \* per instance id its pattern
  ParameterValues,   \* the values that the application may give a parameter
  TimeDomainConfigs, \* per time domain its TimeDomainManagerConfig
  MaxGroupInstances  \* bound on the instances of each port group

\* Source components get their data from outside of the taskflow.
SourceTypes == {"ASYNC_SOURCE", "INTERNAL_SYNC_SOURCE"}

getComponentType[p \in Instances] == PatternOf[p].type
getConcurrency[p \in Instances] == PatternOf[p].concurrency
Groups[p \in Instances] == PatternOf[p].port_groups

ASSUME PatternAssumption == \A p \in Instances : IsPattern(PatternOf[p])

ASSUME BoundAssumption ==
  \A p \in Instances :
    \A k \in DOMAIN Groups[p] :
      MaxGroupInstances[p][k] \in Nat /\ (k = kDefaultPortGroup => MaxGroupInstances[p][k] > 0)

SourceModes == <<"WAIT_FOR_BUFFER", "IMMEDIATE_RETURN">>
MissingSourceEventModes == <<"WAIT_FOR_EVENT", "CANCEL_OLDEST">>

\* The durations and the frequency are numbers.
TimeDomainManagerConfig ==
  [time_domain : Nat, ringbuffer_size : Nat, max_offset : Int, max_delay : Int,
   sensor_frequency : Nat, source_mode : {SourceModes[n] : n \in 1..2},
   missing_source_event_mode : {MissingSourceEventModes[n] : n \in 1..2},
   cpu_count : Int, profile : BOOLEAN]

ASSUME ConfigAssumption ==
  /\ TimeDomainConfigs \in [DOMAIN TimeDomainConfigs -> TimeDomainManagerConfig]
  /\ \A n \in DOMAIN TimeDomainConfigs : TimeDomainConfigs[n].time_domain = n

MaxOf(S) == CHOOSE m \in S : \A n \in S : n <= m

\* Every port that the instances can have.
PortInstance ==
  {q \in [of : Instances,
          group : 1..MaxOf({Len(Groups[p]) : p \in Instances}),
          inst : 0..(MaxOf(UNION {{MaxGroupInstances[p][k] : k \in DOMAIN Groups[p]} :
                                    p \in Instances}) - 1),
          dir : Directions,
          pos : 1..MaxOf(UNION {{Len(Groups[p][k][d]) :
                                   k \in DOMAIN Groups[p], d \in Directions} :
                                 p \in Instances})] :
     /\ q.group \in DOMAIN Groups[q.of]
     /\ q.inst < MaxGroupInstances[q.of][q.group]
     /\ q.pos \in DOMAIN Groups[q.of][q.group][q.dir]}

Consumers == {q \in PortInstance : q.dir = "CONSUMER"}
Producers == {q \in PortInstance : q.dir = "PRODUCER"}
NoPort == [of |-> "", group |-> 0, inst |-> 0, dir |-> "NONE", pos |-> 0]

\* The port of the pattern that a port is an instance of.
Blueprint(q) == Groups[q.of][q.group][q.dir][q.pos]

VARIABLES
  graph,  \* the GraphInstance
  phase   \* "edit", "loaded" once the network is built, or "running"

GraphTypeOK ==
  /\ graph.timedomain_configs = TimeDomainConfigs
  /\ graph.patterns \subseteq Instances
  /\ \A p \in Instances : \A k \in DOMAIN Groups[p] :
       \A j \in DOMAIN graph.port_groups[p][k] :
         DOMAIN graph.port_groups[p][k][j] = DOMAIN Groups[p][k].parameter
  /\ graph.connected_to \in [Consumers -> Producers \cup {NoPort}]
  /\ phase \in {"edit", "loaded", "running"}

-----------------------------------------------------------------------------
(* Queries of GraphInstance, PatternInstance and PortInstance. *)

\* How many instances a port group has.
getPortGroupCount(g, p, k) == Len(g.port_groups[p][k])

\* The ports that exist: those of the port group instances.
IsPortOf(g, q) == q.of \in g.patterns /\ q.inst < getPortGroupCount(g, q.of, q.group)
Ports(g) == {q \in PortInstance : IsPortOf(g, q)}

\* Ports are looked up by name, those of the default group first.
getProducerPort(g, q) == q \in Producers /\ IsPortOf(g, q)
getConsumerPort(g, q) == q \in Consumers /\ IsPortOf(g, q)

\* Only consumer ports that exist are ever connected.
connectedToPtr(g, q) ==
  IF q.dir = "PRODUCER"
  THEN {c \in Consumers : g.connected_to[c] = q}
  ELSE {g.connected_to[q]} \ {NoPort}

\* Which components are connected to which, and those that p is connected to.
Links(g) ==
  {<<g.connected_to[c].of, c.of>> : c \in {d \in Consumers : g.connected_to[d] # NoPort}}
Downstream(g, p) == {e[2] : e \in {f \in Links(g) : f[1] = p}}

\* Mutant: only the direct successors of the consumer are followed.
would_connect_to_self_shallow(g, prod, test) ==
  test = prod \/ prod \in Downstream(g, test)

\* The depth first search from the consumer on reaches the producer: it is in
\* every set that holds the consumer and all successors of its members.
would_connect_to_self_recursive(g, prod, test) ==
  LET links == Links(g)
  IN \A S \in SUBSET (g.patterns \ {prod}) :
       test \in S => \E e \in links : e[1] \in S /\ e[2] \notin S

checkSourceAndSinkConnectionError(g, source, sink) ==
  \/ source.of = sink.of
  \/ Blueprint(source).datatype # Blueprint(sink).datatype
  \/ ~getProducerPort(g, source)
  \/ ~getConsumerPort(g, sink)
  \/ would_connect_to_self_recursive(g, source.of, sink.of)

\* Every input port is connected.
checkRunnable(g) ==
  \A c \in Consumers : IsPortOf(g, c) => connectedToPtr(g, c) # {}

\* Whether a port group instance comes before another one of its component.
GroupBefore(q, k, j) == q.group < k \/ (q.group = k /\ q.inst < j)

\* Mutant: the group instances of other port groups are not counted.
getPortGroupStartIndex_ownGroup(g, p, k, j, d) ==
  Cardinality({q \in Ports(g) : q.of = p /\ q.dir = d /\ q.group = k /\ q.inst < j})

\* The ports of the port group instances before the instance j of group k.
getPortGroupStartIndex(g, p, k, j, d) ==
  Cardinality({q \in Ports(g) : q.of = p /\ q.dir = d /\ GroupBefore(q, k, j)})

getPortIndex(g, q) ==
  getPortGroupStartIndex(g, q.of, q.group, q.inst, q.dir)
    + Blueprint(q).port_index

-----------------------------------------------------------------------------
(* The application edits the graph. *)

\* PatternInstance: per port group a sequence of its instances, here of their
\* parameters.  The constructor instantiates the default port group.
InitialGroups(p) ==
  [k \in DOMAIN Groups[p] |->
     IF k = kDefaultPortGroup THEN <<Groups[p][k].parameter>> ELSE <<>>]

\* The application has set the configuration of its time domains.
GraphInit ==
  /\ graph = [timedomain_configs |-> TimeDomainConfigs,
              patterns |-> {},
              port_groups |-> [p \in Instances |-> InitialGroups(p)],
              connected_to |-> [c \in Consumers |-> NoPort]]
  /\ phase = "edit"

addPattern(p) ==
  /\ phase = "edit"
  /\ p \notin graph.patterns
  /\ graph' = [graph EXCEPT !.patterns = @ \cup {p}]
  /\ UNCHANGED phase

instantiatePortGroup(p, k) ==
  /\ phase = "edit"
  /\ p \in graph.patterns
  /\ getPortGroupCount(graph, p, k) < MaxGroupInstances[p][k]
  /\ graph' = [graph EXCEPT !.port_groups[p][k] = Append(@, Groups[p][k].parameter)]
  /\ UNCHANGED phase

\* The parameter of an instance of a port group, here one that the pattern has.
setParameter(p, k, j, name, value) ==
  /\ phase = "edit"
  /\ p \in graph.patterns
  /\ graph' = [graph EXCEPT !.port_groups[p][k][j][name].value = value]
  /\ UNCHANGED phase

\* A second connect of the same input replaces the first one.
connect(source, sink) ==
  /\ phase = "edit"
  /\ ~checkSourceAndSinkConnectionError(graph, source, sink)
  /\ graph' = [graph EXCEPT !.connected_to[sink] = source]
  /\ UNCHANGED phase

HasDefaultParameters(g) ==
  \A p \in g.patterns : \A k \in DOMAIN Groups[p] :
    \A j \in DOMAIN g.port_groups[p][k] : g.port_groups[p][k][j] = Groups[p][k].parameter

GraphNext ==
  \/ \E p \in Instances : addPattern(p)
  \/ \E p \in Instances : \E k \in DOMAIN Groups[p] : instantiatePortGroup(p, k)
  \/ /\ checkRunnable(graph)  \* (bound) parameters are set when all is connected
     /\ \E p \in Instances, value \in ParameterValues : \E k \in DOMAIN Groups[p] :
          \E j \in DOMAIN graph.port_groups[p][k], name \in DOMAIN Groups[p][k].parameter :
            setParameter(p, k, j, name, value)
  \/ \E source \in Producers, sink \in Consumers : connect(source, sink)

-----------------------------------------------------------------------------
(* The buffers of a time step. *)

TypeRank(p) == CHOOSE n \in DOMAIN ComponentTypes : ComponentTypes[n] = getComponentType[p]

\* Mutant: the components are not sorted.
LastInOrder_any(S) == S

\* The components that may be last when the set is sorted by component type.
LastInOrder(S) == {p \in S : \A q \in S : TypeRank(q) <= TypeRank(p)}

\* The components of the time domain: all that have a component type.
getPatternsForTimeDomain(g) ==
  {p \in g.patterns : \E n \in DOMAIN ComponentTypes : getComponentType[p] = ComponentTypes[n]}

\* The orders that std::sort may give: it is arbitrary within a type.
ComponentOrders(g) ==
  LET components == getPatternsForTimeDomain(g)
      orders[S \in SUBSET components] ==
        IF S = {} THEN {<<>>}
        ELSE UNION {{Append(before, p) : before \in orders[S \ {p}]} :
                      p \in LastInOrder(S)}
  IN orders[components]

\* Component indices begin at 0.
getComponentIndex(order, p) == (CHOOSE n \in DOMAIN order : order[n] = p) - 1

\* Whether the data of producer port r is allocated before that of q.
AllocatedBefore(order, r, q) ==
  \/ getComponentIndex(order, r.of) < getComponentIndex(order, q.of)
  \/ /\ r.of = q.of
     /\ \/ GroupBefore(r, q.group, q.inst)
        \/ r.group = q.group /\ r.inst = q.inst /\ r.pos < q.pos

\* The slot of a producer port: how many were allocated before it.
ProducerSlot(g, order, q) ==
  Cardinality({r \in Ports(g) \cap Producers : AllocatedBefore(order, r, q)})

\* port_to_buffer_index_: an input shares the slot of its producer.
BufferIndex(g, order, q) ==
  IF q.dir = "PRODUCER" THEN ProducerSlot(g, order, q)
  ELSE ProducerSlot(g, order, g.connected_to[q])

\* The objects that DataBuffer creates: one per slot, of its port's type.
DataBuffer(g, order) ==
  {<<ProducerSlot(g, order, q), Blueprint(q).datatype>> : q \in Ports(g) \cap Producers}

\* getProducerPorts and getConsumerPorts of a pattern instance.
OwnPorts(g, p, d) == {q \in Ports(g) : q.of = p /\ q.dir = d}

\* The offset of the first instance of a port group, the ports of an instance
\* and the number of instances.
getPortGroupOffset(g, p, k, d) ==
  IF getPortGroupCount(g, p, k) = 0 THEN [group_offset |-> -1, group_port_count |-> 0, size |-> 0]
  ELSE [group_offset |-> getPortGroupStartIndex(g, p, k, 0, d),
        group_port_count |-> getPortCount(Groups[p][k], d),
        size |-> getPortGroupCount(g, p, k)]

\* BufferConfig: the slot and the port index of each port, and the port groups.
BufferConfig(g, order, p, d) ==
  [buffer_to_port |->
     {<<BufferIndex(g, order, q), getPortIndex(g, q)>> : q \in OwnPorts(g, p, d)},
   port_group_config |->
     [k \in DOMAIN Groups[p] |-> getPortGroupOffset(g, p, k, d)]]

\* What is found outside of a local view, or where nothing was put in it.
NoSlot == -1

\* The local view has as many places as there are ports.
createLocalBuffer(buffer_to_port) ==
  [n \in 0..(Cardinality(buffer_to_port) - 1) |->
     IF \E b \in buffer_to_port : b[2] = n
     THEN (CHOOSE b \in buffer_to_port : b[2] = n)[1]
     ELSE NoSlot]

\* The local view of a component: the slots under its port indices.
createComponentBuffer(config) ==
  [buffer |-> createLocalBuffer(config.buffer_to_port),
   groups |-> config.port_group_config]

\* The index that getInput and getOutput make of the port index within a group.
GroupPortIndex(groups, q) ==
  groups[q.group].group_offset + groups[q.group].group_port_count * q.inst
    + Blueprint(q).port_index

\* The slot that a component reads or writes as its port q.
getBuffer(view, q) ==
  LET n == GroupPortIndex(view.groups, q)
  IN IF n \in DOMAIN view.buffer THEN view.buffer[n] ELSE NoSlot

\* Whether a component finds the slot of every port of its under the port.
FindsItsSlots(g, order, p, d) ==
  LET view == createComponentBuffer(BufferConfig(g, order, p, d))
  IN \A q \in OwnPorts(g, p, d) : getBuffer(view, q) = BufferIndex(g, order, q)

\* source_buffer_list_: the sources in the order of the component indices.
SourceList(order) == SelectSeq(order, LAMBDA p : getComponentType[p] \in SourceTypes)

-----------------------------------------------------------------------------
(* Properties of every dataflow that can be loaded. *)

\* Whatever the order of the calls, and even when an input is connected again,
\* the connections that connect() accepts never form a loop: every set of
\* components has one that no other of the set delivers to.  The task graph of
\* a loop would never start.
NoLoop ==
  phase = "edit" =>
    LET links == Links(graph)
    IN \A S \in (SUBSET graph.patterns) \ {{}} :
         \E p \in S : \A e \in links : e[1] \in S => e[2] # p

\* A component that reads an input or writes an output, through the port index
\* of the port or through its port group instance, finds the slot that was
\* allocated for the output or for the output that the input is connected to;
\* it holds an object of the type that the port expects, and no two outputs
\* share a slot.
Wired ==
  phase = "loaded" =>
    \A order \in ComponentOrders(graph) :
      LET ports == Ports(graph)
          objects == DataBuffer(graph, order)
      IN /\ \A p \in graph.patterns, d \in Directions : FindsItsSlots(graph, order, p, d)
         /\ \A q \in ports : <<BufferIndex(graph, order, q), Blueprint(q).datatype>> \in objects
         /\ Cardinality({object[1] : object \in objects})
              = Cardinality(ports \cap Producers)

\* The component index that a source requests buffers with is also its index in
\* the list of source buffers: the time domain needs all sources to come first.
OwnSourceBuffer ==
  phase = "loaded" =>
    \A order \in ComponentOrders(graph) :
      \A p \in graph.patterns :
        getComponentType[p] \in SourceTypes =>
          LET n == getComponentIndex(order, p) + 1
          IN n <= Len(SourceList(order)) /\ SourceList(order)[n] = p
=============================================================================
