---------------------------- MODULE GraphProofs ----------------------------
(***************************************************************************)
(* Proofs about the graph that an application edits: for any number of     *)
(* instances, patterns, ports and parameters, the connections never form a *)
(* loop, and a saved dataflow is read back as it was.                      *)
(*                                                                         *)
(* GoodGraph is the inductive invariant of editing.  connect() accepts a   *)
(* connection only when the depth first search from the consumer does not  *)
(* reach the producer; the set that the search has seen splits every set   *)
(* of components that could have become a loop.                            *)
(***************************************************************************)
EXTENDS TaskFlowGraph, SequenceTheorems, FiniteSetTheorems, TLAPS

-----------------------------------------------------------------------------
(* The invariant of an edited graph. *)

\* Every connection joins components that have been added.
ConnectedPortsExist(g) ==
  /\ DOMAIN g.connected_to = Consumers
  /\ \A c \in Consumers : g.connected_to[c] # NoPort =>
       /\ c.of \in g.patterns
       /\ g.connected_to[c].of \in g.patterns

\* Every set of components has one that no other of the set delivers to.
SomeSource(g) ==
  \A S \in (SUBSET g.patterns) \ {{}} : \E p \in S : \A e \in Links(g) : e[1] \in S => e[2] # p

\* Every set of components has one that delivers to no other of the set.
SomeSink(g) ==
  \A S \in (SUBSET g.patterns) \ {{}} : \E p \in S : \A e \in Links(g) : e[2] \in S => e[1] # p

\* The components that the connections of a graph join have been added to it.
LEMMA LinksOfPatterns ==
  ASSUME NEW g, ConnectedPortsExist(g)
  PROVE \A e \in Links(g) : e = <<e[1], e[2]>> /\ e[1] \in g.patterns /\ e[2] \in g.patterns
BY DEF Links, ConnectedPortsExist

\* The default port group is always instantiated.
DefaultGroupsExist(g) ==
  \A p \in Instances : Len(g.port_groups[p][kDefaultPortGroup]) > 0

-----------------------------------------------------------------------------
(* What is saved is read back. *)

\* No pattern was left inside of a port group: endPortGroup was called for
\* every beginPortGroup (the flag is not written to a file).
PatternsFinished == \A p \in Instances : ~PatternOf[p].is_group_port

\* The values of the parameters of an instance of group k of p.
ParameterList(p, k) ==
  [DOMAIN Groups[p][k].parameter -> [default : STRING, value : STRING \cup ParameterValues]]

\* The shape of a graph: what each instance of a port group holds, what an
\* instance starts with, and that only existing inputs are connected.
WellFormed(g) ==
  /\ g \in [timedomain_configs : {TimeDomainConfigs}, patterns : SUBSET Instances,
            port_groups : {g.port_groups}, connected_to : [Consumers -> Producers \cup {NoPort}]]
  /\ g.port_groups = [p \in Instances |-> [k \in DOMAIN Groups[p] |-> g.port_groups[p][k]]]
  /\ \A p \in Instances : \A k \in DOMAIN Groups[p] :
       g.port_groups[p][k] \in Seq(ParameterList(p, k))
  /\ \A p \in Instances \ g.patterns : g.port_groups[p] = InitialGroups(p)
  /\ \A c \in Consumers : g.connected_to[c] # NoPort =>
       c.of \in g.patterns /\ c.inst < Len(g.port_groups[c.of][c.group])

\* A pattern is a list of port groups.
LEMMA PatternFields ==
  ASSUME NEW p \in Instances
  PROVE  /\ Groups[p] = PatternOf[p].port_groups
         /\ Groups[p] = [k \in DOMAIN Groups[p] |-> Groups[p][k]]
         /\ \A k \in DOMAIN Groups[p] : IsPortGroup(Groups[p][k])
BY PatternAssumption DEF Groups, IsPattern

\* to_json and from_json of a PortGroup are inverse to each other, although empty
\* port lists are not written.
LEMMA PortGroupRoundTrip ==
  ASSUME NEW group, IsPortGroup(group)
  PROVE  from_json_PortGroup(to_json_PortGroup(group)) = group
<1> DEFINE o == to_json_PortGroup(group)
<1>1. DOMAIN o = {"parameter"} \cup {d \in Directions : group[d] # <<>>}
  BY DEF to_json_PortGroup, Restrict
<1>2. \A d \in DOMAIN o : o[d] = group[d]
  BY DEF to_json_PortGroup, Restrict
<1>3. \A d \in Directions : ListAt(o, d) = group[d]
  BY <1>1, <1>2 DEF ListAt, Directions
<1>4. o.parameter = group.parameter
  BY <1>1, <1>2
<1> HIDE DEF o
<1>5. from_json_PortGroup(o)
        = Merge([d \in Directions |-> group[d]], [parameter |-> group.parameter])
  BY <1>3, <1>4 DEF from_json_PortGroup
<1>6. Merge([d \in Directions |-> group[d]], [parameter |-> group.parameter]) = group
  BY DEF Merge, Directions, IsPortGroup
<1> QED BY <1>5, <1>6 DEF o

\* to_json and from_json of a TimeDomainManagerConfig are inverse to each other;
\* the modes are written as numbers, and a file without "profile" reads as FALSE.
LEMMA ConfigRoundTrip ==
  ASSUME NEW c \in TimeDomainManagerConfig
  PROVE  LET obj == to_json_TimeDomainManagerConfig(c)
         IN /\ from_json_TimeDomainManagerConfig(obj) = c
            /\ obj.time_domain = c.time_domain
            /\ from_json_TimeDomainManagerConfig(Restrict(obj, DOMAIN obj \ {"profile"}))
                 = [c EXCEPT !.profile = FALSE]
<1>1. PICK time, size, offset, delay, frequency, mode, missing, cpus, prof :
        /\ mode = c.source_mode /\ missing = c.missing_source_event_mode
        /\ c = [time_domain |-> time, ringbuffer_size |-> size, max_offset |-> offset,
                max_delay |-> delay, sensor_frequency |-> frequency, source_mode |-> mode,
                missing_source_event_mode |-> missing, cpu_count |-> cpus, profile |-> prof]
  BY DEF TimeDomainManagerConfig
<1> DEFINE Config(s, m, p) ==
             [time_domain |-> time, ringbuffer_size |-> size, max_offset |-> offset,
              max_delay |-> delay, sensor_frequency |-> frequency, source_mode |-> s,
              missing_source_event_mode |-> m, cpu_count |-> cpus, profile |-> p]
           a == IndexOf(SourceModes, mode)
           b == IndexOf(MissingSourceEventModes, missing)
           obj == Config(a - 1, b - 1, prof)
           old == Restrict(obj, DOMAIN obj \ {"profile"})
<1>2. /\ a \in {1, 2} /\ SourceModes[a] = mode
      /\ b \in {1, 2} /\ MissingSourceEventModes[b] = missing
  <2>1. mode \in {SourceModes[n] : n \in 1..2}
        /\ missing \in {MissingSourceEventModes[n] : n \in 1..2}
    BY <1>1 DEF TimeDomainManagerConfig
  <2> QED BY <2>1 DEF IndexOf, SourceModes, MissingSourceEventModes
<1> HIDE DEF a, b
<1>3. to_json_TimeDomainManagerConfig(c) = obj
  <2>1. to_json_TimeDomainManagerConfig(c)
          = [c EXCEPT !.source_mode = a - 1, !.missing_source_event_mode = b - 1]
    BY <1>1 DEF to_json_TimeDomainManagerConfig, a, b
  <2>2. \A x : x = c => to_json_TimeDomainManagerConfig(c)
          = [x EXCEPT !.source_mode = a - 1, !.missing_source_event_mode = b - 1]
    BY <2>1
  <2>3. ASSUME NEW u, NEW v
        PROVE  [Config(mode, missing, prof) EXCEPT
                  !.source_mode = u, !.missing_source_event_mode = v] = Config(u, v, prof)
    <3>1. [Config(mode, missing, prof) EXCEPT !.source_mode = u] = Config(u, missing, prof)
      OBVIOUS
    <3>2. [Config(u, missing, prof) EXCEPT !.missing_source_event_mode = v]
            = Config(u, v, prof)
      OBVIOUS
    <3> HIDE DEF Config
    <3> QED BY <3>1, <3>2
  <2>4. to_json_TimeDomainManagerConfig(c)
          = [Config(mode, missing, prof) EXCEPT
               !.source_mode = a - 1, !.missing_source_event_mode = b - 1]
    BY <1>1, <2>2
  <2> HIDE DEF Config
  <2> QED BY <2>3, <2>4
<1>4. [c EXCEPT !.profile = FALSE] = Config(mode, missing, FALSE)
  <2>1. \A v : [Config(mode, missing, prof) EXCEPT !.profile = v] = Config(mode, missing, v)
    OBVIOUS
  <2>2. \A x : x = c => [c EXCEPT !.profile = FALSE] = [x EXCEPT !.profile = FALSE]
    OBVIOUS
  <2> HIDE DEF Config
  <2> QED BY <1>1, <2>1, <2>2 DEF Config
<1>5. ASSUME NEW s, NEW m, NEW q
      PROVE  Merge(Config(s, m, q), [profile |-> FALSE]) = Config(s, m, q)
  BY DEF Merge
<1>6. ASSUME NEW v
      PROVE  Merge(old, [profile |-> v]) = Config(a - 1, b - 1, v)
  <2>1. /\ DOMAIN old = DOMAIN obj \ {"profile"}
        /\ \A x \in DOMAIN old : old[x] = obj[x]
    BY DEF Restrict
  <2>2. DOMAIN old \cup {"profile"} = DOMAIN obj
    BY <2>1
  <2>3. ASSUME NEW f, NEW D, D = DOMAIN f \cup {"profile"}
        PROVE  Merge(f, [profile |-> v])
                 = [x \in D |-> IF x \in DOMAIN f THEN f[x] ELSE v]
    BY <2>3 DEF Merge
  <2> DEFINE D == DOMAIN obj
  <2>4. \A x \in D : IF x \in DOMAIN old THEN old[x] = obj[x] ELSE x = "profile"
    BY <2>1
  <2>5. Merge(old, [profile |-> v])
          = [x \in D |-> IF x \in DOMAIN old THEN old[x] ELSE v]
    BY <2>2, <2>3
  <2>6. DOMAIN old = D \ {"profile"}
    BY <2>1
  <2> HIDE DEF old
  <2> QED BY <2>1, <2>5, <2>6
<1>7. ASSUME NEW q, NEW x, Merge(x, [profile |-> FALSE]) = Config(a - 1, b - 1, q)
      PROVE  from_json_TimeDomainManagerConfig(x)
               = Config(mode, missing, q)
  <2> DEFINE y == Config(a - 1, b - 1, q)
  <2>1. from_json_TimeDomainManagerConfig(x)
          = [y EXCEPT !.source_mode = SourceModes[y.source_mode + 1],
               !.missing_source_event_mode
                  = MissingSourceEventModes[y.missing_source_event_mode + 1]]
    <3> HIDE DEF y
    <3>1. Merge(x, [profile |-> FALSE]) = y
      BY <1>7 DEF y
    <3> QED BY <3>1 DEF from_json_TimeDomainManagerConfig
  <2>2. /\ SourceModes[y.source_mode + 1] = mode
        /\ MissingSourceEventModes[y.missing_source_event_mode + 1] = missing
    BY <1>2
  <2> QED BY <2>1, <2>2, ZenonT(30)
<1>8. from_json_TimeDomainManagerConfig(obj) = c
  BY <1>1, <1>5, <1>7
<1>9. from_json_TimeDomainManagerConfig(old) = [c EXCEPT !.profile = FALSE]
  <2> HIDE DEF old
  <2> QED BY <1>4, <1>6, <1>7
<1>10. obj.time_domain = c.time_domain
  BY <1>1
<1> QED BY <1>3, <1>8, <1>9, <1>10

\* The object of a port group instance gives back the parameters of the instance,
\* and holds the object of each of its ports at the place of the port.
LEMMA PortGroupInstanceRoundTrip ==
  ASSUME NEW g, NEW p \in Instances, NEW k \in DOMAIN Groups[p], NEW j \in Int
  PROVE  /\ from_json_PortGroup(to_json_PortGroupInstance(g, p, k, j)).parameter
              = g.port_groups[p][k][j + 1]
         /\ \A d \in Directions : \A n \in DOMAIN Groups[p][k][d] :
              ListAt(to_json_PortGroupInstance(g, p, k, j), d)[n]
                = to_json_PortInstance(g, [of |-> p, group |-> k, inst |-> j,
                                           dir |-> d, pos |-> n])
<1> DEFINE At(d, n) == [of |-> p, group |-> k, inst |-> j, dir |-> d, pos |-> n]
           parameter == g.port_groups[p][k][j + 1]
           G == [Groups[p][k] EXCEPT !.parameter = parameter]
           group == to_json_PortGroup(G)
           ports == [d \in DOMAIN group \cap Directions |->
                       [n \in DOMAIN group[d] |-> to_json_PortInstance(g, At(d, n))]]
           obj == Merge([port_group_instance_index |-> j], Merge(ports, group))
<1>1. /\ G.parameter = parameter
      /\ \A d \in Directions : G[d] = Groups[p][k][d] /\ G[d] \in Seq(Port)
  <2>1. IsPortGroup(Groups[p][k])
    BY PatternFields
  <2>2. ASSUME NEW r, IsPortGroup(r), NEW x
        PROVE  LET e == [r EXCEPT !.parameter = x]
               IN /\ e.parameter = x
                  /\ \A d \in Directions : e[d] = r[d] /\ e[d] \in Seq(Port)
    BY <2>2 DEF IsPortGroup, Directions
  <2> QED BY <2>1, <2>2
<1> HIDE DEF G
<1>2. /\ DOMAIN group = {"parameter"} \cup {d \in Directions : G[d] # <<>>}
      /\ \A x \in DOMAIN group : group[x] = G[x]
  BY DEF to_json_PortGroup, Restrict
<1> HIDE DEF group
<1>3. /\ DOMAIN ports = DOMAIN group \cap Directions
      /\ \A d \in DOMAIN ports : /\ DOMAIN ports[d] = DOMAIN G[d]
                                 /\ \A n \in DOMAIN G[d] :
                                      ports[d][n] = to_json_PortInstance(g, At(d, n))
  BY <1>2
<1> HIDE DEF ports
<1>4. /\ DOMAIN obj = {"port_group_instance_index"} \cup DOMAIN group
      /\ obj["parameter"] = parameter
      /\ \A d \in DOMAIN ports : obj[d] = ports[d]
  BY <1>1, <1>2, <1>3 DEF Merge, Directions
<1>5. to_json_PortGroupInstance(g, p, k, j) = obj
  BY DEF to_json_PortGroupInstance, group, ports, G
<1> HIDE DEF obj
<1>6. from_json_PortGroup(obj).parameter = parameter
  BY <1>4 DEF from_json_PortGroup, Merge, Directions
<1>7. ASSUME NEW d \in Directions, NEW n \in DOMAIN Groups[p][k][d]
      PROVE  ListAt(obj, d)[n] = to_json_PortInstance(g, At(d, n))
  <2>1. G[d] # <<>>
    BY <1>1
  <2> QED BY <1>1, <1>2, <1>3, <1>4, <2>1 DEF ListAt
<1> QED BY <1>5, <1>6, <1>7

\* The object of an input gives back the output that the input is connected to.
LEMMA ConnectionRoundTrip ==
  ASSUME NEW g, NEW q \in Consumers
  PROVE  from_json_PortInstance(to_json_PortInstance(g, q)) = g.connected_to[q]
<1>1. q \in PortInstance /\ q.dir = "CONSUMER"
  BY DEF Consumers
<1>2. q.of \in Instances /\ q.group \in DOMAIN Groups[q.of] /\ q.dir \in Directions
      /\ q.pos \in DOMAIN Groups[q.of][q.group][q.dir]
  BY <1>1 DEF PortInstance
<1>3. Blueprint(q) \in Port
  <2>1. Groups[q.of][q.group][q.dir] \in Seq(Port)
    BY <1>2, PatternFields DEF IsPortGroup
  <2> QED BY <1>2, <2>1 DEF Blueprint
<1>4. DOMAIN Blueprint(q) = {"port_index", "datatype"}
  BY <1>3 DEF Port
<1>5. to_json_PortInstance(g, q) = Merge(Blueprint(q), [connected_to |-> g.connected_to[q]])
  BY <1>1 DEF to_json_PortInstance
<1> DEFINE b == Blueprint(q)
<1> HIDE DEF b
<1>6. ASSUME NEW x
      PROVE  from_json_PortInstance(Merge(b, [connected_to |-> x])) = x
  <2>1. "connected_to" \notin DOMAIN b
    BY <1>4 DEF b
  <2> QED BY <2>1 DEF Merge, from_json_PortInstance
<1> QED BY <1>5, <1>6 DEF b

\* What a file says about the pattern instances of g.
LEMMA PatternsOfFile ==
  ASSUME NEW g, WellFormed(g)
  PROVE  LET file == to_json(g)
         IN /\ Ids(file) = g.patterns
            /\ \A p \in g.patterns : ObjectOf(file, p) = to_json_PatternInstance(g, p)
<1> DEFINE file == to_json(g)
<1>1. file.patterns = {to_json_PatternInstance(g, p) : p \in g.patterns}
  BY DEF to_json
<1>2. \A p : to_json_PatternInstance(g, p).id = p
  BY DEF to_json_PatternInstance
<1> HIDE DEF file
<1>3. Ids(file) = g.patterns
  BY <1>1, <1>2 DEF Ids
<1>4. ASSUME NEW p \in g.patterns
      PROVE  ObjectOf(file, p) = to_json_PatternInstance(g, p)
  <2>1. to_json_PatternInstance(g, p) \in file.patterns
    BY <1>1
  <2>2. \A obj \in file.patterns : obj.id = p => obj = to_json_PatternInstance(g, p)
    BY <1>1, <1>2
  <2> QED BY <1>2, <2>1, <2>2 DEF ObjectOf
<1> QED BY <1>3, <1>4 DEF file

\* A file lists the instances of every port group in their order.
LEMMA InstancesOfFile ==
  ASSUME NEW g, WellFormed(g), NEW p \in g.patterns
  PROVE  PortGroupInstances(to_json(g), p)
           = [k \in DOMAIN Groups[p] |->
                [j \in DOMAIN g.port_groups[p][k] |-> to_json_PortGroupInstance(g, p, k, j - 1)]]
BY PatternsOfFile DEF PortGroupInstances, to_json_PatternInstance

\* from_json of a PatternInstance gives back the parameters of all its port
\* group instances.
LEMMA GroupsOfFile ==
  ASSUME NEW g, WellFormed(g), NEW p \in g.patterns
  PROVE  from_json_PatternInstance(PortGroupInstances(to_json(g), p)) = g.port_groups[p]
<1> DEFINE groups == PortGroupInstances(to_json(g), p)
<1>1. p \in Instances
  BY DEF WellFormed
<1>2. /\ DOMAIN groups = DOMAIN Groups[p]
      /\ \A k \in DOMAIN Groups[p] :
           /\ DOMAIN groups[k] = DOMAIN g.port_groups[p][k]
           /\ \A j \in DOMAIN g.port_groups[p][k] :
                groups[k][j] = to_json_PortGroupInstance(g, p, k, j - 1)
  BY InstancesOfFile
<1> HIDE DEF groups
<1>3. \A k \in DOMAIN Groups[p] : g.port_groups[p][k] \in Seq(ParameterList(p, k))
  BY <1>1 DEF WellFormed
<1>4. \A k \in DOMAIN Groups[p] : \A j \in DOMAIN g.port_groups[p][k] :
        from_json_PortGroup(groups[k][j]).parameter = g.port_groups[p][k][j]
  <2> TAKE k \in DOMAIN Groups[p]
  <2> TAKE j \in DOMAIN g.port_groups[p][k]
  <2>1. j \in Int /\ j - 1 \in Int /\ (j - 1) + 1 = j
    BY <1>3
  <2>2. groups[k][j] = to_json_PortGroupInstance(g, p, k, j - 1)
    BY <1>2
  <2>3. from_json_PortGroup(to_json_PortGroupInstance(g, p, k, j - 1)).parameter
          = g.port_groups[p][k][(j - 1) + 1]
    BY <1>1, <2>1, PortGroupInstanceRoundTrip
  <2> QED BY <2>1, <2>2, <2>3
<1>5. \A k \in DOMAIN Groups[p] :
        [j \in DOMAIN groups[k] |-> from_json_PortGroup(groups[k][j]).parameter]
          = g.port_groups[p][k]
  <2> TAKE k \in DOMAIN Groups[p]
  <2>1. g.port_groups[p][k]
          = [j \in DOMAIN g.port_groups[p][k] |-> g.port_groups[p][k][j]]
    BY <1>3
  <2> QED BY <1>2, <1>4, <2>1
<1>6. g.port_groups[p] = [k \in DOMAIN Groups[p] |-> g.port_groups[p][k]]
  <2>1. g.port_groups = [r \in Instances |-> [k \in DOMAIN Groups[r] |-> g.port_groups[r][k]]]
    BY DEF WellFormed
  <2> QED BY <1>1, <2>1
<1> QED BY <1>2, <1>5, <1>6 DEF from_json_PatternInstance, groups

\* from_json finds, for every input, the connection that was written.
LEMMA ConnectionsOfFile ==
  ASSUME NEW g, WellFormed(g), NEW q \in Consumers, q.of \in g.patterns
  PROVE  ConnectedTo(to_json(g), q) = g.connected_to[q]
<1> DEFINE p == q.of
           k == q.group
           instances == PortGroupInstances(to_json(g), p)[k]
           list == g.port_groups[p][k]
<1>1. /\ q \in [of : Instances, group : Nat, inst : Nat, dir : Directions, pos : Nat]
      /\ k \in DOMAIN Groups[p] /\ q.dir = "CONSUMER"
      /\ q.pos \in DOMAIN Groups[p][k][q.dir]
  <2>1. q \in PortInstance /\ q.dir = "CONSUMER"
    BY DEF Consumers
  <2> QED BY <2>1 DEF PortInstance
<1>2. /\ DOMAIN instances = DOMAIN list
      /\ \A j \in DOMAIN list : instances[j] = to_json_PortGroupInstance(g, p, k, j - 1)
  BY <1>1, InstancesOfFile
<1>3. list \in Seq(ParameterList(p, k))
  BY <1>1 DEF WellFormed
<1> HIDE DEF instances
<1>4. Len(instances) = Len(list)
  <2>1. instances = [j \in 1..Len(list) |-> to_json_PortGroupInstance(g, p, k, j - 1)]
    BY <1>1, <1>3, InstancesOfFile DEF instances
  <2> QED BY <1>3, <2>1
<1>5. CASE q.inst < Len(list)
  <2>1. q.inst + 1 \in DOMAIN list /\ (q.inst + 1) - 1 = q.inst
    BY <1>1, <1>3, <1>5
  <2>2. instances[q.inst + 1] = to_json_PortGroupInstance(g, p, k, q.inst)
    BY <1>2, <2>1
  <2>3. q = [of |-> p, group |-> k, inst |-> q.inst, dir |-> q.dir, pos |-> q.pos]
    BY <1>1
  <2>4. ListAt(instances[q.inst + 1], q.dir)[q.pos] = to_json_PortInstance(g, q)
    <3>1. ASSUME NEW a \in Instances, NEW b \in DOMAIN Groups[a], NEW j \in Int,
                 NEW d \in Directions, NEW n \in DOMAIN Groups[a][b][d]
          PROVE  ListAt(to_json_PortGroupInstance(g, a, b, j), d)[n]
                   = to_json_PortInstance(g, [of |-> a, group |-> b, inst |-> j,
                                              dir |-> d, pos |-> n])
      BY PortGroupInstanceRoundTrip, ZenonT(30)
    <3>2. /\ p \in Instances /\ k \in DOMAIN Groups[p] /\ q.dir \in Directions
          /\ q.pos \in DOMAIN Groups[p][k][q.dir] /\ q.inst \in Int
      BY <1>1
    <3>3. ListAt(to_json_PortGroupInstance(g, p, k, q.inst), q.dir)[q.pos]
            = to_json_PortInstance(g, [of |-> p, group |-> k, inst |-> q.inst,
                                       dir |-> q.dir, pos |-> q.pos])
      BY <3>1, <3>2
    <3> QED BY <2>2, <2>3, <3>3
  <2> QED BY <1>4, <1>5, <2>4, ConnectionRoundTrip DEF ConnectedTo, instances
<1>6. CASE ~(q.inst < Len(list))
  <2>1. g.connected_to[q] = NoPort
    BY <1>6 DEF WellFormed
  <2> QED BY <1>4, <1>6, <2>1 DEF ConnectedTo, instances
<1> QED BY <1>5, <1>6

\* from_json gives back the configuration of every time domain.
LEMMA ConfigsOfFile ==
  ASSUME NEW g, WellFormed(g)
  PROVE  from_json_configs(to_json(g)) = g.timedomain_configs
<1> DEFINE file == to_json(g)
           C == TimeDomainConfigs
           Obj(n) == to_json_TimeDomainManagerConfig(C[n])
<1>1. g.timedomain_configs = C
  BY DEF WellFormed
<1>2. \A n \in DOMAIN C : /\ Obj(n).time_domain = n
                          /\ from_json_TimeDomainManagerConfig(Obj(n)) = C[n]
  BY ConfigAssumption, ConfigRoundTrip
<1> HIDE DEF Obj
<1>3. file.time_domain_configs = {Obj(n) : n \in DOMAIN C}
  BY <1>1 DEF to_json, Obj
<1> HIDE DEF file
<1>4. {obj.time_domain : obj \in file.time_domain_configs} = DOMAIN C
  <2>1. \A n \in DOMAIN C :
          Obj(n) \in file.time_domain_configs /\ Obj(n).time_domain = n
    BY <1>2, <1>3
  <2>2. \A obj \in file.time_domain_configs : obj.time_domain \in DOMAIN C
    BY <1>2, <1>3
  <2> QED BY <2>1, <2>2
<1>5. ASSUME NEW n \in DOMAIN C
      PROVE  (CHOOSE obj \in file.time_domain_configs : obj.time_domain = n) = Obj(n)
  <2>1. Obj(n) \in file.time_domain_configs /\ Obj(n).time_domain = n
    BY <1>2, <1>3
  <2>2. \A obj \in file.time_domain_configs : obj.time_domain = n => obj = Obj(n)
    BY <1>2, <1>3
  <2> QED BY <2>1, <2>2
<1>6. C = [n \in DOMAIN C |-> C[n]]
  BY ConfigAssumption
<1>7. \A n \in DOMAIN C :
        from_json_TimeDomainManagerConfig(
          CHOOSE obj \in file.time_domain_configs : obj.time_domain = n) = C[n]
  BY <1>2, <1>5
<1>8. from_json_configs(file) = [n \in DOMAIN C |-> C[n]]
  BY <1>4, <1>7 DEF from_json_configs
<1> QED BY <1>1, <1>6, <1>8 DEF file

\* from_json(to_json(g)) is g.
LEMMA GraphRoundTrip ==
  ASSUME NEW g, WellFormed(g)
  PROVE  from_json(to_json(g)) = g
<1> DEFINE file == to_json(g)
<1>1. Ids(file) = g.patterns
  BY PatternsOfFile
<1>2. from_json_configs(file) = g.timedomain_configs
  BY ConfigsOfFile
<1>3. \A p \in g.patterns :
        from_json_PatternInstance(PortGroupInstances(file, p)) = g.port_groups[p]
  BY GroupsOfFile
<1>4. \A c \in Consumers : c.of \in g.patterns => ConnectedTo(file, c) = g.connected_to[c]
  BY ConnectionsOfFile
<1>5. \A c \in Consumers : c.of \notin g.patterns => g.connected_to[c] = NoPort
  BY DEF WellFormed
<1>6. /\ g.port_groups = [p \in Instances |-> g.port_groups[p]]
      /\ g.connected_to = [c \in Consumers |-> g.connected_to[c]]
      /\ \A p \in Instances \ g.patterns : g.port_groups[p] = InitialGroups(p)
  BY DEF WellFormed
<1> HIDE DEF file
<1>7. [p \in Instances |->
         IF p \in Ids(file) THEN from_json_PatternInstance(PortGroupInstances(file, p))
         ELSE InitialGroups(p)] = g.port_groups
  BY <1>1, <1>3, <1>6
<1>8. [c \in Consumers |-> IF c.of \in Ids(file) THEN ConnectedTo(file, c) ELSE NoPort]
        = g.connected_to
  BY <1>1, <1>4, <1>5, <1>6
<1>9. g = [timedomain_configs |-> g.timedomain_configs, patterns |-> g.patterns,
           port_groups |-> g.port_groups, connected_to |-> g.connected_to]
  BY DEF WellFormed
<1>10. from_json(file) = [timedomain_configs |-> g.timedomain_configs, patterns |-> g.patterns,
                          port_groups |-> g.port_groups, connected_to |-> g.connected_to]
  BY <1>1, <1>2, <1>7, <1>8 DEF from_json
<1> QED BY <1>9, <1>10 DEF file

\* from_json of the pattern that is written with an instance gives back its
\* pattern.
LEMMA PatternRoundTrip ==
  ASSUME PatternsFinished, NEW p \in Instances
  PROVE  from_json_Pattern(to_json_Pattern(PatternOf[p])) = PatternOf[p]
<1> DEFINE x == PatternOf[p]
           obj == to_json_Pattern(x)
<1>1. /\ x = [type |-> x.type, concurrency |-> x.concurrency, port_groups |-> x.port_groups,
              is_group_port |-> x.is_group_port]
      /\ x.port_groups = [k \in DOMAIN x.port_groups |-> x.port_groups[k]]
      /\ \A k \in DOMAIN x.port_groups : IsPortGroup(x.port_groups[k])
  BY PatternAssumption DEF IsPattern
<1>2. x.is_group_port = FALSE
  BY DEF PatternsFinished
<1> HIDE DEF x
<1>3. /\ obj.time_domains[1].component_type = x.type
      /\ obj.time_domains[1].concurrency = x.concurrency
      /\ obj.port_groups = [k \in DOMAIN x.port_groups |-> to_json_PortGroup(x.port_groups[k])]
  BY DEF to_json_Pattern
<1> HIDE DEF obj
<1>4. [k \in DOMAIN obj.port_groups |-> from_json_PortGroup(obj.port_groups[k])]
        = x.port_groups
  BY <1>1, <1>3, PortGroupRoundTrip
<1>5. from_json_Pattern(obj)
        = [type |-> x.type, concurrency |-> x.concurrency, port_groups |-> x.port_groups,
           is_group_port |-> FALSE]
  BY <1>3, <1>4 DEF from_json_Pattern
<1> QED BY <1>1, <1>2, <1>5 DEF x, obj

\* A file of a graph in this shape is read back completely.
LEMMA WellFormedRoundTrip ==
  ASSUME PatternsFinished, WellFormed(graph)
  PROVE  RoundTrip
<1>1. from_json(to_json(graph)) = graph
  BY GraphRoundTrip
<1>2. ASSUME NEW p \in graph.patterns
      PROVE  from_json_Pattern(ObjectOf(to_json(graph), p).local_pattern) = PatternOf[p]
  <2>1. p \in Instances
    BY DEF WellFormed
  <2>2. ObjectOf(to_json(graph), p).local_pattern = to_json_Pattern(PatternOf[p])
    BY PatternsOfFile DEF to_json_PatternInstance
  <2> QED BY <2>1, <2>2, PatternRoundTrip
<1>3. ASSUME NEW obj \in to_json(graph).time_domain_configs
      PROVE  from_json_TimeDomainManagerConfig(Restrict(obj, DOMAIN obj \ {"profile"}))
               = [from_json_TimeDomainManagerConfig(obj) EXCEPT !.profile = FALSE]
  <2>1. PICK n \in DOMAIN TimeDomainConfigs :
          obj = to_json_TimeDomainManagerConfig(TimeDomainConfigs[n])
    BY DEF to_json, WellFormed
  <2>2. TimeDomainConfigs[n] \in TimeDomainManagerConfig
    BY ConfigAssumption
  <2> QED BY <2>1, <2>2, ConfigRoundTrip
<1> QED BY <1>1, <1>2, <1>3 DEF RoundTrip

-----------------------------------------------------------------------------
(* Editing keeps the invariant. *)

\* What all operations of GraphInstance maintain.
GoodGraph(g) ==
  /\ WellFormed(g) /\ ConnectedPortsExist(g) /\ SomeSource(g) /\ SomeSink(g)
  /\ DefaultGroupsExist(g) /\ IsFiniteSet(g.patterns)

\* The parameters of a pattern are the first parameters of an instance.
LEMMA ParametersOfGroup ==
  ASSUME NEW p \in Instances, NEW k \in DOMAIN Groups[p]
  PROVE  Groups[p][k].parameter \in ParameterList(p, k)
<1>1. IsPortGroup(Groups[p][k])
  BY PatternFields
<1> QED BY <1>1 DEF IsPortGroup, ParameterList, Parameter

\* The empty graph satisfies the invariant.
LEMMA GraphInitially ==
  ASSUME GraphInit
  PROVE  GoodGraph(graph)
<1>1. \A p \in Instances :
        /\ InitialGroups(p) = [k \in DOMAIN Groups[p] |-> InitialGroups(p)[k]]
        /\ \A k \in DOMAIN Groups[p] : InitialGroups(p)[k] \in Seq(ParameterList(p, k))
  BY ParametersOfGroup DEF InitialGroups
<1>2. WellFormed(graph)
  BY <1>1 DEF GraphInit, WellFormed
<1>3. ConnectedPortsExist(graph) /\ SomeSource(graph) /\ SomeSink(graph)
  BY DEF GraphInit, ConnectedPortsExist, SomeSource, SomeSink
<1>4. \A p \in Instances :
        kDefaultPortGroup \in DOMAIN Groups[p] /\ Len(InitialGroups(p)[kDefaultPortGroup]) = 1
  BY PatternAssumption DEF Groups, IsPattern, InitialGroups
<1>5. DefaultGroupsExist(graph) /\ IsFiniteSet(graph.patterns)
  BY <1>4, FS_EmptySet DEF GraphInit, DefaultGroupsExist
<1> QED BY <1>2, <1>3, <1>5 DEF GoodGraph

\* addPattern keeps the invariant: a new component has no connections.
LEMMA AddPatternKeeps ==
  ASSUME GoodGraph(graph), NEW p \in Instances, addPattern(p)
  PROVE  GoodGraph(graph')
<1>1. /\ graph'.patterns = graph.patterns \cup {p}
      /\ graph'.connected_to = graph.connected_to
      /\ graph' = [graph EXCEPT !.patterns = @ \cup {p}]
      /\ p \notin graph.patterns
  BY DEF addPattern, GoodGraph, WellFormed
<1>2. Links(graph') = Links(graph)
  BY <1>1 DEF Links
<1>3. \A e \in Links(graph) : e[1] # p /\ e[2] # p
  BY <1>1, LinksOfPatterns DEF GoodGraph
<1>4. WellFormed(graph')
  BY <1>1 DEF GoodGraph, WellFormed
<1>5. ConnectedPortsExist(graph')
  BY <1>1 DEF GoodGraph, ConnectedPortsExist
<1>6. ASSUME NEW S \in (SUBSET graph'.patterns) \ {{}}
      PROVE  /\ \E q \in S : \A e \in Links(graph) : e[1] \in S => e[2] # q
             /\ \E q \in S : \A e \in Links(graph) : e[2] \in S => e[1] # q
  <2>1. CASE p \in S
    BY <1>3, <2>1
  <2>2. CASE p \notin S
    BY <1>1, <2>2 DEF GoodGraph, SomeSource, SomeSink
  <2> QED BY <2>1, <2>2
<1>7. DefaultGroupsExist(graph') /\ IsFiniteSet(graph'.patterns)
  <2>1. IsFiniteSet(graph.patterns) /\ graph'.port_groups = graph.port_groups
    BY <1>1 DEF GoodGraph, WellFormed
  <2>2. IsFiniteSet(graph'.patterns)
    BY <1>1, <2>1, FS_AddElement
  <2> QED BY <2>1, <2>2 DEF GoodGraph, DefaultGroupsExist
<1> QED BY <1>2, <1>4, <1>5, <1>6, <1>7 DEF GoodGraph, SomeSource, SomeSink

\* A change of the parameters of a port group, or a further instance of it, keeps
\* the invariant: no connection is lost.
LEMMA GroupsKeep ==
  ASSUME GoodGraph(graph), NEW p \in graph.patterns, NEW k \in DOMAIN Groups[p],
         NEW list \in Seq(ParameterList(p, k)), Len(list) >= Len(graph.port_groups[p][k]),
         graph' = [graph EXCEPT !.port_groups[p][k] = list]
  PROVE  GoodGraph(graph')
<1>1. /\ graph.patterns \subseteq Instances
      /\ graph.port_groups
           = [r \in Instances |-> [n \in DOMAIN Groups[r] |-> graph.port_groups[r][n]]]
      /\ \A r \in Instances : \A n \in DOMAIN Groups[r] :
           graph.port_groups[r][n] \in Seq(ParameterList(r, n))
  BY DEF GoodGraph, WellFormed
<1>2. /\ graph'.patterns = graph.patterns
      /\ graph'.connected_to = graph.connected_to
      /\ graph'.timedomain_configs = graph.timedomain_configs
      /\ graph'.port_groups = [graph.port_groups EXCEPT ![p][k] = list]
      /\ graph' \in [timedomain_configs : {TimeDomainConfigs}, patterns : SUBSET Instances,
            port_groups : {graph'.port_groups},
            connected_to : [Consumers -> Producers \cup {NoPort}]]
  BY DEF GoodGraph, WellFormed
<1>3. /\ graph'.port_groups
           = [r \in Instances |-> [n \in DOMAIN Groups[r] |-> graph'.port_groups[r][n]]]
      /\ \A r \in Instances : \A n \in DOMAIN Groups[r] :
           graph'.port_groups[r][n]
             = IF r = p /\ n = k THEN list ELSE graph.port_groups[r][n]
      /\ \A r \in Instances \ {p} : graph'.port_groups[r] = graph.port_groups[r]
  <2> DEFINE f == graph.port_groups
             e == [f EXCEPT ![p][k] = list]
             F(h) == [r \in Instances |-> [n \in DOMAIN Groups[r] |-> h[r][n]]]
  <2>1. /\ DOMAIN f = Instances /\ p \in Instances
        /\ \A r \in Instances : f[r] = [n \in DOMAIN Groups[r] |-> f[r][n]]
    BY <1>1
  <2>2. /\ e = [r \in Instances |-> e[r]]
        /\ e[p] = [f[p] EXCEPT ![k] = list]
        /\ \A r \in Instances \ {p} : e[r] = f[r]
    <3> HIDE DEF f
    <3> QED BY <2>1
  <2> HIDE DEF f, e
  <2>3. \A n \in DOMAIN Groups[p] : e[p][n] = IF n = k THEN list ELSE f[p][n]
    BY <2>1, <2>2
  <2>4. \A r \in Instances : e[r] = [n \in DOMAIN Groups[r] |-> e[r][n]]
    <3>1. e[p] = [n \in DOMAIN Groups[p] |-> e[p][n]]
      BY <2>1, <2>2
    <3> QED BY <2>1, <2>2, <3>1
  <2>5. e = F(e)
    BY <2>2, <2>4
  <2>6. graph'.port_groups = e
    BY <1>2 DEF e, f
  <2> QED BY <2>2, <2>3, <2>5, <2>6 DEF f
<1>4. \A c \in Consumers : c.of \in Instances /\ c.group \in DOMAIN Groups[c.of]
  BY DEF Consumers, PortInstance
<1>5. \A c \in Consumers : c.inst \in Int
  BY DEF Consumers, PortInstance
<1>6. \A c \in Consumers : graph'.connected_to[c] # NoPort =>
        c.of \in graph'.patterns /\ c.inst < Len(graph'.port_groups[c.of][c.group])
  <2> TAKE c \in Consumers
  <2> HAVE graph'.connected_to[c] # NoPort
  <2>1. c.of \in graph.patterns /\ c.inst < Len(graph.port_groups[c.of][c.group])
    BY <1>2 DEF GoodGraph, WellFormed
  <2>2. Len(graph.port_groups[c.of][c.group]) \in Int /\ Len(list) \in Int
    BY <1>1, <1>4
  <2>3. graph'.port_groups[c.of][c.group]
          = IF c.of = p /\ c.group = k THEN list ELSE graph.port_groups[c.of][c.group]
    BY <1>3, <1>4
  <2> QED BY <1>2, <1>5, <2>1, <2>2, <2>3
<1>7. WellFormed(graph')
  <2>1. \A r \in Instances : \A n \in DOMAIN Groups[r] :
          graph'.port_groups[r][n] \in Seq(ParameterList(r, n))
    <3> TAKE r \in Instances
    <3> TAKE n \in DOMAIN Groups[r]
    <3>1. CASE r = p /\ n = k
      BY <1>3, <3>1
    <3>2. CASE ~(r = p /\ n = k)
      <4>1. graph'.port_groups[r][n] = graph.port_groups[r][n]
        BY <1>3, <3>2
      <4> QED BY <1>1, <4>1
    <3> QED BY <3>1, <3>2
  <2>2. \A r \in Instances \ graph'.patterns : graph'.port_groups[r] = InitialGroups(r)
    BY <1>2, <1>3 DEF GoodGraph, WellFormed
  <2> QED BY <1>2, <1>3, <1>6, <2>1, <2>2 DEF WellFormed
<1>8. Links(graph') = Links(graph)
  BY <1>2 DEF Links
<1>9. ConnectedPortsExist(graph')
  BY <1>2 DEF GoodGraph, ConnectedPortsExist
<1>10. SomeSource(graph') /\ SomeSink(graph')
  <2>1. ASSUME NEW S \in (SUBSET graph'.patterns) \ {{}}
        PROVE  /\ \E r \in S : \A e \in Links(graph') : e[1] \in S => e[2] # r
               /\ \E r \in S : \A e \in Links(graph') : e[2] \in S => e[1] # r
    <3>1. S \in (SUBSET graph.patterns) \ {{}}
      BY <1>2
    <3>2. SomeSource(graph) /\ SomeSink(graph)
      BY DEF GoodGraph
    <3>3. PICK r \in S : \A e \in Links(graph) : e[1] \in S => e[2] # r
      BY <3>1, <3>2 DEF SomeSource
    <3>4. PICK q \in S : \A e \in Links(graph) : e[2] \in S => e[1] # q
      BY <3>1, <3>2 DEF SomeSink
    <3> QED BY <1>8, <3>3, <3>4
  <2> QED BY <2>1 DEF SomeSource, SomeSink
<1>11. DefaultGroupsExist(graph') /\ IsFiniteSet(graph'.patterns)
  <2>1. ASSUME NEW r \in Instances
        PROVE  Len(graph'.port_groups[r][kDefaultPortGroup]) > 0
    <3>1. kDefaultPortGroup \in DOMAIN Groups[r]
      BY PatternAssumption DEF Groups, IsPattern
    <3>2. Len(graph.port_groups[r][kDefaultPortGroup]) > 0
      BY DEF GoodGraph, DefaultGroupsExist
    <3>3. Len(graph.port_groups[r][kDefaultPortGroup]) \in Int /\ Len(list) \in Int
      BY <1>1, <3>1
    <3> QED BY <1>3, <3>1, <3>2, <3>3
  <2> QED BY <1>2, <2>1 DEF GoodGraph, DefaultGroupsExist
<1> QED BY <1>7, <1>9, <1>10, <1>11 DEF GoodGraph

\* instantiatePortGroup keeps the invariant.
LEMMA InstantiateKeeps ==
  ASSUME GoodGraph(graph), NEW p \in Instances, NEW k \in DOMAIN Groups[p],
         instantiatePortGroup(p, k)
  PROVE  GoodGraph(graph')
<1> DEFINE list == Append(graph.port_groups[p][k], Groups[p][k].parameter)
<1>1. p \in graph.patterns /\ graph' = [graph EXCEPT !.port_groups[p][k] = list]
  BY DEF instantiatePortGroup
<1>2. graph.port_groups[p][k] \in Seq(ParameterList(p, k))
  BY DEF GoodGraph, WellFormed
<1>3. list \in Seq(ParameterList(p, k)) /\ Len(list) >= Len(graph.port_groups[p][k])
  BY <1>2, ParametersOfGroup, SMTT(30)
<1> HIDE DEF list
<1> QED BY <1>1, <1>3, GroupsKeep

\* Setting a parameter keeps the invariant.
LEMMA SetParameterKeeps ==
  ASSUME GoodGraph(graph), NEW p \in Instances, NEW k \in DOMAIN Groups[p],
         NEW j \in DOMAIN graph.port_groups[p][k],
         NEW name \in DOMAIN Groups[p][k].parameter, NEW value \in ParameterValues,
         setParameter(p, k, j, name, value)
  PROVE  GoodGraph(graph')
<1> DEFINE old == graph.port_groups[p][k]
           list == [old EXCEPT ![j][name].value = value]
<1>1. p \in graph.patterns
  BY DEF setParameter
<1>2. old \in Seq(ParameterList(p, k))
  BY DEF GoodGraph, WellFormed
<1>3. old[j] \in ParameterList(p, k)
  BY <1>2
<1>4. [old[j] EXCEPT ![name].value = value] \in ParameterList(p, k)
  BY <1>3 DEF ParameterList
<1>5. list = [old EXCEPT ![j] = [old[j] EXCEPT ![name].value = value]]
  OBVIOUS
<1> HIDE DEF list
<1>6. list \in Seq(ParameterList(p, k)) /\ Len(list) = Len(old)
  BY <1>2, <1>4, <1>5, SMTT(30)
<1>7. graph' = [graph EXCEPT !.port_groups[p][k] = list]
  BY DEF setParameter, list
<1>8. Len(list) >= Len(graph.port_groups[p][k])
  BY <1>2, <1>6
<1> HIDE DEF old
<1> QED BY <1>1, <1>6, <1>7, <1>8, GroupsKeep

\* connect keeps the invariant.  R is what the depth first search from the
\* consumer has seen without finding the producer: R is closed under successors,
\* so a set that could hold a new loop has its source outside of R, and its sink
\* inside.
LEMMA ConnectKeeps ==
  ASSUME GoodGraph(graph), NEW source \in Producers, NEW sink \in Consumers,
         connect(source, sink)
  PROVE  GoodGraph(graph')
<1> DEFINE u == source.of
           v == sink.of
<1>1. /\ u \in graph.patterns /\ v \in graph.patterns /\ u # v
      /\ sink.inst < Len(graph.port_groups[v][sink.group])
      /\ graph' = [graph EXCEPT !.connected_to[sink] = source]
  BY DEF connect, checkSourceAndSinkConnectionError, getProducerPort, getConsumerPort,
         IsPortOf, getPortGroupCount
<1>2. /\ graph'.patterns = graph.patterns
      /\ graph'.port_groups = graph.port_groups
      /\ graph'.connected_to = [graph.connected_to EXCEPT ![sink] = source]
  BY <1>1 DEF GoodGraph, WellFormed
<1>3. WellFormed(graph')
  BY <1>1, <1>2 DEF GoodGraph, WellFormed
<1>4. ConnectedPortsExist(graph')
  BY <1>1, <1>2 DEF GoodGraph, ConnectedPortsExist
<1>5. Links(graph') \subseteq Links(graph) \cup {<<u, v>>}
  BY <1>2 DEF Links, GoodGraph, ConnectedPortsExist
<1>6. PICK R \in SUBSET (graph.patterns \ {u}) :
        v \in R /\ \A e \in Links(graph) : e[1] \in R => e[2] \in R
  BY DEF connect, checkSourceAndSinkConnectionError, would_connect_to_self_recursive
<1> DEFINE links == Links(graph) \cup {<<u, v>>}
<1>7. ASSUME NEW S \in (SUBSET graph.patterns) \ {{}}
      PROVE  \E p \in S : \A e \in links : e[1] \in S => e[2] # p
  <2>1. CASE u \in S
    <3>1. S \ R \in (SUBSET graph.patterns) \ {{}}
      BY <1>6, <2>1
    <3>2. PICK p \in S \ R : \A e \in Links(graph) : e[1] \in S \ R => e[2] # p
      BY <3>1 DEF GoodGraph, SomeSource
    <3> QED BY <1>6, <3>2
  <2>2. CASE u \notin S
    <3>1. PICK p \in S : \A e \in Links(graph) : e[1] \in S => e[2] # p
      BY DEF GoodGraph, SomeSource
    <3> QED BY <2>2, <3>1
  <2> QED BY <2>1, <2>2
<1>8. ASSUME NEW S \in (SUBSET graph.patterns) \ {{}}
      PROVE  \E p \in S : \A e \in links : e[2] \in S => e[1] # p
  <2>1. CASE v \in S
    <3>1. S \cap R \in (SUBSET graph.patterns) \ {{}}
      BY <1>6, <2>1
    <3>2. PICK p \in S \cap R : \A e \in Links(graph) : e[2] \in S \cap R => e[1] # p
      BY <3>1 DEF GoodGraph, SomeSink
    <3> QED BY <1>6, <3>2
  <2>2. CASE v \notin S
    <3>1. PICK p \in S : \A e \in Links(graph) : e[2] \in S => e[1] # p
      BY DEF GoodGraph, SomeSink
    <3> QED BY <2>2, <3>1
  <2> QED BY <2>1, <2>2
<1>9. SomeSource(graph') /\ SomeSink(graph')
  <2>1. ASSUME NEW S \in (SUBSET graph'.patterns) \ {{}}
        PROVE  /\ \E p \in S : \A e \in Links(graph') : e[1] \in S => e[2] # p
               /\ \E p \in S : \A e \in Links(graph') : e[2] \in S => e[1] # p
    <3>1. S \in (SUBSET graph.patterns) \ {{}}
      BY <1>2
    <3>2. PICK p \in S : \A e \in links : e[1] \in S => e[2] # p
      BY <3>1, <1>7
    <3>3. PICK q \in S : \A e \in links : e[2] \in S => e[1] # q
      BY <3>1, <1>8
    <3> QED BY <1>5, <3>2, <3>3
  <2> QED BY <2>1 DEF SomeSource, SomeSink
<1>10. DefaultGroupsExist(graph') /\ IsFiniteSet(graph'.patterns)
  BY <1>2 DEF GoodGraph, DefaultGroupsExist
<1> QED BY <1>3, <1>4, <1>9, <1>10 DEF GoodGraph

\* Loading and running a dataflow does not change its graph.
LEMMA GraphStep ==
  ASSUME GoodGraph(graph), [Next]_vars
  PROVE  GoodGraph(graph')
<1>1. CASE GraphNext
  BY <1>1, AddPatternKeeps, InstantiateKeeps, SetParameterKeeps, ConnectKeeps DEF GraphNext
<1>2. CASE loadDataflow
  <2>1. from_json(to_json(graph)) = graph
    BY GraphRoundTrip DEF GoodGraph
  <2> QED BY <1>2, <2>1 DEF loadDataflow
<1>3. CASE start \/ FlowNext \/ UNCHANGED vars
  BY <1>3 DEF start, FlowNext, LoadEvent, Deliver, SeamEntry, RunNode, WaitForSource, RunSource,
       RunComponent, RunCudaGraph, RunOther, RunTimeStepEnd, vars
<1> QED BY <1>1, <1>2, <1>3 DEF Next

\* Every graph that the operations of GraphInstance make satisfies the invariant.
LEMMA GraphInvariant ==
  Spec => []GoodGraph(graph)
<1>1. Init => GoodGraph(graph)
  BY GraphInitially DEF Init
<1>2. GoodGraph(graph) /\ [Next]_vars => GoodGraph(graph)'
  BY GraphStep
<1> QED BY <1>1, <1>2, PTL DEF Spec

\* For any patterns and any order of the calls, the connections that connect()
\* accepts form no loop.
THEOREM ConnectionsFormNoLoop == Spec => []NoLoop
<1>1. GoodGraph(graph) => NoLoop
  BY DEF GoodGraph, SomeSource, NoLoop
<1> QED BY <1>1, GraphInvariant, PTL

\* Whatever was edited, a saved dataflow reads back as it was, provided that no
\* pattern was left inside of a port group.
THEOREM FilesAreReadBack ==
  ASSUME PatternsFinished
  PROVE  Spec => []RoundTrip
<1>1. GoodGraph(graph) => RoundTrip
  BY WellFormedRoundTrip DEF GoodGraph
<1> QED BY <1>1, GraphInvariant, PTL
=============================================================================
