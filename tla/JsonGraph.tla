----------------------------- MODULE JsonGraph -----------------------------
(***************************************************************************)
(* Dataflow files: how a GraphInstance is written to JSON and read back.   *)
(*                                                                         *)
(* A JSON object maps its keys to values, and a key that has no value is   *)
(* not there.  The list of the patterns is a set here: every pattern knows *)
(* its id.  Names, descriptions and tags are left out as in GraphInstance; *)
(* coordinate systems are not written at all.                              *)
(***************************************************************************)
EXTENDS GraphInstance, Functions

IndexOf(seq, v) == CHOOSE n \in DOMAIN seq : seq[n] = v

\* The entries of the object f and, for keys that f does not have, those of g.
Merge(f, g) ==
  [key \in DOMAIN f \cup DOMAIN g |-> IF key \in DOMAIN f THEN f[key] ELSE g[key]]

\* find: a list whose key is missing reads as the empty list.
ListAt(obj, key) == IF key \in DOMAIN obj THEN obj[key] ELSE <<>>

\* The parameters and the ports of a group; an empty list of ports is not
\* written.
to_json_PortGroup(group) ==
  Restrict(group, {"parameter"} \cup {d \in Directions : group[d] # <<>>})

from_json_PortGroup(obj) ==
  Merge([d \in Directions |-> ListAt(obj, d)], [parameter |-> obj.parameter])

to_json_Pattern(p) ==
  [time_domains |-> <<[component_type |-> p.type, concurrency |-> p.concurrency]>>,
   port_groups |-> [k \in DOMAIN p.port_groups |-> to_json_PortGroup(p.port_groups[k])]]

\* A pattern that is read is not within beginPortGroup and endPortGroup.
from_json_Pattern(obj) ==
  [type |-> obj.time_domains[1].component_type,
   concurrency |-> obj.time_domains[1].concurrency,
   port_groups |->
     [k \in DOMAIN obj.port_groups |-> from_json_PortGroup(obj.port_groups[k])],
   is_group_port |-> FALSE]

\* Only inputs say what they are connected to.
to_json_PortInstance(g, q) ==
  IF q.dir = "CONSUMER"
  THEN Merge(Blueprint(q), [connected_to |-> g.connected_to[q]])
  ELSE Blueprint(q)

\* Mutant: the ports are those of the pattern, without their connections.
to_json_PortGroupInstance_blueprint(g, p, k, j) ==
  Merge(to_json_PortGroup(Groups[p][k]), [port_group_instance_index |-> j])

\* The port group is written first, with the parameters of this instance, and
\* then each port of it once more.
to_json_PortGroupInstance(g, p, k, j) ==
  LET At(d, n) == [of |-> p, group |-> k, inst |-> j, dir |-> d, pos |-> n]
      group == to_json_PortGroup([Groups[p][k] EXCEPT
                                    !.parameter = g.port_groups[p][k][j + 1]])
      ports == [d \in DOMAIN group \cap Directions |->
                  [n \in DOMAIN group[d] |-> to_json_PortInstance(g, At(d, n))]]
  IN Merge([port_group_instance_index |-> j], Merge(ports, group))

\* A port group without instances is an empty list.
to_json_PatternInstance(g, p) ==
  [id |-> p,
   local_pattern |-> to_json_Pattern(PatternOf[p]),
   port_groups_instances |->
     [k \in DOMAIN Groups[p] |->
        [j \in DOMAIN g.port_groups[p][k] |-> to_json_PortGroupInstance(g, p, k, j - 1)]]]

\* The modes are written as the numbers of their enumerators.
to_json_TimeDomainManagerConfig(config) ==
  [config EXCEPT
     !.source_mode = IndexOf(SourceModes, @) - 1,
     !.missing_source_event_mode = IndexOf(MissingSourceEventModes, @) - 1]

\* A file of an earlier version does not say whether to profile.
from_json_TimeDomainManagerConfig(obj) ==
  [Merge(obj, [profile |-> FALSE]) EXCEPT
     !.source_mode = SourceModes[@ + 1],
     !.missing_source_event_mode = MissingSourceEventModes[@ + 1]]

to_json(g) ==
  [time_domain_configs |->
     {to_json_TimeDomainManagerConfig(g.timedomain_configs[n]) :
        n \in DOMAIN g.timedomain_configs},
   patterns |-> {to_json_PatternInstance(g, p) : p \in g.patterns}]

\* The configurations of a file, by their time domain.
from_json_configs(file) ==
  [n \in {obj.time_domain : obj \in file.time_domain_configs} |->
     from_json_TimeDomainManagerConfig(
       CHOOSE obj \in file.time_domain_configs : obj.time_domain = n)]

Ids(file) == {obj.id : obj \in file.patterns}
ObjectOf(file, p) == CHOOSE obj \in file.patterns : obj.id = p

\* The instances of the port groups of p in a file.
PortGroupInstances(file, p) == ObjectOf(file, p).port_groups_instances

\* An input for which nothing is written is not connected.
from_json_PortInstance(obj) ==
  IF "connected_to" \in DOMAIN obj THEN obj.connected_to ELSE NoPort

\* What an input is connected to in a file.
ConnectedTo(file, q) ==
  LET instances == PortGroupInstances(file, q.of)[q.group]
  IN IF q.inst < Len(instances)
     THEN from_json_PortInstance(ListAt(instances[q.inst + 1], q.dir)[q.pos])
     ELSE NoPort

\* Every port group has as many instances as are listed.
from_json_PatternInstance(groups) ==
  [k \in DOMAIN groups |->
     [j \in DOMAIN groups[k] |-> from_json_PortGroup(groups[k][j]).parameter]]

\* The patterns are loaded as they were written: no connection is checked.
from_json(file) ==
  [timedomain_configs |-> from_json_configs(file),
   patterns |-> Ids(file),
   port_groups |-> [p \in Instances |->
                      IF p \in Ids(file)
                      THEN from_json_PatternInstance(PortGroupInstances(file, p))
                      ELSE InitialGroups(p)],
   connected_to |-> [c \in Consumers |->
                       IF c.of \in Ids(file) THEN ConnectedTo(file, c) ELSE NoPort]]

-----------------------------------------------------------------------------
\* A dataflow that was saved at any time while it is edited is read back as it
\* was: the same configurations of the time domains, the same instances of the
\* same patterns and of their port groups, also of those that have none yet,
\* with the same parameters, and the same connections.  A file that says nothing
\* about profiling is read like one that does not want it.
RoundTrip ==
  phase = "edit" =>
    LET file == to_json(graph)
    IN /\ from_json(file) = graph
       /\ \A p \in graph.patterns :
            from_json_Pattern(ObjectOf(file, p).local_pattern) = PatternOf[p]
       /\ \A obj \in file.time_domain_configs :
            LET old == Restrict(obj, DOMAIN obj \ {"profile"})
            IN from_json_TimeDomainManagerConfig(old)
                 = [from_json_TimeDomainManagerConfig(obj) EXCEPT !.profile = FALSE]
=============================================================================
