------------------------------ MODULE Pattern ------------------------------
(***************************************************************************)
(* Patterns: what a component declares about itself, its type, whether it  *)
(* may run in several time steps at once, and its ports in port groups.    *)
(*                                                                         *)
(* A pattern is built by a chain of calls, each of which returns the       *)
(* pattern.  Names, descriptions, tags and coordinate systems are left     *)
(* out, and checkName with them: it only makes the names of the ports of a *)
(* group unique.                                                           *)
(***************************************************************************)
EXTENDS Naturals, Sequences, TLC

\* ComponentType, in the order of the enumeration.
ComponentTypes ==
  <<"ASYNC_SOURCE", "INTERNAL_SYNC_SOURCE", "SYNC_SOURCE", "SYNC_FUNCTIONAL",
    "ASYNC_FUNCTIONAL", "SYNC_SINK", "ASYNC_SINK">>

Concurrency == {"UNLIMITED", "SERIAL"}

\* PortType, without NONE.
Directions == {"PRODUCER", "CONSUMER"}

Port == [port_index : Nat, datatype : STRING]

\* A parameter has a value, at first its default value.
Parameter == [default : STRING, value : STRING]

\* A port group lists its producer and its consumer ports, and has parameters.
IsPortGroup(group) ==
  /\ group = [PRODUCER |-> group.PRODUCER, CONSUMER |-> group.CONSUMER,
              parameter |-> group.parameter]
  /\ \A d \in Directions : group[d] \in Seq(Port)
  /\ group.parameter \in [DOMAIN group.parameter -> Parameter]

NewPortGroup == [PRODUCER |-> <<>>, CONSUMER |-> <<>>, parameter |-> <<>>]

\* kDefaultPortGroupIndex, the first one of a sequence.
kDefaultPortGroup == 1

\* The constructor: the default port group is there from the beginning.
NewPattern(type, concurrency) ==
  [type |-> type, concurrency |-> concurrency, port_groups |-> <<NewPortGroup>>,
   is_group_port |-> FALSE]

beginPortGroup(p) ==
  [p EXCEPT !.port_groups = Append(@, NewPortGroup), !.is_group_port = TRUE]

endPortGroup(p) == [p EXCEPT !.is_group_port = FALSE]

\* The group that a port or a parameter is added to.
CurrentGroup(p) == IF p.is_group_port THEN Len(p.port_groups) ELSE kDefaultPortGroup

\* How many ports a port group has.
getPortCount(group, d) == Len(group[d])

\* The port index is declared by the component: Port::PortIdx.
addTypedPort(p, d, index, type) ==
  [p EXCEPT !.port_groups[CurrentGroup(p)][d] =
              Append(@, [port_index |-> index, datatype |-> type])]

\* The ports are numbered in the order in which they are added.
addPort(p, d, type) ==
  addTypedPort(p, d, getPortCount(p.port_groups[CurrentGroup(p)], d), type)

addProducerPort(p, type) == addPort(p, "PRODUCER", type)
addConsumerPort(p, type) == addPort(p, "CONSUMER", type)

addStringParameter(p, name, default_value) ==
  [p EXCEPT !.port_groups[CurrentGroup(p)].parameter =
              name :> [default |-> default_value, value |-> default_value] @@ @]

\* The port indices of a group number its ports from 0, in any order.
PortIndicesComplete(ports) ==
  {ports[n].port_index : n \in DOMAIN ports} = 0..(Len(ports) - 1)

IsPattern(p) ==
  /\ p = [type |-> p.type, concurrency |-> p.concurrency, port_groups |-> p.port_groups,
          is_group_port |-> p.is_group_port]
  /\ \E n \in DOMAIN ComponentTypes : p.type = ComponentTypes[n]
  /\ p.concurrency \in Concurrency
  /\ p.port_groups = [k \in DOMAIN p.port_groups |-> p.port_groups[k]]
  /\ \A k \in DOMAIN p.port_groups : IsPortGroup(p.port_groups[k])
  /\ kDefaultPortGroup \in DOMAIN p.port_groups
  /\ \A k \in DOMAIN p.port_groups, d \in Directions :
       PortIndicesComplete(p.port_groups[k][d])
=============================================================================
