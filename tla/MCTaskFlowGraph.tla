--------------------------- MODULE MCTaskFlowGraph --------------------------
(* A camera, two filters of one CUDA graph, a mixer with any number of     *)
(* inputs, a synchronous source and a display, for TLC.                    *)
EXTENDS TaskFlowGraph

Camera == addProducerPort(NewPattern("ASYNC_SOURCE", "SERIAL"), "image")

Filter ==
  addProducerPort(addConsumerPort(NewPattern("SYNC_FUNCTIONAL", "UNLIMITED"), "image"), "image")

\* A component may declare its ports in another order than their indices.
ClockSource ==
  addTypedPort(
    addTypedPort(NewPattern("SYNC_SOURCE", "SERIAL"), "PRODUCER", 1, "pose"),
    "PRODUCER", 0, "time")

\* The images of a mixer are instances of a port group, each with a weight.
Mixer ==
  addProducerPort(
    endPortGroup(
      addStringParameter(
        addConsumerPort(
          beginPortGroup(
            addConsumerPort(NewPattern("SYNC_FUNCTIONAL", "UNLIMITED"), "pose")),
          "image"),
        "weight", "1")),
    "image")

Display ==
  addTypedPort(
    addTypedPort(NewPattern("SYNC_SINK", "SERIAL"), "CONSUMER", 1, "time"),
    "CONSUMER", 0, "image")

\* The time domain that runs, and one that is only described.
Configs ==
  LET config == [time_domain |-> 0, ringbuffer_size |-> 2, max_offset |-> 10, max_delay |-> 100,
                 sensor_frequency |-> 30, source_mode |-> "WAIT_FOR_BUFFER",
                 missing_source_event_mode |-> "CANCEL_OLDEST", cpu_count |-> 0, profile |-> FALSE]
  IN [n \in 0..1 |->
        IF n = 0 THEN config
        ELSE [config EXCEPT !.time_domain = 1, !.source_mode = "IMMEDIATE_RETURN",
                            !.missing_source_event_mode = "WAIT_FOR_EVENT", !.profile = TRUE]]

None(patterns) == [p \in DOMAIN patterns |-> ""]

\* Patterns that can be wired in many ways, loops among them.
Patterns ==
  [cam |-> Camera, mix |-> Mixer, warp |-> Filter,
   track |-> Filter, clk |-> ClockSource, show |-> Display]
GroupInstances == [p \in DOMAIN Patterns |-> IF p = "mix" THEN <<1, 2>> ELSE <<1>>]
NoModules == None(Patterns)
Cuda == [NoModules EXCEPT !["warp"] = "gpu", !["track"] = "gpu"]

\* The display waits for a CUDA graph that works on the image of the camera,
\* and for a synchronous source.
FlowLinks == {<<"cam", "warp">>, <<"warp", "show">>, <<"clk", "show">>}

\* A camera that is part of a constrained module, and a filter.
ModulePatterns == [cam |-> Camera, filter |-> Filter]
ModuleGroupInstances == [p \in DOMAIN ModulePatterns |-> <<1>>]
ModuleNoCuda == None(ModulePatterns)
ModuleLinks == {<<"cam", "filter">>}
ModuleKeys == [ModuleNoCuda EXCEPT !["cam"] = "module"]

\* The theorems of module FlowProofs speak of the first of these dataflows.
ASSUME DataflowAssumption == NoConstrainedModules => WellBuilt
=============================================================================
