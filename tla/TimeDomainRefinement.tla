------------------------ MODULE TimeDomainRefinement ------------------------
(***************************************************************************)
(* The time domain implements an event pipeline.  The pending events are   *)
(* those in the running time steps, from the one whose end task is next,   *)
(* followed by the queue; an event is delivered once the sink was called.  *)
(***************************************************************************)
EXTENDS TimeDomain

\* The pending events for a scheduler d whose end task comes next at time step e.
PendingOf(d, e) ==
  LET n == InUse(d)
  IN [k \in 1..(n + Len(d.queue)) |->
        IF k <= n THEN d.event[(e + k - 1) % TimeStepCount]
        ELSE [type |-> d.queue[k - n].type, ts |-> d.queue[k - n].ts]]
PendingEvents == PendingOf(sched, endTurn)

\* The time steps whose event the sink has already been called for.
Delivered == {i \in Steps : phase[i] = "end"}

Pipeline == INSTANCE EventPipeline WITH
  Capacity <- TimeStepCount,
  Event <- [type : EventType, ts : Int],
  pending <- PendingEvents,
  delivered <- Cardinality(Delivered),
  last <- sink

\* Whatever the threads of the sources and the tasks of the taskflow do, the
\* components see the scheduled events once each and in order, and no event is
\* worked on before it has a time step (runTaskFlowFromQueue, timeStepEnded).
ImplementsPipeline == Pipeline!PipelineSpec
=============================================================================
