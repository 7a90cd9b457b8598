---------------------------- MODULE EventPipeline ----------------------------
(***************************************************************************)
(* What a time domain promises to the components: the events are a queue.  *)
(*                                                                         *)
(* Every scheduled event reaches the components exactly once and in the    *)
(* order of scheduling, and only the first Capacity of the events that are *)
(* not yet finished are being worked on.  Ring, locks, threads and tasks   *)
(* of module TimeDomain are how this is done.                              *)
(***************************************************************************)
EXTENDS Naturals, Sequences

CONSTANTS
  Capacity,   \* how many events are worked on at once
  Event       \* the possible events, records with a type and a timestamp

VARIABLES
  pending,    \* the events that are scheduled and not finished, oldest first
  delivered,  \* how many of them the components have seen
  last        \* the type of the last event they saw, and their last timestamp

pipelineVars == <<pending, delivered, last>>

\* An event that only ends the taskflow is not shown to the components.
Shown(e) ==
  IF e.type = "DATAFLOW_STOP" THEN last
  ELSE [type |-> e.type, ts |-> IF e.type = "DATA" THEN e.ts ELSE last.ts]

PipelineInit ==
  /\ pending = <<>>
  /\ delivered = 0
  /\ last = [type |-> "INVALID", ts |-> 0]

Schedule ==
  /\ Len(pending') = Len(pending) + 1
  /\ pending'[Len(pending')] \in Event
  /\ SubSeq(pending', 1, Len(pending)) = pending
  /\ UNCHANGED <<delivered, last>>

Deliver ==
  /\ delivered < Len(pending)
  /\ delivered < Capacity
  /\ delivered' = delivered + 1
  /\ last' = Shown(pending[delivered + 1])
  /\ UNCHANGED pending

Finish ==
  /\ delivered > 0
  /\ pending' = Tail(pending)
  /\ delivered' = delivered - 1
  /\ UNCHANGED last

PipelineNext == Schedule \/ Deliver \/ Finish

PipelineSpec == PipelineInit /\ [][PipelineNext]_pipelineVars
=============================================================================
