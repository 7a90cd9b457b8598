----------------------------- MODULE MCProfiler -----------------------------
(* A time step with a component, and the seams into this time step and     *)
(* into the next one, for TLC.                                             *)
EXTENDS Profiler

Work(i) == <<<<kTimeStepStart, i>>, <<"Component", i>>>>
Seams == <<<<"SeamEntry", 0>>, <<"SeamEntry", 1>>>>

MCChains == {Work(0), Seams}
=============================================================================
