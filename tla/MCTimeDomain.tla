---------------------------- MODULE MCTimeDomain ----------------------------
(* The instance that TLC checks; the configurations give the constants. *)
EXTENDS TimeDomainOrder, TLC

\* Sources of the same kind can be exchanged.
Symmetry == Permutations(Sources)
=============================================================================
