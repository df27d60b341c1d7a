-------------------------- MODULE MCComputeSession --------------------------
(* Small instances of ComputeSession for TLC. *)
EXTENDS ComputeSession, TLC

CONSTANTS s1, s2

OneEach == [s \in Session |-> 1]

\* Sessions ask for the same: they can be exchanged (never in a liveness run).
Sessions == Permutations(Session)
=============================================================================
