------------------------ MODULE MCInMemoryLeaseStore ------------------------
(* A small instance of InMemoryLeaseStore for TLC. *)
EXTENDS InMemoryLeaseStore, TLC

\* GPUs and sessions can be exchanged.
Symmetric == Permutations(Gpu) \cup Permutations(Session)
=============================================================================
