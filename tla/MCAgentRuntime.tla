--------------------------- MODULE MCAgentRuntime ---------------------------
(***************************************************************************)
(* Instances of AgentRuntime: one run with a direct and a costly tool.     *)
(***************************************************************************)
EXTENDS AgentRuntime, TLC

CONSTANTS direct, costly, owner, key

Executors == Permutations(Executor)

OneOwner == [r \in Run |-> owner]
OneKey   == [r \in Run |-> key]
OneRun   == [c \in Call |-> R]
=============================================================================
