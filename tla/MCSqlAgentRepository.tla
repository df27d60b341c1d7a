------------------------ MODULE MCSqlAgentRepository ------------------------
(***************************************************************************)
(* Instances of SqlAgentRepository: two runs of one owner in one thread,   *)
(* the first with tool calls.                                              *)
(***************************************************************************)
EXTENDS SqlAgentRepository, TLC

CONSTANTS r1, r2, owner, key1, key2, thread

OneOwner == [r \in Run |-> owner]
TwoKeys == (r1 :> key1) @@ (r2 :> key2)
OneThread == [r \in Run |-> thread]
FirstRun == [c \in Call |-> r1]
AllKinds == {"create", "claim", "release", "renew", "append", "finish", "transition",
             "propose", "start", "finishTool", "decide", "expire"}
CreateSecond == (r1 :> AllKinds) @@ (r2 :> {"create"})
Symmetry == Permutations(Client) \cup Permutations(Executor)
=============================================================================
