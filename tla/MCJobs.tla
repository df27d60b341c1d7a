------------------------------- MODULE MCJobs -------------------------------
(***************************************************************************)
(* The instance of Jobs that TLC checks: jobs of one conversation.         *)
(***************************************************************************)
EXTENDS Jobs

CONSTANTS c1
OneConversation == [j \in Job |-> c1]
=============================================================================
