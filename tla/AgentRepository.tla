-------------------------- MODULE AgentRepository --------------------------
(***************************************************************************)
(* What the agent repository promises the Agent runtime: the records of    *)
(* runs, tool calls and approvals, and the one indivisible step of each    *)
(* operation of repositories/agent.py (whose in-memory form holds one lock *)
(* around each operation).  SqlAgentRepository shows that the PostgreSQL   *)
(* form keeps this promise; AgentRuntime is built on it.                   *)
(*                                                                         *)
(* An operation is enabled when it takes effect.  What it raises when it   *)
(* does not is decided by the caller from Owned and the statuses.  Time is *)
(* abstracted to two facts: an execution lease is live or not (leased),    *)
(* and a pending approval is past its expires_at or not (due).  Messages   *)
(* and the texts of results and errors are left out.                       *)
(***************************************************************************)
EXTENDS Naturals

CONSTANTS
    Run, Call, Executor,
    Nobody,         \* no executor
    Owner,
    OwnerOf,        \* the owner of each run
    KeyOf,          \* its Idempotency-Key: two runs with one key are one request
    RunOf,          \* the run of each tool call (a provider_call_id of that run)
    Costly,         \* the calls of tools that require approval
    MaxTurns        \* settings.agent_max_turns

ASSUME AgentAssumption ==
    /\ Nobody \notin Executor
    /\ OwnerOf \in [Run -> Owner]
    /\ RunOf \in [Call -> Run]
    /\ Costly \subseteq Call
    /\ MaxTurns \in Nat

VARIABLES
    run,        \* [status, executor, leased, requests] of each run
    call,       \* the status of each tool call
    approval    \* [status, due] of the approval of each costly call

stored == <<run, call, approval>>

Terminal  == {"cancelled", "completed", "failed", "expired"}
RunStatus == Terminal \cup {"none", "queued", "recovering", "streaming",
                            "waiting_approval", "executing_tool", "cancelling"}
CallStatus == {"none", "proposed", "waiting_approval", "approved", "running",
               "succeeded", "failed", "rejected", "expired"}
ApprovalStatus == {"none", "pending", "consumed", "rejected", "expired"}

\* _ALLOWED_TRANSITIONS, without those only the other operations make.
Allowed ==
    [queued           |-> {"streaming", "recovering", "cancelling", "failed"},
     recovering       |-> {"streaming", "cancelling", "failed"},
     streaming        |-> {"waiting_approval", "executing_tool", "completed",
                           "cancelling", "failed"},
     waiting_approval |-> {"streaming", "cancelling", "expired", "failed"},
     executing_tool   |-> {"streaming", "cancelling", "failed"},
     cancelling       |-> {"cancelled", "failed"}]

Ended(r) == run[r].status \in Terminal
Live(r)  == run[r].status \notin Terminal \cup {"none"}

StoredTypeOK ==
    /\ run \in [Run -> [status : RunStatus, executor : Executor \cup {Nobody},
                        leased : BOOLEAN, requests : 0..MaxTurns]]
    /\ call \in [Call -> CallStatus]
    /\ approval \in [Call -> [status : ApprovalStatus, due : BOOLEAN]]

StoredInit ==
    /\ run = [r \in Run |-> [status |-> "none", executor |-> Nobody,
                             leased |-> FALSE, requests |-> 0]]
    /\ call = [c \in Call |-> "none"]
    /\ approval = [c \in Call |-> [status |-> "none", due |-> FALSE]]

-----------------------------------------------------------------------------
(***************************************************************************)
(* Ownership of the execution of a run.                                    *)
(***************************************************************************)
Owned(r, e) == run[r].executor = e /\ run[r].leased

\* _assert_execution_owned: an operation without executor is not checked.
Authorised(r, e) == e = Nobody \/ Owned(r, e)

CreateRun(r, e) ==
    /\ run[r].status = "none"
    /\ \A q \in Run : OwnerOf[q] = OwnerOf[r] =>
           ~Live(q) /\ (run[q].status # "none" => KeyOf[q] # KeyOf[r])
    /\ run' = [run EXCEPT ![r] = [status |-> "queued", executor |-> e,
                                  leased |-> TRUE, requests |-> 0]]
    /\ UNCHANGED <<call, approval>>

Recoverable(r) == Live(r) /\ (run[r].executor = Nobody \/ ~run[r].leased)

Claimable(r, e) == run[r].executor \in {Nobody, e} \/ ~run[r].leased

ClaimRunExecution(r, e) ==
    /\ run[r].status # "none" /\ Claimable(r, e)
    /\ run' = [run EXCEPT ![r].executor = e, ![r].leased = TRUE]
    /\ UNCHANGED <<call, approval>>

ReleaseRunExecution(r, e) ==
    /\ run' = [run EXCEPT ![r] = IF @.executor = e
                                   THEN [@ EXCEPT !.executor = Nobody, !.leased = FALSE]
                                   ELSE @]
    /\ UNCHANGED <<call, approval>>

\* Time passes: the lease of a run, or the time to live of an approval.
LeaseLapses(r) ==
    /\ run[r].leased
    /\ run' = [run EXCEPT ![r].leased = FALSE]
    /\ UNCHANGED <<call, approval>>

ApprovalFallsDue(c) ==
    /\ approval[c].status = "pending" /\ ~approval[c].due
    /\ approval' = [approval EXCEPT ![c].due = TRUE]
    /\ UNCHANGED <<run, call>>

-----------------------------------------------------------------------------
(***************************************************************************)
(* The run, its tool calls and their approvals.                            *)
(***************************************************************************)
\* Mutant: the expected status is not compared with the row's.
TransitionBlindly(r, saw, to, e) ==
    /\ Authorised(r, e) /\ run[r].status # "none"
    /\ saw.status \in DOMAIN Allowed
    /\ to \in Allowed[saw.status] \ {"waiting_approval", "expired"}
    /\ run' = [run EXCEPT ![r].status = to, ![r].requests = saw.requests]
    /\ UNCHANGED <<call, approval>>

\* The caller read the run as saw; what it writes back is that row with a new
\* status, so a count of requests written in between is lost.
TransitionRun(r, saw, to, e) ==
    /\ Authorised(r, e) /\ run[r].status = saw.status
    /\ saw.status \in DOMAIN Allowed
    /\ to \in Allowed[saw.status] \ {"waiting_approval", "expired"}
    /\ run' = [run EXCEPT ![r].status = to, ![r].requests = saw.requests]
    /\ UNCHANGED <<call, approval>>

FinishRun(r, n, e) ==
    /\ Authorised(r, e) /\ run[r].status = "streaming"
    /\ run' = [run EXCEPT ![r].status = "completed", ![r].requests = n]
    /\ UNCHANGED <<call, approval>>

\* Mutant: the run's row is written without its usage.
ProposeWithoutUsage(c, n, e) ==
    LET r == RunOf[c] IN
    /\ Authorised(r, e) /\ run[r].status = "streaming"
    /\ IF call[c] # "none" THEN UNCHANGED stored
       ELSE IF c \in Costly
       THEN /\ run' = [run EXCEPT ![r].status = "waiting_approval"]
            /\ call' = [call EXCEPT ![c] = "waiting_approval"]
            /\ approval' = [approval EXCEPT ![c].status = "pending"]
       ELSE call' = [call EXCEPT ![c] = "proposed"] /\ UNCHANGED <<run, approval>>

\* A provider_call_id the run already has only writes the run's row again.
ProposeToolCall(c, n, e) ==
    LET r == RunOf[c] IN
    /\ Authorised(r, e) /\ run[r].status = "streaming"
    /\ IF call[c] # "none"
         THEN /\ run' = [run EXCEPT ![r].requests = n]
              /\ UNCHANGED <<call, approval>>
         ELSE IF c \in Costly
         THEN /\ run' = [run EXCEPT ![r].requests = n, ![r].status = "waiting_approval"]
              /\ call' = [call EXCEPT ![c] = "waiting_approval"]
              /\ approval' = [approval EXCEPT ![c].status = "pending"]
         ELSE /\ run' = [run EXCEPT ![r].requests = n]
              /\ call' = [call EXCEPT ![c] = "proposed"]
              /\ UNCHANGED approval

StartToolAs(c, runStatus, callStatus, e) ==
    /\ Authorised(RunOf[c], e)
    /\ run[RunOf[c]].status = runStatus /\ call[c] = callStatus
    /\ call' = [call EXCEPT ![c] = "running"]
    /\ UNCHANGED <<run, approval>>

\* The two ways the runtime starts a tool: a direct one, and an approved one.
StartTool(c, e) ==
    IF c \in Costly THEN StartToolAs(c, "executing_tool", "approved", e)
                    ELSE StartToolAs(c, "streaming", "proposed", e)

\* A call in the status asked for is left as it is; any other is refused.
Finishable(c, st) == call[c] \in {"running", st} \/ (st = "failed" /\ call[c] = "approved")

FinishTool(c, st, e) ==
    /\ st \in {"succeeded", "failed"}
    /\ Authorised(RunOf[c], e) /\ Finishable(c, st)
    /\ call' = [call EXCEPT ![c] = st]
    /\ UNCHANGED <<run, approval>>

ExpireApproval(c) ==
    /\ approval[c].status = "pending"
    /\ approval' = [approval EXCEPT ![c] = [status |-> "expired", due |-> FALSE]]
    /\ call' = [call EXCEPT ![c] = "expired"]
    /\ run' = [run EXCEPT ![RunOf[c]].status =
                   IF @ = "waiting_approval" THEN "expired" ELSE @]

\* The decision takes the execution lease for the gateway that received it.
Decidable(c) ==
    approval[c].status = "pending" /\ ~approval[c].due
        /\ run[RunOf[c]].status = "waiting_approval"

\* Mutant: the decision leaves the approval pending.
DecideUnconsumed(c, approve, e) ==
    /\ Decidable(c)
    /\ call' = [call EXCEPT ![c] = IF approve THEN "approved" ELSE "rejected"]
    /\ run' = [run EXCEPT ![RunOf[c]] =
                   [@ EXCEPT !.status = "executing_tool", !.executor = e, !.leased = TRUE]]
    /\ UNCHANGED approval

DecideApproval(c, approve, e) ==
    /\ Decidable(c)
    /\ approval' = [approval EXCEPT ![c] =
                        [status |-> IF approve THEN "consumed" ELSE "rejected", due |-> FALSE]]
    /\ call' = [call EXCEPT ![c] = IF approve THEN "approved" ELSE "rejected"]
    /\ run' = [run EXCEPT ![RunOf[c]] =
                   [@ EXCEPT !.status = "executing_tool", !.executor = e, !.leased = TRUE]]

OwnershipNext(r) ==
    \/ \E e \in Executor : \/ CreateRun(r, e) \/ ClaimRunExecution(r, e)
                           \/ ReleaseRunExecution(r, e)
    \/ LeaseLapses(r)

RunNext(r, e) ==
    \E n \in 0..MaxTurns :
        \/ FinishRun(r, n, e)
        \/ \E from, to \in RunStatus :
               TransitionRun(r, [status |-> from, requests |-> n], to, e)

CallNext(c, e) ==
    \/ \E n \in 0..MaxTurns : ProposeToolCall(c, n, e)
    \/ StartTool(c, e)
    \/ \E st \in CallStatus : FinishTool(c, st, e)
    \/ \E approve \in BOOLEAN : e # Nobody /\ DecideApproval(c, approve, e)

RepositoryNext ==
    \/ \E r \in Run : OwnershipNext(r)
    \/ \E r \in Run, e \in Executor \cup {Nobody} : RunNext(r, e)
    \/ \E c \in Call : \/ \E e \in Executor \cup {Nobody} : CallNext(c, e)
                       \/ ApprovalFallsDue(c) \/ ExpireApproval(c)

RepositorySpec == StoredInit /\ [][RepositoryNext]_stored

-----------------------------------------------------------------------------
(***************************************************************************)
(* What everything above the repository relies on.                         *)
(***************************************************************************)

\* One owner never has two runs that are not terminal, however the creations
\* of several gateways interleave (create_run, uq_agent_runs_owner_active).
OneActiveRun ==
    \A r, q \in Run : Live(r) /\ Live(q) /\ OwnerOf[r] = OwnerOf[q] => r = q

\* A costly tool is never entitled to run, running or run without a consumed
\* approval; a call waits exactly while its approval is pending; and a run
\* that waits for approval has such a call (propose_tool_call, decide_approval,
\* expire_approval and start_tool keep three tables in step).
ConsentBeforeCost ==
    /\ \A c \in Costly : call[c] \in {"approved", "running", "succeeded", "failed"}
                             => approval[c].status = "consumed"
    /\ \A c \in Call : call[c] = "waiting_approval" <=> approval[c].status = "pending"
    /\ \A r \in Run : run[r].status = "waiting_approval"
                          => \E c \in Call : RunOf[c] = r /\ approval[c].status = "pending"

\* A terminal run never changes its status, and none of its tool calls is
\* proposed, approved or started any more.
EndedStep ==
    /\ \A r \in Run : Ended(r) => run'[r].status = run[r].status
    /\ \A c \in Call : Ended(RunOf[c]) /\ call'[c] # call[c]
           => call'[c] \in {"succeeded", "failed", "expired"}

NothingAfterTheEnd == [][EndedStep]_stored
=============================================================================
