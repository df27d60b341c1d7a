--------------------------- MODULE AgentRuntime ----------------------------
(***************************************************************************)
(* AgentRuntime (agent/runtime.py): the coroutines that drive one agent    *)
(* run R over the repository of AgentRepository.  Every start of a Gateway *)
(* process is a new executor.  An executor has at most one task for R (the *)
(* turn loop of _execute, the continuation after an approval, or the       *)
(* recovery at start-up) and serves one cancel request at a time; tasks of *)
(* different runs share nothing but the repository.                        *)
(*                                                                         *)
(* pc names the await a coroutine is suspended at; consecutive reads that  *)
(* only feed one decision are one step.  A cancelled await either took     *)
(* effect before the cancellation or not at all; that goes for a write     *)
(* under asyncio.shield too, see Targets.                                  *)
(***************************************************************************)
EXTENDS AgentRepository, FiniteSets

CONSTANTS
    R,              \* the run
    Disturbance,    \* what the environment does in this instance
    Budget,         \* and how often altogether, see Spend
    Overlap         \* may a Gateway start while another one still runs?

ASSUME RuntimeAssumption ==
    /\ R \in Run /\ \A c \in Call : RunOf[c] = R
    /\ Nobody \notin Call
    /\ Disturbance \subseteq {"crash", "close", "cancel", "budget", "late"}
    /\ Budget \in Nat /\ Overlap \in BOOLEAN

VARIABLES
    life,       \* of each executor: "new", "starting", "up", "closing" or "gone"
    task,       \* the two coroutines of each executor, see TaskType
    flags,      \* R's membership of _user_cancelled, _lease_lost, _budget_timed_out
    timer,      \* the calls with a task in _approval_tasks
    queued,     \* the decision that waits for the end of R's task, as its call
    ran,        \* how often the tool of a call has been executed
    asked,      \* how many requests were sent to the provider for R
    spent       \* how many disturbances there were

local == <<life, task, flags, timer, queued>>
past  == <<ran, asked, spent>>
vars  == <<stored, local, past>>

Coroutine == Executor \X {"run", "cancel"}
RunTask(e) == <<e, "run">>
Request(e) == <<e, "cancel">>

\* The executor_id a coroutine passes to the repository.
As(t) == IF t[2] = "run" THEN t[1] ELSE Nobody

Marking == {"failRead", "failWrite", "cancelRead", "cancelWrite"}
Loop == {"begin", "start", "turn", "stream", "propose", "schedule", "startTool",
         "tool", "finishTool", "finishRun"}
Handler == {"stopped", "resumeStopped", "sweepFail", "sweepCancel", "settle", "release"}
Outer == {"renew", "startApproved", "abandon", "load"}
Recovery == {"approvals", "list", "claim", "tools"}
Pc == {"none", "done", "write", "interrupt", "sweep"}
          \cup Marking \cup Loop \cup Handler \cup Outer \cup Recovery

Read == [status : RunStatus, requests : 0..MaxTurns]
TaskType ==
    [pc : Pc,
     kind : {"turn", "resume", "inner", "recovery", "cancel"},
     call : Call \cup {Nobody},     \* the call in hand
     decided : Call \cup {Nobody},  \* the call whose decision is carried out
     todo : SUBSET Call,            \* proposals of the turn; approvals recovery saw
     ok : BOOLEAN,                  \* the decision, then the outcome of the tool
     n : 0..MaxTurns,               \* usage.provider_requests
     saw : Read,                    \* the run as last read for a write
     tries : 0..4,                  \* attempts of _mark_failed, _mark_cancelled
     shielded : BOOLEAN]            \* is the marking under asyncio.shield?

NotRead == [status |-> "none", requests |-> 0]
Start(pc, kind, c, ok) ==
    [pc |-> pc, kind |-> kind, call |-> c, decided |-> c, todo |-> {}, ok |-> ok, n |-> 0,
     saw |-> NotRead, tries |-> 0, shielded |-> FALSE]
NoTask == Start("none", "turn", Nobody, FALSE)

TypeOK ==
    /\ StoredTypeOK
    /\ life \in [Executor -> {"new", "starting", "up", "closing", "gone"}]
    /\ task \in [Coroutine -> TaskType]
    /\ flags \in [Executor -> SUBSET {"userCancelled", "leaseLost", "budget"}]
    /\ timer \in [Executor -> SUBSET Call]
    /\ queued \in [Executor -> Call \cup {Nobody}]
    /\ ran \in [Call -> Nat] /\ asked \in Nat /\ spent \in 0..Budget

Init ==
    /\ StoredInit
    /\ life = [e \in Executor |-> "new"]
    /\ task = [t \in Coroutine |-> NoTask]
    /\ flags = [e \in Executor |-> {}]
    /\ timer = [e \in Executor |-> {}]
    /\ queued = [e \in Executor |-> Nobody]
    /\ ran = [c \in Call |-> 0] /\ asked = 0 /\ spent = 0

\* The environment disturbs the run at most Budget times.
Spend(k) ==
    /\ k \in Disturbance /\ spent < Budget
    /\ spent' = spent + 1
    /\ UNCHANGED <<ran, asked>>

-----------------------------------------------------------------------------
(***************************************************************************)
(* Moving a coroutine.                                                     *)
(***************************************************************************)
At(t, pc)  == task[t].pc = pc
OnlyTask   == UNCHANGED <<life, flags, timer, queued, past>>
Now        == [status |-> run[R].status, requests |-> run[R].requests]
Goto(t, pc) == task' = [task EXCEPT ![t].pc = pc]

\* Leaving the try block: into _finalize_execute_segment, or, after an approval
\* and in recovery, to the release that follows; a request just returns.
End(t) ==
    task' = [task EXCEPT ![t] =
        CASE @.kind = "cancel" -> NoTask
          [] @.kind = "turn"   -> Start("settle", "turn", Nobody, FALSE)
          [] OTHER             -> Start("release", @.kind, Nobody, FALSE)]

Mark(t, how, shielded) ==
    task' = [task EXCEPT ![t].pc = how, ![t].tries = 0, ![t].todo = {}, ![t].n = 0,
                         ![t].saw = NotRead, ![t].shielded = shielded]
Fail(t)   == Mark(t, "failRead", FALSE)
Cancel(t) == Mark(t, "cancelRead", FALSE)

\* AgentExecutionOwned ends the task without another write.
Lost(t) == ~Owned(R, As(t)) /\ UNCHANGED stored /\ End(t)

\* AgentStateConflict: another coroutine moved the run.
Conflict(t) ==
    /\ UNCHANGED stored
    /\ IF Ended(R) THEN End(t)
       ELSE IF run[R].status = "cancelling" THEN Cancel(t) ELSE Fail(t)

\* A write of the turn loop that needs the run to be STREAMING.
WhileStreaming(t, Write) ==
    \/ Lost(t)
    \/ Owned(R, As(t)) /\ run[R].status # "streaming" /\ Conflict(t)
    \/ Write

\* task.cancel() takes effect at the await the task is suspended at.  In a handler the
\* rest is skipped, while what asyncio.shield protects goes on: here a shielded marking
\* is carried out first or not at all, and a shielded sweep before the cancellation.
Targets(w) ==
    LET outer == w.pc \in Outer \cup {"tool", "finishTool"}
        leave == CASE w.kind = "turn"  -> "settle"
                   [] w.kind = "inner" -> "resumeStopped"
                   [] OTHER            -> "release"
    IN
    IF w.pc = "renew" THEN {IF w.kind = "turn" THEN "done" ELSE "release"}
    ELSE IF w.kind = "resume" /\ outer THEN {"resumeStopped"}
    ELSE CASE w.pc \in Loop    -> {"stopped"}
           [] w.pc \in Marking -> IF w.shielded THEN {w.pc, leave} ELSE {leave}
           [] w.pc \in {"stopped", "sweepFail", "sweepCancel", "resumeStopped"} -> {leave}
           [] OTHER            -> {w.pc}

\* The handler of _resume_tool_work is that of the resume, not of the turns in it.
Interrupted(w, pc) ==
    IF pc = w.pc THEN w
    ELSE LET kind == IF pc = "resumeStopped" THEN "resume" ELSE w.kind
         IN [Start(pc, kind, Nobody, FALSE) EXCEPT !.decided = w.decided]

Interrupt(e) ==
    LET t == RunTask(e) IN
    \E pc \in Targets(task[t]) : task' = [task EXCEPT ![t] = Interrupted(@, pc)]

-----------------------------------------------------------------------------
(***************************************************************************)
(* _run_loop: the turns of a run.                                          *)
(***************************************************************************)

\* _execute renews the lease before its try block; a lost one ends the task.
RenewTurn(t) ==
    /\ At(t, "renew") /\ task[t].kind = "turn"
    /\ IF Owned(R, As(t)) THEN Goto(t, "begin") ELSE Goto(t, "done")
    /\ UNCHANGED stored /\ OnlyTask

Begin(t) ==
    /\ At(t, "begin")
    /\ IF Ended(R) \/ run[R].status = "waiting_approval" THEN End(t)
       ELSE IF run[R].status = "streaming"
       THEN task' = [task EXCEPT ![t].pc = "turn", ![t].n = run[R].requests]
       ELSE IF "streaming" \in Allowed[run[R].status]
       THEN task' = [task EXCEPT ![t].pc = "start", ![t].saw = Now]
       ELSE Fail(t)
    /\ UNCHANGED stored /\ OnlyTask

StartStreaming(t) ==
    /\ At(t, "start")
    /\ \/ Lost(t)
       \/ Owned(R, As(t)) /\ run[R].status # task[t].saw.status /\ Conflict(t)
       \/ /\ TransitionRun(R, task[t].saw, "streaming", As(t))
          /\ task' = [task EXCEPT ![t].pc = "turn", ![t].n = task[t].saw.requests,
                                  ![t].saw = NotRead]
    /\ OnlyTask

\* Mutant: the count of turns is compared with > instead of >=.
TurnOnceMore(t) ==
    /\ At(t, "turn")
    /\ IF task[t].n > MaxTurns THEN Fail(t) /\ UNCHANGED asked
       ELSE IF run[R].status = "streaming" THEN Goto(t, "stream") /\ asked' = asked + 1
       ELSE End(t) /\ UNCHANGED asked
    /\ UNCHANGED <<stored, life, flags, timer, queued, ran, spent>>

\* The provider is asked only while the run has turns left and is STREAMING.
Turn(t) ==
    /\ At(t, "turn")
    /\ IF task[t].n >= MaxTurns THEN Fail(t) /\ UNCHANGED asked
       ELSE IF run[R].status = "streaming" THEN Goto(t, "stream") /\ asked' = asked + 1
       ELSE IF Ended(R) \/ run[R].status = "waiting_approval" THEN End(t) /\ UNCHANGED asked
       ELSE IF run[R].status = "cancelling" THEN Cancel(t) /\ UNCHANGED asked
       ELSE Fail(t) /\ UNCHANGED asked
    /\ UNCHANGED <<stored, life, flags, timer, queued, ran, spent>>

\* One answer: each event renews the claim to the run (consume_provider_event),
\* each delta needs it STREAMING; the answer is proposals, a message or an error.
Stream(t) ==
    /\ At(t, "stream") /\ UNCHANGED stored
    /\ WhileStreaming(t, /\ Owned(R, As(t))
                         /\ \/ Fail(t)
                            \/ \E S \in (SUBSET Call) \ {{}} :
                                  task' = [task EXCEPT ![t].pc = "propose", ![t].todo = S,
                                                       ![t].n = @ + 1]
                            \/ task' = [task EXCEPT ![t].pc = "finishRun", ![t].n = @ + 1])
    /\ OnlyTask

AnswerRun(t) ==
    /\ At(t, "finishRun")
    /\ WhileStreaming(t, FinishRun(R, task[t].n, As(t)) /\ End(t))
    /\ OnlyTask

\* After the proposal c: the next one, or the next turn.
Next1(t, c) ==
    LET rest == task[t].todo \ {c} IN
    task' = [task EXCEPT ![t].todo = rest, ![t].call = Nobody, ![t].ok = FALSE,
                         ![t].pc = IF rest = {} THEN "turn" ELSE "propose"]

Settled == {"succeeded", "failed", "rejected", "expired"}

\* _process_tool_proposal: validation and budgets read only; then the call is
\* recorded, and a new one waits for approval or is started at once.
Propose(t) ==
    /\ At(t, "propose")
    /\ \E c \in task[t].todo :
         \/ Fail(t) /\ UNCHANGED stored
         \/ WhileStreaming(t,
              /\ ProposeToolCall(c, task[t].n, As(t))
              /\ \/ /\ call[c] = "none"
                    /\ task' = [task EXCEPT ![t].call = c,
                          ![t].pc = IF c \in Costly THEN "schedule" ELSE "startTool"]
                 \/ call[c] \in Settled /\ Next1(t, c)
                 \/ call[c] \notin Settled \cup {"none"} /\ Fail(t))
    /\ OnlyTask

\* _schedule_approval_expiry, after the proposal has been committed.
Schedule(t) ==
    /\ At(t, "schedule")
    /\ timer' = [timer EXCEPT ![t[1]] = @ \cup {task[t].call}]
    /\ End(t)
    /\ UNCHANGED <<stored, life, flags, queued, past>>

StartDirect(t) ==
    LET c == task[t].call IN
    /\ At(t, "startTool")
    /\ WhileStreaming(t,
         \/ StartTool(c, As(t)) /\ Goto(t, "tool")
         \/ /\ Owned(R, As(t)) /\ run[R].status = "streaming" /\ call[c] # "proposed"
            /\ UNCHANGED stored /\ Fail(t))
    /\ OnlyTask

\* Mutant: a tool that fails is tried again.
RunToolAgain(t) ==
    LET c == task[t].call IN
    /\ At(t, "tool")
    /\ ran' \in {ran, [ran EXCEPT ![c] = @ + 1]}
    /\ \E ok \in BOOLEAN :
            /\ ok => ran' # ran
            /\ task' = [task EXCEPT ![t].pc = IF ok THEN "finishTool" ELSE "tool", ![t].ok = ok]
    /\ UNCHANGED <<stored, life, flags, timer, queued, asked, spent>>

\* tool_registry.execute: the effect may happen and the tool fail afterwards;
\* a costly tool checks that the run is still its own.  An exception that
\* _execute_tool_call does not name fails the run and leaves the call RUNNING.
RunTool(t) ==
    LET c == task[t].call IN
    /\ At(t, "tool")
    /\ ran' \in {ran, [ran EXCEPT ![c] = @ + 1]}
    /\ \/ \E ok \in BOOLEAN :
            /\ ok => ran' # ran
            /\ task' = [task EXCEPT ![t].pc = "finishTool", ![t].ok = ok]
       \/ c \in Costly /\ ~Owned(R, As(t)) /\ End(t)
       \/ Fail(t)
    /\ UNCHANGED <<stored, life, flags, timer, queued, asked, spent>>

Outcome(t) == IF task[t].ok THEN "succeeded" ELSE "failed"

RecordTool(t) ==
    LET c == task[t].call IN
    /\ At(t, "finishTool")
    /\ \/ Lost(t)
       \/ Owned(R, As(t)) /\ ~Finishable(c, Outcome(t)) /\ UNCHANGED stored /\ Fail(t)
       \/ /\ FinishTool(c, Outcome(t), As(t))
          /\ IF task[t].kind = "resume" THEN Goto(t, "load") ELSE Next1(t, c)
    /\ OnlyTask

-----------------------------------------------------------------------------
(***************************************************************************)
(* _resume_tool_work: the continuation after a decision.                   *)
(***************************************************************************)
RenewResume(t) ==
    /\ At(t, "renew") /\ task[t].kind = "resume"
    /\ Goto(t, IF ~Owned(R, As(t)) THEN "release"
               ELSE IF task[t].ok THEN "startApproved" ELSE "load")
    /\ UNCHANGED stored /\ OnlyTask

StartApproved(t) ==
    LET c == task[t].call IN
    /\ At(t, "startApproved")
    /\ \/ Lost(t)
       \/ StartTool(c, As(t)) /\ Goto(t, "tool")
       \/ /\ Owned(R, As(t)) /\ UNCHANGED stored
          /\ IF run[R].status # "executing_tool"
               THEN task' = [task EXCEPT ![t].pc = "abandon", ![t].saw = Now]
               ELSE call[c] # "approved" /\ Fail(t)
    /\ OnlyTask

\* The run left EXECUTING_TOOL: the approved call is closed without a start.
Abandon(t) ==
    LET c == task[t].call IN
    /\ At(t, "abandon")
    /\ \/ Lost(t)
       \/ Owned(R, As(t)) /\ ~Finishable(c, "failed") /\ UNCHANGED stored /\ Fail(t)
       \/ /\ FinishTool(c, "failed", As(t))
          /\ IF task[t].saw.status = "cancelling" THEN Cancel(t) ELSE Fail(t)
    /\ OnlyTask

\* The rest of the run goes on in the same task, without a lease of its own.
Load(t) ==
    /\ At(t, "load")
    /\ task' = [task EXCEPT ![t].pc = "begin", ![t].kind = "inner",
                            ![t].call = Nobody, ![t].ok = FALSE]
    /\ UNCHANGED stored /\ OnlyTask

-----------------------------------------------------------------------------
(***************************************************************************)
(* _mark_failed and _mark_cancelled: read, write what was read, try again. *)
(***************************************************************************)
ReadToFail(t) ==
    /\ At(t, "failRead") /\ UNCHANGED stored
    /\ IF Ended(R) \/ task[t].tries = 3 THEN End(t)
       ELSE IF run[R].status = "cancelling" THEN Mark(t, "cancelRead", task[t].shielded)
       ELSE task' = [task EXCEPT ![t].pc = "failWrite", ![t].saw = Now]
    /\ OnlyTask

\* A write that finds another status: over, or once more from the read.
Retry(t, again) ==
    /\ run[R].status # task[t].saw.status /\ UNCHANGED stored
    /\ IF Ended(R) THEN End(t)
       ELSE task' = [task EXCEPT ![t].pc = again, ![t].tries = @ + 1]

WriteFailed(t) ==
    /\ At(t, "failWrite")
    /\ \/ Lost(t)
       \/ Owned(R, As(t)) /\ Retry(t, "failRead")
       \/ TransitionRun(R, task[t].saw, "failed", As(t)) /\ End(t)
    /\ OnlyTask

ReadToCancel(t) ==
    /\ At(t, "cancelRead") /\ UNCHANGED stored
    /\ IF Ended(R) \/ task[t].tries = 4 THEN End(t)
       ELSE task' = [task EXCEPT ![t].pc = "cancelWrite", ![t].saw = Now]
    /\ OnlyTask

WriteCancelled(t) ==
    /\ At(t, "cancelWrite")
    /\ \/ As(t) # Nobody /\ Lost(t)
       \/ Authorised(R, As(t)) /\ Retry(t, "cancelRead")
       \/ /\ task[t].saw.status = "cancelling"
          /\ TransitionRun(R, task[t].saw, "cancelled", As(t)) /\ End(t)
       \/ /\ task[t].saw.status # "cancelling"
          /\ TransitionRun(R, task[t].saw, "cancelling", As(t))
          /\ task' = [task EXCEPT ![t].pc = "cancelRead", ![t].tries = @ + 1]
    /\ OnlyTask

-----------------------------------------------------------------------------
(***************************************************************************)
(* The handlers of a cancelled task and the end of every task.             *)
(***************************************************************************)
Stopping(e) == life[e] = "closing" /\ "userCancelled" \notin flags[e]

Stopped(t) ==
    /\ At(t, "stopped") /\ UNCHANGED stored
    /\ IF "leaseLost" \in flags[t[1]] \/ run[R].status = "waiting_approval"
         THEN End(t)
         ELSE Goto(t, IF Stopping(t[1]) THEN "sweepFail" ELSE "sweepCancel")
    /\ OnlyTask

\* _finish_unstarted_tools, then the marking, both shielded.
Sweep(t) ==
    /\ task[t].pc \in {"sweepFail", "sweepCancel"}
    /\ \/ \E c \in Call : /\ call[c] = "approved"
                          /\ \/ Lost(t)
                             \/ FinishTool(c, "failed", As(t)) /\ UNCHANGED task
       \/ /\ \A c \in Call : call[c] # "approved"
          /\ UNCHANGED stored
          /\ Mark(t, IF At(t, "sweepFail") THEN "failRead" ELSE "cancelRead", TRUE)
    /\ OnlyTask

\* The handler of _resume_tool_work.  A call that is already closed raises in
\* finish_tool and leaves the run as it is.
ResumeStopped(t) ==
    LET c == task[t].decided
        Close(how) == \/ FinishTool(c, "failed", As(t)) /\ Mark(t, how, TRUE)
                      \/ /\ ~Owned(R, As(t)) \/ ~Finishable(c, "failed")
                         /\ UNCHANGED stored /\ End(t)
    IN
    /\ At(t, "resumeStopped")
    /\ IF "leaseLost" \in flags[t[1]] THEN UNCHANGED stored /\ End(t)
       ELSE IF "budget" \in flags[t[1]]
       THEN IF call[c] \in {"approved", "running"} THEN Close("failRead")
            ELSE UNCHANGED stored /\ Mark(t, "failRead", TRUE)
       ELSE Close(IF Stopping(t[1]) THEN "failRead" ELSE "cancelRead")
    /\ OnlyTask

\* _release_execution_if_settled reads, awaits, and releases afterwards.
Settle(t) ==
    /\ At(t, "settle")
    /\ IF "leaseLost" \in flags[t[1]]
         THEN Goto(t, "done") /\ flags' = [flags EXCEPT ![t[1]] = @ \ {"leaseLost"}]
         ELSE /\ Goto(t, IF Ended(R) \/ run[R].status = "waiting_approval"
                           THEN "release" ELSE "done")
              /\ UNCHANGED flags
    /\ UNCHANGED <<stored, life, timer, queued, past>>

Release(t) ==
    /\ At(t, "release")
    /\ ReleaseRunExecution(R, t[1])
    /\ Goto(t, "done")
    /\ flags' = [flags EXCEPT ![t[1]] = @ \ {"budget"}]
    /\ UNCHANGED <<life, timer, queued, past>>

\* The done callbacks: _forget_run_task, then a resume that was waiting.
Done(t) ==
    LET e == t[1] IN
    /\ At(t, "done")
    /\ task' = [task EXCEPT ![t] =
                    IF queued[e] # Nobody /\ life[e] = "up"
                      THEN Start("renew", "resume", queued[e], call[queued[e]] = "approved")
                      ELSE NoTask]
    /\ queued' = [queued EXCEPT ![e] = Nobody]
    /\ life' = [life EXCEPT ![e] = IF @ = "starting" THEN "up" ELSE @]
    /\ UNCHANGED <<stored, flags, timer, past>>

-----------------------------------------------------------------------------
(***************************************************************************)
(* recover_incomplete, which runs once, before requests are served.        *)
(***************************************************************************)
Pending == {c \in Call : approval[c].status = "pending"}

\* Mutant: the timers of pending approvals are not restored.
RecoverWithoutTimers(t) ==
    /\ At(t, "approvals")
    /\ \/ \E c \in Pending : approval[c].due /\ ExpireApproval(c) /\ UNCHANGED task
       \/ /\ \A c \in Pending : ~approval[c].due
          /\ task' = [task EXCEPT ![t].pc = "list", ![t].todo = Pending]
          /\ UNCHANGED stored
    /\ UNCHANGED <<life, flags, timer, queued, past>>

RecoverApprovals(t) ==
    /\ At(t, "approvals")
    /\ \/ \E c \in Pending : approval[c].due /\ ExpireApproval(c) /\ UNCHANGED <<task, timer>>
       \/ /\ \A c \in Pending : ~approval[c].due
          /\ task' = [task EXCEPT ![t].pc = "list", ![t].todo = Pending]
          /\ timer' = [timer EXCEPT ![t[1]] = Pending]
          /\ UNCHANGED stored
    /\ UNCHANGED <<life, flags, queued, past>>

RecoverList(t) ==
    /\ At(t, "list") /\ UNCHANGED stored
    /\ Goto(t, IF \/ ~Recoverable(R)
                  \/ run[R].status = "waiting_approval" /\ task[t].todo # {}
               THEN "done" ELSE "claim")
    /\ OnlyTask

RecoverClaim(t) ==
    /\ At(t, "claim")
    /\ \/ /\ ClaimRunExecution(R, t[1])
          /\ task' = [task EXCEPT ![t].pc = "tools", ![t].saw = Now,
                                  ![t].todo = {}]
       \/ ~Claimable(R, t[1]) /\ UNCHANGED stored /\ Goto(t, "done")
    /\ OnlyTask

\* An interrupted tool is closed, never replayed; then the run is.
RecoverTools(t) ==
    LET open == {c \in Call : call[c] \in {"approved", "running"}} IN
    /\ At(t, "tools")
    /\ \/ open # {} /\ Lost(t)
       \/ \E c \in open : FinishTool(c, "failed", As(t)) /\ UNCHANGED task
       \/ /\ open = {} /\ UNCHANGED stored
          /\ IF task[t].saw.status = "cancelling" THEN Cancel(t) ELSE Fail(t)
    /\ OnlyTask

-----------------------------------------------------------------------------
(***************************************************************************)
(* Requests.                                                               *)
(***************************************************************************)
CreateAgentRun(e) ==
    /\ life[e] = "up" /\ CreateRun(R, e)
    /\ task' = [task EXCEPT ![RunTask(e)] = Start("renew", "turn", Nobody, FALSE)]
    /\ UNCHANGED <<life, flags, timer, queued, past>>

CancelRead(e) ==
    /\ life[e] = "up" /\ At(Request(e), "none") /\ Live(R) /\ Spend("cancel")
    /\ task' = [task EXCEPT ![Request(e)] =
                   IF run[R].status = "cancelling" THEN Start("interrupt", "cancel", Nobody, FALSE)
                   ELSE [Start("write", "cancel", Nobody, FALSE) EXCEPT !.saw = Now]]
    /\ UNCHANGED <<stored, life, flags, timer, queued>>

CancelWrite(t) ==
    /\ At(t, "write")
    /\ \/ TransitionRun(R, task[t].saw, "cancelling", Nobody) /\ Mark(t, "interrupt", FALSE)
       \/ run[R].status # task[t].saw.status /\ UNCHANGED stored
             /\ task' = [task EXCEPT ![t] = NoTask]
    /\ OnlyTask

\* With a task on this executor, the task does the rest; without one, the request.
CancelTask(t) ==
    LET e == t[1] IN
    /\ At(t, "interrupt")
    /\ flags' = [flags EXCEPT ![e] = @ \cup {"userCancelled"}]
    /\ \/ At(RunTask(e), "none") /\ Goto(t, "sweep")
       \/ /\ ~At(RunTask(e), "none")
          /\ \E pc \in Targets(task[RunTask(e)]) :
                 task' = [task EXCEPT ![t] = NoTask,
                                      ![RunTask(e)] = Interrupted(@, pc)]
    /\ UNCHANGED <<stored, life, timer, queued, past>>

CancelSweep(t) ==
    /\ At(t, "sweep")
    /\ \/ \E c \in Call : call[c] = "approved" /\ FinishTool(c, "failed", Nobody)
                             /\ UNCHANGED task
       \/ /\ \A c \in Call : call[c] # "approved"
          /\ IF \E c \in Call : call[c] = "running"
               THEN task' = [task EXCEPT ![t] = NoTask] ELSE Cancel(t)
          /\ UNCHANGED stored
    /\ OnlyTask

\* _decide_tool_call: a decision that is too late expires the approval.
Decide(c, approve, e) ==
    LET t == RunTask(e) IN
    /\ life[e] = "up" /\ approval[c].status # "none"
    /\ timer' = [timer EXCEPT ![e] = @ \ {c}]
    /\ \/ /\ DecideApproval(c, approve, e)
          /\ IF At(t, "none")
               THEN /\ task' = [task EXCEPT ![t] = Start("renew", "resume", c, approve)]
                    /\ UNCHANGED queued
               ELSE queued' = [queued EXCEPT ![e] = c] /\ UNCHANGED task
       \/ ~Decidable(c) /\ ExpireApproval(c) /\ UNCHANGED <<task, queued>>
       \/ approval[c].status # "pending" /\ UNCHANGED <<stored, task, queued>>
    /\ UNCHANGED <<life, flags, past>>

\* _expire_approval_later
TimerFires(c, e) ==
    /\ c \in timer[e] /\ (approval[c].status = "pending" => approval[c].due)
    /\ timer' = [timer EXCEPT ![e] = @ \ {c}]
    /\ IF approval[c].status = "pending" THEN ExpireApproval(c) ELSE UNCHANGED stored
    /\ UNCHANGED <<life, task, flags, queued, past>>

-----------------------------------------------------------------------------
(***************************************************************************)
(* Time, the renewal loop, and the life of the process.                    *)
(***************************************************************************)
InTry(w) == w.pc \in (Loop \cup Outer \cup Marking \cup Handler) \ {"renew", "settle", "release"}

\* _renew_execution_lease finds the lease lost and cancels the task.
RenewalFails(e) ==
    /\ InTry(task[RunTask(e)]) /\ task[RunTask(e)].kind # "recovery"
    /\ ~Owned(R, e) /\ "leaseLost" \notin flags[e]
    /\ flags' = [flags EXCEPT ![e] = @ \cup {"leaseLost"}]
    /\ Interrupt(e)
    /\ UNCHANGED <<stored, life, timer, queued, past>>

\* agent_max_run_seconds: asyncio.timeout in a turn, work.cancel() in a resume.
BudgetEnds(e) ==
    LET t == RunTask(e)  w == task[t] IN
    /\ "budget" \notin flags[e] /\ Spend("budget")
    /\ \/ w.kind = "turn" /\ w.pc \in Loop /\ Fail(t) /\ UNCHANGED flags
       \/ /\ w.kind \in {"resume", "inner"} /\ (w.pc = "renew" \/ InTry(w))
          /\ flags' = [flags EXCEPT ![e] = @ \cup {"budget"}]
          /\ Interrupt(e)
    /\ UNCHANGED <<stored, life, timer, queued>>

Running(e) == life[e] \in {"starting", "up", "closing"}

\* A lease that nobody renews lapses; a renewal may also come too late.
Lapse ==
    /\ LeaseLapses(R)
    /\ IF \E e \in Executor : Owned(R, e) /\ Running(e)
         THEN Spend("late") ELSE UNCHANGED past
    /\ UNCHANGED <<life, task, flags, timer, queued>>

FallDue(c) == ApprovalFallsDue(c) /\ UNCHANGED <<life, task, flags, timer, queued, past>>

StartUp(e) ==
    /\ life[e] = "new" /\ (Overlap \/ \A d \in Executor : ~Running(d))
    /\ life' = [life EXCEPT ![e] = "starting"]
    /\ task' = [task EXCEPT ![RunTask(e)] = Start("approvals", "recovery", Nobody, FALSE)]
    /\ UNCHANGED <<stored, flags, timer, queued, past>>

\* close(): no more timers, the task is cancelled and awaited.  The server has
\* finished the requests before.
Close(e) ==
    /\ life[e] = "up" /\ At(Request(e), "none") /\ Spend("close")
    /\ life' = [life EXCEPT ![e] = "closing"]
    /\ timer' = [timer EXCEPT ![e] = {}]
    /\ Interrupt(e)
    /\ UNCHANGED <<stored, flags, queued>>

Gone(e, from) ==
    /\ life[e] \in from
    /\ life' = [life EXCEPT ![e] = "gone"]
    /\ task' = [task EXCEPT ![RunTask(e)] = NoTask, ![Request(e)] = NoTask]
    /\ flags' = [flags EXCEPT ![e] = {}]
    /\ timer' = [timer EXCEPT ![e] = {}]
    /\ queued' = [queued EXCEPT ![e] = Nobody]
    /\ UNCHANGED stored

Closed(e) == At(RunTask(e), "none") /\ Gone(e, {"closing"}) /\ UNCHANGED past
Crash(e)  == Spend("crash") /\ Gone(e, {"starting", "up", "closing"})

-----------------------------------------------------------------------------
TurnStep(t) ==
    \/ RenewTurn(t) \/ Begin(t) \/ StartStreaming(t) \/ Turn(t) \/ Stream(t) \/ AnswerRun(t)
    \/ Propose(t) \/ Schedule(t) \/ StartDirect(t) \/ RunTool(t) \/ RecordTool(t)
ResumeStep(t)  == RenewResume(t) \/ StartApproved(t) \/ Abandon(t) \/ Load(t)
MarkStep(t)    == ReadToFail(t) \/ WriteFailed(t) \/ ReadToCancel(t) \/ WriteCancelled(t)
HandlerStep(t) == \/ Stopped(t) \/ Sweep(t) \/ ResumeStopped(t)
                  \/ Settle(t) \/ Release(t) \/ Done(t)
RecoveryStep(t) == \/ RecoverApprovals(t) \/ RecoverList(t)
                   \/ RecoverClaim(t) \/ RecoverTools(t)
RequestStep(t) == CancelWrite(t) \/ CancelTask(t) \/ CancelSweep(t)

TaskStep(t) == TurnStep(t) \/ ResumeStep(t) \/ HandlerStep(t) \/ RecoveryStep(t)
Step(t) == IF t[2] = "run" THEN TaskStep(t) \/ MarkStep(t) ELSE RequestStep(t) \/ MarkStep(t)

User(e) == CreateAgentRun(e) \/ CancelRead(e)
               \/ \E c \in Costly, approve \in BOOLEAN : Decide(c, approve, e)
Life(e) == RenewalFails(e) \/ BudgetEnds(e) \/ StartUp(e) \/ Close(e) \/ Closed(e) \/ Crash(e)
Timers  == \E c \in Call : FallDue(c) \/ \E e \in Executor : TimerFires(c, e)

Next ==
    \/ \E t \in Coroutine : Step(t)
    \/ \E e \in Executor : User(e) \/ Life(e)
    \/ Timers \/ Lapse

Spec == Init /\ [][Next]_vars

\* The event loop runs every coroutine that is ready, timers fire, time passes,
\* and a Gateway that has stopped is started again.
Fairness ==
    /\ \A t \in Coroutine : WF_vars(Step(t))
    /\ \A c \in Call : WF_vars(FallDue(c))
    /\ \A c \in Call, e \in Executor : WF_vars(TimerFires(c, e))
    /\ \A e \in Executor : WF_vars(StartUp(e)) /\ WF_vars(Closed(e)) /\ WF_vars(RenewalFails(e))
    /\ WF_vars(Lapse /\ UNCHANGED spent)

FairSpec == Spec /\ Fairness

-----------------------------------------------------------------------------
\* The tool of a call is executed at most once, whatever is interrupted,
\* recovered, proposed again or continued on another executor
\* (start_tool against the call's status; recovery never replays).
ToolRunsOnce == \A c \in Call : ran[c] <= 1

\* All tasks of a run together ask the provider at most MaxTurns times: the count
\* survives approvals because propose_tool_call writes usage with the run.
TurnBudget == asked <= MaxTurns

\* A run that waits for an approval does not wait forever: without a decision the
\* approval expires, also when the Gateway stops or crashes in between
\* (_schedule_approval_expiry, restored by recover_incomplete).
WaitingEnds == (run[R].status = "waiting_approval") ~> (run[R].status # "waiting_approval")

\* An approved call does not stay approved: it is started or closed.
ApprovedToolProceeds == \A c \in Costly : (call[c] = "approved") ~> (call[c] # "approved")
=============================================================================
