------------------------------- MODULE Runner -------------------------------
(***************************************************************************)
(* The Runner of one GPU (workers/runner): RedisRunnerRuntime with its     *)
(* bootstrap, control and job loops, ModelWorkerSupervisor, and the Model  *)
(* Worker child process at the other end of its pipe.                      *)
(*                                                                         *)
(* The three loops are tasks of one asyncio loop: code between two awaits  *)
(* is one action.  Redis keeps streams, consumer group, cached results and *)
(* leases when the Runner dies.  A session stands for everything it has    *)
(* one of on this GPU: slot id, fencing token, LOAD and UNLOAD command.    *)
(*                                                                         *)
(* The Gateway's side is modelled from how it calls.  It sends a job again *)
(* when the user retries it: an element of Job is one such message, of     *)
(* create or of a retry, and IdOf is the job id it carries.  Event stream, *)
(* directory and cancel file belong to the id; events[j] is what the       *)
(* stream of IdOf[j] has of the attempt j, in its order.                   *)
(***************************************************************************)
EXTENDS Naturals, Sequences

CONSTANTS
    Session, Job, Id, Profile, Nobody,
    IdOf,           \* the job id under which an attempt is dispatched
    SpecOf,         \* the pipelineSpec a session asks for
    SlotOf,         \* the session on whose slot a job is dispatched
    Disturbance,    \* what goes wrong in this instance
    Budget          \* and how often altogether, see Spend

ASSUME RunnerAssumption ==
    /\ Nobody \notin Session \cup Job \cup Profile
    /\ IdOf \in [Job -> Id]
    /\ SpecOf \in [Session -> Profile]
    /\ SlotOf \in [Job -> Session]
    /\ Disturbance \subseteq {"lose", "cancel", "failure", "death", "timeout", "memory",
                              "loadError", "crash", "stop"}
    /\ Budget \in Nat

VARIABLES
    lease,      \* whose lease is on the GPU in Redis
    gateway,    \* how far the Gateway is with a session
    wanted,     \* ids in _cancel_requested of the Gateway's JobService
    cancelFile, \* ids with a control/cancel_requested file
    prepared,   \* jobs whose directory a worker has prepared
    left,       \* jobs whose result nobody awaits any more (history, see ResultIsOwn)
    boot, loading,      \* the GPU's control stream: undelivered; delivered, not acked
    unload,             \* the control stream of each slot: its one UNLOAD
    queue,              \* the job stream of each slot
    taken, pending,     \* how much of it was delivered; the job not acked
    cache, reply,       \* command results: cached under the id, published
    events,             \* the events of each attempt
    up,         \* is the Runner process running?
    current,    \* current_session_id, _slot_id and _fencing_token
    at,         \* where the bootstrap loop is suspended
    result,     \* the status it is about to report
    tasks,      \* the slot whose control and job loops were started
    control,    \* where the control loop is suspended
    jobLoop,    \* where the job loop is suspended
    outcome,    \* the event the job loop is about to publish
    inflight,   \* jobs with an unfinished task that publishes progress
    state,      \* supervisor.state
    process,    \* supervisor._process: the session it was spawned for
    loaded,     \* supervisor.current_spec
    lock,       \* holder of supervisor._job_lock
    waiting,    \* who awaits it, in order
    releasing,  \* where supervisor.release is suspended, per caller
    stray,      \* reader threads left behind by a cancelled _receive
    worker,     \* the child process and its pipe
    spent       \* how many disturbances there were

streams    == <<boot, loading, unload, queue, taken, pending>>
answers    == <<cache, reply, events>>
redis      == <<lease, streams, answers>>
marks      == <<wanted, cancelFile, prepared, left>>
tasksOf    == <<tasks, control, jobLoop, outcome, inflight>>
supervisor == <<state, process, loaded, lock, waiting, releasing, stray>>
vars == <<redis, gateway, marks, up, current, at, result, tasksOf, supervisor, worker, spent>>

Terminal == {"succeeded", "failed", "cancelled"}
Message  == [kind : Terminal \cup {"progress"}, of : Job]
NoOutcome == [kind |-> "none", of |-> Nobody]
NoWorker  == [st |-> "none", inbox |-> <<>>, job |-> Nobody, told |-> FALSE, out |-> <<>>,
              quit |-> FALSE]
Alive     == worker.st \in {"loading", "idle", "busy"}
Msg(k, j) == [kind |-> k, of |-> j]
Answered(j) == \E i \in DOMAIN events[j] : events[j][i].kind \in Terminal

TypeOK ==
    /\ lease \in Session \cup {Nobody}
    /\ gateway \in [Session -> {"new", "loading", "ready", "releasing", "failed", "released"}]
    /\ wanted \subseteq Id /\ cancelFile \subseteq Id
    /\ prepared \subseteq Job /\ left \subseteq Job
    /\ boot \in Seq(Session) /\ loading \in Session \cup {Nobody}
    /\ unload \in [Session -> {"none", "sent", "pending", "acked"}]
    /\ queue \in [Session -> Seq(Job)]
    /\ taken \in [Session -> Nat]
    /\ pending \in [Session -> Job \cup {Nobody}]
    /\ \A c \in {cache, reply} : c \in [{"load", "unload"} -> [Session -> {"none", "ok", "failed"}]]
    /\ events \in [Job -> Seq(Message)]
    /\ up \in BOOLEAN
    /\ current \in Session \cup {Nobody}
    /\ at \in {"idle", "check", "load", "clear", "receive", "recheck", "undo", "stopping",
               "cache", "publish", "ack", "closing", "close"}
    /\ result \in {"ok", "failed"}
    /\ tasks \in Session \cup {Nobody}
    /\ control \in {"off", "idle", "release", "cache_ok", "cache_failed", "publish",
                   "republish", "ack"}
    /\ jobLoop \in {"off", "idle", "lock", "wait", "flush", "publish", "ack"}
    /\ outcome \in [kind : Terminal, of : Job] \cup {NoOutcome}
    /\ inflight \subseteq Job
    /\ state \in {"empty", "loading", "ready", "busy", "draining", "unloading", "error"}
    /\ process \in Session \cup {Nobody}
    /\ loaded \in Profile \cup {Nobody}
    /\ lock \in {"free", "job", "boot", "control"}
    /\ waiting \in Seq({"job", "boot", "control"})
    /\ releasing \in [{"boot", "control"} -> {"none", "wait", "join"}]
    /\ stray \in Nat
    /\ worker \in [st : {"none", "loading", "idle", "busy", "dead"}, inbox : Seq(Job),
                   job : Job \cup {Nobody}, told : BOOLEAN, out : Seq(Message), quit : BOOLEAN]
    /\ spent \in 0..Budget

None2 == [c \in {"load", "unload"} |-> [s \in Session |-> "none"]]

Init ==
    /\ lease = Nobody
    /\ gateway = [s \in Session |-> "new"]
    /\ wanted = {} /\ cancelFile = {} /\ prepared = {} /\ left = {}
    /\ boot = <<>> /\ loading = Nobody
    /\ unload = [s \in Session |-> "none"]
    /\ queue = [s \in Session |-> <<>>]
    /\ taken = [s \in Session |-> 0]
    /\ pending = [s \in Session |-> Nobody]
    /\ cache = None2 /\ reply = None2
    /\ events = [j \in Job |-> <<>>]
    /\ up = TRUE
    /\ current = Nobody
    /\ at = "idle" /\ result = "failed"
    /\ tasks = Nobody /\ control = "off" /\ jobLoop = "off"
    /\ outcome = NoOutcome /\ inflight = {}
    /\ state = "empty" /\ process = Nobody /\ loaded = Nobody
    /\ lock = "free" /\ waiting = <<>>
    /\ releasing = [c \in {"boot", "control"} |-> "none"]
    /\ stray = 0
    /\ worker = NoWorker
    /\ spent = 0

Spend(k) ==
    /\ k \in Disturbance /\ spent < Budget
    /\ spent' = spent + 1

-----------------------------------------------------------------------------
(* The Gateway, as the streams see it *)

runner == <<up, current, at, result, tasksOf, supervisor, worker>>

\* A session takes the lease, then load_slot publishes LOAD.
Acquire(s) ==
    /\ gateway[s] = "new" /\ lease = Nobody
    /\ lease' = s
    /\ gateway' = [gateway EXCEPT ![s] = "loading"]
    /\ boot' = Append(boot, s)
    /\ UNCHANGED <<loading, unload, queue, taken, pending, answers, marks, runner, spent>>

\* wait_command_result of load_slot; a slot that failed gives its lease back.
LoadAnswered(s) ==
    /\ gateway[s] = "loading" /\ reply["load"][s] # "none"
    /\ gateway' = [gateway EXCEPT ![s] = IF reply["load"][s] = "ok" THEN "ready" ELSE "failed"]
    /\ lease' = IF lease = s /\ reply["load"][s] = "failed" THEN Nobody ELSE lease
    /\ UNCHANGED <<streams, answers, marks, runner, spent>>

Dispatched(j) == \E i \in DOMAIN queue[SlotOf[j]] : queue[SlotOf[j]][i] = j

\* The executor reads the stream of an id from its beginning and stops at a terminal
\* event, of whichever attempt.
Over(i) == \E k \in Job : IdOf[k] = i /\ Answered(k)

\* What a user may retry (a terminal event of the id is not a success).
Unsuccessful(i) ==
    \E k \in Job : IdOf[k] = i /\ \E n \in DOMAIN events[k] :
        events[k][n].kind \in {"failed", "cancelled"}

(***************************************************************************)
(* RedisJobDispatcher.dispatch of a new job or of a retry on a READY slot  *)
(* that is not busy.  The Gateway has heard of what it sent to the slot    *)
(* and under the id before, or has given it up: RUNNER_JOB_TIMEOUT, or a   *)
(* restart of its own that failed the job.                                 *)
(***************************************************************************)
Dispatch(j) ==
    /\ gateway[SlotOf[j]] = "ready" /\ ~Dispatched(j)
    /\ \/ /\ \A k \in Job : Dispatched(k) =>
                 /\ SlotOf[k] = SlotOf[j] => Over(IdOf[k])
                 /\ IdOf[k] = IdOf[j] => Unsuccessful(IdOf[k])
          /\ UNCHANGED spent
       \/ Spend("timeout")
    /\ queue' = [queue EXCEPT ![SlotOf[j]] = Append(@, j)]
    /\ wanted' = wanted \ {IdOf[j]}
    /\ UNCHANGED <<lease, boot, loading, unload, taken, pending, answers, gateway, cancelFile,
                   prepared, left, runner>>

\* release_slot publishes UNLOAD, whatever the slot is doing.
Unload(s) ==
    /\ gateway[s] \in {"loading", "ready"}
    /\ gateway' = [gateway EXCEPT ![s] = "releasing"]
    /\ unload' = [unload EXCEPT ![s] = "sent"]
    /\ UNCHANGED <<lease, boot, loading, queue, taken, pending, answers, marks, runner, spent>>

UnloadAnswered(s) ==
    /\ gateway[s] = "releasing" /\ reply["unload"][s] # "none"
    /\ gateway' = [gateway EXCEPT ![s] = IF reply["unload"][s] = "ok" THEN "released" ELSE "failed"]
    /\ lease' = IF lease = s /\ reply["unload"][s] = "ok" THEN Nobody ELSE lease
    /\ UNCHANGED <<streams, answers, marks, runner, spent>>

\* The lease lapses or is given up while the Runner goes on.
LoseLease ==
    /\ lease # Nobody /\ Spend("lose")
    /\ lease' = Nobody
    /\ UNCHANGED <<streams, answers, gateway, marks, runner>>

\* JobService.cancel of a job that was dispatched.
Cancel(i) ==
    /\ \E j \in Job : IdOf[j] = i /\ Dispatched(j)
    /\ i \notin wanted /\ Spend("cancel")
    /\ wanted' = wanted \cup {i}
    /\ UNCHANGED <<redis, gateway, cancelFile, prepared, left, runner>>

\* A round of the job's executor, which may not have read the last events yet.
TouchCancelFile(i) ==
    /\ i \in wanted \ cancelFile
    /\ cancelFile' = cancelFile \cup {i}
    /\ UNCHANGED <<redis, gateway, wanted, prepared, left, runner, spent>>

Gateway ==
    \/ \E s \in Session : Acquire(s) \/ LoadAnswered(s) \/ Unload(s) \/ UnloadAnswered(s)
    \/ \E j \in Job : Dispatch(j)
    \/ \E i \in Id : Cancel(i) \/ TouchCancelFile(i)
    \/ LoseLease

-----------------------------------------------------------------------------
(* ModelWorkerSupervisor *)

\* asyncio.Lock lets nobody in before those who wait for it.
Unlocked == lock = "free" /\ waiting = <<>>

\* release has the lock: the child is told to shut down.
Shutdown(c) ==
    /\ lock' = c
    /\ releasing' = [releasing EXCEPT ![c] = "join"]
    /\ state' = "unloading"
    /\ worker' = [worker EXCEPT !.quit = Alive]

\* Mutant: the run lock is not awaited.
ReleaseAtOnce(c) == Shutdown(c) /\ UNCHANGED waiting

\* A call of supervisor.release by c: state is DRAINING until it has the lock.
Release(c) ==
    \/ Unlocked /\ Shutdown(c) /\ UNCHANGED waiting
    \/ /\ ~Unlocked
       /\ waiting' = Append(waiting, c)
       /\ releasing' = [releasing EXCEPT ![c] = "wait"]
       /\ state' = "draining"
       /\ UNCHANGED <<lock, worker>>

\* Its turn has come.
ReleaseLocked(c) ==
    /\ lock = "free" /\ waiting # <<>> /\ Head(waiting) = c
    /\ releasing[c] = "wait"
    /\ waiting' = Tail(waiting)
    /\ Shutdown(c)
    /\ UNCHANGED <<redis, gateway, marks, up, current, at, result, tasksOf, process, loaded,
                   stray, spent>>

\* The child is gone, if need be killed; the memory is free or it is not.
Released(c, ok) ==
    /\ releasing[c] = "join"
    /\ IF ok THEN UNCHANGED spent ELSE Spend("memory")
    /\ lock' = "free" /\ UNCHANGED waiting
    /\ releasing' = [releasing EXCEPT ![c] = "none"]
    /\ stray' = 0

NoProcess(ok) ==
    /\ process' = Nobody /\ loaded' = Nobody /\ worker' = NoWorker
    /\ state' = IF ok THEN "empty" ELSE "error"

\* load starts a child for session s.
Spawn(s) ==
    /\ process' = s
    /\ worker' = [NoWorker EXCEPT !.st = "loading"]
    /\ state' = "loading"

-----------------------------------------------------------------------------
(* The bootstrap loop: RedisRunnerRuntime.run and _handle_bootstrap *)

outer == <<gateway, marks, spent>>

\* Mutant: only new messages are read.
ReadNewBootstrap ==
    /\ up /\ at = "idle" /\ boot # <<>>
    /\ loading' = Head(boot) /\ boot' = Tail(boot)
    /\ at' = "check"
    /\ UNCHANGED <<lease, unload, queue, taken, pending, answers, outer, up, current, result,
                   tasksOf, supervisor, worker>>

\* _read_group: the message not acked first, then the next.
ReadBootstrap ==
    /\ up /\ at = "idle"
    /\ \/ loading # Nobody /\ UNCHANGED <<boot, loading>>
       \/ /\ loading = Nobody /\ boot # <<>>
          /\ loading' = Head(boot) /\ boot' = Tail(boot)
    /\ at' = "check"
    /\ UNCHANGED <<lease, unload, queue, taken, pending, answers, outer, up, current, result,
                   tasksOf, supervisor, worker>>

\* Mutant: the cached result is not looked up.
CheckNoCache ==
    /\ at = "check"
    /\ \/ lease # loading /\ at' = "cache" /\ result' = "failed"
       \/ lease = loading /\ at' = "load" /\ UNCHANGED result
    /\ UNCHANGED <<redis, outer, up, current, tasksOf, supervisor, worker>>

\* The lease is compared before the cache is asked.
CheckBootstrap ==
    /\ at = "check"
    /\ \/ lease # loading /\ at' = "cache" /\ result' = "failed"
       \/ /\ lease = loading /\ cache["load"][loading] = "none"
          /\ at' = "load" /\ UNCHANGED result
       \/ /\ lease = loading /\ cache["load"][loading] # "none"
          /\ at' = "publish" /\ result' = cache["load"][loading]
    /\ UNCHANGED <<redis, outer, up, current, tasksOf, supervisor, worker>>

\* Mutant: a child that is there is reused whatever its model.
LoadReusing ==
    /\ at = "load"
    /\ \/ /\ process # Nobody
          /\ at' = "recheck"
          /\ UNCHANGED <<supervisor, worker>>
       \/ /\ process = Nobody
          /\ at' = "receive"
          /\ Spawn(loading)
          /\ UNCHANGED <<loaded, lock, waiting, releasing, stray>>
    /\ UNCHANGED <<redis, outer, up, current, result, tasksOf>>

\* supervisor.load: the child is reused, or stopped first, or there is none.
Load ==
    /\ at = "load"
    /\ \/ /\ Alive /\ process # Nobody /\ loaded = SpecOf[loading]
          /\ at' = "recheck"
          /\ UNCHANGED <<supervisor, worker>>
       \/ /\ process # Nobody /\ ~(Alive /\ loaded = SpecOf[loading])
          /\ at' = "clear"
          /\ Release("boot")
          /\ UNCHANGED <<process, loaded, stray>>
       \/ /\ process = Nobody
          /\ at' = "receive"
          /\ Spawn(loading)
          /\ UNCHANGED <<loaded, lock, waiting, releasing, stray>>
    /\ UNCHANGED <<redis, outer, up, current, result, tasksOf>>

\* The release inside load returns, and load goes on to start the child.
Cleared(ok) ==
    /\ at = "clear" /\ Released("boot", ok)
    /\ loaded' = Nobody
    /\ Spawn(loading)
    /\ at' = "receive"
    /\ UNCHANGED <<redis, gateway, marks, up, current, result, tasksOf>>

LoadReady ==
    /\ at = "receive" /\ process # Nobody /\ worker.st = "loading"
    /\ worker' = [worker EXCEPT !.st = "idle"]
    /\ loaded' = SpecOf[loading]
    /\ state' = "ready"
    /\ at' = "recheck"
    /\ UNCHANGED <<redis, outer, up, current, result, tasksOf, process, lock, waiting, releasing,
                   stray>>

\* load_failed stops the child; a time-out or a broken pipe leaves it.
LoadFails ==
    /\ at = "receive" /\ at' = "cache" /\ result' = "failed"
    /\ \/ /\ process # Nobody /\ worker.st = "loading" /\ Spend("loadError")
          /\ \/ process' = Nobody /\ worker' = NoWorker /\ state' = "error"
             \/ UNCHANGED <<process, worker, state>>
       \/ /\ process = Nobody \/ worker.st = "dead"
          /\ UNCHANGED <<process, worker, state, spent>>
    /\ UNCHANGED <<redis, gateway, marks, up, current, tasksOf, loaded, lock, waiting, releasing,
                   stray>>

\* _stop_slot_tasks cancels the control loop where it is suspended.  A command
\* it has read is acked without an answer; a release it is in is broken off.
StopControl ==
    /\ control' = "off"
    /\ unload' = [s \in Session |-> IF s = tasks /\ unload[s] = "pending" THEN "acked"
                                    ELSE unload[s]]
    /\ releasing' = [releasing EXCEPT !["control"] = "none"]

PublishOutcome == events' = [events EXCEPT ![pending[tasks]] = Append(@, outcome)]

\* ... and the job loop.  Inside _run_job the cancellation is published as the
\* job's outcome; inside the handler of another exception, or at the ack, it is
\* not.  A command to Redis that is cancelled may have been executed.
StopJob ==
    \/ /\ jobLoop \in {"off", "idle"}
       /\ jobLoop' = "off"
       /\ UNCHANGED <<outcome, events, pending>>
    \/ /\ \/ jobLoop \in {"lock", "wait", "flush"} /\ UNCHANGED events
          \/ /\ jobLoop = "publish" /\ outcome.kind = "succeeded"
             /\ (PublishOutcome \/ UNCHANGED events)
       /\ jobLoop' = "publish"
       /\ outcome' = Msg("cancelled", pending[tasks])
       /\ UNCHANGED pending
    \/ /\ jobLoop = "publish" /\ outcome.kind # "succeeded"
       /\ (PublishOutcome \/ UNCHANGED events)
       /\ jobLoop' = "ack"
       /\ outcome' = Msg("cancelled", pending[tasks])
       /\ UNCHANGED pending
    \/ /\ jobLoop = "ack"
       /\ jobLoop' = "off"
       /\ (pending' = [pending EXCEPT ![tasks] = Nobody] \/ UNCHANGED pending)
       /\ UNCHANGED <<outcome, events>>

\* A job cut off in _receive leaves the reader thread behind, and the child at work.
StopSlotTasks ==
    /\ StopControl
    /\ StopJob
    /\ lock' = "free" /\ waiting' = <<>>
    /\ IF jobLoop = "wait"
       THEN /\ stray' = stray + 1 /\ left' = left \cup {pending[tasks]}
            /\ state' = IF Alive THEN "ready" ELSE "error"
       ELSE UNCHANGED <<stray, left, state>>

\* The lease is compared again before the session becomes the Runner's own.
Recheck ==
    /\ at = "recheck"
    /\ \/ /\ lease # loading
          /\ at' = "undo"
          /\ Release("boot")
          /\ UNCHANGED <<redis, current, tasksOf, stray, left>>
       \/ /\ lease = loading
          /\ current' = loading
          /\ at' = "stopping"
          /\ StopSlotTasks
          /\ UNCHANGED <<lease, boot, loading, queue, taken, cache, reply, tasks, inflight,
                         worker>>
    /\ UNCHANGED <<gateway, wanted, cancelFile, prepared, spent, up, result, process, loaded>>

Undone(ok) ==
    /\ at = "undo" /\ Released("boot", ok) /\ NoProcess(ok)
    /\ at' = "cache" /\ result' = "failed"
    /\ UNCHANGED <<redis, gateway, marks, up, current, tasksOf>>

TasksEnded == control = "off" /\ jobLoop = "off"

StartSlotTasks ==
    /\ at = "stopping" /\ TasksEnded
    /\ tasks' = loading /\ control' = "idle" /\ jobLoop' = "idle"
    /\ at' = "cache" /\ result' = "ok"
    /\ UNCHANGED <<redis, outer, up, current, outcome, inflight, supervisor, worker>>

\* _result: the cache, then the stream; then the message is acked.
CacheResult ==
    /\ at = "cache" /\ at' = "publish"
    /\ cache' = [cache EXCEPT !["load"][loading] = result]
    /\ UNCHANGED <<lease, streams, reply, events, outer, up, current, result, tasksOf,
                   supervisor, worker>>

PublishResult ==
    /\ at = "publish" /\ at' = "ack"
    /\ reply' = [reply EXCEPT !["load"][loading] = result]
    /\ UNCHANGED <<lease, streams, cache, events, outer, up, current, result, tasksOf,
                   supervisor, worker>>

AckBootstrap ==
    /\ at = "ack" /\ at' = "idle"
    /\ loading' = Nobody
    /\ UNCHANGED <<lease, boot, unload, queue, taken, pending, answers, outer, up, current,
                   result, tasksOf, supervisor, worker>>

BootstrapLoop ==
    \/ ReadBootstrap \/ CheckBootstrap \/ Load \/ LoadReady \/ Recheck \/ StartSlotTasks
    \/ CacheResult \/ PublishResult \/ AckBootstrap
    \/ ReleaseLocked("boot")

-----------------------------------------------------------------------------
(* The control loop of the slot: _control_loop and _handle_slot_command *)

\* The fencing token of the command is compared with the current one.
ReadControl ==
    /\ control = "idle" /\ unload[tasks] \in {"sent", "pending"}
    /\ unload' = [unload EXCEPT ![tasks] = "pending"]
    /\ \/ /\ cache["unload"][tasks] # "none" /\ control' = "republish"
          /\ UNCHANGED <<state, lock, waiting, releasing, worker>>
       \/ /\ cache["unload"][tasks] = "none" /\ tasks # current
          /\ control' = "cache_failed"
          /\ UNCHANGED <<state, lock, waiting, releasing, worker>>
       \/ /\ cache["unload"][tasks] = "none" /\ tasks = current
          /\ control' = "release"
          /\ Release("control")
    /\ UNCHANGED <<lease, boot, loading, queue, taken, pending, answers, outer, up, current, at,
                   result, tasks, jobLoop, outcome, inflight, process, loaded, stray>>

ControlReleased(ok) ==
    /\ Released("control", ok) /\ NoProcess(ok)
    /\ control' = IF ok THEN "cache_ok" ELSE "cache_failed"
    /\ UNCHANGED <<redis, gateway, marks, up, current, at, result, tasks, jobLoop, outcome,
                   inflight>>

CacheControlResult ==
    /\ control \in {"cache_ok", "cache_failed"} /\ control' = "publish"
    /\ cache' = [cache EXCEPT !["unload"][tasks] = IF control = "cache_ok" THEN "ok" ELSE "failed"]
    /\ UNCHANGED <<lease, streams, reply, events, outer, up, current, at, result, tasks, jobLoop,
                   outcome, inflight, supervisor, worker>>

\* Only after the answer is out is the session no longer the current one.
PublishControlResult ==
    /\ control \in {"publish", "republish"} /\ control' = "ack"
    /\ reply' = [reply EXCEPT !["unload"][tasks] = cache["unload"][tasks]]
    /\ current' = IF control = "publish" /\ cache["unload"][tasks] = "ok" THEN Nobody
                  ELSE current
    /\ UNCHANGED <<lease, streams, cache, events, outer, up, at, result, tasks, jobLoop, outcome,
                   inflight, supervisor, worker>>

AckControl ==
    /\ control = "ack" /\ control' = "idle"
    /\ unload' = [unload EXCEPT ![tasks] = "acked"]
    /\ UNCHANGED <<lease, boot, loading, queue, taken, pending, answers, outer, up, current, at,
                   result, tasks, jobLoop, outcome, inflight, supervisor, worker>>

ControlLoop ==
    \/ ReadControl \/ CacheControlResult \/ PublishControlResult \/ AckControl
    \/ ReleaseLocked("control")

-----------------------------------------------------------------------------
(* The job loop of the slot: _job_loop, _run_job and supervisor.run_job *)

job == pending[tasks]

Fail == jobLoop' = "publish" /\ outcome' = Msg("failed", pending'[tasks])

\* run_job has the lock and writes to the pipe.  If that raises, the lock is
\* given back but the state stays BUSY.
SendRun ==
    /\ state' = "busy"
    /\ \/ /\ process # Nobody /\ Alive
          /\ lock' = "job" /\ jobLoop' = "wait"
          /\ worker' = [worker EXCEPT !.inbox = Append(@, pending'[tasks])]
          /\ UNCHANGED outcome
       \/ /\ process = Nobody \/ ~Alive
          /\ Fail
          /\ UNCHANGED <<lock, worker>>

\* _read_group; then the token and the state are checked and the lock is taken
\* without an await in between, unless somebody holds it or waits for it.
ReadJob ==
    /\ jobLoop = "idle"
    /\ \/ job # Nobody /\ UNCHANGED <<pending, taken>>
       \/ /\ job = Nobody /\ taken[tasks] < Len(queue[tasks])
          /\ taken' = [taken EXCEPT ![tasks] = @ + 1]
          /\ pending' = [pending EXCEPT ![tasks] = queue[tasks][taken[tasks] + 1]]
    /\ \/ /\ tasks # current \/ state # "ready" \/ process = Nobody
          /\ Fail
          /\ UNCHANGED <<lock, waiting, state, worker>>
       \/ /\ tasks = current /\ state = "ready" /\ process # Nobody
          /\ \/ Unlocked /\ SendRun /\ UNCHANGED waiting
             \/ /\ ~Unlocked
                /\ jobLoop' = "lock" /\ waiting' = Append(waiting, "job")
                /\ UNCHANGED <<lock, state, worker, outcome>>
    /\ UNCHANGED <<lease, boot, loading, unload, queue, answers, outer, up, current, at, result,
                   tasks, control, inflight, process, loaded, releasing, stray>>

\* Its turn has come; the child may be another one by now, or gone.
LockJob ==
    /\ jobLoop = "lock" /\ lock = "free" /\ waiting # <<>> /\ Head(waiting) = "job"
    /\ waiting' = Tail(waiting)
    /\ UNCHANGED pending
    /\ SendRun
    /\ UNCHANGED <<lease, boot, loading, unload, queue, taken, answers, outer, up, current, at,
                   result, tasks, control, inflight, process, loaded, releasing, stray>>

\* Mutant: the lock is kept.
UnlockForgets ==
    /\ lock' = lock
    /\ state' = IF Alive THEN "ready" ELSE "error"

\* The finally clause of run_job.
Unlock ==
    /\ lock' = "free"
    /\ state' = IF Alive THEN "ready" ELSE "error"

\* Mutant: the first message is taken as the end of the job.
ReceiveAnything ==
    /\ jobLoop = "wait" /\ worker.out # <<>>
    /\ worker' = [worker EXCEPT !.out = Tail(@)]
    /\ jobLoop' = "flush" /\ outcome' = [Head(worker.out) EXCEPT !.kind = "succeeded"]
    /\ Unlock
    /\ UNCHANGED <<redis, outer, up, current, at, result, tasks, control, inflight, process,
                   loaded, waiting, releasing, stray>>

\* _receive: whatever comes out of the pipe next is taken as the answer to this job.
ReceiveMessage ==
    /\ jobLoop = "wait" /\ worker.out # <<>>
    /\ worker' = [worker EXCEPT !.out = Tail(@)]
    /\ LET m == Head(worker.out) IN
       \/ /\ m.kind = "progress"
          /\ inflight' = inflight \cup {job}
          /\ UNCHANGED <<jobLoop, outcome, lock, state, left>>
       \/ /\ m.kind \in Terminal
          /\ jobLoop' = IF m.kind = "succeeded" THEN "flush" ELSE "publish"
          /\ outcome' = m
          /\ left' = left \cup ({job} \ {m.of})
          /\ Unlock /\ UNCHANGED inflight
    /\ UNCHANGED <<redis, gateway, wanted, cancelFile, prepared, spent, up, current, at, result,
                   tasks, control, process, loaded, waiting, releasing, stray>>

\* Mutant: the end of the pipe goes unnoticed.
ReceiveTimesOut ==
    /\ jobLoop = "wait" /\ Spend("timeout") /\ left' = left \cup {job}
    /\ jobLoop' = "publish" /\ outcome' = Msg("failed", job)
    /\ Unlock
    /\ UNCHANGED <<redis, gateway, wanted, cancelFile, prepared, up, current, at, result, tasks,
                   control, inflight, process, loaded, waiting, releasing, stray, worker>>

\* EOFError when the child is gone, TimeoutError when it is silent too long.
ReceiveFails ==
    /\ jobLoop = "wait"
    /\ \/ worker.st = "dead" /\ worker.out = <<>> /\ UNCHANGED <<left, spent>>
       \/ Spend("timeout") /\ left' = left \cup {job}
    /\ jobLoop' = "publish" /\ outcome' = Msg("failed", job)
    /\ Unlock
    /\ UNCHANGED <<redis, gateway, wanted, cancelFile, prepared, up, current, at, result, tasks,
                   control, inflight, process, loaded, waiting, releasing, stray, worker>>

\* The tasks that publish progress run on their own ...
PublishProgress(j) ==
    /\ j \in inflight
    /\ inflight' = inflight \ {j}
    /\ events' = [events EXCEPT ![j] = Append(@, Msg("progress", j))]
    /\ UNCHANGED <<lease, streams, cache, reply, outer, up, current, at, result, tasks, control,
                   jobLoop, outcome, supervisor, worker>>

\* Mutant: pending_events are not gathered.
FlushedAtOnce ==
    /\ jobLoop = "flush"
    /\ jobLoop' = "publish"
    /\ UNCHANGED <<redis, outer, up, current, at, result, tasks, control, outcome, inflight,
                   supervisor, worker>>

\* ... and are awaited before success is published, and only then.
Flushed ==
    /\ jobLoop = "flush" /\ job \notin inflight
    /\ jobLoop' = "publish"
    /\ UNCHANGED <<redis, outer, up, current, at, result, tasks, control, outcome, inflight,
                   supervisor, worker>>

PublishJobEvent ==
    /\ jobLoop = "publish"
    /\ PublishOutcome
    /\ jobLoop' = "ack"
    /\ UNCHANGED <<lease, streams, cache, reply, outer, up, current, at, result, tasks, control,
                   outcome, inflight, supervisor, worker>>

\* Mutant: the message is not acked.
NoAck ==
    /\ jobLoop = "ack"
    /\ jobLoop' = IF outcome.kind = "cancelled" THEN "off" ELSE "idle"
    /\ outcome' = NoOutcome
    /\ UNCHANGED <<redis, outer, up, current, at, result, tasks, control, inflight, supervisor,
                   worker>>

\* CancelledError, of the task or from the worker, leaves the loop after the ack.
AckJob ==
    /\ jobLoop = "ack"
    /\ pending' = [pending EXCEPT ![tasks] = Nobody]
    /\ jobLoop' = IF outcome.kind = "cancelled" THEN "off" ELSE "idle"
    /\ outcome' = NoOutcome
    /\ UNCHANGED <<lease, boot, loading, unload, queue, taken, answers, outer, up, current, at,
                   result, tasks, control, inflight, supervisor, worker>>

JobLoop == ReadJob \/ LockJob \/ ReceiveMessage \/ Flushed \/ PublishJobEvent \/ AckJob

-----------------------------------------------------------------------------
(* The Model Worker: worker_process_main *)

others == <<redis, gateway, up, current, at, result, tasksOf>>

\* prepare_job, and the cancel file of an earlier attempt is removed.
StartJob ==
    /\ worker.st = "idle" /\ worker.inbox # <<>>
    /\ worker' = [worker EXCEPT !.st = "busy", !.job = Head(worker.inbox), !.told = FALSE,
                                !.inbox = Tail(@)]
    /\ prepared' = prepared \cup {Head(worker.inbox)}
    /\ cancelFile' = cancelFile \ {IdOf[Head(worker.inbox)]}
    /\ UNCHANGED <<others, wanted, left, supervisor, spent>>

\* One report of progress per job (bound).
ReportProgress ==
    /\ worker.st = "busy" /\ ~worker.told
    /\ worker' = [worker EXCEPT !.told = TRUE, !.out = Append(@, Msg("progress", worker.job))]
    /\ UNCHANGED <<others, marks, supervisor, spent>>

\* Mutant: the job is forgotten before its message is built.
FinishNobody ==
    /\ worker.st = "busy"
    /\ worker' = [worker EXCEPT !.st = "idle", !.job = Nobody,
                                !.out = Append(@, Msg("succeeded", Nobody))]
    /\ UNCHANGED <<others, marks, supervisor, spent>>

\* The adapter looks for the file at some steps only: it may finish all the same.
FinishJob ==
    /\ worker.st = "busy"
    /\ \E kind \in Terminal :
           /\ kind = "cancelled" => IdOf[worker.job] \in cancelFile
           /\ IF kind = "failed" THEN Spend("failure") ELSE UNCHANGED spent
           /\ worker' = [worker EXCEPT !.st = "idle", !.job = Nobody,
                                       !.out = Append(@, Msg(kind, worker.job))]
    /\ UNCHANGED <<others, marks, supervisor>>

\* The shutdown message lies behind the jobs in the pipe.
Quit ==
    /\ worker.st = "idle" /\ worker.quit /\ worker.inbox = <<>>
    /\ worker' = [worker EXCEPT !.st = "dead"]
    /\ UNCHANGED <<others, marks, supervisor, spent>>

WorkerDies ==
    /\ Alive /\ Spend("death")
    /\ worker' = [worker EXCEPT !.st = "dead", !.inbox = <<>>, !.job = Nobody]
    /\ UNCHANGED <<others, marks, supervisor>>

\* A reader thread left behind takes a message nobody waits for.
StrayRead ==
    /\ stray > 0 /\ worker.out # <<>>
    /\ stray' = stray - 1
    /\ worker' = [worker EXCEPT !.out = Tail(@)]
    /\ UNCHANGED <<others, marks, state, process, loaded, lock, waiting, releasing, spent>>

Worker == StartJob \/ ReportProgress \/ FinishJob \/ Quit

-----------------------------------------------------------------------------
(* The process: SIGTERM, a crash, and the next oneiroi-runner *)

\* Nothing of the process is left; a child without its parent ends by itself.
Down ==
    /\ up' = FALSE
    /\ current' = Nobody /\ at' = "idle" /\ result' = "failed"
    /\ tasks' = Nobody /\ control' = "off" /\ jobLoop' = "off"
    /\ outcome' = NoOutcome /\ inflight' = {}
    /\ state' = "empty" /\ process' = Nobody /\ loaded' = Nobody
    /\ lock' = "free" /\ waiting' = <<>>
    /\ releasing' = [c \in {"boot", "control"} |-> "none"]
    /\ stray' = 0
    /\ worker' = NoWorker

Crash ==
    /\ up /\ Spend("crash")
    /\ Down
    /\ UNCHANGED <<redis, gateway, marks>>

\* The bootstrap loop sees stop_event and stops the loops of the slot ...
Stop ==
    /\ up /\ at = "idle" /\ Spend("stop")
    /\ at' = "closing"
    /\ StopSlotTasks
    /\ UNCHANGED <<lease, boot, loading, queue, taken, cache, reply, gateway, wanted, cancelFile,
                   prepared, up, current, result, tasks, inflight, process, loaded, worker>>

\* ... and then releases the worker, if there is one with a pid.
Closing ==
    /\ at = "closing" /\ TasksEnded
    /\ \/ /\ loaded = Nobody /\ Down
       \/ /\ loaded # Nobody /\ at' = "close"
          /\ Release("boot")
          /\ UNCHANGED <<up, current, result, tasksOf, process, loaded, stray>>
    /\ UNCHANGED <<redis, outer>>

Closed ==
    /\ at = "close" /\ releasing["boot"] = "join"
    /\ Down
    /\ UNCHANGED <<redis, outer>>

Restart ==
    /\ ~up
    /\ up' = TRUE
    /\ UNCHANGED <<redis, outer, current, at, result, tasksOf, supervisor, worker>>

Process == Closing \/ Closed \/ Restart

-----------------------------------------------------------------------------
Next ==
    \/ Gateway
    \/ BootstrapLoop \/ LoadFails
    \/ ControlLoop
    \/ JobLoop \/ ReceiveFails
    \/ \E j \in Job : PublishProgress(j)
    \/ \E ok \in BOOLEAN : Cleared(ok) \/ Undone(ok) \/ ControlReleased(ok)
    \/ Worker \/ WorkerDies \/ StrayRead
    \/ Crash \/ Stop \/ Process

Spec == Init /\ [][Next]_vars

\* asyncio runs every task that is not suspended for good, a child at work comes
\* to an end, and a Runner is started again.
Fairness ==
    /\ WF_vars(BootstrapLoop \/ LoadFails) /\ WF_vars(ControlLoop)
    /\ WF_vars(JobLoop \/ (ReceiveFails /\ worker.st = "dead"))
    /\ \A j \in Job : WF_vars(PublishProgress(j))
    /\ WF_vars(Cleared(TRUE)) /\ WF_vars(Undone(TRUE)) /\ WF_vars(ControlReleased(TRUE))
    /\ WF_vars(Worker)
    /\ WF_vars(Process)

LiveSpec == Spec /\ Fairness

-----------------------------------------------------------------------------
(* Correctness *)

(***************************************************************************)
(* The result published for an attempt is its own, or of an attempt nobody *)
(* awaits any more: one that timed out, that was cut off by a new session, *)
(* or that got such a result itself.  run_job compares no id with what     *)
(* comes out of the pipe: as long as no job is left, every result is the   *)
(* attempt's own, also after crashes, deaths and retries under one id.     *)
(***************************************************************************)
ResultIsOwn ==
    \A j \in Job : \A i \in DOMAIN events[j] :
        events[j][i].kind \in Terminal => events[j][i].of \in {j} \cup left

(***************************************************************************)
(* A job of the session that has the lease is executed on the model that   *)
(* session asked for, whatever sessions with other models came before it   *)
(* and were cut off.  (A job of a session whose lease has lapsed may run   *)
(* on the model of the next one, see the README.)                          *)
(***************************************************************************)
RightModel ==
    worker.st = "busy" /\ lease = SlotOf[worker.job] => loaded = SpecOf[SlotOf[worker.job]]

(***************************************************************************)
(* An attempt has one outcome: whatever is redelivered, cut off, timed out *)
(* or restarted, the Runner publishes one terminal event for a message of  *)
(* the job stream, and nothing says otherwise later, except the            *)
(* cancellation of a job loop that was publishing it (_stop_slot_tasks     *)
(* during xadd).  A job that is retried gets one from each attempt on one  *)
(* stream, see the finding of AttemptEndsByItself.                         *)
(***************************************************************************)
OneOutcome ==
    \A j \in Job : \A i, k \in DOMAIN events[j] :
        (i < k /\ events[j][i].kind \in Terminal /\ events[j][k].kind \in Terminal)
            => events[j][k].kind = "cancelled"

(***************************************************************************)
(* Success is published after all progress of the attempt, although every  *)
(* progress event is published by a task of its own (_run_job's gather).   *)
(***************************************************************************)
SuccessIsLast ==
    \A j \in Job : \A i \in DOMAIN events[j] :
        events[j][i].kind = "succeeded" => \A k \in DOMAIN events[j] :
            events[j][k].kind = "progress" => k < i

(***************************************************************************)
(* No message of the job stream is executed twice, in whatever order the   *)
(* Runner crashes, LOAD is delivered again and unacked jobs are read again.*)
(***************************************************************************)
RunOnce ==
    [][\A j \in Job : (worker.job # j /\ worker'.job = j) => j \notin prepared]_vars

(***************************************************************************)
(* A release waits for the running job: no child is told to shut down      *)
(* while the job loop waits for it (implementation-progress.md: release    *)
(* waits for the run lock).                                                *)
(***************************************************************************)
ReleaseWaitsForJob ==
    \A c \in {"boot", "control"} : releasing[c] = "join" => jobLoop # "wait"

(***************************************************************************)
(* An attempt on a slot whose loops run gets a terminal event of its own,  *)
(* unless the slot is released or the Runner ends meanwhile.               *)
(***************************************************************************)
Serves(s) == tasks = s /\ unload[s] = "none"

JobsAreAnswered ==
    \A j \in Job : (Dispatched(j) /\ Serves(SlotOf[j])) ~> (Answered(j) \/ ~Serves(SlotOf[j]))

(***************************************************************************)
(* Every LOAD is answered, also across restarts of the Runner: its message *)
(* stays unacked until the result is out.                                  *)
(***************************************************************************)
LoadsAreAnswered ==
    \A s \in Session : gateway[s] # "new" ~> reply["load"][s] # "none"

(***************************************************************************)
(* The UNLOAD of a slot whose loops run is answered: release takes the run *)
(* lock that the job loop gives back.                                      *)
(***************************************************************************)
UnloadsAreAnswered ==
    \A s \in Session : (unload[s] = "sent" /\ tasks = s) ~>
                           (reply["unload"][s] # "none" \/ tasks # s)
=============================================================================
