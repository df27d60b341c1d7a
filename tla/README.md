# Oneiroi: a verification development

Oneiroi Studio turns images into videos on a small pool of GPUs, and lets an agent
prepare them in a conversation. This directory holds TLA+ models of the code that
coordinates the Gateway, its repositories and the Runners, the instances TLC
checks and the theorems TLAPS proves about them. Paths are relative to the
repository; `gateway/` stands for `services/gateway/src/oneiroi_gateway/`.

    tlc -config races.cfg MCComputeSession      # model-check one instance
    tlapm AgentRepositoryProofs.tla             # check the proofs of a module

## 1. Inventory

| Component | State it keeps | Operations | Talks to |
|---|---|---|---|
| Lease stores (`gateway/redis/leases.py`, `gateway/gpu_server.py`) | one lease per GPU: session, fencing token, time-to-live | acquire, renew_session, release_gpu, release_session, active | called by the session service; the Runner reads the same Redis keys |
| ComputeSessionService (`gateway/services/compute_sessions.py`) | sessions with slots, fencing tokens, renewal tasks, idle clocks, idempotency keys | create, release, restore, renewal loop, reconcile_stale_gpus, touch | lease store, compute backend, state repository, session events |
| SqlComputeStateRepository (`gateway/repositories/compute.py`) | a row per session, a row per GPU | save, load_active | PostgreSQL |
| RunnerHeartbeatMonitor (`gateway/services/runner_heartbeats.py`) | last heartbeat per GPU | run | heartbeat stream, session service |
| RedisComputeBackend, RedisDirectedStreams | command, result, job and event streams | load_slot, release_slot, publish, wait | Redis, Runners |
| JobService, RedisJobExecutor, JobScheduler (`gateway/services/job_*.py`) | job rows and their in-memory copies, reservations, cancel requests, busy slots, executions | create, cancel, retry, restore_inflight, _execute, reserve, release | session service, repository, streams, Runners |
| StudioRepository (`gateway/repositories/`) | conversations, assets, jobs, attempts, events | create/update/list/count | PostgreSQL |
| Runner (`workers/runner`) | current slot and fencing token, slot loops, model worker process and pipe, run lock, command results in Redis | bootstrap, control loop, job loop, load, run_job, release, stop | Redis streams and leases, worker process |
| AgentRuntime (`gateway/agent/runtime.py`) | one task per run, approval timers, sets of cancelled, lost and timed-out runs | create_run, cancel, approve, reject, close, recover_incomplete, turn loop, continuation, lease renewal | agent repository, provider, tools |
| AgentRepository (`gateway/repositories/agent.py`, `sql_agent.py`) | runs with their execution lease, tool calls, approvals, events, messages | one method per transition | PostgreSQL |
| Tools, ArtifactService (`gateway/agent/registry.py`, `gateway/services/artifact_service.py`) | files in the storage root, file locks, asset rows | generate_reference_image, create_generated_image, cleanup, list, delete | repository, image provider, disk |
| SSE streams (session, job and agent events) | event lists, cursors, conditions | emit, stream | browsers |
| Providers, prompt enhancement, routes, BFF, web | requests | parse, forward | the outside |

What makes the system hard: the Gateway is one asyncio loop in which many
coroutines hold references to the same session, job or run across their awaits,
while leases lapse on a clock of their own, Runners and providers answer late or
never, users cancel at any time, and the process restarts from PostgreSQL rows
and Redis keys that were written at different times. Several Gateways may serve
the agent. A Runner is another asyncio loop: three tasks share the child process,
its pipe and the run lock, are cancelled at any await, and meet messages
delivered again after a crash. What makes the system correct:

- a GPU is granted to one session at a time, and only its session gives it up;
  a released session holds nothing, a confirmed token names a live lease, leases
  nobody needs end, slots of dead Runners leave service;
- a Runner runs a job once for each attempt, on the right model, reports one outcome of
  the attempt, never releases under a job, and answers what it is asked;
- a slot runs one job at a time, every reservation is given back, every job
  ends, and a terminal job stays as it ended;
- an owner has one active agent run; a tool that costs money runs only after a
  consent that is used once, and once; a run that waits does not wait for ever and
  does nothing after its end, whichever Gateway drives it;
- a registered image has its file, and a tool call that was interrupted lists
  what it registered and leaves nothing else on the disk (with the exceptions section 3
  names).

`PROJECT.json` lists every component with what is modelled of it, and every
hazard found in the code with its line.

## 2. Modules

| Module | Role |
|---|---|
| `GpuLease` | abstract lease store: who holds each GPU; `LeaseSpec` is what any store promises |
| `InMemoryLeaseStore`, `...Proofs`, `MC...` | the in-process store with clock, expiry times and lazy removal; its types and its refinement of `GpuLease` |
| `ComputeSession`, `...Proofs`, `MC...` | session service, monitor, snapshots and restore over `GpuLease` |
| `Runner`, `...Proofs`, `MC...` | one Runner with its loops, supervisor and child, and what the Gateway sends it |
| `Jobs`, `...Proofs`, `MC...` | JobService, JobScheduler and RedisJobExecutor over the job rows |
| `AgentRepository`, `AgentRepositoryProofs` | abstract agent repository: one indivisible step per operation, and what everything above relies on |
| `SqlAgentRepository`, `...Proofs`, `MC...` | the PostgreSQL transactions with their locks, proved to implement `AgentRepository` |
| `AgentRuntime`, `AgentRuntimeProofs`, `MC...` | the coroutines of several Gateways that drive one run over `AgentRepository` |
| `GeneratedImages`, `...Proofs`, `MC...` | one call of the image tool: file locks, files, rows, cleanup and recovery |

Two abstract specifications carry the composition. `ComputeSession` EXTENDS
`GpuLease` and uses its `Grant`, `Drop` and `Lapse` as the store's calls; the
in-memory store is proved to implement it. `AgentRuntime` EXTENDS
`AgentRepository` and calls its operations; `SqlAgentRepository` is proved to
implement them. `Jobs` and `Runner` meet in the streams: each has the other's
side as an environment. `Jobs` keeps of the Runner that it takes a slot's messages in
order and publishes progress and one outcome for each message, which `RunOnce` and
`OneOutcome` state of the Runner. `Runner` keeps of the Gateway that it sends LOADs,
UNLOADs, new jobs and retries under the conditions given below, in any order and
number these allow.

In all modules the unit of atomicity is the code between two awaits, and a
suspended coroutine is a value that says at which await it waits.

### InMemoryLeaseStore

`now` is `time.monotonic()`, `holder`/`expires` are `_leases`. Every method runs
under the store's lock and awaits nothing inside, so it is one action.
`RemoveExpired` is what `_remove_expired` leaves. The time-to-live is one
constant because the service passes the same one everywhere. `fresh` are the
session ids not drawn yet: `create` draws a new uuid per `acquire`, so an id
acquires once. `LiveLease` maps the entries to the abstract `lease`: an entry
past its expiry counts as absent although it is still in the table.

### ComputeSession

An assignment followed by `_emit_slot`/`_emit_snapshot` is one action with the row
it saves: `save` reads the session when it runs, so a later assignment is saved
with it. A call of the lease store is an await of its own: what it does to the lease is one
action (`Unlease`, `FailReleases`, `FreeLeases`, `StaleFreed`), what the caller does once it
has returned another (`LoadUnleased`, `Failed`, `Released`, `StaleDropped`), and
anything may come in between. State and code:

| Variable | Code |
|---|---|
| `state`, `error`, `slot` | `session.state`, `session.error_code`, `slot.state` with `last_error` for errors |
| `token` | the slots with an entry in `_fencing_tokens`; as a session acquires once, a GPU and a session stand for the token |
| `create`, `left`, `failures` | where `create` is suspended, its remaining slots, did a load fail |
| `release[s][c]` | the call of `release` by the route (`user`) or by the renewal loop (`idle`) |
| `renew`, `asked` | the renewal loop: sleeping, asking the store, answered, marking lost slots; `first` is the first sleep after restore |
| `monitor` | `reconcile_stale_gpus`: stale GPUs, sessions seen at its start, position (`free` and `drop` are before and after the lease is deleted); `dead` after an exception |
| `silent` | GPUs whose Runner sends no more heartbeats |
| `dbState`, `dbError`, `dbSlot` | the rows; one slot row per GPU, as `save` deletes any other row of the GPU |
| `gateway`, `snapshot` | process up, down or in restore; the leases restore has read |

`LoadReturns`/`LoadRaises` and `Unloaded`/`UnloadRaises` are the outcomes of the
backend's calls, in any order relative to everything else. `StoreRenews` happens
even when the Gateway has gone down after sending the command. Cancelling the
renewal task (`StopRenewal`) also ends an idle release it is running, except when
that release cancels itself.

Left out or abstracted: the order of eligible GPUs (any subset may be granted),
profiles, timestamps, the idempotency map (a replay makes no session and is part
of `Refuse`), BUSY slots (see `Jobs`), one route release per session at a time,
and the order in which two transactions of one session commit. The Lua scripts
of the Redis store are single atomic steps with the store's meaning; that a scan
(`release_session`, `active`) is also one step is an abstraction.

### Runner

The three loops are tasks of one event loop; the child and the reader threads
run in parallel. The module has three parts: the Gateway as the streams see it
(`Acquire` to `TouchCancelFile`), the Runner's loops and supervisor, and the child.

| Variable | Code |
|---|---|
| `boot`, `loading` | the GPU's control stream: LOADs not delivered; the one delivered and not acked |
| `unload`, `queue`, `taken`, `pending` | the slot's control and job streams, what the group has delivered, what is not acked |
| `cache`, `reply`, `events` | `oneiroi:runner:command-result:*`, the result streams, the event stream of each job |
| `lease` | the lease key of the GPU as `_lease_matches` reads it |
| `current` | `current_session_id`, `current_slot_id`, `current_fencing_token` |
| `at`, `result` | where `run`/`_handle_bootstrap` is suspended, the status on its way |
| `tasks`, `control`, `jobLoop`, `outcome`, `inflight` | `_slot_tasks`, where each loop is suspended, the event to publish, the unfinished progress tasks |
| `state`, `process`, `loaded` | `supervisor.state`, `_process`, `current_spec` |
| `lock`, `waiting`, `releasing` | `_job_lock`: holder and waiters (asyncio.Lock is first come, first served), where a call of `release` is suspended |
| `worker`, `stray` | the child, both directions of its pipe, its shutdown message; reader threads of cancelled `_receive` calls |
| `prepared`, `cancelFile`, `wanted` | the job's directory, `control/cancel_requested`, the executor's `is_cancelled` |
| `left` | history: jobs whose result nobody awaits any more, since they timed out, were cut off or got another one's |

`_stop_slot_tasks` cancels each loop at its await, and what follows depends on
where that is: `StopControl` and `StopJob` have one disjunct per case (an
event still published as "cancelled", an ack only, a release broken off with the
lock given back). `ReceiveMessage` takes whatever the pipe gives next, as the
code does: messages of the child name no job that `run_job` compares.

An element of `Job` is one message of a job stream, an attempt, and `IdOf` the job id it
carries: a retry is another attempt under the same id, with the same event stream,
directory and cancel file. `Dispatch` sends an attempt on a READY slot once the executor has an
outcome of what it sent to the slot before and, for a retry, the id has one that is not a
success, of whichever attempt; or, as a counted time-out, when the Gateway has given
the earlier one up (RUNNER_JOB_TIMEOUT, a restart) while the Runner is still at it.

Abstractions: a session stands for all it has one of on this GPU (slot, token,
LOAD, UNLOAD); the Gateway sends an attempt once, and stops
waiting for a LOAD once it sends the UNLOAD; a job reports progress once; a Redis command
whose await is cancelled may or may not have been executed (a cancelled read has
not); when threads compete for the pipe, either gets the message, but `load` and a job
that runs beside it (section 4, 7) each get what is meant for them; the child of a
dead Runner ends by itself and is not seen to use memory. Left out: CANCEL_JOB (no
code publishes it), wrong gpuId and missing spec, Redis errors, what a load
computes, heartbeats.

### Jobs

| Variable | Code |
|---|---|
| `row`, `attempts` | the rows of `jobs` (stage, attempt, slot) and of `job_attempts` |
| `stream`, `queue`, `working` | the Runner's event stream of each job, the slot's job stream, the job the Runner is at |
| `slotState`, `busy`, `token` | the slot's state in its session, `_busy_slots`, whether the Gateway still has the slot's fencing token |
| `cancelFile`, `cancelRequested`, `cancelling` | the marker file, `_cancel_requested`, the row a cancel request has read |
| `thread` | a create or retry request and the `_execute` it leaves behind: its await, its `StoredJob` (`mine`), its reservation, its cursor |
| `up` | is the Gateway serving; `Crash`, `Restore` and `Serve` are the restart |

What a thread writes is the whole `StoredJob` of its memory (`Save`), as
`update_job` does: stale copies overwrite what others wrote, and this is where
the exceptions named in the properties come from. `StoreFails` lets a call of the repository
raise at each await of a request, of an execution and of the two handlers that mark a
job failed, also the event that follows a row (only a failing write of a cancel request is left
out), and does what the handlers there do (`AfterRaise`): a request whose row is QUEUED leaves it so, one that has reserved does
not give its slot back, the failure of the last writes of a success turns it into FAILED.
`Reserve` and `Restore` mark the slot before they save the session, look up the token
or the frames, and may fail at either. `Inputs` is
`_input_paths_from_draft` in a retry: with a deleted frame (disturbance "asset") it raises
outside any handler. `met` records which threads have met a failed call of their own or
run beside a twin, a retry that has read the same row. Progress and the stages between ASSIGNED and the
end are one value, outputs are left out, all jobs are one owner's on one session.

### AgentRepository, SqlAgentRepository

`AgentRepository` is what `repositories/agent.py` does under its lock: an
operation is enabled when it takes effect; what a caller does with a refusal is
decided from `Owned` and the statuses. Time is two facts: `leased` (the execution
lease has not expired) and `due` (the approval has passed `expires_at`).
`TransitionRun` takes the row as its caller read it, `saw`, and writes it back with a
new status: a count of requests committed in between is lost, as in the code.

`SqlAgentRepository` runs the same operations as transactions of `Client`s:
`ReadFirst` (the unlocked reads of `create_run`), `Lock` (one row of `Plan` after
the other, FOR UPDATE, with the share lock of the foreign key to the thread),
`Check` (ownership and status on what is then locked), `InsertRun` (waits in
the unique indexes), `AddEvent` (the next id of the sequence), `Commit` or
`Rollback`. `run`, `call` and `approval` are the committed rows. Event ids are
numbered among open transactions; `overtaken` records that a later id of the same run
became visible first. The columns of token usage and the messages are left out.

### AgentRuntime

An executor is one start of a Gateway process. It has at most one task for the run
`R` and serves one cancel request at a time; `task[t].pc` names the await.

| pc | Code |
|---|---|
| `renew`, `begin` ... `finishRun` | `_execute` and `_run_loop`: the turns, proposals, direct tools, the answer |
| `startApproved`, `abandon`, `load` | `_resume_tool_work`, the continuation after a decision; afterwards `kind` is `inner` |
| `failRead` ... `cancelWrite` | `_mark_failed`, `_mark_cancelled` with their retries |
| `stopped`, `resumeStopped`, `sweepFail`, `sweepCancel` | the handlers of a cancelled task |
| `settle`, `release`, `done` | `_release_execution_if_settled`, the release, the done callbacks |
| `approvals` ... `tools` | `recover_incomplete` |
| `write`, `interrupt`, `sweep` | `cancel` |

`flags` are `_user_cancelled`, `_lease_lost` and `_budget_timed_out`, `timer` is
`_approval_tasks`, `queued` the decision attached to a task that has not ended.
`Targets` says where a cancelled await may continue. In the handler of a cancelled task a
second cancellation ends the await and skips the rest of the handler, while what
`asyncio.shield` protects goes on: the model has it done before the task goes on, or
not at all; a shielded write that comes later still is left out. `ran` and `asked` count executions of a tool and
requests to the provider. The provider is any answer or error; the tool any
outcome, also one after its effect.

### GeneratedImages

For each image of one call: its row, `generated.png`, `.partial`, the file lock
of its asset id, and how far a `delete_asset` of the user is. `Generator` is the
tool, `Recoverer` the process that later closes the call. The tool may be cut off at each of
its awaits (`Cut`); a task that closes a call ends early only by a crash. `Crash` leaves
either file when it hits the write. What an
image shows is its number among those sent, so a row and a file can disagree.
A call of the database may fail (disturbance "store") at each await of the tool: in the two
looks for the row, `create_asset`, the ownership checks before the file, between file and
row and after the row (`Own`, `OwnAfter`, `OwnLast`), when the provider is asked and in the
write of the result. Errors the tool names (an OSError of the connection) cost it the image
(`GoOn`), others end it (`Abandon`). `left` are the images it went on without although
something of them was written. When the events of the run are used up ("events"),
`consume_provider_events` ends the tool whatever it has made. Errors of the recovering
task are left to its crashes.
A task that has lost the run to the other cannot mark the call any more, as the runtime's
writes are refused then.

## 3. Properties and runs

| Run | Instance | Properties |
|---|---|---|
| `store` | 3 GPUs, 3 sessions, TTL 2, clock to 5 | `TypeOK`, `ImplementsGpuLease`, `NotRevived` |
| `races` | 1 GPU, 2 sessions, leases may lapse while their loop runs, 1 disturbance or crash | `TypeOK`, `ReleasedHoldsNoLease`, `OnlyOwnerFrees` |
| `unused` | 1 GPU, 1 session, 3 disturbances, fairness | `ConfirmedTokenIsLive`, `UnusedLeasesEnd`, `SilentSlotFails` |
| `runner_safety` | 2 sessions with different models, a job and its retry on the first, 1 job on the second, 1 disturbance of any kind | `TypeOK`, `ResultIsOwn`, `RightModel`, `OneOutcome`, `SuccessIsLast`, `ReleaseWaitsForJob`, `RunOnce` |
| `runner_answers` | 1 session, 2 jobs, 2 faults, crashes or stops, fairness | `JobsAreAnswered`, `LoadsAreAnswered`, `UnloadsAreAnswered` |
| `jobs` | 2 jobs of one conversation, 1 slot, one retry, deleted frames, 1 disturbance of any kind, fairness | `TypeOK`, `ReservedOnce`, `TerminalStays`, `JobsEnd`, `SlotsReturn` |
| `agent` | 1 run, 1 costly call, 2 Gateways at a time, 2 turns, 3 disturbances: crash, cancel, late renewal | `TypeOK`, `ConsentBeforeCost`, `ToolRunsOnce`, `TurnBudget`, `NothingAfterTheEnd` |
| `agent_waits` | a direct and a costly call, 3 Gateways after each other, 2 of crash, close, cancel, time budget, fairness | `WaitingEnds` |
| `agent_rows` | 2 concurrent transactions, 2 runs of one owner, 1 costly call | `SqlTypeOK`, `OneActiveRun`, `EventsCommitInOrder`, `NoDeadlock`, `ImplementsRepository` |
| `images` | 2 images asked for, 3 sent, 4 disturbances of any kind, fairness | `TypeOK`, `RowHasItsFile`, `ResultIsComplete`, `CallEnds` |
| `agent_handoff`, `jobs_retry` | the smallest instance that shows it | one documented statement each, violated |

`Disturbance` names what may go wrong in an instance and `Budget` how often altogether.
Everything else is finite by itself. Outcomes of calls (a load that fails,
an error of the provider or a tool, a frame the user has deleted) and the lapse of leases
nobody renews are free and not counted. Deadlock is not checked: an instance stops when its sessions, jobs or
runs have ended and the disturbances are used up.

**Sessions.** `ReleasedHoldsNoLease`: RELEASED is reported only after the leases
are gone, and none of the coroutines that still act for the session gets one again.
`ConfirmedTokenIsLive`: while the renewal loop sleeps after having confirmed its
leases, the token of each READY slot names a live lease. The exceptions are named
in the definition and are real: before the first renewal after a restore, while an
answer of the store is on its way, and (`GivenUp`) while release, create or the monitor awaits
the store, between the deletion of the lease and the removal of the token. In
the monitor's await `load_slot` may return and set the slot READY (`compute_sessions.py:235`,
`:361`), with a dead token until the monitor goes on. Its run sets `LateRenewal = FALSE`: a loop that renews every
third of the TTL keeps its leases; with late renewals no store could promise
it. `OnlyOwnerFrees`: a late `release_gpu` never ends the lease of the next
session. `UnusedLeasesEnd`: a session with no slot that needs its GPU loses its
leases. `SilentSlotFails`: a slot of a silent Runner leaves service (with two
sessions it does not hold, see 4).

**Runner.** `RunOnce`, `OneOutcome`: redelivery never makes an attempt run twice or
publish a second outcome; only a loop that is cancelled while it publishes may add
"cancelled" to it. A retry is an attempt of its own: the stream of a job that was
retried has one outcome of each, and they may differ (section 4, 2). `ResultIsOwn`: nothing in the pipe names a job, so an answer may reach
the wrong one, but only the answer of a job nobody awaits any more (`left`); as long as
no job is left every result is the job's own. `RightModel`: a job of the session that has the lease runs on the
model that session asked for. `SuccessIsLast`: progress is published by tasks of its
own, success after them. `ReleaseWaitsForJob`: also across cancellations. The three
`...AreAnswered`: whoever waits for the Runner gets an answer; a LOAD even when the
Runner ends and is started again.

**Jobs.** `ReservedOnce`: no two executions hold one slot. `TerminalStays`: a job
that has ended changes only by a retry. `JobsEnd`: every job ends through
Runner failures, lost messages, restarts and lost leases. `SlotsReturn`: a busy slot is
free again at last. Each names what the code does not keep. `TerminalStays` excepts three
writers of the same job and what each writes: a cancel request that read the row before the
job ended, the execution whose own call failed after it had written SUCCEEDED, two
retries that both read the row before one wrote it. `JobsEnd` excepts a row left
CANCEL_REQUESTED by such a request, a retry whose frame was deleted (`Stranded`) and a
failing repository; `SlotsReturn` a failing repository, a lost lease, two
retries at once, and a restart that finds a frame deleted. Section 4 says what happens then.

**Agent.** `ConsentBeforeCost`: a costly tool is approved, running or over only with a
consumed approval; call, approval and run wait together. `ToolRunsOnce`: however the call
is interrupted, recovered, proposed again or continued elsewhere. `TurnBudget`:
all tasks together ask the provider at most `MaxTurns` times, also across
approvals. `NothingAfterTheEnd`: a terminal run keeps its status and none of its
calls is proposed, approved or started. `WaitingEnds`: a run that waits for an approval
does not wait for ever, also when the Gateway stops or crashes meanwhile. `OneActiveRun`:
per owner, across Gateways. `EventsCommitInOrder`: events of a run become visible in the
order of their ids, so a browser that resumes after the last id misses none.
`NoDeadlock`: no transactions wait for each other, creations excepted (see 4).
`ImplementsRepository`: committed rows take only the indivisible steps.

**Images.** `RowHasItsFile`: no row is without its own bytes, unless the user deletes the image.
`ResultIsComplete`: a call that succeeded or failed lists what is registered and leaves no
other file. Not so a call that timed out, exceeded the events of its run or was abandoned with
an error, which lists nothing; nor, as long as no other Gateway has closed the call, an image
in `left`. `CallEnds`: the file locks do not block the end.

### Why these bounds

One GPU lets two sessions contend, and a slot's life does not depend on other
slots beyond all, some or none being ready. Two disturbances let the second hit the
handling of the first (`runner_answers`, `agent_waits`); `unused` and `agent` have three,
`images` four, so that a restored session, a recovered run or a resumed clean-up can be hit
again. `races`, with one, has
each race of two sessions but no combination of two disturbances: those are left to
`unused`, with one session, and to the proofs. Two
sessions on a Runner show the hand-over (another model, a late UNLOAD, a lost
lease), two attempts on a slot what one leaves behind for the next, in `runner_safety` under
one id and in `runner_answers` under two, a job on the second slot what
a session leaves behind for the next: with it 1.2 million states take one disturbance. A
retry needs one, the failure, cancellation or time-out it follows, so a second one that hits
the retry is left to the proofs (section 5), as are pairs of disturbances in `jobs`. Two jobs on one
slot contend for the reservation; the second thread of a job is its retry. In
`agent` the second Gateway may start while the first still runs (`Overlap`); a Gateway
that loses its lease and never takes another step behaves like one that crashes.
With two turns, the second is the one after an approval. A direct call
would multiply the states beyond reach there and is in `agent_waits`, where
Gateways follow one another because the pending approvals of another Gateway have
no timer. In `agent_rows` two transactions show each pair of operations;
`MaxTurns` is 0 as usage is not in the model's commits; the second run is
only created. Executors, clients and sessions are exchanged by symmetry only in
runs without liveness properties.

### Fairness

- Sessions (`FairSpec`): each coroutine that can run does (asyncio), backend calls
  return or time out (`wait_command_result` has a deadline), Redis answers or
  raises, time-to-lives run out, and the supervisor of the process restarts the
  Gateway (`scripts/deploy-gpu.sh:5`). Nothing is assumed of users, idleness, Runners,
  crashes or failing calls.
- Runner (`LiveSpec`): each loop that can run does; a child at work finishes (the
  adapters' loops are finite) and a dead child is noticed; a release ends, since the child is
  killed if it must be; somebody starts
  the Runner again, as `docs/development.md:107` does. A time-out is not assumed.
- Jobs: each coroutine runs on, including the deadline of `execute`; a Runner that has a message
  works on it; a Gateway that has gone down restores and serves.
- AgentRuntime: each coroutine, timer and renewal loop that can run does; approvals fall
  due, leases nobody renews lapse; a Gateway that has gone down is started again. Nothing
  is assumed of users, the provider's answer or the disturbances.
- Images: coroutines run on, a Gateway is there to recover, a delete request ends.

Each property of a passing run has a mutant, a definition next to the one it
replaces, that a plausible mistake would produce and that breaks the property:
a release without `release_session`, a token kept after its lease, an ack that is
forgotten, a release that does not wait, an attempt number used twice, a slot
that a failed dispatch keeps, an approval that is not consumed, a tool tried again,
timers that recovery does not restore, a run locked before the call, ...

## 4. Where code and documents disagree

Two have a run:

1. `agent_handoff`: a decision that arrives while the task before it is between
   reading the run and releasing the lease loses its lease to that release; the
   call stays APPROVED until a Gateway is started (`agent/runtime.py:551-560`,
   `:604`, against `docs/agent-runtime.md:123`).
2. `jobs_retry`: a retried attempt reads the job's event stream from its start and
   ends with the event of the attempt before it (`job_execution.py:62`, against
   `docs/prompts/ltx-dynamic-h100-full-implementation.md:165`).

The others were found with the models and have no run of their own:

3. `create` overwrites a session that failed in renewal with READY
   (`compute_sessions.py:249-252`, against `m7-reliability-validation.md:25`).
4. A session created while the monitor awaits inside its iteration over
   `self.sessions` ends the monitor task; a slot whose Runner is silent then stays
   READY (`compute_sessions.py:351`, against `m7-reliability-validation.md:12`).
5. A cancelled job ends the job loop of its slot (`redis_runtime.py:201-202`, against
   `02-backend-architecture.md:121-124`).
6. After a time-out the slot is READY with the child still at the old job, and the
   next job gets the old one's answer (`supervisor.py:156-160`, against
   `04-job-api-and-persistence.md:45`). The same happens to the first job of a session that
   takes over, without spawning, a child still at a job of the session before, and in the
   window of 7. `ResultIsOwn` names the jobs such an answer may be of (`left`).
7. Jobs are compared with the session of the last LOAD done, not with the lease
   (`redis_runtime.py:198`, against `development.md:110`). Between "ready" of the new
   child and the end of the lease check a job of the old session runs on the new
   session's model; `RightModel` therefore speaks of the session with the lease.
8. `load` is not under the run lock; an UNLOAD of the old session releases the child
   just loaded for the new one, whose LOAD is reported as done (`supervisor.py:105`,
   `redis_runtime.py:100-101, 158`, against `03-gpu-resource-lifecycle.md:134-143`). The
   same report without a model comes from a crash between caching and publishing it.
9. Two requests of one conversation pass the count of active jobs together, and a retry does
   not count at all (`job_service.py:77`, against the comment in line 76).
10. A cancel request writes the row it has read over a job that has ended since
    (`job_service.py:166`, against `docs/architecture.md:42`).
11. A tool that ends by its own time limit is recorded without cleaning up or listing
    its images (`agent/registry.py:213`, `runtime.py:1431-1443`, against
    `docs/agent-image-frontend-requirements.md:76`). So is one that uses up the events of
    its run after a first image (`agent/registry.py:459-460`, `runtime.py:487-499`).

What the models also show, and the exceptions in the properties stand for:

- *Sessions and Runner.* A session whose release meets a time-out of the Runner stays RELEASING
  until it is released again (`compute_sessions.py:324`). A GPU whose memory stays in use after an idle release is no
  longer renewed (`compute_sessions.py:430-435`); `create` takes a RELEASED session
  out of that state (`:250-259`); after a restart of the Runner nobody reads a
  slot's streams before a LOAD, so an unacked job waits (`redis_runtime.py:108`).
- *Jobs.* A retry whose frame was deleted leaves its row QUEUED with nobody at it until the next
  restart fails it (`job_service.py:210-212`). A reservation leaks when the token is missing
  or the session cannot be saved (`job_scheduler.py:47-55`), when a
  repository call fails between reserving and dispatching, when two retries
  collide in `uq_job_attempt`, and when a restart has marked the slot and then finds a
  frame deleted (`job_service.py:140-144`). After a failed dispatch the row still names its slot,
  and after a crash two jobs can be restored on one slot. A slot of a job
  whose last row was written before a crash stays BUSY in its session. A failure of
  `_finish_attempt` turns a SUCCEEDED job into FAILED.
- *Agent.* A direct tool whose run ends meanwhile stays RUNNING, also after an exception
  `_execute_tool_call` does not name. A streaming run of a Gateway that crashed is not ended by the restart
  while its lease is live (`IMPLEMENTATION_STATUS.md:87`), only by a later one. A
  cancellation that meets the task in its last steps leaves CANCELLING. A time
  budget spent in a continuation marks CANCELLED. Two Gateways that create a run in one thread
  while one inserts an event of it can deadlock in PostgreSQL (the insert's
  share lock on the thread); `_owner_locks` prevents it within one process, hence the
  exception in `NoDeadlock`. A crash between the commit of a proposal and its timer
  leaves a pending approval without one until the next start, where
  `recover_incomplete` restores it; a cancelled task or a lost lease at that point
  is the same without a restart.
- *Images.* A database error that the tool does not name leaves the call RUNNING while its run
  fails (status "abandoned"). After one that it names (a lost connection), in the ownership
  checks or in the second `get_asset` (`artifact_service.py:213`, `:237`, `:245`), the tool goes
  on, and a file without a row or a row outside the result stays. `delete_asset` takes no file lock: an image the user deletes
  while it is being registered can lose its new file, so `RowHasItsFile` excludes it.

## 5. Proofs

All theorems hold for any sets of GPUs, sessions, jobs, slots, runs, calls and executors,
any requests, disturbances and budgets. Assumptions: `Nobody` is none of them
(`NobodyAssumption` and the others) and the ranges of the constants (`ComputeAssumption`,
`StoreAssumption`, `RunnerAssumption`, `JobsAssumption`, `AgentAssumption`,
`RuntimeAssumption`). Two say more: `SqlAssumption`, that the clients are finitely many (a
Gateway has a pool of connections; an open transaction's event id is then at most
their number), and `ImagesAssumption`, that a call asks for one or two images, which is what
the tool's schema accepts. TLC evaluates them all.

- `InMemoryLeaseStoreProofs`: `TypeCorrect`; `StoreImplementsGpuLease`: an
  acquire is a `Grant` (`AcquireGrants`), every other method and the clock can
  only end live leases (`OthersEnd`), which is a `Lapse`; `LapsedStaysLapsed`
  from the same two lemmas.
- `ComputeSessionProofs`: `TypeCorrect`, one step per action (`TypeStep`) with
  the rows and the monitor's marking as lemmas. `LeaseChanges` lists the only
  actions that touch the store; from it `LeasesShrink` (only a session's own acquire gains
  leases).
  `ReleasedIsFree`: `ReleasedHoldsNoLease` is not inductive, since a session could
  be RELEASED in a state where its create is still to acquire, or a release could
  be past the deletion with leases left. `ReleaseInv` adds both: nobody acts for
  a session whose create has not registered it (`Unborn`), and a release that awaits
  the cancellation of the renewal task holds no lease (`Freed`). `StepKinds` sorts the
  steps into a session's own, the monitor's and a restart's; the others leave the session
  alone. From it and `LeaseChanges` follows `OwnersFree`, an action property. `ConfirmedTokens`:
  a READY slot is only the end of a load, and a confirmation only the end of a renewal,
  so `TokensLive` also says that while `create` loads, the tokens of all its slots are live,
  and that between the question to the store and its answer each token is live or
  among those the loop is about to miss (`Noticed`), or is being given up (`GivenUp`). It
  assumes `LateRenewal = FALSE`, as the run does: with late renewals no store could promise
  it. `LoopStarts` says when a renewal loop can begin; a lease whose session neither creates nor renews may lapse.
- `RunnerProofs`: `ReleaseExcludesJob`, that is `ReleaseWaitsForJob` for any
  sessions, jobs, models and disturbances. The property says nothing of the lock,
  so it is not inductive. `LockInv` adds that the job loop holds the run lock
  exactly while it waits for the child (`JobHoldsLock`), that a release holds it
  exactly from the shutdown message to its verdict (`ReleaseHoldsLock`), and
  that a loop is in a release only where its code awaits one (`BootReleases`,
  `ControlReleases`): without the last two a cancelled loop could give back a lock
  that is another's (`StopKeepsLock`), and a second `release` could forget the first
  (`ReleaseKeepsLock`). One lemma per loop; the Gateway and the
  child do not touch the lock (`OthersKeepLock`).
  The other six properties of `runner_safety` follow from `RunnerInv`, which holds `LockInv`, the
  types (`Typed`) and what each loop has in hand where it waits (`Hands`), and:
  `Streams`, `Once`: an attempt is read from its stream once and written to a pipe once, since a
  message not acked is read again only by a loop that starts, and the loops of a slot
  start once (`Loads`: a LOAD that has an answer is not carried out again). Hence `RunnerRunsOnce`
  and, with the loop's own outcome (`Answers`), `RunnerOneOutcome`. `Progress`: no
  task that publishes progress is left when success is published (`RunnerSuccessIsLast`).
  `Pipe`: all that the child has in hand, has yet to read or has said is of the job
  the loop waits for or of one that was left (`RunnerResultIsOwn`); this is not inductive unless a
  child also says its last word of a job only after it has put the job down. `Order`,
  `Models`: the last LOAD of the control stream is that of the session with the lease,
  and none is carried out after it, so the child has that session's model once its
  LOAD is through (`RunnerRightModel`). The actions are read in two ways: `JobSteps`
  lists what they do to jobs and pipe, `BootSteps` what they do to LOADs, lease and
  model, and each part of the invariant is proved over the shorter list.
- `JobsProofs`: `JobsTypeCorrect`, `JobsSlotHeldOnce`, `JobsStayEnded` from `JobsInv`. `ReservedOnce`
  is not inductive, as it speaks only of the executions: `Slots` adds that what an
  execution holds is marked in `_busy_slots` and BUSY in its session, and that a slot
  named by the row of an unfinished job is that job's and no other's; the last is what a
  restart, which has only the rows, reserves from; it holds until a disturbance of
  section 4 (`Undisturbed`), as in the property. `TerminalStays` needs `Writers`: of the
  coroutines that may yet write a job's row (`Pending`) there is one, unless two retries
  are twins, and the row still is as it found it (`Finds`), so that the job has not ended; the
  exception is the end of a success whose own call failed (`Failing`). `Record` says
  where a thread can be after what has happened, and that a pending cancel request has read a
  row that had not ended.
- `AgentRepositoryProofs`, about every behaviour of the repository's operations, in any
  order and with any arguments (`RepositorySpec`): `RepositoryTypes`, `RepositoryConsent`,
  `RepositoryOneActiveRun`, `RepositoryEnds`. `StepIsOperation` lists the
  operations once. Consent is inductive only as a whole: that a call
  waits exactly while its approval is pending is what lets an expiry close
  the call without touching one that is approved, and that a waiting run has
  such a call is what the decision leaves behind. `ActiveStep` needs only that no
  operation but `CreateRun` makes a run live (`OwnershipKeepsStatus` and the table of
  allowed transitions).
- `SqlAgentRepositoryProofs`: `SqlImplementsRepository` (`SqlSpec => ImplementsRepository`), and
  with it all that is proved of the operations (`SqlKeepsPromises`, `SqlOneActiveRun`). An
  operation decides after it has locked the row of its run, and those on a call or
  an approval lock the run too (`Phase`), so of the transactions that have decided at
  most one is about a run (`Apart`), and what it has decided still is what it would decide
  when it commits (`Justified`): its commit is one step of the repository. A creation locks
  no run; there the unique indexes make its decision hold. `SqlEventsInOrder`: an event
  id is taken under the same lock. `SqlNoDeadlock`: each operation locks in the order
  approval, call, run, thread, so what it waits for ranks above all it holds and
  no circle closes.
- `AgentRuntimeProofs`: `TypeCorrect`, `DrivesRepository`, `RuntimeConsent`, `RuntimeEnds`,
  `ToolsRunOnce`, `RuntimeTurnBudget`. The types are not inductive, since a coroutine could be about to start or
  close a tool without a call in hand, or marking a run with no attempt left. `Sound`
  rules that out for each coroutine, and one lemma per action shows that it and the
  types stay (`TaskMoves`) while the rows change by an operation of the
  repository or not at all. That is `DrivesRepository` (`Spec => RepositorySpec`), from which
  `RuntimeConsent` and `RuntimeEnds` follow by the repository's theorems. All steps are `Plain`, in that
  they send no coroutine to execute a tool, but `StartDirect`, `StartApproved` and `RunTool`.
  `OnceInv` adds what `ToolRunsOnce` needs: of the coroutines about to execute a tool no two have
  the same call, and that call is begun and not yet executed. It is kept because
  start_tool accepts only a call that is not begun, and a begun call stays begun
  (`BegunStays`), for which an expiry must find no begun call pending; that is
  `ConsentBeforeCost`. `RuntimeTurnBudget`: of all coroutines and waiting decisions one at a
  time is about to ask the provider (`OneAsks`), and it starts from a count in the row that
  is not below what was asked, since a run waits for its approval with its count written
  (`TurnInv`).
- `GeneratedImagesProofs`: `ImagesTypeCorrect`, `ImagesRowHasItsFile`, `ImagesResultIsComplete` from
  `ImagesInv`. Who is between taking and leaving a file lock holds it (`LocksHeld`), so the image
  in hand has no row yet or its own bytes on the disk (`InHand`); images before it are
  accounted for, those after it untouched (`Untouched`); a task that closes the call has
  settled each image it has passed (`PassedAreSettled`); and once the call has its result
  nobody is left who could start an image (`Over`). Of an image that is still to be made there
  is nothing on the disk, unless the tool went on without it (`Unmade`).

So each invariant and each action property of the passing runs is a theorem. Only
model-checked: what holds under fairness (`UnusedLeasesEnd`, `SilentSlotFails`, the three
`...AreAnswered`, `WaitingEnds`, `JobsEnd`, `SlotsReturn`, `CallEnds`), which the prover cannot treat, and
the two violations.

## 6. Not modelled, and why

- `gpu_server.py`: a client of a separate service whose behaviour is not in the
  repository; its lease semantics would be an invention.
- Allocation and request arithmetic: closed formulas over bounded inputs that the
  repository's unit tests enumerate.
- Session, job and agent event streams to browsers: lists with a cursor; the
  lost wake-up of `SessionEventService` only delays an event by 15 s, which an untimed
  property cannot tell. What depends on the order of stored events is `EventsCommitInOrder`.
- The idempotency map of `create` (two concurrent requests of one key are two
  sessions), two saves of one session that commit in the other order, and Redis
  scans as several commands: each multiplies the states of `ComputeSession` beyond
  one run, and no document promises more than the model assumes.
- A Gateway whose command times out while the Runner carries it out late: `ComputeSession` has it
  as `LoadRaises`, `Runner` as a late answer; both together are beyond one run.
- Uploads, videos, previews and `delete_conversation`: file operations of one
  request. (An upload keeps its file when `create_asset` fails; deleting a conversation
  removes the rows and directory of a running job.)
- Heartbeat sampling, telemetry, model adapters, provider protocols, prompt
  enhancement, routes, BFF and web: they compute, store or forward and coordinate
  nothing.
