-------------------------------- MODULE Jobs --------------------------------
(***************************************************************************)
(* Video jobs: JobService (services/job_service.py), JobScheduler,         *)
(* RedisJobDispatcher and RedisJobExecutor over the rows of                *)
(* SqlStudioRepository.  All jobs are one owner's and want the same        *)
(* profile of one compute session.                                         *)
(*                                                                         *)
(* A create or retry request assigns a slot, dispatches the job and leaves *)
(* a task behind that follows the Runner's events; both use one StoredJob  *)
(* in memory, so they are one thread here.  What a thread writes is the    *)
(* whole row as it is in that memory.  Progress, the stages between        *)
(* ASSIGNED and the end ("running") and the outputs are abstracted; the    *)
(* Runner (module Runner) is external: it publishes progress and one       *)
(* terminal event for each message it takes.                               *)
(***************************************************************************)
EXTENDS Naturals, Sequences, FiniteSets

CONSTANTS
    Job, Slot, Nobody,
    ConversationOf,     \* the conversation of each job
    MaxActive,          \* max_active_per_owner
    Retried,            \* the jobs the user may retry,
    MaxAttempts,        \* as long as they have fewer attempts than this
    Disturbance,        \* what the environment does in this instance
    Budget              \* and how often altogether, see Happens

ASSUME JobsAssumption ==
    /\ Nobody \notin Slot
    /\ DOMAIN ConversationOf = Job /\ Retried \subseteq Job
    /\ MaxActive \in Nat \ {0} /\ MaxAttempts \in Nat \ {0} /\ Budget \in Nat
    /\ Disturbance \subseteq
           {"crash", "dispatch", "cancel", "twice", "store", "asset", "timeout", "lose", "lease"}

VARIABLES
    row,            \* [stage, attempt, slot] of each job, as committed
    attempts,       \* the status of each job's attempts, in order
    stream,         \* the Runner's events of each job, see publish_job_event
    queue,          \* the jobs dispatched to each slot, as <<job, attempt>>
    slotState,      \* the state of each slot as its session has it
    token,          \* the slots whose fencing token the Gateway has
    cancelFile,     \* the jobs with a cancel_requested marker
    up,             \* is the Gateway serving requests?
    busy,           \* _busy_slots
    cancelRequested,\* _cancel_requested
    thread,         \* two threads of each job, see ThreadType
    cancelling,     \* the row a cancel request has read, of each job
    working,        \* the <<job, attempt>> the Runner of each slot works at
    spent,          \* how many disturbances there were,
    happened,       \* which,
    met             \* and which of two a thread has met: a failed call, a twin

durable == <<row, attempts, stream, queue, slotState, cancelFile>>
memory  == <<up, busy, cancelRequested, thread, cancelling, token>>
vars    == <<durable, memory, working, spent, happened, met>>

Terminal == {"succeeded", "failed", "cancelled"}
Active   == {"queued", "assigned", "running"}
Stage    == Terminal \cup Active \cup {"none", "cancel_requested"}
Row      == [stage : Stage, attempt : 0..MaxAttempts, slot : Slot \cup {Nobody}]
NoRow    == [stage |-> "none", attempt |-> 0, slot |-> Nobody]
Thread   == Job \X {1, 2}
Incomplete(j) == row[j].stage \notin Terminal \cup {"none"}

\* Where a thread is: in the request, at the Runner's events, or in the end of it.
Holding == {"assign", "attempt", "dispatch", "undo", "execute", "register", "end",
            "finish", "release"}

ThreadType ==
    [pc : Holding \cup {"none", "insert", "requeue", "inputs", "reserve",
                       "dispatchFailed", "finishFailed"},
     mine : Row,                        \* the StoredJob of the thread
     slot : Slot \cup {Nobody},         \* its reservation
     pos : Nat,                         \* the cursor of execute
     by : 0..MaxAttempts]               \* the attempt whose event ended the execution

NoThread == [pc |-> "none", mine |-> NoRow, slot |-> Nobody, pos |-> 0, by |-> 0]

TypeOK ==
    /\ row \in [Job -> Row]
    /\ \A j \in Job : /\ attempts[j] \in Seq(Terminal \cup {"assigned"})
                      /\ Len(attempts[j]) <= MaxAttempts
    /\ \A j \in Job : \A i \in DOMAIN stream[j] :
           stream[j][i] \in [kind : Terminal \cup {"progress"}, of : 1..MaxAttempts]
    /\ \A s \in Slot : queue[s] \in Seq(Job \X (1..MaxAttempts))
    /\ slotState \in [Slot -> {"ready", "busy"}]
    /\ token \subseteq Slot /\ cancelFile \subseteq Job
    /\ up \in BOOLEAN /\ busy \subseteq Slot /\ cancelRequested \subseteq Job
    /\ thread \in [Thread -> ThreadType]
    /\ cancelling \in [Job -> Row]
    /\ working \in [Slot -> (Job \X (1..MaxAttempts)) \cup {<<>>}]
    /\ spent \in 0..Budget /\ happened \subseteq Disturbance
    /\ met \in [Thread -> SUBSET {"store", "twice"}]

Init ==
    /\ row = [j \in Job |-> NoRow] /\ attempts = [j \in Job |-> <<>>]
    /\ stream = [j \in Job |-> <<>>] /\ queue = [s \in Slot |-> <<>>]
    /\ slotState = [s \in Slot |-> "ready"] /\ token = Slot /\ cancelFile = {}
    /\ up = TRUE /\ busy = {} /\ cancelRequested = {}
    /\ thread = [t \in Thread |-> NoThread] /\ cancelling = [j \in Job |-> NoRow]
    /\ working = [s \in Slot |-> <<>>]
    /\ spent = 0 /\ happened = {} /\ met = [t \in Thread |-> {}]

\* A deleted frame is only what a lookup finds, and is not counted.
Happens(k) ==
    /\ k \in Disturbance /\ (k = "asset" \/ spent < Budget)
    /\ spent' = IF k = "asset" THEN spent ELSE spent + 1
    /\ happened' = happened \cup {k}

Spend(k) == Happens(k) /\ UNCHANGED met

-----------------------------------------------------------------------------
At(t, pc)  == thread[t].pc = pc
JobOf(t)   == t[1]
Goto(t, pc) == thread' = [thread EXCEPT ![t].pc = pc]
Calm       == UNCHANGED <<spent, happened, met>>
OnlyThread == UNCHANGED <<stream, queue, slotState, cancelFile, up, busy, cancelRequested,
                          cancelling, token, working>>

\* update_job writes the thread's StoredJob over the row.
Save(t, r, pc) ==
    /\ row' = [row EXCEPT ![JobOf(t)] = r]
    /\ thread' = [thread EXCEPT ![t].mine = r, ![t].pc = pc]

Free(t) == At(t, "none") /\ (t[2] = 2 => thread[<<JobOf(t), 1>>].pc # "none")

(***************************************************************************)
(* The create and retry requests.                                          *)
(***************************************************************************)

\* Both counts are read before anything is written.
Admit(t) ==
    LET j == JobOf(t)
        active == {i \in Job : Incomplete(i)}
    IN
    /\ up /\ Free(t) /\ t[2] = 1 /\ row[j].stage = "none"
    /\ \A i \in active : ConversationOf[i] # ConversationOf[j]
    /\ Cardinality(active) < MaxActive
    /\ Goto(t, "insert")
    /\ met' = [met EXCEPT ![t] = {}]
    /\ UNCHANGED <<row, attempts, spent, happened>> /\ OnlyThread

Insert(t) ==
    /\ At(t, "insert")
    /\ Save(t, [stage |-> "queued", attempt |-> 1, slot |-> Nobody], "reserve")
    /\ UNCHANGED attempts /\ OnlyThread /\ Calm

\* retry numbers its attempt by the attempts it has read.  A retry of the job that has
\* read the row too, and has yet to write it, is its twin.
Read(t) ==
    LET j == JobOf(t)
        other == <<j, 3 - t[2]>>
        twin  == At(other, "requeue") \/ (~ At(other, "none") /\ "twice" \in met[other])
    IN
    /\ up /\ Free(t) /\ j \in Retried /\ Len(attempts[j]) < MaxAttempts
    /\ IF At(other, "requeue") THEN Happens("twice") ELSE UNCHANGED <<spent, happened>>
    /\ met' = [met EXCEPT ![t] = IF twin THEN {"twice"} ELSE {},
                          ![other] = IF twin THEN @ \cup {"twice"} ELSE @]
    /\ thread' = [thread EXCEPT ![t] = [NoThread EXCEPT !.pc = "requeue",
           !.mine = [stage |-> "queued", attempt |-> Len(attempts[j]) + 1, slot |-> Nobody]]]
    /\ cancelRequested' = cancelRequested \ {j}
    /\ UNCHANGED <<durable, up, busy, cancelling, token, working>>

\* Mutant: a job that has succeeded may be retried too.
RetryAnything(t) == row[JobOf(t)].stage \in Terminal /\ Read(t)

RetryRead(t) == row[JobOf(t)].stage \in {"failed", "cancelled"} /\ Read(t)

Requeue(t) ==
    /\ At(t, "requeue")
    /\ Save(t, thread[t].mine, "inputs")
    /\ UNCHANGED attempts /\ OnlyThread /\ Calm

\* A frame that was deleted raises before anything would mark the job failed: its row
\* stays QUEUED.
Inputs(t) ==
    /\ At(t, "inputs")
    /\ \/ Goto(t, "reserve") /\ Calm
       \/ thread' = [thread EXCEPT ![t] = NoThread] /\ Spend("asset")
    /\ UNCHANGED <<row, attempts>> /\ OnlyThread

\* Mutant: the slots of the session, busy or not.
AnySlot == {s \in Slot : s \in token}

Ready == {s \in Slot : slotState[s] = "ready" /\ s \notin busy}

\* A slot is marked before its token is looked up and its session saved: when one of the
\* two fails it stays marked.
Reserve(t) ==
    /\ At(t, "reserve")
    /\ \/ Ready = {} /\ Goto(t, "dispatchFailed") /\ UNCHANGED <<busy, slotState>> /\ Calm
       \/ \E s \in Ready :
            /\ busy' = busy \cup {s} /\ slotState' = [slotState EXCEPT ![s] = "busy"]
            /\ \/ /\ s \in token /\ Calm
                  /\ thread' = [thread EXCEPT ![t].slot = s, ![t].pc = "assign",
                                    ![t].mine.stage = "assigned", ![t].mine.slot = s]
               \/ /\ IF s \in token THEN Spend("store") ELSE Calm
                  /\ Goto(t, "dispatchFailed")
    /\ UNCHANGED <<row, attempts, stream, queue, cancelFile, up, cancelRequested,
                   cancelling, token, working>>

Assign(t) ==
    /\ At(t, "assign")
    /\ Save(t, thread[t].mine, "attempt")
    /\ UNCHANGED attempts /\ OnlyThread /\ Calm

\* Mutant: without uq_job_attempt.
AddAttemptAgain(t) ==
    /\ At(t, "attempt")
    /\ attempts' = [attempts EXCEPT ![JobOf(t)] = Append(@, "assigned")]
    /\ Goto(t, "dispatch")
    /\ UNCHANGED row /\ OnlyThread /\ Calm

\* uq_job_attempt refuses a number that is taken; the slot is then not given back.
AddAttempt(t) ==
    LET j == JobOf(t)  n == thread[t].mine.attempt IN
    /\ At(t, "attempt")
    /\ IF n = Len(attempts[j]) + 1
         THEN /\ attempts' = [attempts EXCEPT ![j] = Append(@, "assigned")]
              /\ Goto(t, "dispatch")
         ELSE Goto(t, "dispatchFailed") /\ UNCHANGED attempts
    /\ UNCHANGED row /\ OnlyThread /\ Calm

\* XADD to the slot's stream, and the task that follows the job starts.
Dispatch(t) ==
    LET s == thread[t].slot IN
    /\ At(t, "dispatch")
    /\ \/ /\ queue' = [queue EXCEPT ![s] = Append(@, <<JobOf(t), thread[t].mine.attempt>>)]
          /\ Goto(t, "execute") /\ Calm
       \/ Spend("dispatch") /\ Goto(t, "undo") /\ UNCHANGED queue
    /\ UNCHANGED <<row, attempts, stream, slotState, cancelFile, up, busy, cancelRequested,
                   cancelling, token, working>>

\* JobScheduler.release
GiveBack(s) ==
    /\ busy' = busy \ {s}
    /\ slotState' = [slotState EXCEPT ![s] = "ready"]

\* Mutant: the slot of a failed dispatch is not given back.
UndoNothing(t) ==
    /\ At(t, "undo") /\ Goto(t, "dispatchFailed")
    /\ UNCHANGED <<row, attempts>> /\ OnlyThread /\ Calm

Undo(t) ==
    /\ At(t, "undo")
    /\ GiveBack(thread[t].slot) /\ Goto(t, "dispatchFailed")
    /\ UNCHANGED <<row, attempts, stream, queue, cancelFile, up, cancelRequested,
                   cancelling, token, working>>
    /\ Calm

MarkDispatchFailed(t) ==
    /\ At(t, "dispatchFailed")
    /\ Save(t, [thread[t].mine EXCEPT !.stage = "failed"], "finishFailed")
    /\ UNCHANGED attempts /\ OnlyThread /\ Calm

\* _finish_attempt finds the attempt by its number.
Finish(t, status) ==
    LET j == JobOf(t)  n == thread[t].mine.attempt IN
    attempts' = [attempts EXCEPT ![j] =
                    IF n \in DOMAIN @ THEN [@ EXCEPT ![n] = status] ELSE @]

FinishFailed(t) ==
    /\ At(t, "finishFailed")
    /\ Finish(t, "failed")
    /\ thread' = [thread EXCEPT ![t] = NoThread]
    /\ UNCHANGED row /\ OnlyThread /\ Calm

-----------------------------------------------------------------------------
(***************************************************************************)
(* The execution of a dispatched or restored job: execute reads the job's  *)
(* events from the start of its stream ("0-0"), of whatever attempt.       *)
(***************************************************************************)

TouchCancel(t) ==
    LET j == JobOf(t) IN
    /\ At(t, "execute") /\ j \in cancelRequested \ cancelFile
    /\ cancelFile' = cancelFile \cup {j}
    /\ UNCHANGED <<row, attempts, stream, queue, slotState, memory, working>> /\ Calm

ReadEvent(t) ==
    LET j == JobOf(t)
        e == stream[j][thread[t].pos + 1]
        read == [thread[t] EXCEPT !.pos = @ + 1]
        ended == [read EXCEPT !.by = e.of]
    IN
    /\ At(t, "execute") /\ thread[t].pos < Len(stream[j])
    /\ \/ /\ e.kind = "progress"
          /\ row' = [row EXCEPT ![j] = [thread[t].mine EXCEPT !.stage = "running"]]
          /\ thread' = [thread EXCEPT ![t] = [read EXCEPT !.mine.stage = "running"]]
       \/ /\ e.kind = "succeeded"
          /\ thread' = [thread EXCEPT ![t] = [ended EXCEPT !.pc = "register"]]
          /\ UNCHANGED row
       \/ /\ e.kind \in {"failed", "cancelled"}
          /\ thread' = [thread EXCEPT ![t] = [ended EXCEPT !.pc = "end", !.mine.stage = e.kind]]
          /\ UNCHANGED row
    /\ UNCHANGED attempts /\ OnlyThread /\ Calm

\* RUNNER_JOB_TIMEOUT, while the Runner still has the job or when it has lost it.
AtRunner(j) == \E s \in Slot : \/ \E i \in DOMAIN queue[s] : queue[s][i][1] = j
                               \/ working[s] # <<>> /\ working[s][1] = j
\* Mutant: execute has no deadline.
NoDeadline(t) == FALSE

Timeout(t) ==
    LET j == JobOf(t) IN
    /\ At(t, "execute") /\ thread[t].pos = Len(stream[j])
    /\ IF AtRunner(j) THEN Spend("timeout") ELSE Calm
    /\ thread' = [thread EXCEPT ![t].pc = "end", ![t].mine.stage = "failed"]
    /\ UNCHANGED <<row, attempts>> /\ OnlyThread

\* register_video refuses a result that is no MP4 file in the storage root.
Register(t) ==
    /\ At(t, "register")
    /\ \E stage \in {"succeeded", "failed"} :
           thread' = [thread EXCEPT ![t].pc = "end", ![t].mine.stage = stage]
    /\ UNCHANGED <<row, attempts>> /\ OnlyThread /\ Calm

End(t) ==
    /\ At(t, "end")
    /\ Save(t, thread[t].mine, "finish")
    /\ UNCHANGED attempts /\ OnlyThread /\ Calm

FinishAttempt(t) ==
    /\ At(t, "finish")
    /\ Finish(t, thread[t].mine.stage) /\ Goto(t, "release")
    /\ UNCHANGED row /\ OnlyThread /\ Calm

Release(t) ==
    /\ At(t, "release")
    /\ GiveBack(thread[t].slot)
    /\ thread' = [thread EXCEPT ![t] = NoThread]
    /\ UNCHANGED <<row, attempts, stream, queue, cancelFile, up, cancelRequested,
                   cancelling, token, working>>
    /\ Calm

\* A repository call raises: of a row, an attempt, or the event that follows them.  A
\* request whose row is QUEUED leaves it so, one that has reserved a slot does not give it
\* back, and the end of a success becomes a failure, even after the row was written.
AfterRaise(t) ==
    LET success == thread[t].mine.stage = "succeeded"
        failed  == [thread[t] EXCEPT !.pc = "end", !.mine.stage = "failed"]
    IN
    CASE thread[t].pc \in {"insert", "requeue", "inputs", "reserve", "dispatchFailed",
                           "finishFailed"} -> NoThread
      [] thread[t].pc \in {"assign", "attempt", "dispatch"} ->
             [thread[t] EXCEPT !.pc = "dispatchFailed"]
      [] thread[t].pc = "execute" -> failed
      [] thread[t].pc \in {"end", "finish"} ->
             IF success THEN failed ELSE [thread[t] EXCEPT !.pc = "release"]

StoreFails(t) ==
    /\ \/ thread[t].pc \in {"insert", "requeue", "inputs", "reserve", "assign", "attempt",
                            "dispatch", "end", "finish", "dispatchFailed", "finishFailed"}
       \/ At(t, "execute") /\ thread[t].pos < Len(stream[JobOf(t)])
    /\ Happens("store") /\ met' = [met EXCEPT ![t] = @ \cup {"store"}]
    /\ thread' = [thread EXCEPT ![t] = AfterRaise(t)]
    /\ UNCHANGED <<row, attempts>> /\ OnlyThread

-----------------------------------------------------------------------------
(***************************************************************************)
(* cancel reads the row, and writes all of it back with another stage.     *)
(***************************************************************************)

CancelRead(j) ==
    /\ up /\ cancelling[j] = NoRow /\ Incomplete(j) /\ Spend("cancel")
    /\ cancelRequested' = cancelRequested \cup {j}
    /\ cancelling' = [cancelling EXCEPT ![j] = row[j]]
    /\ UNCHANGED <<durable, up, busy, thread, token, working>>

CancelWrite(j) ==
    /\ cancelling[j] # NoRow
    /\ row' = [row EXCEPT ![j] = [cancelling[j] EXCEPT !.stage = "cancel_requested"]]
    /\ cancelling' = [cancelling EXCEPT ![j] = NoRow]
    /\ UNCHANGED <<attempts, stream, queue, slotState, cancelFile, up, busy,
                   cancelRequested, thread, token, working>>
    /\ Calm

(***************************************************************************)
(* The Gateway stops, at once or after close(), which cancels the          *)
(* executions without giving slots back; restore_inflight restarts one     *)
(* incomplete job after the other before the Gateway serves.               *)
(***************************************************************************)

Crash ==
    /\ up /\ Spend("crash")
    /\ up' = FALSE /\ busy' = {} /\ cancelRequested' = {}
    /\ thread' = [t \in Thread |-> NoThread] /\ cancelling' = [j \in Job |-> NoRow]
    /\ UNCHANGED <<durable, token, working>>

\* The slot is marked before its session is saved and the inputs are looked up: when one
\* of the two fails the job is marked failed, and the slot stays marked.
Restore(j) ==
    LET t == <<j, 1>>  s == row[j].slot
        restored(pc) == [NoThread EXCEPT !.mine = row[j], !.slot = s, !.pc = pc]
        again == IF row[j].stage = "cancel_requested" THEN {j} ELSE {}
    IN
    /\ ~ up /\ Incomplete(j) /\ At(t, "none")
    /\ met' = [met EXCEPT ![t] = {}]
    /\ \/ /\ s = Nobody \/ s \notin token
          /\ thread' = [thread EXCEPT ![t] = restored("dispatchFailed")]
          /\ UNCHANGED <<busy, slotState, cancelRequested, spent, happened>>
       \/ /\ s # Nobody /\ s \in token
          /\ busy' = busy \cup {s} /\ slotState' = [slotState EXCEPT ![s] = "busy"]
          /\ \/ /\ thread' = [thread EXCEPT ![t] = restored("execute")]
                /\ cancelRequested' = cancelRequested \cup again
                /\ UNCHANGED <<spent, happened>>
             \/ /\ thread' = [thread EXCEPT ![t] = restored("dispatchFailed")]
                /\ \/ Happens("store") /\ UNCHANGED cancelRequested
                   \/ Happens("asset") /\ cancelRequested' = cancelRequested \cup again
    /\ UNCHANGED <<row, attempts, stream, queue, cancelFile, up, cancelling, token, working>>

Serve ==
    /\ ~ up /\ \A j \in Job : Incomplete(j) => ~ At(<<j, 1>>, "none")
    /\ \A t \in Thread : thread[t].pc \notin {"dispatchFailed", "finishFailed"}
    /\ up' = TRUE
    /\ UNCHANGED <<durable, busy, cancelRequested, thread, cancelling, token, working>> /\ Calm

\* The session loses the lease of a slot.
LeaseLost(s) ==
    /\ s \in token /\ Spend("lease")
    /\ token' = token \ {s}
    /\ UNCHANGED <<durable, up, busy, cancelRequested, thread, cancelling, working>>

(***************************************************************************)
(* The Runner of a slot.  A message it takes clears the job's cancel mark. *)
(***************************************************************************)

Publish(j, kind, n) == stream' = [stream EXCEPT ![j] = Append(@, [kind |-> kind, of |-> n])]

RunnerTakes(s) ==
    /\ working[s] = <<>> /\ queue[s] # <<>>
    /\ LET m == Head(queue[s]) IN
       /\ working' = [working EXCEPT ![s] = m]
       /\ cancelFile' = cancelFile \ {m[1]}
       /\ Publish(m[1], "progress", m[2])
    /\ queue' = [queue EXCEPT ![s] = Tail(@)]
    /\ UNCHANGED <<row, attempts, slotState, memory>> /\ Calm

RunnerEnds(s) ==
    /\ working[s] # <<>>
    /\ \E kind \in Terminal :
          /\ kind = "cancelled" => working[s][1] \in cancelFile
          /\ Publish(working[s][1], kind, working[s][2])
    /\ working' = [working EXCEPT ![s] = <<>>]
    /\ UNCHANGED <<row, attempts, queue, slotState, cancelFile, memory>> /\ Calm

RunnerLoses(s) ==
    /\ working[s] # <<>> /\ Spend("lose")
    /\ working' = [working EXCEPT ![s] = <<>>]
    /\ UNCHANGED <<durable, memory>>

Requests(t) == Admit(t) \/ RetryRead(t)
Request(t) == \/ Insert(t) \/ Requeue(t) \/ Inputs(t) \/ Reserve(t) \/ Assign(t)
              \/ AddAttempt(t) \/ Dispatch(t) \/ Undo(t) \/ MarkDispatchFailed(t) \/ FinishFailed(t)
Execute(t) == \/ ReadEvent(t) \/ Timeout(t) \/ Register(t) \/ End(t)
              \/ FinishAttempt(t) \/ Release(t)
Runner(s)  == RunnerTakes(s) \/ RunnerEnds(s)

Next ==
    \/ \E t \in Thread : Requests(t) \/ Request(t) \/ Execute(t) \/ TouchCancel(t) \/ StoreFails(t)
    \/ \E j \in Job : CancelRead(j) \/ CancelWrite(j) \/ Restore(j)
    \/ \E s \in Slot : Runner(s) \/ RunnerLoses(s) \/ LeaseLost(s)
    \/ Crash \/ Serve

Spec == Init /\ [][Next]_vars

\* asyncio runs every coroutine, restore_inflight runs at start, and the Runners live.
FairSpec ==
    /\ Spec
    /\ \A t \in Thread : WF_vars(Request(t) \/ Execute(t)) /\ WF_vars(TouchCancel(t))
    /\ \A j \in Job : WF_vars(CancelWrite(j)) /\ WF_vars(Restore(j))
    /\ \A s \in Slot : WF_vars(Runner(s))
    /\ WF_vars(Serve)

-----------------------------------------------------------------------------
(***************************************************************************)
(* What should hold.                                                       *)
(***************************************************************************)
Did(k) == happened \cap k # {}

\* No two executions hold one slot: a slot runs one job at a time.  After a restart this
\* needs that no row still names a slot its job has given back, see the README.
ReservedOnce ==
    \A t, u \in Thread :
        /\ thread[t].pc \in Holding /\ thread[u].pc \in Holding
        /\ thread[t].slot = thread[u].slot
        => t = u \/ ("crash" \in happened /\ Did({"dispatch", "store", "cancel"}))

\* A job that has ended stays as it ended until the user retries it, whatever events,
\* restarts and answers come late, but for three writers of this one job: a cancel request
\* that read the row before it ended, the execution whose own call failed after it had
\* written SUCCEEDED, and two retries that had both read the row before one wrote it.
TerminalStays ==
    [][\A j \in Job : row[j].stage \in Terminal /\ row[j].stage # row'[j].stage
           => \/ row[j].stage # "succeeded" /\ row'[j].stage = "queued"
              \/ /\ row'[j].stage = "cancel_requested"
                 /\ cancelling[j].stage \notin Terminal \cup {"none"}
              \/ /\ row[j].stage = "succeeded" /\ row'[j].stage = "failed"
                 /\ \E t \in {j} \X {1, 2} : At(t, "end") /\ "store" \in met[t]
              \/ \E t \in {j} \X {1, 2} : ~ At(t, "none") /\ "twice" \in met[t]]_vars

\* Every job ends, through Runner failures, lost messages, restarts and lost leases, if
\* the repository works; a cancel request that came too late leaves it as it is, and a
\* retry whose frame was deleted leaves it QUEUED.
Left(j, places) == up /\ \A t \in {j} \X {1, 2} : thread[t].pc \in places
Overwritten(j) ==
    /\ Left(j, {"none", "finish", "release", "finishFailed"})
    /\ row[j].stage = "cancel_requested" /\ cancelling[j] = NoRow
Stranded(j) ==
    /\ Left(j, {"none", "finish", "release", "finishFailed"})
    /\ row[j].stage = "queued" /\ "asset" \in happened
JobsEnd ==
    \A j \in Job :
        Incomplete(j) ~> \/ row[j].stage \in Terminal
                         \/ Overwritten(j) \/ Stranded(j) \/ Did({"store"})

\* Every slot marked busy is free again at last: no path of a request or an execution
\* forgets its slot, if the repository works and no lease is lost, but for two retries at
\* once and for a restart that finds a frame deleted.
SlotsReturn ==
    \A s \in Slot :
        s \in busy ~> s \notin busy \/ Did({"store", "lease", "twice"})
                       \/ {"crash", "asset"} \subseteq happened

\* docs/prompts/ltx-dynamic-h100-full-implementation.md:165 says a retry makes a new
\* attempt that leaves the earlier ones alone: it ends by its own events.
AttemptEndsByItself ==
    \A t \in Thread : thread[t].by \in {0, thread[t].mine.attempt}
=============================================================================
