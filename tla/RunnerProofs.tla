---------------------------- MODULE RunnerProofs ----------------------------
(***************************************************************************)
(* What the Runner keeps to, whichever of its loops, the child, the pipe   *)
(* and the lease fail it.                                                  *)
(*                                                                         *)
(* First: a release never runs beside a job, whatever the two loops and    *)
(* the bootstrap loop are doing when one of them is cancelled (LockInv).   *)
(*                                                                         *)
(* Then the rest, from one inductive invariant of named parts (RunnerInv). *)
(* Two views of a step carry the proof: as the jobs see it (JobSteps), for *)
(* Streams, Once, Answers, Progress and Pipe; as the LOADs see it          *)
(* (BootSteps), for Loads, Order and Models.                               *)
(***************************************************************************)
EXTENDS Runner, TLAPS

-----------------------------------------------------------------------------
(* The inductive invariant *)

Caller == {"boot", "control"}

LockTypes ==
    /\ lock \in {"free", "job", "boot", "control"}
    /\ releasing \in [Caller -> {"none", "wait", "join"}]
    /\ jobLoop \in {"off", "idle", "lock", "wait", "flush", "publish", "ack"}

\* The job loop holds the run lock exactly while it waits for the child.
JobHoldsLock == lock = "job" <=> jobLoop = "wait"

\* A release holds it exactly from the shutdown message to the verdict on memory.
ReleaseHoldsLock == \A c \in Caller : lock = c <=> releasing[c] = "join"

\* No loop starts a second release: each is suspended in its own.
BootReleases    == releasing["boot"] # "none" => at \in {"clear", "undo", "close"}
ControlReleases == releasing["control"] # "none" => control = "release"

LockInv == LockTypes /\ JobHoldsLock /\ ReleaseHoldsLock /\ BootReleases /\ ControlReleases

lockVars == <<lock, releasing, jobLoop, at, control>>

-----------------------------------------------------------------------------
(* The step *)

\* The cancelled loops give the lock back; the bootstrap loop is in no release.
LEMMA StopKeepsLock ==
    ASSUME LockInv, StopSlotTasks, at \notin {"clear", "undo", "close"}
    PROVE  /\ lock' = "free" /\ jobLoop' \in {"off", "publish", "ack"}
           /\ control' = "off" /\ releasing' = [c \in Caller |-> "none"]
<1>1. lock' = "free" /\ control' = "off"
  BY DEF StopSlotTasks, StopControl
<1>2. jobLoop' \in {"off", "publish", "ack"}
  BY DEF StopSlotTasks, StopJob
<1>3. releasing["boot"] = "none"
  BY DEF LockInv, BootReleases
<1>4. releasing' = [c \in Caller |-> "none"]
  BY <1>3 DEF StopSlotTasks, StopControl, LockInv, LockTypes, Caller
<1> QED
  BY <1>1, <1>2, <1>4

\* A call of release gets the lock at once, or it waits.
LEMMA ReleaseKeepsLock ==
    ASSUME LockInv, NEW c \in Caller, releasing[c] = "none", Release(c), UNCHANGED jobLoop
    PROVE  /\ LockTypes' /\ JobHoldsLock' /\ ReleaseHoldsLock'
           /\ \A d \in Caller \ {c} : releasing'[d] = releasing[d]
<1> USE DEF LockInv, LockTypes, JobHoldsLock, ReleaseHoldsLock, Caller
<1>1. CASE Shutdown(c) /\ lock = "free"
  BY <1>1 DEF Shutdown
<1>2. CASE releasing' = [releasing EXCEPT ![c] = "wait"] /\ UNCHANGED lock
  BY <1>2
<1> QED
  BY <1>1, <1>2 DEF Release, Unlocked

\* The steps of the Gateway and of the child are none of the lock's business.
LEMMA OthersKeepLock ==
    ASSUME \/ Gateway \/ Worker \/ WorkerDies \/ StrayRead \/ Restart
           \/ \E j \in Job : PublishProgress(j)
    PROVE  UNCHANGED lockVars
<1> USE DEF lockVars, runner, supervisor, tasksOf, others, outer
<1>1. CASE Gateway
  BY <1>1 DEF Gateway, Acquire, LoadAnswered, Dispatch, Unload, UnloadAnswered, LoseLease,
              Cancel, TouchCancelFile
<1>2. CASE Worker
  BY <1>2 DEF Worker, StartJob, ReportProgress, FinishJob, Quit
<1>3. CASE WorkerDies \/ StrayRead \/ Restart
  BY <1>3 DEF WorkerDies, StrayRead, Restart
<1>4. CASE \E j \in Job : PublishProgress(j)
  BY <1>4 DEF PublishProgress
<1> QED
  BY <1>1, <1>2, <1>3, <1>4

\* The bootstrap loop and the calls it makes of the supervisor.
LEMMA BootstrapKeepsLock ==
    ASSUME LockInv,
           BootstrapLoop \/ LoadFails \/ (\E ok \in BOOLEAN : Cleared(ok) \/ Undone(ok))
    PROVE  LockInv'
<1> USE DEF LockInv, LockTypes, JobHoldsLock, ReleaseHoldsLock, BootReleases, ControlReleases,
            Caller, supervisor, tasksOf, Shutdown, Released
<1>1. CASE ReadBootstrap \/ CheckBootstrap
  BY <1>1 DEF ReadBootstrap, CheckBootstrap
<1>2. CASE Load
  <2>1. CASE Release("boot") /\ at' = "clear"
    <3>1. releasing["boot"] = "none" /\ UNCHANGED <<jobLoop, control>>
      BY <1>2 DEF Load
    <3> QED
      BY <2>1, <3>1, ReleaseKeepsLock
  <2>2. CASE UNCHANGED <<lock, releasing, jobLoop, control>>
    BY <1>2, <2>2 DEF Load
  <2> QED
    BY <1>2, <2>1, <2>2 DEF Load
<1>3. CASE LoadReady \/ LoadFails
  BY <1>3 DEF LoadReady, LoadFails
<1>4. CASE Recheck
  <2>1. CASE lease # loading
    <3>1. releasing["boot"] = "none" /\ Release("boot") /\ at' = "undo"
          /\ UNCHANGED <<jobLoop, control>>
      BY <1>4, <2>1 DEF Recheck
    <3> QED
      BY <3>1, ReleaseKeepsLock
  <2>2. CASE lease = loading
    <3>1. StopSlotTasks /\ at = "recheck" /\ at' = "stopping"
      BY <1>4, <2>2 DEF Recheck
    <3> QED
      BY <3>1, StopKeepsLock
  <2> QED
    BY <2>1, <2>2
<1>5. CASE StartSlotTasks
  BY <1>5 DEF StartSlotTasks, TasksEnded
<1>6. CASE CacheResult \/ PublishResult \/ AckBootstrap
  BY <1>6 DEF CacheResult, PublishResult, AckBootstrap
<1>7. CASE ReleaseLocked("boot")
  BY <1>7 DEF ReleaseLocked
<1>8. ASSUME NEW ok \in BOOLEAN, Cleared(ok) PROVE LockInv'
  BY <1>8 DEF Cleared, Spawn
<1>9. ASSUME NEW ok \in BOOLEAN, Undone(ok) PROVE LockInv'
  BY <1>9 DEF Undone, NoProcess
<1> QED
  BY <1>1, <1>2, <1>3, <1>4, <1>5, <1>6, <1>7, <1>8, <1>9 DEF BootstrapLoop

\* The control loop.
LEMMA ControlKeepsLock ==
    ASSUME LockInv, ControlLoop \/ (\E ok \in BOOLEAN : ControlReleased(ok))
    PROVE  LockInv'
<1> USE DEF LockInv, LockTypes, JobHoldsLock, ReleaseHoldsLock, BootReleases, ControlReleases,
            Caller, supervisor, tasksOf, Shutdown, Released
<1>1. CASE ReadControl
  <2>1. CASE Release("control") /\ control' = "release"
    <3>1. releasing["control"] = "none" /\ UNCHANGED <<jobLoop, at>>
      BY <1>1 DEF ReadControl
    <3> QED
      BY <2>1, <3>1, ReleaseKeepsLock
  <2>2. CASE UNCHANGED <<lock, releasing>>
    BY <1>1, <2>2 DEF ReadControl
  <2> QED
    BY <1>1, <2>1, <2>2 DEF ReadControl
<1>2. CASE CacheControlResult \/ PublishControlResult \/ AckControl
  BY <1>2 DEF CacheControlResult, PublishControlResult, AckControl
<1>3. CASE ReleaseLocked("control")
  BY <1>3 DEF ReleaseLocked
<1>4. ASSUME NEW ok \in BOOLEAN, ControlReleased(ok) PROVE LockInv'
  BY <1>4 DEF ControlReleased, NoProcess
<1> QED
  BY <1>1, <1>2, <1>3, <1>4 DEF ControlLoop

\* The job loop.
LEMMA JobLoopKeepsLock ==
    ASSUME LockInv, JobLoop \/ ReceiveFails
    PROVE  LockInv'
<1> USE DEF LockInv, LockTypes, JobHoldsLock, ReleaseHoldsLock, BootReleases, ControlReleases,
            Caller, supervisor, tasksOf
<1>1. CASE ReadJob
  BY <1>1 DEF ReadJob, SendRun, Fail, Unlocked
<1>2. CASE LockJob
  BY <1>2 DEF LockJob, SendRun, Fail
<1>3. CASE ReceiveMessage
  BY <1>3 DEF ReceiveMessage, Unlock
<1>4. CASE ReceiveFails
  BY <1>4 DEF ReceiveFails, Unlock
<1>5. CASE Flushed \/ PublishJobEvent \/ AckJob
  BY <1>5 DEF Flushed, PublishJobEvent, AckJob
<1> QED
  BY <1>1, <1>2, <1>3, <1>4, <1>5 DEF JobLoop

\* The end of the process.
LEMMA ProcessKeepsLock ==
    ASSUME LockInv, Crash \/ Stop \/ Closing \/ Closed
    PROVE  LockInv'
<1> USE DEF LockInv, LockTypes, JobHoldsLock, ReleaseHoldsLock, BootReleases, ControlReleases,
            Caller, supervisor, tasksOf
<1>1. ASSUME Down PROVE LockInv'
  BY <1>1 DEF Down
<1>2. CASE Crash \/ Closed
  BY <1>1, <1>2 DEF Crash, Closed
<1>3. CASE Stop
  <2>1. StopSlotTasks /\ at = "idle" /\ at' = "closing"
    BY <1>3 DEF Stop
  <2> QED
    BY <2>1, StopKeepsLock
<1>4. CASE Closing
  <2>1. CASE Down
    BY <1>1, <2>1
  <2>2. CASE ~Down
    <3>1. releasing["boot"] = "none" /\ Release("boot") /\ at' = "close"
          /\ UNCHANGED <<jobLoop, control>>
      BY <1>4, <2>2 DEF Closing
    <3> QED
      BY <3>1, ReleaseKeepsLock
  <2> QED
    BY <2>1, <2>2
<1> QED
  BY <1>2, <1>3, <1>4

LEMMA LockStep == LockInv /\ [Next]_vars => LockInv'
<1> SUFFICES ASSUME LockInv, [Next]_vars PROVE LockInv'
    OBVIOUS
<1>1. ASSUME UNCHANGED lockVars PROVE LockInv'
  BY <1>1 DEF LockInv, LockTypes, JobHoldsLock, ReleaseHoldsLock, BootReleases,
              ControlReleases, lockVars
<1>2. CASE UNCHANGED vars
  BY <1>1, <1>2 DEF vars, lockVars, supervisor, tasksOf
<1>3. CASE Next
  BY <1>1, <1>3, OthersKeepLock, BootstrapKeepsLock, ControlKeepsLock, JobLoopKeepsLock,
     ProcessKeepsLock DEF Next, Process
<1> QED
  BY <1>2, <1>3

-----------------------------------------------------------------------------
(***************************************************************************)
(* supervisor.release never shuts the child down under a job: neither when *)
(* the UNLOAD arrives during it, nor when load replaces the model or takes *)
(* it back, nor when the loops of the slot are cancelled half way.         *)
(***************************************************************************)
THEOREM ReleaseExcludesJob == Spec => []ReleaseWaitsForJob
<1>1. Init => LockInv
  BY DEF Init, LockInv, LockTypes, JobHoldsLock, ReleaseHoldsLock, BootReleases,
         ControlReleases, Caller
<1>2. LockInv => ReleaseWaitsForJob
  BY DEF LockInv, JobHoldsLock, ReleaseHoldsLock, Caller, ReleaseWaitsForJob
<1> QED
  BY <1>1, <1>2, LockStep, PTL DEF Spec
-----------------------------------------------------------------------------
(***************************************************************************)
(* The streams of a slot, the loops at their ends and the child.           *)
(***************************************************************************)
Elements(q) == {q[i] : i \in DOMAIN q}
Distinct(q) == \A i, k \in DOMAIN q : q[i] = q[k] => i = k

\* The job was read from its stream.
Delivered(j) == \E i \in 1..taken[SlotOf[j]] : queue[SlotOf[j]][i] = j

InLoad  == {"load", "clear", "receive", "recheck", "undo", "stopping"}
Resting == {"idle", "closing", "close"}
WithJob == {"lock", "wait", "flush", "publish", "ack"}

\* What a loop has in hand where it is suspended.
Hands ==
    /\ at \notin Resting => loading \in Session
    /\ control # "off" \/ jobLoop # "off" => tasks \in Session
    /\ jobLoop \in WithJob => pending[tasks] \in Job
    /\ jobLoop = "idle" => pending[tasks] = Nobody
    /\ jobLoop = "flush" => outcome.kind = "succeeded"
    /\ jobLoop \in {"publish", "ack"} => outcome.kind \in Terminal
    /\ worker.st = "busy" <=> worker.job # Nobody
    /\ worker.st \in {"dead", "none"} => worker.inbox = <<>>
    /\ process = Nobody => worker = NoWorker

\* A job is dispatched once, on its slot, and not before the LOAD has an answer.
Streams ==
    /\ \A s \in Session : Distinct(queue[s]) /\ \A j \in Elements(queue[s]) : SlotOf[j] = s
    /\ \A s \in Session : taken[s] \in 0..Len(queue[s])
    /\ \A s \in Session : pending[s] # Nobody => SlotOf[pending[s]] = s /\ Delivered(pending[s])
    /\ \A j \in Job : Answered(j) \/ j \in prepared \cup Elements(worker.inbox) => Delivered(j)

\* A LOAD that has an answer is not carried out again: the loops of a slot start once.
Loads ==
    /\ at \in InLoad => cache["load"][loading] = "none"
    /\ at = "publish" => cache["load"][loading] = result
    /\ \A s \in Session : queue[s] # <<>> \/ gateway[s] = "ready" \/ reply["load"][s] # "none"
                              => cache["load"][s] # "none"

\* A job is written to the pipe once.
Once ==
    /\ Distinct(worker.inbox) /\ Elements(worker.inbox) \cap prepared = {}
    /\ worker.job # Nobody => worker.job \in prepared
    /\ jobLoop = "lock" => pending[tasks] \notin prepared \cup Elements(worker.inbox)

\* The loop publishes for a job that has no answer, unless it is cancelled.
Answers ==
    /\ OneOutcome
    /\ jobLoop \in WithJob \ {"ack"} /\ Answered(pending[tasks])
           => jobLoop = "publish" /\ outcome.kind = "cancelled"

\* No progress is on its way of a job that has succeeded.
Progress ==
    /\ SuccessIsLast
    /\ jobLoop = "publish" /\ outcome.kind = "succeeded" => pending[tasks] \notin inflight
    /\ \A j \in Job : (\E i \in DOMAIN events[j] : events[j][i].kind = "succeeded")
                                => j \notin inflight

\* Whatever the child has, and whatever it says, is of the job the loop waits for or of one left.
Awaited(k) == k \in left \/ (jobLoop = "wait" /\ k = pending[tasks])
Pipe ==
    /\ \A k \in Elements(worker.inbox) \cup ({worker.job} \ {Nobody}) : Awaited(k)
    /\ \A m \in Elements(worker.out) : m.of \in prepared /\ Awaited(m.of)
    /\ \A i \in DOMAIN worker.out : worker.out[i].kind \in Terminal =>
           /\ worker.job # worker.out[i].of
           /\ \A k \in DOMAIN worker.out : i < k => worker.out[k].of # worker.out[i].of
    /\ jobLoop \in {"flush", "publish"} => outcome.of \in {pending[tasks]} \cup left
    /\ ResultIsOwn

\* The last LOAD of the stream is that of the session with the lease.
Order ==
    /\ \A s \in Session : gateway[s] = "new" =>
           s \notin Elements(boot) /\ loading # s /\ lease # s /\ cache["load"][s] = "none"
    /\ Distinct(boot) /\ loading \notin Elements(boot)
    /\ \A s \in Session : cache["load"][s] # "none" => s \notin Elements(boot)
    /\ lease # Nobody /\ boot # <<>> => boot[Len(boot)] = lease
    /\ lease # Nobody /\ boot = <<>> => loading \in {lease, Nobody}

\* The child has the model of the session with the lease once its LOAD is through.
Through(s) == \/ cache["load"][s] = "ok"
              \/ loading = s /\ (at \in {"recheck", "stopping"} \/ (at = "cache" /\ result = "ok"))
Models ==
    /\ at = "undo" => lease # loading
    /\ at = "cache" /\ result = "failed" /\ lease = loading => cache["load"][loading] = "none"
    /\ \A s \in Session : lease = s /\ (queue[s] # <<>> \/ gateway[s] = "ready"
                                            \/ reply["load"][s] = "ok") => cache["load"][s] = "ok"
    /\ \A s \in Session : lease = s /\ Through(s) /\ process # Nobody => loaded = SpecOf[s]
USE RunnerAssumption

-----------------------------------------------------------------------------
(* Sequences *)

LEMMA AppendElements ==
    ASSUME NEW S, NEW q \in Seq(S), NEW x \in S
    PROVE  /\ Append(q, x) \in Seq(S) /\ Append(q, x) # <<>>
           /\ Len(Append(q, x)) = Len(q) + 1 /\ Append(q, x)[Len(q) + 1] = x
           /\ \A i \in DOMAIN q : Append(q, x)[i] = q[i]
           /\ Elements(Append(q, x)) = Elements(q) \cup {x}
           /\ Distinct(q) /\ x \notin Elements(q) => Distinct(Append(q, x))
<1>1. /\ Append(q, x) \in Seq(S) /\ Append(q, x) # <<>>
      /\ Len(Append(q, x)) = Len(q) + 1 /\ Append(q, x)[Len(q) + 1] = x
      /\ \A i \in DOMAIN q : Append(q, x)[i] = q[i]
  OBVIOUS
<1>2. DOMAIN Append(q, x) = DOMAIN q \cup {Len(q) + 1}
  OBVIOUS
<1>3. Elements(Append(q, x)) = Elements(q) \cup {x}
  BY <1>1, <1>2 DEF Elements
<1>4. Distinct(q) /\ x \notin Elements(q) => Distinct(Append(q, x))
  BY <1>1, <1>2 DEF Elements, Distinct
<1> QED
  BY <1>1, <1>3, <1>4

LEMMA TailElements ==
    ASSUME NEW S, NEW q \in Seq(S), q # <<>>
    PROVE  /\ Tail(q) \in Seq(S) /\ Head(q) \in S /\ Head(q) = q[1]
           /\ Len(Tail(q)) = Len(q) - 1
           /\ \A i \in DOMAIN Tail(q) : i + 1 \in DOMAIN q /\ Tail(q)[i] = q[i + 1]
           /\ Elements(q) = Elements(Tail(q)) \cup {Head(q)}
           /\ Distinct(q) => Distinct(Tail(q)) /\ Head(q) \notin Elements(Tail(q))
<1>1. /\ Tail(q) \in Seq(S) /\ Head(q) \in S /\ Head(q) = q[1] /\ 1 \in DOMAIN q
      /\ Len(Tail(q)) = Len(q) - 1
      /\ \A i \in DOMAIN Tail(q) : i + 1 \in DOMAIN q /\ Tail(q)[i] = q[i + 1]
  OBVIOUS
<1>2. \A i \in DOMAIN q : i = 1 \/ (i - 1 \in DOMAIN Tail(q) /\ Tail(q)[i - 1] = q[i])
  OBVIOUS
<1>3. Elements(q) = Elements(Tail(q)) \cup {Head(q)}
  <2>1. Elements(q) \subseteq Elements(Tail(q)) \cup {Head(q)}
    <3> SUFFICES ASSUME NEW i \in DOMAIN q PROVE q[i] \in Elements(Tail(q)) \cup {Head(q)}
      BY DEF Elements
    <3>1. CASE i = 1
      BY <1>1, <3>1
    <3>2. CASE i # 1
      <4>1. i - 1 \in DOMAIN Tail(q) /\ Tail(q)[i - 1] = q[i]
        BY <1>2, <3>2
      <4> QED
        BY <4>1 DEF Elements
    <3> QED
      BY <3>1, <3>2
  <2>2. Elements(Tail(q)) \cup {Head(q)} \subseteq Elements(q)
    BY <1>1 DEF Elements
  <2> QED
    BY <2>1, <2>2
<1>4. ASSUME Distinct(q) PROVE Distinct(Tail(q)) /\ Head(q) \notin Elements(Tail(q))
  <2>1. \A i \in DOMAIN Tail(q) : i \in Nat \ {0}
    BY <1>1
  <2> QED
    BY <1>1, <1>4, <2>1 DEF Elements, Distinct
<1> QED
  BY <1>1, <1>3, <1>4

LEMMA EmptyElements == Elements(<<>>) = {} /\ Distinct(<<>>)
BY DEF Elements, Distinct

LEMMA ElementsTyped == ASSUME NEW S, NEW q \in Seq(S) PROVE Elements(q) \subseteq S
BY DEF Elements

-----------------------------------------------------------------------------
(* Types *)

Result == [{"load", "unload"} -> [Session -> {"none", "ok", "failed"}]]
Child  == [st : {"none", "loading", "idle", "busy", "dead"}, inbox : Seq(Job),
           job : Job \cup {Nobody}, told : BOOLEAN, out : Seq(Message), quit : BOOLEAN]

RedisTypes ==
    /\ lease \in Session \cup {Nobody}
    /\ gateway \in [Session -> {"new", "loading", "ready", "releasing", "failed", "released"}]
    /\ boot \in Seq(Session) /\ loading \in Session \cup {Nobody}
    /\ unload \in [Session -> {"none", "sent", "pending", "acked"}]
    /\ queue \in [Session -> Seq(Job)]
    /\ taken \in [Session -> Nat]
    /\ pending \in [Session -> Job \cup {Nobody}]
    /\ cache \in Result /\ reply \in Result
    /\ events \in [Job -> Seq(Message)]

LoopTypes ==
    /\ wanted \subseteq Id /\ cancelFile \subseteq Id
    /\ prepared \subseteq Job /\ left \subseteq Job
    /\ up \in BOOLEAN
    /\ current \in Session \cup {Nobody}
    /\ at \in {"idle", "check", "load", "clear", "receive", "recheck", "undo", "stopping",
               "cache", "publish", "ack", "closing", "close"}
    /\ result \in {"ok", "failed"}
    /\ tasks \in Session \cup {Nobody}
    /\ control \in {"off", "idle", "release", "cache_ok", "cache_failed", "publish",
                   "republish", "ack"}
    /\ jobLoop \in {"off", "idle", "lock", "wait", "flush", "publish", "ack"}
    /\ outcome \in [kind : Terminal, of : Job] \cup {NoOutcome}
    /\ inflight \subseteq Job

ChildTypes ==
    /\ state \in {"empty", "loading", "ready", "busy", "draining", "unloading", "error"}
    /\ process \in Session \cup {Nobody}
    /\ loaded \in Profile \cup {Nobody}
    /\ lock \in {"free", "job", "boot", "control"}
    /\ waiting \in Seq({"job", "boot", "control"})
    /\ releasing \in [{"boot", "control"} -> {"none", "wait", "join"}]
    /\ stray \in Nat
    /\ worker \in Child
    /\ spent \in 0..Budget

Typed == RedisTypes /\ LoopTypes /\ ChildTypes

LEMMA TypedTypeOK == Typed => TypeOK
<1> SUFFICES ASSUME Typed PROVE TypeOK
  OBVIOUS
<1>1. \A c \in {cache, reply} : c \in Result
  BY DEF Typed, RedisTypes
<1> QED
  BY <1>1, Zenon DEF TypeOK, Typed, RedisTypes, LoopTypes, ChildTypes, Result, Child

LEMMA NotSession == Nobody \notin Session /\ Nobody \notin Job /\ Nobody \notin Profile
BY RunnerAssumption

LEMMA RedisFrame == RedisTypes /\ UNCHANGED <<redis, gateway>> => RedisTypes'
BY DEF RedisTypes, redis, streams, answers

\* The event a loop publishes.
LEMMA OutcomeTyped ==
    ASSUME Typed, Hands, jobLoop \in {"publish", "ack"}
    PROVE  /\ tasks \in Session /\ pending[tasks] \in Job /\ outcome \in Message
           /\ outcome.kind \in Terminal
<1>1. outcome # NoOutcome
  BY DEF Hands, NoOutcome, Terminal
<1> QED
  BY <1>1 DEF Hands, Typed, LoopTypes, WithJob, Message

LEMMA PublishOutcomeTyped ==
    ASSUME Typed, Hands, jobLoop \in {"publish", "ack"}, PublishOutcome
    PROVE  events' \in [Job -> Seq(Message)]
BY OutcomeTyped DEF PublishOutcome, Typed, RedisTypes

LEMMA StopTypes ==
    ASSUME Typed, Hands, StopSlotTasks
    PROVE  /\ unload' \in [Session -> {"none", "sent", "pending", "acked"}]
           /\ pending' \in [Session -> Job \cup {Nobody}]
           /\ events' \in [Job -> Seq(Message)]
           /\ control' = "off" /\ jobLoop' \in {"off", "publish", "ack"}
           /\ outcome' \in [kind : Terminal, of : Job] \cup {NoOutcome}
           /\ left' \subseteq Job
<1>1. unload' \in [Session -> {"none", "sent", "pending", "acked"}] /\ control' = "off"
  BY DEF StopSlotTasks, StopControl, Typed, RedisTypes
<1>2. StopJob
  BY DEF StopSlotTasks
<1>3. CASE jobLoop \in {"off", "idle"}
  <2>1. UNCHANGED <<pending, events, outcome>> /\ jobLoop' = "off"
    BY <1>2, <1>3 DEF StopJob
  <2>2. left' = left
    BY <1>3 DEF StopSlotTasks
  <2> QED
    BY <1>1, <2>1, <2>2 DEF Typed, RedisTypes, LoopTypes
<1>4. CASE jobLoop \in WithJob
  <2>1. tasks \in Session /\ pending[tasks] \in Job
    BY <1>4 DEF Hands, WithJob
  <2>2. PublishOutcome /\ jobLoop \in {"publish", "ack"} => events' \in [Job -> Seq(Message)]
    BY PublishOutcomeTyped
  <2>3. events' \in [Job -> Seq(Message)] /\ jobLoop' \in {"off", "publish", "ack"}
    BY <1>2, <1>4, <2>2 DEF StopJob, WithJob, Typed, RedisTypes
  <2>4. pending' \in {pending, [pending EXCEPT ![tasks] = Nobody]}
        /\ outcome' \in {outcome, Msg("cancelled", pending[tasks])}
    BY <1>2, <1>4 DEF StopJob
  <2>5. Msg("cancelled", pending[tasks]) \in [kind : Terminal, of : Job]
    BY <2>1 DEF Msg, Terminal
  <2>6. left' \subseteq Job
    BY <2>1 DEF StopSlotTasks, Typed, LoopTypes
  <2> QED
    BY <1>1, <2>1, <2>3, <2>4, <2>5, <2>6 DEF Typed, RedisTypes, LoopTypes
<1> QED
  BY <1>3, <1>4 DEF Typed, LoopTypes, WithJob

With(c, k, x, v) == [c EXCEPT ![k][x] = v]

LEMMA ResultSet ==
    ASSUME NEW c \in Result, NEW k \in {"load", "unload"}, NEW x \in Session,
           NEW v \in {"none", "ok", "failed"}
    PROVE  /\ With(c, k, x, v) \in Result /\ With(c, k, x, v)[k][x] = v
           /\ \A l \in {"load", "unload"}, y \in Session :
                  l # k \/ y # x => With(c, k, x, v)[l][y] = c[l][y]
<1>1. c[k] \in [Session -> {"none", "ok", "failed"}]
  BY DEF Result
<1> DEFINE row == [c[k] EXCEPT ![x] = v]
<1>2. row \in [Session -> {"none", "ok", "failed"}] /\ row[x] = v
      /\ \A y \in Session : y # x => row[y] = c[k][y]
  BY <1>1
<1>3. With(c, k, x, v) = [c EXCEPT ![k] = row]
  BY DEF With
<1> HIDE DEF row
<1> QED
  BY <1>2, <1>3 DEF Result

LEMMA RedisStep == ASSUME Typed, Hands, Next PROVE RedisTypes'
<1> USE DEF redis, streams, answers
<1>1. CASE Gateway
  <2>1. ASSUME NEW s \in Session, Acquire(s) PROVE RedisTypes'
    BY <2>1 DEF Acquire, Typed, RedisTypes
  <2>2. ASSUME NEW s \in Session, LoadAnswered(s) \/ UnloadAnswered(s) PROVE RedisTypes'
    BY <2>2 DEF LoadAnswered, UnloadAnswered, Typed, RedisTypes
  <2>3. ASSUME NEW s \in Session, Unload(s) PROVE RedisTypes'
    BY <2>3 DEF Unload, Typed, RedisTypes
  <2>4. ASSUME NEW j \in Job, Dispatch(j) PROVE RedisTypes'
    <3>1. SlotOf[j] \in Session
      OBVIOUS
    <3>2. queue' = [queue EXCEPT ![SlotOf[j]] = Append(queue[SlotOf[j]], j)]
      BY <2>4 DEF Dispatch
    <3>3. queue' \in [Session -> Seq(Job)]
      BY <3>1, <3>2 DEF Typed, RedisTypes
    <3> QED
      BY <2>4, <3>3 DEF Dispatch, Typed, RedisTypes
  <2>5. ASSUME NEW i \in Id, Cancel(i) \/ TouchCancelFile(i) PROVE RedisTypes'
    BY <2>5, RedisFrame DEF Cancel, TouchCancelFile, Typed
  <2>6. CASE LoseLease
    BY <2>6 DEF LoseLease, Typed, RedisTypes
  <2> QED
    BY <1>1, <2>1, <2>2, <2>3, <2>4, <2>5, <2>6 DEF Gateway
<1>2. CASE ReadBootstrap
  <2>1. CASE UNCHANGED <<boot, loading>>
    BY <1>2, <2>1 DEF ReadBootstrap, outer, Typed, RedisTypes
  <2>2. CASE boot # <<>> /\ loading' = Head(boot) /\ boot' = Tail(boot)
    <3>1. loading' \in Session /\ boot' \in Seq(Session)
      BY <2>2 DEF Typed, RedisTypes
    <3> QED
      BY <1>2, <3>1 DEF ReadBootstrap, outer, Typed, RedisTypes
  <2> QED
    BY <1>2, <2>1, <2>2 DEF ReadBootstrap
<1>3. CASE CheckBootstrap \/ Load \/ LoadReady \/ LoadFails \/ StartSlotTasks
           \/ ReleaseLocked("boot")
           \/ ReleaseLocked("control") \/ LockJob \/ ReceiveMessage \/ ReceiveFails \/ Flushed
  <2>1. UNCHANGED <<redis, gateway>>
    BY <1>3 DEF CheckBootstrap, Load, LoadReady, LoadFails, StartSlotTasks, ReleaseLocked, LockJob,
                ReceiveMessage, ReceiveFails, Flushed, outer
  <2> QED
    BY <2>1, RedisFrame DEF Typed
<1>4. CASE Recheck
  <2>1. CASE UNCHANGED redis
    BY <1>4, <2>1, RedisFrame DEF Recheck, Typed
  <2>2. CASE StopSlotTasks /\ ~UNCHANGED redis
    BY <1>4, <2>2, StopTypes DEF Recheck, Typed, RedisTypes
  <2> QED
    BY <1>4, <2>1, <2>2 DEF Recheck
<1>5. CASE CacheResult \/ PublishResult
  <2>1. loading \in Session /\ result \in {"ok", "failed"}
    BY <1>5 DEF CacheResult, PublishResult, Hands, Resting, Typed, LoopTypes
  <2>2. cache \in Result /\ reply \in Result
    BY DEF Typed, RedisTypes
  <2>3. CASE CacheResult
    <3>1. cache' = With(cache, "load", loading, result)
      BY <2>3 DEF CacheResult, With
    <3>2. cache' \in Result
      BY <2>1, <2>2, <3>1, ResultSet
    <3> QED
      BY <2>3, <3>2 DEF CacheResult, outer, Typed, RedisTypes
  <2>4. CASE PublishResult
    <3>1. reply' = With(reply, "load", loading, result)
      BY <2>4 DEF PublishResult, With
    <3>2. reply' \in Result
      BY <2>1, <2>2, <3>1, ResultSet
    <3> QED
      BY <2>4, <3>2 DEF PublishResult, outer, Typed, RedisTypes
  <2> QED
    BY <1>5, <2>3, <2>4
<1>6. CASE AckBootstrap
  BY <1>6 DEF AckBootstrap, outer, Typed, RedisTypes
<1>7. CASE ReadControl \/ AckControl
  <2>1. tasks \in Session
    BY <1>7 DEF ReadControl, AckControl, Hands
  <2> QED
    BY <1>7, <2>1 DEF ReadControl, AckControl, outer, Typed, RedisTypes
<1>8. CASE CacheControlResult \/ PublishControlResult
  <2>1. tasks \in Session
    BY <1>8 DEF CacheControlResult, PublishControlResult, Hands
  <2>2. cache["unload"][tasks] \in {"none", "ok", "failed"}
    BY <2>1 DEF Typed, RedisTypes, Result
  <2>3. cache \in Result /\ reply \in Result
    BY DEF Typed, RedisTypes
  <2>4. CASE CacheControlResult
    <3> DEFINE v == IF control = "cache_ok" THEN "ok" ELSE "failed"
    <3>1. cache' = With(cache, "unload", tasks, v) /\ v \in {"none", "ok", "failed"}
      BY <2>4 DEF CacheControlResult, With
    <3> HIDE DEF v
    <3>2. cache' \in Result
      BY <2>1, <2>3, <3>1, ResultSet
    <3> QED
      BY <2>4, <3>2 DEF CacheControlResult, outer, Typed, RedisTypes
  <2>5. CASE PublishControlResult
    <3> DEFINE v == cache["unload"][tasks]
    <3>1. reply' = With(reply, "unload", tasks, v) /\ v \in {"none", "ok", "failed"}
      BY <2>2, <2>5 DEF PublishControlResult, With
    <3> HIDE DEF v
    <3>2. reply' \in Result
      BY <2>1, <2>3, <3>1, ResultSet
    <3> QED
      BY <2>5, <3>2 DEF PublishControlResult, outer, Typed, RedisTypes
  <2> QED
    BY <1>8, <2>4, <2>5
<1>9. CASE ReadJob
  <2>1. tasks \in Session
    BY <1>9 DEF ReadJob, Hands
  <2>2. CASE UNCHANGED <<pending, taken>>
    BY <1>9, <2>2 DEF ReadJob, outer, Typed, RedisTypes
  <2>3. CASE /\ taken[tasks] < Len(queue[tasks])
             /\ taken' = [taken EXCEPT ![tasks] = taken[tasks] + 1]
             /\ pending' = [pending EXCEPT ![tasks] = queue[tasks][taken[tasks] + 1]]
    <3>1. queue[tasks] \in Seq(Job) /\ taken[tasks] \in Nat
      BY <2>1 DEF Typed, RedisTypes
    <3>2. queue[tasks][taken[tasks] + 1] \in Job /\ taken[tasks] + 1 \in Nat
      BY <2>3, <3>1
    <3>3. taken' \in [Session -> Nat] /\ pending' \in [Session -> Job \cup {Nobody}]
      BY <2>3, <3>2 DEF Typed, RedisTypes
    <3> QED
      BY <1>9, <3>3 DEF ReadJob, outer, Typed, RedisTypes
  <2> QED
    BY <1>9, <2>2, <2>3 DEF ReadJob, job
<1>10. CASE \E j \in Job : PublishProgress(j)
  <2> PICK j \in Job : PublishProgress(j)
    BY <1>10
  <2>1. Msg("progress", j) \in Message
    BY DEF Msg, Message
  <2>2. events' \in [Job -> Seq(Message)]
    BY <2>1 DEF PublishProgress, Typed, RedisTypes
  <2> QED
    BY <2>2 DEF PublishProgress, outer, Typed, RedisTypes
<1>11. CASE PublishJobEvent
  BY <1>11, PublishOutcomeTyped DEF PublishJobEvent, outer, Typed, RedisTypes
<1>12. CASE AckJob
  BY <1>12 DEF AckJob, outer, Typed, RedisTypes
<1>13. CASE \E ok \in BOOLEAN : Cleared(ok) \/ Undone(ok) \/ ControlReleased(ok)
  <2>1. UNCHANGED <<redis, gateway>>
    BY <1>13 DEF Cleared, Undone, ControlReleased
  <2> QED
    BY <2>1, RedisFrame DEF Typed
<1>14. CASE Worker \/ WorkerDies \/ StrayRead
  <2>1. UNCHANGED <<redis, gateway>>
    BY <1>14 DEF Worker, StartJob, ReportProgress, FinishJob, Quit, WorkerDies, StrayRead, others
  <2> QED
    BY <2>1, RedisFrame DEF Typed
<1>15. CASE Crash \/ Process
  <2>1. UNCHANGED <<redis, gateway>>
    BY <1>15 DEF Crash, Process, Closing, Closed, Restart, outer
  <2> QED
    BY <2>1, RedisFrame DEF Typed
<1>16. CASE Stop
  BY <1>16, StopTypes DEF Stop, Typed, RedisTypes
<1> QED
  BY <1>1, <1>2, <1>3, <1>4, <1>5, <1>6, <1>7, <1>8, <1>9, <1>10, <1>11, <1>12, <1>13, <1>14, <1>15,
     <1>16 DEF Next, BootstrapLoop, ControlLoop, JobLoop

LEMMA LoopFrame ==
    LoopTypes /\ UNCHANGED <<marks, up, current, at, result, tasksOf>> => LoopTypes'
BY DEF LoopTypes, marks, tasksOf

\* An outcome the Runner makes itself.
LEMMA MadeOutcome ==
    ASSUME NEW k \in Terminal, NEW j \in Job PROVE Msg(k, j) \in [kind : Terminal, of : Job]
BY DEF Msg

LEMMA ReceivedTyped ==
    ASSUME Typed, worker.out # <<>>
    PROVE  Head(worker.out) \in Message /\ Tail(worker.out) \in Seq(Message)
BY DEF Typed, ChildTypes, Child

\* Between two jobs the loop has none that is not acked, so it reads the next.
LEMMA ReadFacts ==
    ASSUME Typed, Hands, ReadJob
    PROVE  /\ tasks \in Session /\ pending[tasks] = Nobody /\ taken[tasks] \in Nat
           /\ taken[tasks] + 1 \in DOMAIN queue[tasks]
           /\ taken' = [taken EXCEPT ![tasks] = taken[tasks] + 1]
           /\ pending' = [pending EXCEPT ![tasks] = queue[tasks][taken[tasks] + 1]]
           /\ pending'[tasks] \in Job /\ pending'[tasks] = queue[tasks][taken[tasks] + 1]
<1>1. tasks \in Session /\ pending[tasks] = Nobody
  BY DEF ReadJob, Hands
<1>2. /\ taken[tasks] < Len(queue[tasks])
      /\ taken' = [taken EXCEPT ![tasks] = taken[tasks] + 1]
      /\ pending' = [pending EXCEPT ![tasks] = queue[tasks][taken[tasks] + 1]]
  BY <1>1 DEF ReadJob, job
<1>3. queue[tasks] \in Seq(Job) /\ taken[tasks] \in Nat
  BY <1>1 DEF Typed, RedisTypes
<1>4. taken[tasks] + 1 \in DOMAIN queue[tasks] /\ queue[tasks][taken[tasks] + 1] \in Job
  BY <1>2, <1>3
<1>5. pending'[tasks] = queue[tasks][taken[tasks] + 1]
  BY <1>1, <1>2 DEF Typed, RedisTypes
<1> QED
  BY <1>1, <1>2, <1>3, <1>4, <1>5

LEMMA LoopStep == ASSUME Typed, Hands, Next PROVE LoopTypes'
<1> USE DEF outer, tasksOf, marks
<1>1. CASE Gateway
  <2>1. ASSUME NEW i \in Id, Cancel(i) \/ TouchCancelFile(i) PROVE LoopTypes'
    BY <2>1 DEF Cancel, TouchCancelFile, runner, Typed, LoopTypes
  <2>2. ASSUME UNCHANGED <<marks, runner>> PROVE LoopTypes'
    BY <2>2, LoopFrame DEF runner, Typed
  <2>3. ASSUME NEW j \in Job, Dispatch(j) PROVE LoopTypes'
    BY <2>3 DEF Dispatch, runner, Typed, LoopTypes
  <2> QED
    BY <1>1, <2>1, <2>2, <2>3
       DEF Gateway, Acquire, LoadAnswered, Unload, UnloadAnswered, LoseLease
<1>2. CASE ReadBootstrap \/ Load \/ LoadReady \/ AckBootstrap \/ CacheResult \/ PublishResult
           \/ LoadFails
  BY <1>2 DEF ReadBootstrap, Load, LoadReady, AckBootstrap, CacheResult, PublishResult, LoadFails,
              Typed, LoopTypes
<1>3. CASE CheckBootstrap
  <2>1. result' \in {"ok", "failed"}
    <3>1. loading \in Session
      BY <1>3 DEF CheckBootstrap, Hands, Resting
    <3>2. cache["load"][loading] \in {"none", "ok", "failed"}
      BY <3>1 DEF Typed, RedisTypes, Result
    <3> QED
      BY <1>3, <3>2 DEF CheckBootstrap, Typed, LoopTypes
  <2> QED
    BY <1>3, <2>1 DEF CheckBootstrap, Typed, LoopTypes
<1>4. CASE Recheck
  <2>1. CASE lease # loading
    BY <1>4, <2>1 DEF Recheck, Typed, LoopTypes
  <2>2. CASE lease = loading
    <3>1. loading \in Session
      BY <1>4 DEF Recheck, Hands, Resting
    <3> QED
      BY <1>4, <2>2, <3>1, StopTypes DEF Recheck, Typed, LoopTypes
  <2> QED
    BY <2>1, <2>2
<1>5. CASE StartSlotTasks
  <2>1. loading \in Session
    BY <1>5 DEF StartSlotTasks, Hands, Resting
  <2> QED
    BY <1>5, <2>1 DEF StartSlotTasks, Typed, LoopTypes
<1>6. CASE ReleaseLocked("boot") \/ ReleaseLocked("control")
  <2>1. UNCHANGED <<marks, up, current, at, result, tasksOf>>
    BY <1>6 DEF ReleaseLocked
  <2> QED
    BY <2>1, LoopFrame DEF Typed
<1>7. CASE ReadControl \/ CacheControlResult \/ PublishControlResult \/ AckControl
  BY <1>7 DEF ReadControl, CacheControlResult, PublishControlResult, AckControl, Typed, LoopTypes
<1>8. CASE ReadJob \/ LockJob
  <2>1. tasks \in Session
    BY <1>8 DEF ReadJob, LockJob, Hands, WithJob
  <2>2. pending'[tasks] \in Job
    BY <1>8, ReadFacts DEF LockJob, Hands, WithJob
  <2>3. outcome' \in {outcome, Msg("failed", pending'[tasks])}
        /\ jobLoop' \in {"publish", "wait", "lock"}
    BY <1>8 DEF ReadJob, LockJob, SendRun, Fail
  <2>4. outcome' \in [kind : Terminal, of : Job] \cup {NoOutcome}
    BY <2>2, <2>3, MadeOutcome DEF Typed, LoopTypes, Terminal
  <2> QED
    BY <1>8, <2>3, <2>4 DEF ReadJob, LockJob, Typed, LoopTypes
<1>9. CASE ReceiveMessage
  <2>1. Head(worker.out) \in Message /\ job \in Job
    BY <1>9, ReceivedTyped DEF ReceiveMessage, Hands, WithJob, job
  <2>2. outcome' \in [kind : Terminal, of : Job] \cup {NoOutcome} /\ left' \subseteq Job
        /\ inflight' \subseteq Job /\ jobLoop' \in {"wait", "flush", "publish"}
    BY <1>9, <2>1 DEF ReceiveMessage, Message, Typed, LoopTypes
  <2> QED
    BY <1>9, <2>2 DEF ReceiveMessage, Typed, LoopTypes
<1>10. CASE ReceiveFails
  <2>1. job \in Job
    BY <1>10 DEF ReceiveFails, Hands, WithJob, job
  <2>2. outcome' \in [kind : Terminal, of : Job] \cup {NoOutcome} /\ left' \subseteq Job
    BY <1>10, <2>1, MadeOutcome DEF ReceiveFails, Terminal, Typed, LoopTypes
  <2> QED
    BY <1>10, <2>2 DEF ReceiveFails, Typed, LoopTypes
<1>11. CASE Flushed \/ PublishJobEvent \/ AckJob
  BY <1>11 DEF Flushed, PublishJobEvent, AckJob, Typed, LoopTypes
<1>12. ASSUME NEW j \in Job, PublishProgress(j) PROVE LoopTypes'
  BY <1>12 DEF PublishProgress, Typed, LoopTypes
<1>13. ASSUME NEW ok \in BOOLEAN, Cleared(ok) \/ Undone(ok) \/ ControlReleased(ok) PROVE LoopTypes'
  BY <1>13 DEF Cleared, Undone, ControlReleased, Typed, LoopTypes
<1>14. CASE StartJob
  <2>1. Head(worker.inbox) \in Job
    BY <1>14 DEF StartJob, Typed, ChildTypes, Child
  <2> QED
    BY <1>14, <2>1 DEF StartJob, others, Typed, LoopTypes
<1>15. CASE ReportProgress \/ FinishJob \/ Quit \/ WorkerDies \/ StrayRead
  <2>1. UNCHANGED <<marks, up, current, at, result, tasksOf>>
    BY <1>15 DEF ReportProgress, FinishJob, Quit, WorkerDies, StrayRead, others
  <2> QED
    BY <2>1, LoopFrame DEF Typed
<1>16. CASE Down /\ UNCHANGED marks
  BY <1>16 DEF Down, Typed, LoopTypes
<1>17. CASE Stop
  BY <1>17, StopTypes DEF Stop, Typed, LoopTypes
<1>18. CASE Process /\ ~Down
  <2>1. UNCHANGED <<marks, current, result, tasksOf>> /\ at' \in {at, "close"}
    BY <1>18 DEF Process, Closing, Closed, Restart
  <2>2. up' \in BOOLEAN
    <3>1. CASE Restart
      BY <3>1 DEF Restart
    <3>2. CASE Closing
      BY <1>18, <3>2 DEF Closing, Typed, LoopTypes
    <3> QED
      BY <1>18, <3>1, <3>2 DEF Process, Closed
  <2> QED
    BY <2>1, <2>2 DEF Typed, LoopTypes
<1>19. Crash \/ (Process /\ Down) => UNCHANGED marks /\ Down
  BY DEF Crash, Process, Closing, Closed, Restart
<1> QED
  BY <1>1, <1>2, <1>3, <1>4, <1>5, <1>6, <1>7, <1>8, <1>9, <1>10, <1>11, <1>12, <1>13, <1>14, <1>15,
     <1>16, <1>17, <1>18, <1>19 DEF Next, BootstrapLoop, ControlLoop, JobLoop, Worker

\* What the steps leave of the child: all of it, or a new one, or none.
Fresh == [st : {"none", "loading"}, inbox : {<<>>}, job : {Nobody}, told : {FALSE}, out : {<<>>},
          quit : {FALSE}]
SameWork(w) ==
    /\ w.inbox = worker.inbox /\ w.job = worker.job /\ w.out = worker.out
    /\ w.st = worker.st \/ (worker.st = "loading" /\ w.st = "idle")

LEMMA FreshTyped == NoWorker \in Fresh
                    /\ [NoWorker EXCEPT !.st = "loading"] \in Fresh /\ Fresh \subseteq Child
<1>1. <<>> \in Seq(Job) /\ <<>> \in Seq(Message)
  OBVIOUS
<1> QED
  BY <1>1 DEF NoWorker, Fresh, Child

LEMMA SameTyped ==
    ASSUME worker \in Child
    PROVE  /\ \A b \in BOOLEAN : LET w == [worker EXCEPT !.quit = b] IN w \in Child /\ SameWork(w)
           /\ worker.st = "loading" =>
                  LET w == [worker EXCEPT !.st = "idle"] IN w \in Child /\ SameWork(w)
           /\ SameWork(worker)
BY DEF Child, SameWork

LEMMA ChildFrame ==
    ChildTypes /\ UNCHANGED <<state, process, loaded, lock,
                     waiting, releasing, stray, worker, spent>>
        => ChildTypes'
BY DEF ChildTypes

LEMMA SpendTyped == ASSUME Typed, NEW k, Spend(k) PROVE spent' \in 0..Budget
BY DEF Spend, Typed, ChildTypes

LEMMA ShutdownTyped ==
    ASSUME Typed, NEW c \in {"boot", "control"}, Shutdown(c)
    PROVE  /\ worker' \in Child /\ SameWork(worker') /\ state' = "unloading" /\ lock' = c
           /\ releasing' \in [{"boot", "control"} -> {"none", "wait", "join"}]
<1>1. worker' = [worker EXCEPT !.quit = Alive] /\ Alive \in BOOLEAN
  BY DEF Shutdown, Alive
<1>2. worker' \in Child /\ SameWork(worker')
  BY <1>1, SameTyped DEF Typed, ChildTypes
<1> QED
  BY <1>2 DEF Shutdown, Typed, ChildTypes

LEMMA ReleaseTyped ==
    ASSUME Typed, NEW c \in {"boot", "control"}, Release(c)
    PROVE  /\ worker' \in Child /\ SameWork(worker')
           /\ state' \in {"unloading", "draining"} /\ lock' \in {lock, c}
           /\ waiting' \in Seq({"job", "boot", "control"})
           /\ releasing' \in [{"boot", "control"} -> {"none", "wait", "join"}]
<1>1. CASE Shutdown(c) /\ UNCHANGED waiting
  BY <1>1, ShutdownTyped DEF Typed, ChildTypes
<1>2. CASE /\ waiting' = Append(waiting, c)
           /\ releasing' = [releasing EXCEPT ![c] = "wait"]
           /\ state' = "draining" /\ UNCHANGED <<lock, worker>>
  <2>1. waiting' \in Seq({"job", "boot", "control"})
    BY <1>2 DEF Typed, ChildTypes
  <2> QED
    BY <1>2, <2>1, SameTyped DEF Typed, ChildTypes
<1> QED
  BY <1>1, <1>2 DEF Release

LEMMA ReleasedTyped ==
    ASSUME Typed, NEW c \in {"boot", "control"}, NEW ok \in BOOLEAN, Released(c, ok)
    PROVE  /\ lock' = "free" /\ waiting' \in Seq({"job", "boot", "control"}) /\ stray' = 0
           /\ releasing' \in [{"boot", "control"} -> {"none", "wait", "join"}]
           /\ spent' \in 0..Budget
<1>1. spent' \in 0..Budget
  BY SpendTyped DEF Released, Typed, ChildTypes
<1> QED
  BY <1>1 DEF Released, Typed, ChildTypes

LEMMA SendTyped ==
    ASSUME Typed, Hands, SendRun, pending'[tasks] \in Job
    PROVE  state' = "busy" /\ worker' \in Child /\ lock' \in {lock, "job"}
<1>1. CASE worker' = worker /\ lock' = lock
  BY <1>1 DEF SendRun, Typed, ChildTypes
<1>2. CASE worker' = [worker EXCEPT !.inbox = Append(worker.inbox, pending'[tasks])]
               /\ lock' = "job"
  <2>1. worker.inbox \in Seq(Job) /\ worker \in Child
    BY DEF Typed, ChildTypes, Child
  <2>2. Append(worker.inbox, pending'[tasks]) \in Seq(Job)
    BY <2>1
  <2>3. worker' \in Child
    BY <1>2, <2>1, <2>2 DEF Child
  <2> QED
    BY <1>2, <2>3 DEF SendRun
<1> QED
  BY <1>1, <1>2 DEF SendRun

LEMMA ChildStep == ASSUME Typed, Hands, Next PROVE ChildTypes'
<1> USE DEF supervisor
<1>1. CASE UNCHANGED <<supervisor, worker, spent>>
  BY <1>1, ChildFrame DEF Typed
<1>2. CASE Gateway
  <2>1. ASSUME NEW i \in Id, Cancel(i) PROVE ChildTypes'
    BY <2>1, SpendTyped DEF Cancel, runner, Typed, ChildTypes
  <2>3. ASSUME NEW j \in Job, Dispatch(j) PROVE ChildTypes'
    <3>1. UNCHANGED spent \/ Spend("timeout")
      BY <2>3 DEF Dispatch
    <3> QED
      BY <2>3, <3>1, SpendTyped DEF Dispatch, runner, Typed, ChildTypes
  <2>2. CASE LoseLease
    BY <2>2, SpendTyped DEF LoseLease, runner, Typed, ChildTypes
  <2> QED
    BY <1>1, <1>2, <2>1, <2>2, <2>3
       DEF Gateway, Acquire, LoadAnswered, Unload, UnloadAnswered, TouchCancelFile, runner
<1>3. CASE Load
  <2>1. loading \in Session
    BY <1>3 DEF Load, Hands, Resting
  <2>2. CASE Spawn(loading) /\ UNCHANGED <<loaded, lock, waiting, releasing, stray>>
    BY <1>3, <2>1, <2>2, FreshTyped DEF Load, Spawn, outer, Typed, ChildTypes
  <2>3. CASE Release("boot") /\ UNCHANGED <<process, loaded, stray>>
    BY <1>3, <2>3, ReleaseTyped DEF Load, outer, Typed, ChildTypes
  <2> QED
    BY <1>1, <1>3, <2>2, <2>3 DEF Load, outer
<1>4. ASSUME NEW ok \in BOOLEAN, Cleared(ok) PROVE ChildTypes'
  <2>1. loading \in Session
    BY <1>4 DEF Cleared, Hands, Resting
  <2> QED
    BY <1>4, <2>1, FreshTyped, ReleasedTyped DEF Cleared, Spawn, Typed, ChildTypes
<1>5. CASE LoadReady
  <2>1. loading \in Session
    BY <1>5 DEF LoadReady, Hands, Resting
  <2>2. worker' \in Child
    BY <1>5, SameTyped DEF LoadReady, Typed, ChildTypes
  <2> QED
    BY <1>5, <2>1, <2>2 DEF LoadReady, outer, Typed, ChildTypes
<1>6. CASE LoadFails
  <2>1. worker' \in Child /\ spent' \in 0..Budget
    BY <1>6, FreshTyped, SpendTyped DEF LoadFails, Typed, ChildTypes
  <2> QED
    BY <1>6, <2>1 DEF LoadFails, Typed, ChildTypes
<1>7. ASSUME StopSlotTasks, UNCHANGED <<process, loaded, worker>>, spent' \in 0..Budget
      PROVE  ChildTypes'
  <2>1. waiting' \in Seq({"job", "boot", "control"})
    BY <1>7 DEF StopSlotTasks
  <2>2. releasing' \in [{"boot", "control"} -> {"none", "wait", "join"}] /\ lock' = "free"
    BY <1>7 DEF StopSlotTasks, StopControl, Typed, ChildTypes
  <2>3. stray' \in Nat /\ state' \in {state, "ready", "error"}
    BY <1>7 DEF StopSlotTasks, Typed, ChildTypes
  <2> QED
    BY <1>7, <2>1, <2>2, <2>3 DEF Typed, ChildTypes
<1>8. CASE Recheck
  <2>1. CASE lease # loading
    BY <1>8, <2>1, ReleaseTyped DEF Recheck, Typed, ChildTypes
  <2>2. CASE lease = loading
    BY <1>7, <1>8, <2>2 DEF Recheck, Typed, ChildTypes
  <2> QED
    BY <2>1, <2>2
<1>9. ASSUME NEW ok \in BOOLEAN, Undone(ok) PROVE ChildTypes'
  BY <1>9, FreshTyped, ReleasedTyped DEF Undone, NoProcess, Typed, ChildTypes
<1>10. ASSUME NEW ok \in BOOLEAN, ControlReleased(ok) PROVE ChildTypes'
  BY <1>10, FreshTyped, ReleasedTyped DEF ControlReleased, NoProcess, Typed, ChildTypes
<1>11. ASSUME NEW c \in {"boot", "control"}, ReleaseLocked(c) PROVE ChildTypes'
  <2>1. waiting' \in Seq({"job", "boot", "control"})
    BY <1>11 DEF ReleaseLocked, Typed, ChildTypes
  <2> QED
    BY <1>11, <2>1, ShutdownTyped DEF ReleaseLocked, Typed, ChildTypes
<1>12. CASE ReadControl
  <2>1. CASE Release("control")
    BY <1>12, <2>1, ReleaseTyped DEF ReadControl, outer, Typed, ChildTypes
  <2> QED
    BY <1>1, <1>12, <2>1 DEF ReadControl, outer
<1>13. CASE ReadJob
  <2>0. waiting' = waiting \/ waiting' = Append(waiting, "job")
    BY <1>13 DEF ReadJob
  <2>1. waiting' \in Seq({"job", "boot", "control"})
    BY <2>0 DEF Typed, ChildTypes
  <2>2. CASE SendRun
    BY <1>13, <2>1, <2>2, ReadFacts, SendTyped DEF ReadJob, outer, Typed, ChildTypes
  <2> QED
    BY <1>13, <2>1, <2>2 DEF ReadJob, outer, Typed, ChildTypes
<1>14. CASE LockJob
  <2>1. waiting' \in Seq({"job", "boot", "control"})
    BY <1>14 DEF LockJob, Typed, ChildTypes
  <2>2. pending'[tasks] \in Job
    BY <1>14 DEF LockJob, Hands, WithJob
  <2> QED
    BY <1>14, <2>1, <2>2, SendTyped DEF LockJob, outer, Typed, ChildTypes
<1>15. CASE ReceiveMessage \/ ReceiveFails
  <2>1. worker' \in Child
    BY <1>15, ReceivedTyped DEF ReceiveMessage, ReceiveFails, Typed, ChildTypes, Child
  <2>2. spent' \in 0..Budget
    BY <1>15, SpendTyped DEF ReceiveMessage, ReceiveFails, Typed, ChildTypes
  <2> QED
    BY <1>15, <2>1, <2>2 DEF ReceiveMessage, ReceiveFails, Unlock, Typed, ChildTypes
<1>16. CASE Worker
  <2>1. spent' \in 0..Budget
    BY <1>16, SpendTyped
       DEF Worker, StartJob, ReportProgress, FinishJob, Quit, Typed, ChildTypes
  <2>2. worker' \in Child
    <3>1. worker \in Child /\ worker.inbox \in Seq(Job) /\ worker.out \in Seq(Message)
      BY DEF Typed, ChildTypes, Child
    <3>2. CASE StartJob
      <4>1. Head(worker.inbox) \in Job /\ Tail(worker.inbox) \in Seq(Job)
        BY <3>1, <3>2 DEF StartJob
      <4> QED
        BY <3>1, <3>2, <4>1 DEF StartJob, Child
    <3>3. worker.st = "busy" => worker.job \in Job
      BY <3>1 DEF Hands, Child
    <3>4. CASE ReportProgress
      <4>1. Msg("progress", worker.job) \in Message
        BY <3>3, <3>4 DEF ReportProgress, Msg, Message
      <4>2. Append(worker.out, Msg("progress", worker.job)) \in Seq(Message)
        BY <3>1, <4>1
      <4> QED
        BY <3>1, <3>4, <4>2 DEF ReportProgress, Child
    <3>5. CASE FinishJob
      <4> PICK kind \in Terminal :
             worker' = [worker EXCEPT !.st = "idle", !.job = Nobody,
                                      !.out = Append(worker.out, Msg(kind, worker.job))]
        BY <3>5 DEF FinishJob
      <4>1. Msg(kind, worker.job) \in Message
        BY <3>3, <3>5 DEF FinishJob, Msg, Message
      <4>2. Append(worker.out, Msg(kind, worker.job)) \in Seq(Message)
        BY <3>1, <4>1
      <4> QED
        BY <3>1, <4>2 DEF Child
    <3>6. CASE Quit
      BY <3>1, <3>6 DEF Quit, Child
    <3> QED
      BY <1>16, <3>2, <3>4, <3>5, <3>6 DEF Worker
  <2> QED
    BY <1>16, <2>1, <2>2
       DEF Worker, StartJob, ReportProgress, FinishJob, Quit, Typed, ChildTypes
<1>17. CASE WorkerDies
  <2>1. worker' \in Child
    <3>1. worker \in Child /\ <<>> \in Seq(Job)
      BY DEF Typed, ChildTypes
    <3> QED
      BY <1>17, <3>1 DEF WorkerDies, Child
  <2> QED
    BY <1>17, <2>1, SpendTyped DEF WorkerDies, Typed, ChildTypes
<1>18. CASE StrayRead
  <2>1. worker' \in Child
    BY <1>18, ReceivedTyped DEF StrayRead, Typed, ChildTypes, Child
  <2>2. stray' \in Nat
    BY <1>18 DEF StrayRead, Typed, ChildTypes
  <2> QED
    BY <1>18, <2>1, <2>2 DEF StrayRead, Typed, ChildTypes
<1>19. ASSUME Down, spent' \in 0..Budget PROVE ChildTypes'
  BY <1>19, FreshTyped DEF Down, ChildTypes
<1>20. CASE Crash
  BY <1>19, <1>20, SpendTyped DEF Crash
<1>21. CASE Stop
  BY <1>7, <1>21, SpendTyped DEF Stop
<1>22. CASE Process
  <2>1. spent' \in 0..Budget
    BY <1>22 DEF Process, Closing, Closed, Restart, outer, Typed, ChildTypes
  <2>2. CASE Closing /\ ~Down
    BY <2>1, <2>2, ReleaseTyped DEF Closing, Typed, ChildTypes
  <2>3. CASE Restart
    BY <1>1, <2>3 DEF Restart, outer
  <2> QED
    BY <1>19, <1>22, <2>1, <2>2, <2>3 DEF Process, Closing, Closed
<1>23. CASE \/ ReadBootstrap \/ CheckBootstrap \/ StartSlotTasks \/ CacheResult \/ PublishResult
            \/ AckBootstrap \/ CacheControlResult \/ PublishControlResult \/ AckControl
            \/ Flushed \/ PublishJobEvent \/ AckJob
  <2>1. UNCHANGED <<supervisor, worker, spent>>
    BY <1>23 DEF ReadBootstrap, CheckBootstrap, StartSlotTasks, CacheResult, PublishResult,
                 AckBootstrap, CacheControlResult, PublishControlResult, AckControl, Flushed,
                 PublishJobEvent, AckJob, outer
  <2> QED
    BY <1>1, <2>1
<1>24. ASSUME NEW j \in Job, PublishProgress(j) PROVE ChildTypes'
  BY <1>1, <1>24 DEF PublishProgress, outer
<1> QED
  BY <1>2, <1>3, <1>4, <1>5, <1>6, <1>8, <1>9, <1>10, <1>11, <1>12, <1>13, <1>14, <1>15, <1>16,
     <1>17, <1>18, <1>20, <1>21, <1>22, <1>23, <1>24 DEF Next, BootstrapLoop, ControlLoop, JobLoop

LEMMA TypesStep == ASSUME Typed, Hands, [Next]_vars PROVE Typed'
<1>1. CASE UNCHANGED vars
  BY <1>1, RedisFrame, LoopFrame, ChildFrame DEF vars, supervisor, Typed
<1> QED
  BY <1>1, RedisStep, LoopStep, ChildStep DEF Typed

-----------------------------------------------------------------------------
(***************************************************************************)
(* The steps, as the jobs see them.                                        *)
(***************************************************************************)
jobVars == <<queue, taken, pending, prepared, jobLoop, tasks, outcome, events, inflight, left>>

\* The child works on, or there is a new one or none.
Elsewhere ==
    /\ UNCHANGED jobVars
    /\ \/ worker' \in Fresh
       \/ /\ worker'.inbox = worker.inbox /\ worker'.job = worker.job /\ worker'.out = worker.out

Stops ==
    /\ StopSlotTasks
    /\ UNCHANGED <<queue, taken, prepared, tasks, inflight, worker>>

Ends == Down /\ UNCHANGED <<queue, taken, pending, prepared, events, left>>

LoopMoves  == ReadJob \/ LockJob \/ ReceiveMessage \/ ReceiveFails
              \/ Flushed \/ PublishJobEvent \/ AckJob
ChildMoves == StartJob \/ ReportProgress \/ FinishJob \/ WorkerDies \/ StrayRead

LEMMA WorksOn == ASSUME UNCHANGED jobVars, UNCHANGED worker \/ SameWork(worker') PROVE Elsewhere
BY DEF Elsewhere, SameWork

LEMMA JobSteps ==
    ASSUME Typed, Next
    PROVE  \/ Elsewhere \/ Stops \/ Ends \/ StartSlotTasks \/ LoopMoves \/ ChildMoves
           \/ \E j \in Job : Dispatch(j) \/ PublishProgress(j)
<1> USE DEF jobVars, redis, streams, answers, outer, marks, tasksOf
<1>1. CASE Gateway
  <2>1. CASE UNCHANGED jobVars /\ UNCHANGED worker
    BY <2>1, WorksOn
  <2> QED
    BY <1>1, <2>1 DEF Gateway, Acquire, LoadAnswered, Unload, UnloadAnswered, LoseLease, Cancel,
                      TouchCancelFile, runner
<1>2. CASE \/ ReadBootstrap \/ CheckBootstrap \/ CacheResult \/ PublishResult \/ AckBootstrap
           \/ CacheControlResult \/ PublishControlResult \/ AckControl
  <2>1. UNCHANGED jobVars /\ UNCHANGED worker
    BY <1>2 DEF ReadBootstrap, CheckBootstrap, CacheResult, PublishResult, AckBootstrap,
                CacheControlResult, PublishControlResult, AckControl
  <2> QED
    BY <2>1, WorksOn
<1>3. CASE Load
  <2>1. UNCHANGED jobVars
    BY <1>3 DEF Load
  <2> QED
    BY <1>3, <2>1, WorksOn, ReleaseTyped, FreshTyped DEF Load, Spawn, Elsewhere
<1>4. ASSUME NEW ok \in BOOLEAN, Cleared(ok) PROVE Elsewhere
  BY <1>4, FreshTyped DEF Cleared, Spawn, Elsewhere
<1>5. CASE LoadReady
  <2>1. SameWork(worker') /\ UNCHANGED jobVars
    BY <1>5, SameTyped DEF LoadReady, Typed, ChildTypes
  <2> QED
    BY <2>1, WorksOn
<1>6. CASE LoadFails
  <2>1. UNCHANGED jobVars
    BY <1>6 DEF LoadFails
  <2> QED
    BY <1>6, <2>1, WorksOn, FreshTyped DEF LoadFails, Elsewhere
<1>7. CASE Recheck
  <2>1. CASE lease # loading
    <3>1. UNCHANGED jobVars /\ SameWork(worker')
      BY <1>7, <2>1, ReleaseTyped DEF Recheck
    <3> QED
      BY <3>1, WorksOn
  <2>2. CASE lease = loading
    BY <1>7, <2>2 DEF Recheck, Stops
  <2> QED
    BY <2>1, <2>2
<1>8. ASSUME NEW ok \in BOOLEAN, Undone(ok) \/ ControlReleased(ok) PROVE Elsewhere
  BY <1>8, FreshTyped DEF Undone, ControlReleased, NoProcess, Elsewhere
<1>9. ASSUME NEW c \in {"boot", "control"}, ReleaseLocked(c) PROVE Elsewhere
  <2>1. UNCHANGED jobVars /\ SameWork(worker')
    BY <1>9, ShutdownTyped DEF ReleaseLocked
  <2> QED
    BY <2>1, WorksOn
<1>10. CASE ReadControl
  <2>1. UNCHANGED jobVars
    BY <1>10 DEF ReadControl
  <2> QED
    BY <1>10, <2>1, WorksOn, ReleaseTyped DEF ReadControl
<1>11. CASE Quit
  <2>1. /\ UNCHANGED jobVars
        /\ worker'.inbox = worker.inbox /\ worker'.job = worker.job /\ worker'.out = worker.out
    BY <1>11 DEF Quit, others, Typed, ChildTypes, Child
  <2> QED
    BY <2>1 DEF Elsewhere
<1>12. CASE Crash \/ Process
  <2>1. CASE Down
    BY <1>12, <2>1 DEF Crash, Process, Closing, Closed, Restart, Ends
  <2>2. CASE Restart
    BY <2>2, WorksOn DEF Restart, supervisor
  <2>3. CASE Closing /\ Release("boot") /\ UNCHANGED <<tasksOf, redis, outer>>
    BY <2>3, WorksOn, ReleaseTyped
  <2> QED
    BY <1>12, <2>1, <2>2, <2>3 DEF Crash, Process, Closing, Closed
<1>13. CASE Stop
  BY <1>13 DEF Stop, Stops
<1> QED
  BY <1>1, <1>2, <1>3, <1>4, <1>5, <1>6, <1>7, <1>8, <1>9, <1>10, <1>11, <1>12, <1>13
     DEF Next, BootstrapLoop, ControlLoop, JobLoop, Worker, LoopMoves, ChildMoves, Gateway

-----------------------------------------------------------------------------
(***************************************************************************)
(* What the loops have in hand.                                            *)
(***************************************************************************)
LEMMA HandsAt == ASSUME Typed, Hands, Next PROVE at' \notin Resting => loading' \in Session
<1> USE DEF Hands, Resting, outer, redis, streams
<1>1. CASE UNCHANGED <<at, loading>>
  BY <1>1
<1>2. CASE ReadBootstrap
  BY <1>2 DEF ReadBootstrap, Typed, RedisTypes
<1>3. CASE \/ CheckBootstrap \/ Load \/ LoadReady \/ LoadFails \/ Recheck \/ StartSlotTasks
           \/ CacheResult \/ PublishResult \/ AckBootstrap
  BY <1>3 DEF CheckBootstrap, Load, LoadReady, LoadFails, Recheck, StartSlotTasks, CacheResult,
              PublishResult, AckBootstrap
<1>4. ASSUME NEW ok \in BOOLEAN, Cleared(ok) \/ Undone(ok)
      PROVE  at' \notin Resting => loading' \in Session
  BY <1>4 DEF Cleared, Undone
<1>5. CASE Down \/ Stop \/ Closing
  BY <1>5 DEF Down, Stop, Closing
<1>6. CASE Gateway
  BY <1>1, <1>6 DEF Gateway, Acquire, LoadAnswered, Dispatch, Unload, UnloadAnswered, LoseLease,
                    Cancel, TouchCancelFile, runner
<1>7. CASE ControlLoop \/ ReleaseLocked("boot") \/ \E ok \in BOOLEAN : ControlReleased(ok)
  BY <1>1, <1>7 DEF ControlLoop, ReadControl, CacheControlResult, PublishControlResult, AckControl,
                    ReleaseLocked, ControlReleased
<1>8. CASE JobLoop \/ ReceiveFails \/ \E j \in Job : PublishProgress(j)
  BY <1>1, <1>8 DEF JobLoop, ReadJob, LockJob, ReceiveMessage, Flushed, PublishJobEvent, AckJob,
                    ReceiveFails, PublishProgress
<1>9. CASE Worker \/ WorkerDies \/ StrayRead \/ Restart
  BY <1>1, <1>9 DEF Worker, StartJob, ReportProgress, FinishJob, Quit, WorkerDies, StrayRead,
                    others, Restart
<1> QED
  BY <1>2, <1>3, <1>4, <1>5, <1>6, <1>7, <1>8, <1>9
     DEF Next, BootstrapLoop, Process, Crash, Closed

\* The control loop moves only while it runs.
LEMMA ControlRuns ==
    ASSUME LockInv, Next
    PROVE  \/ StartSlotTasks
           \/ control' # "off" => control # "off" /\ tasks' = tasks
<1> USE DEF tasksOf, outer
<1>1. CASE UNCHANGED <<control, tasks>>
  BY <1>1
<1>2. CASE ControlLoop
  BY <1>2 DEF ControlLoop, ReadControl, CacheControlResult, PublishControlResult, AckControl,
              ReleaseLocked
<1>3. ASSUME NEW ok \in BOOLEAN, ControlReleased(ok) PROVE control # "off" /\ tasks' = tasks
  BY <1>3 DEF ControlReleased, Released, LockInv, ControlReleases
<1>4. CASE Down \/ Stop
  BY <1>4 DEF Down, Stop, StopSlotTasks, StopControl
<1>5. CASE Recheck
  BY <1>5 DEF Recheck, StopSlotTasks, StopControl
<1>6. CASE Gateway
  BY <1>1, <1>6 DEF Gateway, Acquire, LoadAnswered, Dispatch, Unload, UnloadAnswered, LoseLease,
                    Cancel, TouchCancelFile, runner
<1>7. CASE \/ ReadBootstrap \/ CheckBootstrap \/ Load \/ LoadReady \/ LoadFails \/ CacheResult
           \/ PublishResult \/ AckBootstrap \/ ReleaseLocked("boot")
           \/ \E ok \in BOOLEAN : Cleared(ok) \/ Undone(ok)
  BY <1>1, <1>7 DEF ReadBootstrap, CheckBootstrap, Load, LoadReady, LoadFails, CacheResult,
                    PublishResult, AckBootstrap, ReleaseLocked, Cleared, Undone
<1>8. CASE JobLoop \/ ReceiveFails \/ \E j \in Job : PublishProgress(j)
  BY <1>1, <1>8 DEF JobLoop, ReadJob, LockJob, ReceiveMessage, Flushed, PublishJobEvent, AckJob,
                    ReceiveFails, PublishProgress
<1>9. CASE Worker \/ WorkerDies \/ StrayRead \/ Restart \/ (Closing /\ ~Down)
  BY <1>1, <1>9 DEF Worker, StartJob, ReportProgress, FinishJob, Quit, WorkerDies, StrayRead,
                    others, Restart, Closing
<1> QED
  BY <1>2, <1>3, <1>4, <1>5, <1>6, <1>7, <1>8, <1>9
     DEF Next, BootstrapLoop, Process, Crash, Closed

\* A slot whose LOAD has no answer has no job.
LEMMA NoJobYet ==
    ASSUME Typed, Hands, Loads, Streams, StartSlotTasks
    PROVE  loading \in Session /\ pending[loading] = Nobody
<1>1. loading \in Session /\ cache["load"][loading] = "none"
  BY DEF StartSlotTasks, Hands, Resting, Loads, InLoad
<1>2. queue[loading] = <<>>
  BY <1>1 DEF Loads
<1>3. taken[loading] = 0
  BY <1>1, <1>2 DEF Streams
<1>4. ASSUME pending[loading] # Nobody PROVE FALSE
  <2>1. SlotOf[pending[loading]] = loading /\ Delivered(pending[loading])
    BY <1>1, <1>4 DEF Streams
  <2> QED
    BY <1>3, <2>1 DEF Delivered
<1> QED
  BY <1>1, <1>4

JobHands ==
    /\ jobLoop # "off" => tasks \in Session
    /\ jobLoop \in WithJob => pending[tasks] \in Job
    /\ jobLoop = "idle" => pending[tasks] = Nobody
    /\ jobLoop = "flush" => outcome.kind = "succeeded"
    /\ jobLoop \in {"publish", "ack"} => outcome.kind \in Terminal

\* How StopSlotTasks leaves the job loop.
LEMMA StoppedJob ==
    ASSUME Typed, Hands, Stops
    PROVE  \/ jobLoop' = "off" /\ UNCHANGED events
              /\ pending' \in {pending, [pending EXCEPT ![tasks] = Nobody]}
           \/ /\ jobLoop \in WithJob /\ jobLoop' \in {"publish", "ack"}
              /\ tasks' = tasks /\ tasks \in Session /\ pending' = pending
              /\ pending[tasks] \in Job /\ outcome' = Msg("cancelled", pending[tasks])
              /\ events' = events \/ (PublishOutcome /\ jobLoop = "publish")
              /\ jobLoop' = "publish" => (jobLoop = "publish" => outcome.kind = "succeeded")
<1>1. StopJob /\ tasks' = tasks
  BY DEF Stops, StopSlotTasks
<1>2. CASE jobLoop \in {"off", "idle"}
  BY <1>1, <1>2 DEF StopJob
<1>3. CASE jobLoop = "ack"
  BY <1>1, <1>3 DEF StopJob
<1>4. CASE jobLoop \in WithJob \ {"ack"}
  <2>1. tasks \in Session /\ pending[tasks] \in Job
    BY <1>4 DEF Hands, WithJob
  <2> QED
    BY <1>1, <1>4, <2>1 DEF StopJob, WithJob
<1> QED
  BY <1>2, <1>3, <1>4 DEF WithJob, Typed, LoopTypes

\* The loop has a job, the one it had or the one it has just read.
LEMMA Sends ==
    ASSUME Typed, Hands, ReadJob \/ LockJob
    PROVE  /\ tasks' = tasks /\ tasks \in Session /\ pending'[tasks] \in Job
           /\ jobLoop \in {"idle", "lock"} /\ UNCHANGED <<queue, prepared, events, inflight, left>>
           /\ \/ /\ jobLoop' = "wait" /\ process # Nobody /\ Alive
                 /\ worker' = [worker EXCEPT !.inbox = Append(worker.inbox, pending'[tasks])]
              \/ /\ jobLoop' = "publish" /\ outcome' = Msg("failed", pending'[tasks])
                 /\ worker' = worker
              \/ jobLoop' = "lock" /\ jobLoop = "idle" /\ worker' = worker
           /\ jobLoop = "lock" => UNCHANGED <<taken, pending>>
<1> USE DEF outer, marks, answers, redis
<1>1. CASE ReadJob
  <2>1. pending'[tasks] \in Job /\ tasks \in Session
    BY <1>1, ReadFacts
  <2> QED
    BY <1>1, <2>1 DEF ReadJob, SendRun, Fail
<1>2. CASE LockJob
  <2>1. pending[tasks] \in Job /\ tasks \in Session
    BY <1>2 DEF LockJob, Hands, WithJob
  <2> QED
    BY <1>2, <2>1 DEF LockJob, SendRun, Fail
<1> QED
  BY <1>1, <1>2

LEMMA HandsJob == ASSUME Typed, Hands, Loads, Streams, Next PROVE JobHands'
<1>1. ASSUME UNCHANGED <<jobLoop, tasks, pending, outcome>> PROVE JobHands'
  BY <1>1 DEF Hands, JobHands
<1>2. CASE Elsewhere
  BY <1>1, <1>2 DEF Elsewhere, jobVars
<1>3. CASE Stops
  <2>1. Msg("cancelled", pending[tasks]).kind = "cancelled"
    BY DEF Msg
  <2> QED
    BY <1>3, <2>1, StoppedJob DEF JobHands, WithJob, Terminal
<1>4. CASE Ends
  BY <1>4 DEF Ends, Down, JobHands, WithJob
<1>5. CASE StartSlotTasks
  <2>1. UNCHANGED pending
    BY <1>5 DEF StartSlotTasks, redis, streams
  <2> QED
    BY <1>5, <2>1, NoJobYet DEF StartSlotTasks, JobHands, WithJob
<1>6. CASE ReadJob \/ LockJob
  <2>1. Msg("failed", pending'[tasks]).kind = "failed"
    BY DEF Msg
  <2> QED
    BY <1>6, <2>1, Sends DEF JobHands, WithJob, Terminal
<1>7. CASE ReceiveMessage
  <2>1. UNCHANGED <<pending, tasks>> /\ jobLoop = "wait"
    BY <1>7 DEF ReceiveMessage, redis, streams
  <2>2. tasks \in Session /\ pending[tasks] \in Job
    BY <2>1 DEF Hands, WithJob
  <2>3. Head(worker.out).kind \in {"progress", "succeeded", "failed", "cancelled"}
    BY <1>7, ReceivedTyped DEF ReceiveMessage, Message, Terminal
  <2> QED
    BY <1>7, <2>1, <2>2, <2>3 DEF ReceiveMessage, JobHands, WithJob, Terminal
<1>8. CASE ReceiveFails
  <2>1. UNCHANGED <<pending, tasks>> /\ jobLoop = "wait" /\ jobLoop' = "publish"
        /\ outcome' = Msg("failed", pending[tasks])
    BY <1>8 DEF ReceiveFails, redis, streams, job
  <2>2. tasks \in Session /\ pending[tasks] \in Job
    BY <2>1 DEF Hands, WithJob
  <2>3. Msg("failed", pending[tasks]).kind = "failed"
    BY DEF Msg
  <2> QED
    BY <2>1, <2>2, <2>3 DEF JobHands, WithJob, Terminal
<1>9. CASE Flushed \/ PublishJobEvent
  <2>1. UNCHANGED <<pending, tasks, outcome>>
    BY <1>9 DEF Flushed, PublishJobEvent, redis, streams
  <2> QED
    BY <1>9, <2>1 DEF Flushed, PublishJobEvent, Hands, JobHands, WithJob, Terminal
<1>10. CASE AckJob
  <2>1. tasks \in Session
    BY <1>10 DEF AckJob, Hands
  <2> QED
    BY <1>10, <2>1 DEF AckJob, JobHands, WithJob, Typed, RedisTypes
<1>11. CASE ChildMoves \/ \E j \in Job : Dispatch(j) \/ PublishProgress(j)
  <2>1. UNCHANGED <<jobLoop, tasks, pending, outcome>>
    BY <1>11 DEF ChildMoves, StartJob, ReportProgress, FinishJob, WorkerDies, StrayRead, others,
                 Dispatch, PublishProgress, runner, tasksOf, redis, streams
  <2> QED
    BY <1>1, <2>1
<1> QED
  BY <1>2, <1>3, <1>4, <1>5, <1>6, <1>7, <1>8, <1>9, <1>10, <1>11, JobSteps DEF LoopMoves

ChildHands ==
    /\ worker.st = "busy" <=> worker.job # Nobody
    /\ worker.st \in {"dead", "none"} => worker.inbox = <<>>
    /\ process = Nobody => worker = NoWorker

\* A child without a process does not notice that it should end.
LEMMA SameHands ==
    ASSUME Typed, Hands, UNCHANGED process,
           UNCHANGED worker \/ worker' = [worker EXCEPT !.quit = Alive]
    PROVE  ChildHands'
<1>1. worker \in Child
  BY DEF Typed, ChildTypes
<1>2. CASE worker' = worker
  BY <1>2 DEF Hands, ChildHands
<1>3. CASE worker' = [worker EXCEPT !.quit = Alive]
  <2>1. worker'.st = worker.st /\ worker'.job = worker.job /\ worker'.inbox = worker.inbox
    BY <1>1, <1>3 DEF Child
  <2>2. ASSUME process' = Nobody PROVE worker' = NoWorker
    <3>1. worker = NoWorker
      BY <2>2 DEF Hands
    <3>2. Alive = FALSE
      BY <3>1 DEF Alive, NoWorker
    <3> QED
      BY <1>3, <3>1, <3>2 DEF NoWorker
  <2> QED
    BY <2>1, <2>2 DEF Hands, ChildHands
<1> QED
  BY <1>2, <1>3

LEMMA FreshHands ==
    ASSUME \/ worker' = NoWorker
           \/ worker' = [NoWorker EXCEPT !.st = "loading"] /\ process' \in Session
    PROVE  ChildHands'
BY NotSession DEF ChildHands, NoWorker

\* Steps that leave the child its process, its state and its job.
LEMMA PipeHands ==
    ASSUME Typed, Hands, UNCHANGED process, process # Nobody, worker'.st = worker.st,
           worker'.job = worker.job, worker'.inbox = worker.inbox \/ Alive
    PROVE  ChildHands'
<1>1. worker'.st \in {"dead", "none"} => worker'.inbox = <<>>
  BY DEF Hands, Alive
<1> QED
  BY <1>1 DEF Hands, ChildHands

LEMMA HandsChild == ASSUME Typed, Hands, Next PROVE ChildHands'
<1>0. worker \in Child /\ (process = Nobody => worker.st = "none" /\ worker.out = <<>>)
  BY DEF Typed, ChildTypes, Hands, NoWorker
<1>1. CASE UNCHANGED <<process, worker>>
  BY <1>1, SameHands
<1>2. CASE Gateway
  BY <1>1, <1>2 DEF Gateway, Acquire, LoadAnswered, Dispatch, Unload, UnloadAnswered, LoseLease,
                    Cancel, TouchCancelFile, runner, supervisor
<1>3. CASE \/ ReadBootstrap \/ CheckBootstrap \/ CacheResult \/ PublishResult \/ AckBootstrap
           \/ StartSlotTasks \/ CacheControlResult \/ PublishControlResult \/ AckControl
           \/ Flushed \/ PublishJobEvent \/ AckJob \/ ReceiveFails \/ Stop
           \/ Restart \/ \E j \in Job : PublishProgress(j)
  <2>1. UNCHANGED <<process, worker>>
    BY <1>3 DEF ReadBootstrap, CheckBootstrap, CacheResult, PublishResult, AckBootstrap,
                StartSlotTasks, CacheControlResult, PublishControlResult, AckControl, Flushed,
                PublishJobEvent, AckJob, ReceiveFails, Stop, Restart, PublishProgress, supervisor
  <2> QED
    BY <1>1, <2>1
<1>4. ASSUME NEW c \in {"boot", "control"}, Release(c) \/ Shutdown(c), UNCHANGED process
      PROVE  ChildHands'
  <2>1. UNCHANGED worker \/ worker' = [worker EXCEPT !.quit = Alive]
    BY <1>4 DEF Release, Shutdown
  <2> QED
    BY <1>4, <2>1, SameHands
<1>5. ASSUME NEW c \in {"boot", "control"}, ReleaseLocked(c) PROVE ChildHands'
  BY <1>4, <1>5 DEF ReleaseLocked
<1>6. CASE Load
  <2>1. loading \in Session
    BY <1>6 DEF Load, Hands, Resting
  <2> QED
    BY <1>1, <1>4, <1>6, <2>1, FreshHands DEF Load, Spawn, supervisor
<1>7. ASSUME NEW ok \in BOOLEAN, Cleared(ok) PROVE ChildHands'
  <2>1. loading \in Session
    BY <1>7 DEF Cleared, Hands, Resting
  <2> QED
    BY <1>7, <2>1, FreshHands DEF Cleared, Spawn
<1>8. CASE LoadReady
  <2>1. worker'.st = "idle" /\ worker'.job = worker.job /\ process' # Nobody
    BY <1>0, <1>8 DEF LoadReady, Child
  <2>2. worker.st = "loading"
    BY <1>8 DEF LoadReady
  <2> QED
    BY <2>1, <2>2 DEF Hands, ChildHands
<1>9. CASE LoadFails
  BY <1>1, <1>9, FreshHands DEF LoadFails
<1>10. CASE Recheck
  <2>1. UNCHANGED process /\ (Release("boot") \/ UNCHANGED worker)
    BY <1>10 DEF Recheck
  <2> QED
    BY <1>1, <1>4, <2>1
<1>11. ASSUME NEW ok \in BOOLEAN, Undone(ok) \/ ControlReleased(ok) PROVE ChildHands'
  BY <1>11, FreshHands DEF Undone, ControlReleased, NoProcess
<1>12. CASE ReadControl
  <2>1. UNCHANGED process /\ (Release("control") \/ UNCHANGED worker)
    BY <1>12 DEF ReadControl
  <2> QED
    BY <1>1, <1>4, <2>1
<1>13. CASE ReadJob \/ LockJob
  <2>1. UNCHANGED process
    BY <1>13 DEF ReadJob, LockJob
  <2>2. CASE worker' = [worker EXCEPT !.inbox = Append(worker.inbox, pending'[tasks])]
             /\ process # Nobody /\ Alive
    <3>1. worker'.st = worker.st /\ worker'.job = worker.job
      BY <1>0, <2>2 DEF Child
    <3> QED
      BY <2>1, <2>2, <3>1, PipeHands
  <2> QED
    BY <1>1, <1>13, <2>1, <2>2, Sends
<1>14. CASE ReceiveMessage \/ StrayRead
  <2>1. UNCHANGED process /\ worker.out # <<>> /\ worker' = [worker EXCEPT !.out = Tail(worker.out)]
    BY <1>14 DEF ReceiveMessage, StrayRead
  <2>2. worker'.st = worker.st /\ worker'.job = worker.job /\ worker'.inbox = worker.inbox
    BY <1>0, <2>1 DEF Child
  <2> QED
    BY <1>0, <2>1, <2>2, PipeHands
<1>15. CASE StartJob
  <2>1. Head(worker.inbox) \in Job
    BY <1>0, <1>15 DEF StartJob, Child
  <2>2. UNCHANGED process /\ worker'.st = "busy" /\ worker'.job = Head(worker.inbox)
    BY <1>0, <1>15 DEF StartJob, supervisor, Child
  <2> QED
    BY <1>0, <1>15, <2>1, <2>2, NotSession DEF StartJob, ChildHands
<1>16. CASE ReportProgress
  <2>1. UNCHANGED process /\ worker.st = "busy"
        /\ worker'.st = worker.st /\ worker'.job = worker.job /\ worker'.inbox = worker.inbox
    BY <1>0, <1>16 DEF ReportProgress, supervisor, Child
  <2> QED
    BY <1>0, <2>1, PipeHands
<1>17. CASE FinishJob
  <2>1. UNCHANGED process /\ worker'.st = "idle" /\ worker'.job = Nobody
    BY <1>0, <1>17 DEF FinishJob, supervisor, Child
  <2> QED
    BY <1>0, <1>17, <2>1 DEF FinishJob, ChildHands
<1>18. CASE Quit
  <2>1. /\ UNCHANGED process /\ worker'.st = "dead" /\ worker'.job = worker.job
        /\ worker'.inbox = worker.inbox /\ worker.inbox = <<>> /\ worker.st = "idle"
    BY <1>0, <1>18 DEF Quit, supervisor, Child
  <2> QED
    BY <1>0, <2>1 DEF Hands, ChildHands
<1>19. CASE WorkerDies
  <2>1. /\ UNCHANGED process /\ worker'.st = "dead" /\ worker'.job = Nobody
        /\ worker'.inbox = <<>> /\ worker.st # "none"
    BY <1>0, <1>19 DEF WorkerDies, supervisor, Child, Alive
  <2> QED
    BY <1>0, <2>1 DEF ChildHands
<1>20. CASE Crash \/ Closed \/ Closing
  <2>1. CASE Down
    BY <2>1, FreshHands DEF Down
  <2>2. CASE Closing /\ ~Down
    BY <1>4, <2>2 DEF Closing
  <2> QED
    BY <1>20, <2>1, <2>2 DEF Crash, Closed
<1> QED
  BY <1>2, <1>3, <1>5, <1>6, <1>7, <1>8, <1>9, <1>10, <1>11, <1>12, <1>13, <1>14, <1>15, <1>16,
     <1>17, <1>18, <1>19, <1>20 DEF Next, BootstrapLoop, ControlLoop, JobLoop, Worker, Process

LEMMA HandsStep ==
    ASSUME LockInv, Typed, Hands, Loads, Streams, [Next]_vars
    PROVE  Hands'
<1>1. CASE UNCHANGED vars
  BY <1>1 DEF vars, tasksOf, redis, streams, supervisor, Hands
<1>2. CASE Next
  <2>1. /\ at' \notin Resting => loading' \in Session
        /\ JobHands' /\ ChildHands'
    BY <1>2, HandsAt, HandsJob, HandsChild
  <2>2. control' # "off" => tasks' \in Session
    BY <1>2, ControlRuns, NoJobYet DEF StartSlotTasks, Hands
  <2> QED
    BY <2>1, <2>2 DEF Hands, JobHands, ChildHands
<1> QED
  BY <1>1, <1>2

-----------------------------------------------------------------------------
(***************************************************************************)
(* A job is read from its stream once.                                     *)
(***************************************************************************)
LEMMA NewJob ==
    ASSUME Typed, Hands, Streams, ReadJob
    PROVE  /\ ~Delivered(pending'[tasks]) /\ SlotOf[pending'[tasks]] = tasks
           /\ \A j \in Job : Delivered(j) \/ j = pending'[tasks] => Delivered(j)'
           /\ \A s \in Session : taken'[s] \in 0..Len(queue[s])
<1> DEFINE k == pending'[tasks]
           n == taken[tasks] + 1
           q == queue[tasks]
<1>1. /\ tasks \in Session /\ n \in DOMAIN q /\ k = q[n] /\ k \in Job
      /\ taken' = [taken EXCEPT ![tasks] = n] /\ taken[tasks] \in Nat
  BY ReadFacts
<1>2. q \in Seq(Job) /\ taken \in [Session -> Nat] /\ UNCHANGED queue
  BY <1>1 DEF Typed, RedisTypes, ReadJob
<1>3. SlotOf[k] = tasks /\ Distinct(q)
  <2>1. k \in Elements(q)
    BY <1>1 DEF Elements
  <2> QED
    BY <1>1, <2>1 DEF Streams
<1>4. taken'[tasks] = n /\ \A s \in Session : s # tasks => taken'[s] = taken[s]
  BY <1>1, <1>2
<1>5. ~Delivered(k)
  <2>1. ASSUME NEW i \in 1..taken[tasks], q[i] = k PROVE FALSE
    <3>1. taken[tasks] < Len(q) /\ i \in DOMAIN q /\ i # n
      BY <1>1, <1>2
    <3> QED
      BY <1>1, <1>3, <2>1, <3>1 DEF Distinct
  <2> QED
    BY <1>3, <2>1 DEF Delivered
<1>6. n \in 1..n /\ 1..taken[tasks] \subseteq 1..n
  BY <1>1
<1>7. ASSUME NEW j \in Job, j = k PROVE Delivered(j)'
  BY <1>1, <1>2, <1>3, <1>4, <1>6, <1>7 DEF Delivered
<1>8. ASSUME NEW j \in Job, Delivered(j) PROVE Delivered(j)'
  <2>1. SlotOf[j] \in Session
    OBVIOUS
  <2>2. 1..taken[SlotOf[j]] \subseteq 1..taken'[SlotOf[j]]
    BY <1>4, <1>6, <2>1
  <2> QED
    BY <1>2, <1>8, <2>2 DEF Delivered
<1>9. ASSUME NEW s \in Session PROVE taken'[s] \in 0..Len(queue[s])
  <2>1. CASE s = tasks
    BY <1>1, <1>2, <1>4, <2>1
  <2>2. CASE s # tasks
    BY <1>4, <2>2 DEF Streams
  <2> QED
    BY <2>1, <2>2
<1> QED
  BY <1>3, <1>5, <1>7, <1>8, <1>9

LEMMA DispatchKeeps ==
    ASSUME Typed, Streams, NEW j \in Job, Dispatch(j)
    PROVE  /\ \A s \in Session : Distinct(queue'[s]) /\ \A k \in Elements(queue'[s]) : SlotOf[k] = s
           /\ \A s \in Session : taken[s] \in 0..Len(queue'[s])
           /\ \A k \in Job : Delivered(k) => Delivered(k)'
<1> DEFINE t == SlotOf[j]
<1>1. t \in Session
  OBVIOUS
<1>2. queue' = [queue EXCEPT ![t] = Append(queue[t], j)] /\ UNCHANGED taken
  BY DEF Dispatch
<1>3. queue \in [Session -> Seq(Job)] /\ queue[t] \in Seq(Job) /\ taken \in [Session -> Nat]
  BY <1>1 DEF Typed, RedisTypes
<1>4. j \notin Elements(queue[t])
  BY DEF Dispatch, Dispatched, Elements
<1>5. queue'[t] = Append(queue[t], j) /\ \A s \in Session : s # t => queue'[s] = queue[s]
  BY <1>1, <1>2, <1>3
<1>6. /\ Elements(queue'[t]) = Elements(queue[t]) \cup {j}
      /\ Len(queue'[t]) = Len(queue[t]) + 1
      /\ \A i \in DOMAIN queue[t] : queue'[t][i] = queue[t][i]
      /\ Distinct(queue[t]) => Distinct(queue'[t])
  BY <1>3, <1>4, <1>5, AppendElements
<1>7. ASSUME NEW s \in Session
      PROVE  /\ Distinct(queue'[s]) /\ \A k \in Elements(queue'[s]) : SlotOf[k] = s
             /\ taken[s] \in 0..Len(queue'[s])
  <2>1. CASE s # t
    BY <1>5, <2>1 DEF Streams
  <2>2. CASE s = t
    <3>1. taken[t] \in 0..Len(queue'[t])
      BY <1>1, <1>3, <1>6 DEF Streams
    <3> QED
      BY <1>1, <1>6, <2>2, <3>1 DEF Streams
  <2> QED
    BY <2>1, <2>2
<1>8. ASSUME NEW k \in Job, Delivered(k) PROVE Delivered(k)'
  <2>1. CASE SlotOf[k] # t
    BY <1>2, <1>5, <1>8, <2>1 DEF Delivered
  <2>2. CASE SlotOf[k] = t
    <3> PICK i \in 1..taken[t] : queue[t][i] = k
      BY <1>8, <2>2 DEF Delivered
    <3>1. taken[t] \in 0..Len(queue[t])
      BY <1>1 DEF Streams
    <3>2. i \in DOMAIN queue[t]
      BY <1>3, <3>1
    <3> QED
      BY <1>2, <1>6, <2>2, <3>2 DEF Delivered
  <2> QED
    BY <2>1, <2>2
<1> QED
  BY <1>7, <1>8

\* The outcome of the job in hand is published.
LEMMA Publishes ==
    ASSUME Typed, Hands, jobLoop = "publish", PublishOutcome
    PROVE  /\ tasks \in Session /\ pending[tasks] \in Job /\ outcome \in Message
           /\ outcome.kind \in Terminal
           /\ events'[pending[tasks]] = Append(events[pending[tasks]], outcome)
           /\ \A j \in Job : j # pending[tasks] => events'[j] = events[j]
           /\ \A j \in Job : events[j] \in Seq(Message)
           /\ \A j \in Job : Answered(j)' <=> Answered(j) \/ j = pending[tasks]
<1>1. /\ tasks \in Session /\ pending[tasks] \in Job /\ outcome \in Message
      /\ outcome.kind \in Terminal
  BY OutcomeTyped
<1>2. events \in [Job -> Seq(Message)]
      /\ events' = [events EXCEPT ![pending[tasks]] = Append(events[pending[tasks]], outcome)]
  BY DEF Typed, RedisTypes, PublishOutcome
<1>3. /\ events'[pending[tasks]] = Append(events[pending[tasks]], outcome)
      /\ \A j \in Job : j # pending[tasks] => events'[j] = events[j]
  BY <1>1, <1>2
<1>4. ASSUME NEW j \in Job, j = pending[tasks] PROVE Answered(j)'
  <2> DEFINE e == events[pending[tasks]]
  <2>1. e \in Seq(Message)
    BY <1>1, <1>2
  <2>2. Append(e, outcome)[Len(e) + 1] = outcome /\ Len(e) + 1 \in DOMAIN Append(e, outcome)
    BY <1>1, <2>1
  <2> HIDE DEF e
  <2>3. \E i \in DOMAIN Append(e, outcome) : Append(e, outcome)[i].kind \in Terminal
    BY <1>1, <2>2
  <2> QED
    BY <1>3, <1>4, <2>3 DEF Answered, e
<1>5. \A j \in Job : j # pending[tasks] => (Answered(j)' <=> Answered(j))
  BY <1>3 DEF Answered
<1> QED
  BY <1>1, <1>2, <1>3, <1>4, <1>5

Pulled == prepared \cup Elements(worker.inbox)

LEMMA StreamsFrame ==
    ASSUME Streams, UNCHANGED <<queue, taken>>,
           \A s \in Session : pending'[s] \in {pending[s], Nobody},
           \A j \in Job : Answered(j)' => Delivered(j),
           \A j \in Job : j \in Pulled' => j \in Pulled
    PROVE  Streams'
<1>1. \A j \in Job : Delivered(j) => Delivered(j)'
  BY DEF Delivered
<1>2. \A s \in Session : pending'[s] # Nobody => SlotOf[pending'[s]] = s /\ pending'[s] = pending[s]
  BY DEF Streams
<1>3. ASSUME NEW s \in Session, pending'[s] # Nobody
      PROVE  (SlotOf[pending[s]] = s /\ Delivered(pending[s]))'
  <2>1. pending'[s] = pending[s] /\ Delivered(pending[s])
    BY <1>2, <1>3 DEF Streams
  <2> QED
    BY <1>2, <1>3, <2>1 DEF Delivered
<1>4. ASSUME NEW j \in Job, (Answered(j) \/ j \in prepared \cup Elements(worker.inbox))'
      PROVE  Delivered(j)'
  <2>1. Delivered(j)
    BY <1>4 DEF Streams, Pulled
  <2> QED
    BY <1>1, <2>1
<1>5. /\ \A s \in Session : Distinct(queue'[s]) /\ \A j \in Elements(queue'[s]) : SlotOf[j] = s
      /\ \A s \in Session : taken'[s] \in 0..Len(queue'[s])
  BY DEF Streams
<1> QED
  BY <1>3, <1>4, <1>5 DEF Streams

\* What the child has in its pipe after a step of its own.
LEMMA Pulls ==
    ASSUME Typed, ChildMoves
    PROVE  /\ UNCHANGED <<queue, taken, pending, jobLoop, tasks, outcome, events, inflight, left>>
           /\ Pulled' \subseteq Pulled /\ prepared \subseteq prepared'
<1>0. worker \in Child /\ worker.inbox \in Seq(Job)
  BY DEF Typed, ChildTypes, Child
<1>1. UNCHANGED <<queue, taken, pending, jobLoop, tasks, outcome, events, inflight, left>>
  BY DEF ChildMoves, StartJob, ReportProgress, FinishJob, WorkerDies, StrayRead, others, redis,
         streams, answers, tasksOf, marks
<1>2. CASE StartJob
  <2>1. /\ worker.inbox # <<>> /\ worker'.inbox = Tail(worker.inbox)
        /\ prepared' = prepared \cup {Head(worker.inbox)}
    BY <1>0, <1>2 DEF StartJob, Child
  <2>2. Elements(worker.inbox) = Elements(Tail(worker.inbox)) \cup {Head(worker.inbox)}
    BY <1>0, <2>1, TailElements
  <2> QED
    BY <1>1, <2>1, <2>2 DEF Pulled
<1>3. CASE ReportProgress \/ FinishJob \/ StrayRead
  <2>1. UNCHANGED prepared /\ worker'.inbox = worker.inbox
    BY <1>0, <1>3 DEF ReportProgress, FinishJob, StrayRead, Child, marks
  <2> QED
    BY <1>1, <2>1 DEF Pulled
<1>4. CASE WorkerDies
  <2>1. UNCHANGED prepared /\ worker'.inbox = <<>>
    BY <1>0, <1>4 DEF WorkerDies, Child, marks
  <2> QED
    BY <1>1, <2>1, EmptyElements DEF Pulled
<1> QED
  BY <1>2, <1>3, <1>4 DEF ChildMoves

LEMMA ElsewherePulls ==
    ASSUME Elsewhere
    PROVE  \/ worker'.inbox = <<>> /\ worker'.job = Nobody /\ worker'.out = <<>>
           \/ worker'.inbox = worker.inbox /\ worker'.job = worker.job /\ worker'.out = worker.out
BY DEF Elsewhere, Fresh

LEMMA StreamsStep ==
    ASSUME Typed, Hands, Streams, Next
    PROVE  Streams'
<1>0. worker \in Child /\ worker.inbox \in Seq(Job) /\ pending \in [Session -> Job \cup {Nobody}]
  BY DEF Typed, ChildTypes, Child, RedisTypes
<1>1. ASSUME UNCHANGED <<queue, taken, pending, events>>, Pulled' \subseteq Pulled PROVE Streams'
  <2>1. \A j \in Job : Answered(j)' => Delivered(j)
    BY <1>1 DEF Answered, Streams
  <2>2. \A s \in Session : pending'[s] \in {pending[s], Nobody}
    BY <1>1
  <2> QED
    BY <1>1, <2>1, <2>2, StreamsFrame
<1>2. CASE Elsewhere
  <2>1. UNCHANGED <<queue, taken, pending, events, prepared>>
    BY <1>2 DEF Elsewhere, jobVars
  <2>2. Pulled' \subseteq Pulled
    BY <1>2, <2>1, ElsewherePulls, EmptyElements DEF Pulled
  <2> QED
    BY <1>1, <2>1, <2>2
<1>3. ASSUME jobLoop = "publish", PublishOutcome,
             UNCHANGED <<queue, taken, prepared, worker, pending>>
      PROVE Streams'
  <2>1. \A j \in Job : Answered(j)' <=> Answered(j) \/ j = pending[tasks]
    BY <1>3, Publishes
  <2>2. Delivered(pending[tasks])
    BY <1>3, Publishes, NotSession DEF Streams
  <2>3. \A j \in Job : Answered(j)' => Delivered(j)
    BY <2>1, <2>2 DEF Streams
  <2>4. \A j \in Job : j \in Pulled' => j \in Pulled
    BY <1>3 DEF Pulled
  <2>5. \A s \in Session : pending'[s] \in {pending[s], Nobody}
    BY <1>3
  <2> QED
    BY <1>3, <2>3, <2>4, <2>5, StreamsFrame
<1>4. ASSUME UNCHANGED <<queue, taken, prepared, worker, events>>,
             pending' \in {pending, [pending EXCEPT ![tasks] = Nobody]}
      PROVE Streams'
  <2>1. \A s \in Session : pending'[s] \in {pending[s], Nobody}
    BY <1>0, <1>4
  <2>2. \A j \in Job : j \in Pulled' => j \in Pulled
    BY <1>4 DEF Pulled
  <2>3. \A j \in Job : Answered(j)' => Delivered(j)
    BY <1>4 DEF Answered, Streams
  <2> QED
    BY <1>4, <2>1, <2>2, <2>3, StreamsFrame
<1>5. CASE Stops
  BY <1>3, <1>4, <1>5, StoppedJob DEF Stops
<1>6. CASE Ends
  <2>1. worker'.inbox = <<>>
    BY <1>6 DEF Ends, Down, NoWorker
  <2>2. Pulled' \subseteq Pulled
    BY <1>6, <2>1, EmptyElements DEF Ends, Pulled
  <2> QED
    BY <1>1, <1>6, <2>2 DEF Ends
<1>7. CASE StartSlotTasks \/ ReceiveFails \/ Flushed
  <2>1. UNCHANGED <<queue, taken, pending, events, prepared, worker>>
    BY <1>7 DEF StartSlotTasks, ReceiveFails, Flushed, redis, streams, answers, outer, marks
  <2> QED
    BY <1>1, <2>1 DEF Pulled
<1>8. CASE ReceiveMessage
  <2>1. UNCHANGED <<queue, taken, pending, events, prepared>> /\ worker'.inbox = worker.inbox
    BY <1>0, <1>8 DEF ReceiveMessage, redis, streams, answers, Child
  <2> QED
    BY <1>1, <2>1 DEF Pulled
<1>9. CASE PublishJobEvent
  BY <1>3, <1>9 DEF PublishJobEvent, streams, outer, marks
<1>10. CASE AckJob
  BY <1>4, <1>10 DEF AckJob, answers, outer, marks
<1>11. CASE ChildMoves
  BY <1>1, <1>11, Pulls
<1>12. ASSUME NEW j \in Job, PublishProgress(j) PROVE Streams'
  <2>1. UNCHANGED <<queue, taken, pending, prepared, worker>>
    BY <1>12 DEF PublishProgress, streams, outer, marks
  <2>2. \A k \in Job : Answered(k)' => Answered(k)
    <3>1. events' = [events EXCEPT ![j] = Append(events[j], Msg("progress", j))]
      BY <1>12 DEF PublishProgress
    <3>2. events[j] \in Seq(Message) /\ Msg("progress", j).kind \notin Terminal
          /\ Msg("progress", j) \in Message
      BY DEF Typed, RedisTypes, Msg, Terminal, Message
    <3>3. \A i \in DOMAIN Append(events[j], Msg("progress", j)) :
              \/ i \in DOMAIN events[j] /\ Append(events[j], Msg("progress", j))[i] = events[j][i]
              \/ Append(events[j], Msg("progress", j))[i] = Msg("progress", j)
      BY <3>2
    <3>4. events'[j] = Append(events[j], Msg("progress", j))
          /\ \A k \in Job : k # j => events'[k] = events[k]
      BY <3>1 DEF Typed, RedisTypes
    <3>5. Answered(j)' => Answered(j)
      BY <3>2, <3>3, <3>4 DEF Answered
    <3> QED
      BY <3>4, <3>5 DEF Answered
  <2>3. \A k \in Job : Answered(k)' => Delivered(k)
    BY <2>2 DEF Streams
  <2>4. \A k \in Job : k \in Pulled' => k \in Pulled
    BY <2>1 DEF Pulled
  <2>5. \A s \in Session : pending'[s] \in {pending[s], Nobody}
    BY <2>1
  <2> QED
    BY <2>1, <2>3, <2>4, <2>5, StreamsFrame
<1>13. ASSUME UNCHANGED <<queue, events>>, pending' \in [Session -> Job \cup {Nobody}],
              \A s \in Session : taken'[s] \in 0..Len(queue[s]),
              \A j \in Job : Delivered(j) => Delivered(j)',
              \A s \in Session : pending'[s] # Nobody =>
                  SlotOf[pending'[s]] = s /\ \A j \in Job : j = pending'[s] => Delivered(j)',
              \A j \in Job : j \in Pulled' => Delivered(j)'
       PROVE  Streams'
  <2>1. ASSUME NEW s \in Session, pending'[s] # Nobody, pending'[s] \in Job
        PROVE (SlotOf[pending[s]] = s /\ Delivered(pending[s]))'
    BY <1>13, <2>1 DEF Delivered
  <2>2. ASSUME NEW j \in Job, Answered(j)' PROVE Delivered(j)'
    BY <1>13, <2>2 DEF Answered, Streams
  <2>3. \A s \in Session : Distinct(queue'[s]) /\ \A j \in Elements(queue'[s]) : SlotOf[j] = s
    BY <1>13 DEF Streams
  <2> QED
    BY <1>13, <2>1, <2>2, <2>3 DEF Streams, Pulled
<1>14. CASE ReadJob \/ LockJob
  <2> DEFINE k == pending'[tasks]
  <2>1. /\ tasks \in Session /\ k \in Job /\ UNCHANGED <<queue, prepared, events>>
        /\ \/ worker' = [worker EXCEPT !.inbox = Append(worker.inbox, k)]
           \/ worker' = worker
    BY <1>14, Sends
  <2>2. \A j \in Job : j \in Pulled' => j \in Pulled \/ j = k
    <3>1. CASE worker' = [worker EXCEPT !.inbox = Append(worker.inbox, k)]
      <4>1. worker'.inbox = Append(worker.inbox, k)
        BY <1>0, <3>1 DEF Child
      <4>2. Elements(Append(worker.inbox, k)) = Elements(worker.inbox) \cup {k}
        BY <1>0, <2>1, AppendElements
      <4> QED
        BY <2>1, <4>1, <4>2 DEF Pulled
    <3>2. CASE worker' = worker
      BY <2>1, <3>2 DEF Pulled
    <3> QED
      BY <2>1, <3>1, <3>2
  <2>3. /\ pending' \in [Session -> Job \cup {Nobody}]
        /\ \A s \in Session : s # tasks => pending'[s] = pending[s]
        /\ \A s \in Session : taken'[s] \in 0..Len(queue[s])
        /\ \A j \in Job : Delivered(j) \/ j = k => Delivered(j)'
        /\ SlotOf[k] = tasks
    <3>1. CASE ReadJob
      <4>1. pending' = [pending EXCEPT ![tasks] = queue[tasks][taken[tasks] + 1]]
        BY <3>1, ReadFacts
      <4>2. pending' = [pending EXCEPT ![tasks] = k]
        BY <1>0, <2>1, <3>1, <4>1, ReadFacts
      <4> QED
        BY <1>0, <2>1, <3>1, <4>2, NewJob
    <3>2. CASE LockJob
      <4>1. UNCHANGED <<queue, taken, pending>>
        BY <3>2 DEF LockJob
      <4>2. k = pending[tasks]
        BY <4>1
      <4>3. Delivered(pending[tasks]) /\ SlotOf[pending[tasks]] = tasks
        BY <2>1, <4>2, NotSession DEF Streams
      <4>4. \A j \in Job : Delivered(j) => Delivered(j)'
        BY <4>1 DEF Delivered
      <4> QED
        BY <1>0, <4>1, <4>2, <4>3, <4>4 DEF Streams
    <3> QED
      BY <1>14, <3>1, <3>2
  <2>4. ASSUME NEW s \in Session, pending'[s] # Nobody
        PROVE  SlotOf[pending'[s]] = s /\ \A j \in Job : j = pending'[s] => Delivered(j)'
    <3>1. CASE s = tasks
      BY <2>3, <3>1
    <3>2. CASE s # tasks
      BY <2>3, <2>4, <3>2 DEF Streams
    <3> QED
      BY <3>1, <3>2
  <2>5. \A j \in Job : Delivered(j) => Delivered(j)'
    BY <2>3
  <2>6. ASSUME NEW j \in Job, j \in Pulled' PROVE Delivered(j)'
    BY <2>2, <2>3, <2>6 DEF Streams, Pulled
  <2> HIDE DEF k
  <2> QED
    BY <1>13, <2>1, <2>3, <2>4, <2>5, <2>6
<1>15. ASSUME NEW j \in Job, Dispatch(j) PROVE Streams'
  <2>1. UNCHANGED <<taken, pending, events, prepared, worker>>
    BY <1>15 DEF Dispatch, answers, marks, runner
  <2>2. \A k \in Job : Delivered(k) => Delivered(k)'
    BY <1>15, DispatchKeeps
  <2>3. ASSUME NEW s \in Session, pending'[s] # Nobody
        PROVE  (SlotOf[pending[s]] = s /\ Delivered(pending[s]))'
    <3>1. pending[s] \in Job /\ SlotOf[pending[s]] = s /\ Delivered(pending[s])
      BY <1>0, <2>1, <2>3 DEF Streams
    <3>2. \A k \in Job : k = pending[s] => Delivered(k)'
      BY <2>2, <3>1
    <3> QED
      BY <2>1, <3>1, <3>2 DEF Delivered
  <2>4. ASSUME NEW k \in Job, (Answered(k) \/ k \in prepared \cup Elements(worker.inbox))'
        PROVE  Delivered(k)'
    <3>1. Answered(k) \/ k \in prepared \cup Elements(worker.inbox)
      BY <2>1, <2>4 DEF Answered
    <3> QED
      BY <2>2, <3>1 DEF Streams
  <2>5. /\ \A s \in Session : Distinct(queue'[s]) /\ \A k \in Elements(queue'[s]) : SlotOf[k] = s
        /\ \A s \in Session : taken'[s] \in 0..Len(queue'[s])
    BY <1>15, <2>1, DispatchKeeps
  <2> QED
    BY <2>3, <2>4, <2>5 DEF Streams
<1> QED
  BY <1>2, <1>5, <1>6, <1>7, <1>8, <1>9, <1>10, <1>11, <1>12, <1>14, <1>15, JobSteps DEF LoopMoves

\* A job about to be written to the pipe is not there, and was never taken from it.
LEMMA FreshJob ==
    ASSUME Typed, Hands, Streams, Once, ReadJob \/ LockJob
    PROVE  pending'[tasks] \notin Pulled
<1>1. CASE ReadJob
  BY <1>1, NewJob, Sends DEF Streams, Pulled
<1>2. CASE LockJob
  <2>1. pending' = pending /\ jobLoop = "lock"
    BY <1>2 DEF LockJob
  <2> QED
    BY <2>1 DEF Once, Pulled
<1> QED
  BY <1>1, <1>2

LEMMA OnceStep == ASSUME Typed, Hands, Streams, Once, Next PROVE Once'
<1>0. worker \in Child /\ worker.inbox \in Seq(Job)
  BY DEF Typed, ChildTypes, Child
<1>1. ASSUME jobLoop' = "lock" => jobLoop = "lock" /\ UNCHANGED <<tasks, pending>>,
             UNCHANGED prepared,
             \/ worker'.inbox = <<>> /\ worker'.job = Nobody
             \/ worker'.inbox = worker.inbox /\ worker'.job \in {worker.job, Nobody}
      PROVE Once'
  BY <1>1, EmptyElements DEF Once
<1>2. CASE Elsewhere
  BY <1>1, <1>2, ElsewherePulls DEF Elsewhere, jobVars
<1>3. CASE Stops
  BY <1>1, <1>3, StoppedJob DEF Stops
<1>4. CASE Ends
  BY <1>1, <1>4 DEF Ends, Down, NoWorker
<1>5. CASE StartSlotTasks \/ ReceiveFails \/ Flushed \/ PublishJobEvent \/ AckJob
  BY <1>1, <1>5 DEF StartSlotTasks, ReceiveFails, Flushed, PublishJobEvent, AckJob, outer, marks
<1>6. CASE ReceiveMessage
  <2>1. UNCHANGED prepared /\ worker'.inbox = worker.inbox /\ worker'.job = worker.job
        /\ jobLoop' # "lock"
    BY <1>0, <1>6 DEF ReceiveMessage, Child
  <2> QED
    BY <1>1, <2>1
<1>7. CASE ReadJob \/ LockJob
  <2> DEFINE k == pending'[tasks]
  <2>1. k \notin Pulled /\ k \in Job /\ UNCHANGED <<tasks, prepared>>
    BY <1>7, FreshJob, Sends
  <2>2. CASE jobLoop' # "lock" /\ worker' = [worker EXCEPT !.inbox = Append(worker.inbox, k)]
    <3>1. worker'.inbox = Append(worker.inbox, k) /\ worker'.job = worker.job
      BY <1>0, <2>2 DEF Child
    <3>2. Elements(Append(worker.inbox, k)) = Elements(worker.inbox) \cup {k}
          /\ Distinct(Append(worker.inbox, k))
      BY <1>0, <2>1, AppendElements DEF Once, Pulled
    <3> QED
      BY <2>1, <2>2, <3>1, <3>2 DEF Once, Pulled
  <2>3. CASE worker' = worker
    BY <2>1, <2>3 DEF Once, Pulled
  <2> HIDE DEF k
  <2> QED
    BY <1>7, <2>2, <2>3, Sends DEF k
<1>8. CASE StartJob
  <2>1. /\ worker.inbox # <<>> /\ worker'.inbox = Tail(worker.inbox)
        /\ worker'.job = Head(worker.inbox) /\ prepared' = prepared \cup {Head(worker.inbox)}
        /\ UNCHANGED <<jobLoop, tasks, pending>>
    BY <1>0, <1>8 DEF StartJob, Child, others, tasksOf, redis, streams
  <2>2. /\ Elements(worker.inbox) = Elements(Tail(worker.inbox)) \cup {Head(worker.inbox)}
        /\ Distinct(Tail(worker.inbox)) /\ Head(worker.inbox) \notin Elements(Tail(worker.inbox))
    BY <1>0, <2>1, TailElements DEF Once
  <2> QED
    BY <2>1, <2>2 DEF Once
<1>9. CASE ReportProgress \/ FinishJob \/ StrayRead
  <2>1. UNCHANGED prepared /\ worker'.inbox = worker.inbox /\ worker'.job \in {worker.job, Nobody}
        /\ UNCHANGED <<jobLoop, tasks, pending>>
    BY <1>0, <1>9 DEF ReportProgress, FinishJob, StrayRead, Child, marks, others, tasksOf, redis,
                      streams
  <2> QED
    BY <1>1, <2>1
<1>10. CASE WorkerDies
  <2>1. UNCHANGED prepared /\ worker'.inbox = <<>> /\ worker'.job = Nobody
        /\ UNCHANGED <<jobLoop, tasks, pending>>
    BY <1>0, <1>10 DEF WorkerDies, Child, marks, others, tasksOf, redis, streams
  <2> QED
    BY <1>1, <2>1
<1>11. ASSUME NEW j \in Job, Dispatch(j) \/ PublishProgress(j) PROVE Once'
  BY <1>1, <1>11 DEF Dispatch, PublishProgress, runner, outer, marks, tasksOf, streams
<1> QED
  BY <1>2, <1>3, <1>4, <1>5, <1>6, <1>7, <1>8, <1>9, <1>10, <1>11, JobSteps DEF LoopMoves,
                                                                                ChildMoves

\* The step of the child that begins a job.
LEMMA BeginsOnce ==
    ASSUME Typed, Once, [Next]_vars, NEW j \in Job, worker.job # j, worker'.job = j
    PROVE  j \notin prepared
<1>0. worker \in Child /\ j # Nobody
  BY NotSession DEF Typed, ChildTypes
<1>1. Next
  BY DEF vars
<1>2. CASE StartJob
  <2>1. worker'.job = Head(worker.inbox) /\ worker.inbox # <<>> /\ worker.inbox \in Seq(Job)
    BY <1>0, <1>2 DEF StartJob, Child
  <2>2. Head(worker.inbox) \in Elements(worker.inbox)
    BY <2>1, TailElements
  <2> QED
    BY <2>1, <2>2 DEF Once
<1>3. CASE Elsewhere
  BY <1>0, <1>3, ElsewherePulls
<1>4. CASE Stops \/ StartSlotTasks \/ ReceiveFails \/ Flushed \/ PublishJobEvent \/ AckJob
           \/ \E k \in Job : Dispatch(k) \/ PublishProgress(k)
  <2>1. UNCHANGED worker
    BY <1>4 DEF Stops, StartSlotTasks, ReceiveFails, Flushed, PublishJobEvent, AckJob, Dispatch,
                PublishProgress, runner
  <2> QED
    BY <2>1
<1>5. CASE Ends
  BY <1>0, <1>5 DEF Ends, Down, NoWorker
<1>6. CASE ReadJob \/ LockJob
  <2>1. worker'.job = worker.job
    BY <1>0, <1>6 DEF ReadJob, LockJob, SendRun, Child
  <2> QED
    BY <2>1
<1>7. CASE ReceiveMessage \/ ReportProgress \/ StrayRead
  <2>1. worker'.job = worker.job
    BY <1>0, <1>7 DEF ReceiveMessage, ReportProgress, StrayRead, Child
  <2> QED
    BY <2>1
<1>8. CASE FinishJob \/ WorkerDies
  <2>1. worker'.job = Nobody
    BY <1>0, <1>8 DEF FinishJob, WorkerDies, Child
  <2> QED
    BY <1>0, <2>1
<1> QED
  BY <1>1, <1>2, <1>3, <1>4, <1>5, <1>6, <1>7, <1>8, JobSteps DEF LoopMoves, ChildMoves

-----------------------------------------------------------------------------
(***************************************************************************)
(* What the events of a job say.                                           *)
(***************************************************************************)
OutcomesOf(e) ==
    \A i, k \in DOMAIN e :
        (i < k /\ e[i].kind \in Terminal /\ e[k].kind \in Terminal) => e[k].kind = "cancelled"
SuccessOf(e) ==
    \A i \in DOMAIN e : e[i].kind = "succeeded" =>
        \A k \in DOMAIN e : e[k].kind = "progress" => k < i
EndedIn(e)     == \E i \in DOMAIN e : e[i].kind \in Terminal
SucceededIn(e) == \E i \in DOMAIN e : e[i].kind = "succeeded"

LEMMA AppendEvent ==
    ASSUME NEW e \in Seq(Message), NEW m \in Message
    PROVE  /\ Append(e, m) \in Seq(Message)
           /\ EndedIn(Append(e, m)) <=> EndedIn(e) \/ m.kind \in Terminal
           /\ SucceededIn(Append(e, m)) <=> SucceededIn(e) \/ m.kind = "succeeded"
           /\ OutcomesOf(e) /\ (EndedIn(e) => m.kind \in {"cancelled", "progress"})
                  => OutcomesOf(Append(e, m))
           /\ SuccessOf(e) /\ (m.kind = "progress" => ~SucceededIn(e)) => SuccessOf(Append(e, m))
<1> DEFINE d == Append(e, m)
           n == Len(e) + 1
<1>1. /\ d \in Seq(Message) /\ n \in DOMAIN d /\ d[n] = m
      /\ DOMAIN d = DOMAIN e \cup {n}
      /\ \A i \in DOMAIN e : d[i] = e[i] /\ i \in Nat /\ n \in Nat /\ i < n
  OBVIOUS
<1>2. m.kind \in Terminal \/ m.kind = "progress"
  BY DEF Message
<1>3. n \in Nat /\ ~(n < n)
  OBVIOUS
<1> HIDE DEF d, n
<1>4. EndedIn(d) <=> EndedIn(e) \/ m.kind \in Terminal
  BY <1>1 DEF EndedIn
<1>5. SucceededIn(d) <=> SucceededIn(e) \/ m.kind = "succeeded"
  BY <1>1 DEF SucceededIn
<1>6. ASSUME OutcomesOf(e), EndedIn(e) => m.kind \in {"cancelled", "progress"} PROVE OutcomesOf(d)
  <2> SUFFICES ASSUME NEW i \in DOMAIN d, NEW k \in DOMAIN d, i < k, d[i].kind \in Terminal,
                      d[k].kind \in Terminal
               PROVE  d[k].kind = "cancelled"
    BY DEF OutcomesOf
  <2>1. i \in DOMAIN e
    BY <1>1, <1>3
  <2>2. CASE k \in DOMAIN e
    BY <1>1, <1>6, <2>1, <2>2 DEF OutcomesOf
  <2>3. CASE k = n
    <3>1. EndedIn(e)
      BY <1>1, <2>1 DEF EndedIn
    <3> QED
      BY <1>1, <1>6, <2>3, <3>1 DEF Terminal
  <2> QED
    BY <1>1, <2>2, <2>3
<1>7. ASSUME SuccessOf(e), m.kind = "progress" => ~SucceededIn(e) PROVE SuccessOf(d)
  <2> SUFFICES ASSUME NEW i \in DOMAIN d, d[i].kind = "succeeded", NEW k \in DOMAIN d,
                      d[k].kind = "progress"
               PROVE  k < i
    BY DEF SuccessOf
  <2>1. CASE i \in DOMAIN e /\ k \in DOMAIN e
    BY <1>1, <1>7, <2>1 DEF SuccessOf
  <2>2. CASE i \in DOMAIN e /\ k = n
    <3>1. SucceededIn(e) /\ m.kind = "progress"
      BY <1>1, <2>2 DEF SucceededIn
    <3> QED
      BY <1>7, <3>1
  <2>3. CASE i = n /\ k \in DOMAIN e
    BY <1>1, <2>3
  <2>4. CASE i = n /\ k = n
    BY <1>1, <2>4
  <2> QED
    BY <1>1, <2>1, <2>2, <2>3, <2>4
<1> QED
  BY <1>1, <1>4, <1>5, <1>6, <1>7 DEF d

LEMMA EventViews ==
    /\ OneOutcome <=> \A j \in Job : OutcomesOf(events[j])
    /\ SuccessIsLast <=> \A j \in Job : SuccessOf(events[j])
    /\ \A j \in Job : Answered(j) <=> EndedIn(events[j])
BY DEF OneOutcome, SuccessIsLast, OutcomesOf, SuccessOf, Answered, EndedIn

LEMMA NextViews ==
    /\ OneOutcome' <=> \A j \in Job : OutcomesOf(events'[j])
    /\ SuccessIsLast' <=> \A j \in Job : SuccessOf(events'[j])
    /\ \A j \in Job : Answered(j)' <=> EndedIn(events'[j])
BY DEF OneOutcome, SuccessIsLast, OutcomesOf, SuccessOf, Answered, EndedIn

\* Progress of a job is published.
LEMMA Reports ==
    ASSUME Typed, NEW j \in Job, PublishProgress(j)
    PROVE  /\ j \in inflight /\ inflight' = inflight \ {j}
           /\ Msg("progress", j) \in Message /\ Msg("progress", j).kind = "progress"
           /\ Msg("progress", j).of = j
           /\ events[j] \in Seq(Message) /\ events'[j] = Append(events[j], Msg("progress", j))
           /\ \A k \in Job : k # j => events'[k] = events[k]
           /\ UNCHANGED <<jobLoop, outcome, tasks, pending, queue, taken, prepared, left, worker>>
<1>1. events' = [events EXCEPT ![j] = Append(events[j], Msg("progress", j))]
  BY DEF PublishProgress
<1>2. events'[j] = Append(events[j], Msg("progress", j))
      /\ \A k \in Job : k # j => events'[k] = events[k]
  BY <1>1 DEF Typed, RedisTypes
<1> QED
  BY <1>2 DEF PublishProgress, Msg, Message, Terminal, Typed, RedisTypes, streams, outer, marks

Undecided == jobLoop \in WithJob \ {"ack"} /\ Answered(pending[tasks])
                 => jobLoop = "publish" /\ outcome.kind = "cancelled"

LEMMA AnswersStep == ASSUME Typed, Hands, Streams, Answers, Next PROVE Answers'
<1>1. \A j \in Job : events[j] \in Seq(Message)
  BY DEF Typed, RedisTypes
<1>2. ASSUME UNCHANGED events, Undecided' PROVE Answers'
  BY <1>2, EventViews, NextViews DEF Answers, Undecided
<1>3. ASSUME UNCHANGED <<events, jobLoop, pending, tasks, outcome>> PROVE Answers'
  <2>1. Undecided'
    BY <1>3 DEF Answers, Undecided, Answered
  <2> QED
    BY <1>2, <1>3, <2>1
<1>4. ASSUME jobLoop = "publish", PublishOutcome, jobLoop' \in {"publish", "ack"},
             jobLoop' = "publish" => outcome'.kind = "cancelled"
      PROVE  Answers'
  <2>1. /\ pending[tasks] \in Job /\ outcome \in Message
        /\ outcome.kind \in Terminal
        /\ events'[pending[tasks]] = Append(events[pending[tasks]], outcome)
        /\ \A j \in Job : j # pending[tasks] => events'[j] = events[j]
    BY <1>4, Publishes
  <2>2. EndedIn(events[pending[tasks]]) => outcome.kind = "cancelled"
    BY <1>4, <2>1, EventViews DEF Answers, WithJob
  <2>3. OutcomesOf(events'[pending[tasks]])
    BY <1>1, <2>1, <2>2, AppendEvent, EventViews DEF Answers
  <2>4. \A j \in Job : OutcomesOf(events'[j])
    BY <2>1, <2>3, EventViews DEF Answers
  <2>5. Undecided'
    BY <1>4 DEF Undecided, WithJob
  <2> QED
    BY <2>4, <2>5, NextViews DEF Answers, Undecided
<1>5. CASE Elsewhere
  BY <1>3, <1>5 DEF Elsewhere, jobVars
<1>6. CASE Stops
  <2>1. CASE jobLoop' = "off" /\ UNCHANGED events
    BY <1>2, <2>1 DEF Undecided, WithJob
  <2>2. Msg("cancelled", pending[tasks]).kind = "cancelled"
    BY DEF Msg
  <2>3. CASE /\ UNCHANGED events /\ jobLoop' \in {"publish", "ack"}
             /\ outcome' = Msg("cancelled", pending[tasks])
    <3>1. Undecided'
      BY <2>2, <2>3 DEF Undecided, WithJob
    <3> QED
      BY <1>2, <2>3, <3>1
  <2>4. CASE /\ jobLoop = "publish" /\ PublishOutcome /\ jobLoop' \in {"publish", "ack"}
             /\ outcome' = Msg("cancelled", pending[tasks])
    BY <1>4, <2>2, <2>4
  <2> QED
    BY <1>6, <2>1, <2>3, <2>4, StoppedJob
<1>7. CASE Ends \/ StartSlotTasks \/ AckJob
  <2>1. UNCHANGED events /\ jobLoop' \in {"off", "idle", "ack"}
    BY <1>7 DEF Ends, Down, StartSlotTasks, AckJob, redis, answers
  <2>2. Undecided'
    BY <2>1 DEF Undecided, WithJob
  <2> QED
    BY <1>2, <2>1, <2>2
<1>8. CASE ReadJob \/ LockJob
  <2>1. UNCHANGED <<events, tasks>> /\ pending'[tasks] \in Job /\ jobLoop \in {"idle", "lock"}
    BY <1>8, Sends
  <2>2. ~Answered(pending'[tasks])
    <3>1. CASE ReadJob
      BY <2>1, <3>1, NewJob DEF Streams
    <3>2. CASE LockJob
      <4>1. pending' = pending /\ jobLoop = "lock"
        BY <3>2 DEF LockJob
      <4> QED
        BY <4>1 DEF Answers, WithJob
    <3> QED
      BY <1>8, <3>1, <3>2
  <2>3. Undecided'
    BY <2>1, <2>2 DEF Undecided, Answered
  <2> QED
    BY <1>2, <2>1, <2>3
<1>9. CASE ReceiveMessage \/ ReceiveFails \/ Flushed
  <2>1. UNCHANGED <<events, tasks, pending>> /\ jobLoop \in {"wait", "flush"}
    BY <1>9 DEF ReceiveMessage, ReceiveFails, Flushed, redis, streams, answers
  <2>2. ~Answered(pending[tasks])
    BY <2>1 DEF Answers, WithJob
  <2>3. Undecided'
    BY <2>1, <2>2 DEF Undecided, Answered
  <2> QED
    BY <1>2, <2>1, <2>3
<1>10. CASE PublishJobEvent
  BY <1>4, <1>10 DEF PublishJobEvent
<1>11. CASE ChildMoves
  BY <1>3, <1>11, Pulls
<1>12. ASSUME NEW j \in Job, Dispatch(j) PROVE Answers'
  BY <1>3, <1>12 DEF Dispatch, runner, answers, tasksOf
<1>13. ASSUME NEW j \in Job, PublishProgress(j) PROVE Answers'
  <2>0. PICK m \in Message : m.kind = "progress" /\ events'[j] = Append(events[j], m)
    BY <1>13, Reports
  <2>a. /\ OutcomesOf(events[j]) => OutcomesOf(events'[j])
        /\ EndedIn(events'[j]) => EndedIn(events[j])
    <3>1. m.kind \notin Terminal
      BY <2>0 DEF Terminal
    <3> QED
      BY <1>1, <2>0, <3>1, AppendEvent
  <2>1. \A k \in Job : OutcomesOf(events'[k])
    BY <1>13, <2>a, Reports, EventViews DEF Answers
  <2>2. \A k \in Job : EndedIn(events'[k]) => EndedIn(events[k])
    BY <1>13, <2>a, Reports
  <2>3. UNCHANGED <<jobLoop, outcome, tasks, pending>>
    BY <1>13, Reports
  <2>4. ASSUME jobLoop \in WithJob PROVE pending[tasks] \in Job
    BY <2>4 DEF Hands
  <2>5. Undecided'
    <3> SUFFICES ASSUME jobLoop \in WithJob \ {"ack"}, (Answered(pending[tasks]))'
                 PROVE  jobLoop = "publish" /\ outcome.kind = "cancelled"
      BY <2>3 DEF Undecided
    <3>1. Answered(pending[tasks])
      BY <2>2, <2>3, <2>4, EventViews, NextViews
    <3> QED
      BY <3>1 DEF Answers
  <2> QED
    BY <2>1, <2>5, NextViews DEF Answers, Undecided
<1> QED
  BY <1>5, <1>6, <1>7, <1>8, <1>9, <1>10, <1>11, <1>12, <1>13, JobSteps DEF LoopMoves

Flushes == jobLoop = "publish" /\ outcome.kind = "succeeded" => pending[tasks] \notin inflight

LEMMA ProgressViews ==
    /\ Progress <=> /\ SuccessIsLast /\ Flushes
                    /\ \A j \in Job : SucceededIn(events[j]) => j \notin inflight
    /\ Progress' <=> /\ \A j \in Job : SuccessOf(events'[j])
                     /\ Flushes'
                     /\ \A j \in Job : SucceededIn(events'[j]) => j \notin inflight'
BY NextViews DEF Progress, Flushes, SucceededIn

LEMMA ProgressStep == ASSUME Typed, Hands, Answers, Progress, Next PROVE Progress'
<1>1. \A j \in Job : events[j] \in Seq(Message)
  BY DEF Typed, RedisTypes
<1>2. ASSUME UNCHANGED events, inflight' \subseteq inflight, Flushes' PROVE Progress'
  BY <1>2, EventViews, ProgressViews
<1>3. ASSUME UNCHANGED <<events, jobLoop, pending, tasks, outcome, inflight>> PROVE Progress'
  <2>1. Flushes'
    BY <1>3, ProgressViews DEF Flushes
  <2> QED
    BY <1>2, <1>3, <2>1
<1>4. ASSUME jobLoop = "publish", PublishOutcome, UNCHANGED inflight, Flushes'
      PROVE  Progress'
  <2>1. /\ pending[tasks] \in Job /\ outcome \in Message
        /\ outcome.kind \in Terminal
        /\ events'[pending[tasks]] = Append(events[pending[tasks]], outcome)
        /\ \A j \in Job : j # pending[tasks] => events'[j] = events[j]
    BY <1>4, Publishes
  <2>2. outcome.kind = "succeeded" => pending[tasks] \notin inflight
    BY <1>4, ProgressViews DEF Flushes
  <2>3. /\ SuccessOf(events[pending[tasks]]) => SuccessOf(events'[pending[tasks]])
        /\ SucceededIn(events'[pending[tasks]]) =>
               SucceededIn(events[pending[tasks]]) \/ outcome.kind = "succeeded"
    <3>1. outcome.kind # "progress"
      BY <2>1 DEF Terminal
    <3> QED
      BY <1>1, <2>1, <3>1, AppendEvent
  <2>4. ASSUME NEW j \in Job
        PROVE  SuccessOf(events'[j]) /\ (SucceededIn(events'[j]) => j \notin inflight')
    <3>1. CASE j # pending[tasks]
      BY <1>4, <2>1, <3>1, ProgressViews, EventViews
    <3>2. CASE j = pending[tasks]
      BY <1>4, <2>1, <2>2, <2>3, <3>2, ProgressViews, EventViews
    <3> QED
      BY <3>1, <3>2
  <2> QED
    BY <1>4, <2>4, ProgressViews
<1>5. CASE Elsewhere
  BY <1>3, <1>5 DEF Elsewhere, jobVars
<1>6. CASE Stops
  <2>1. Flushes' /\ UNCHANGED inflight
    <3>1. Msg("cancelled", pending[tasks]).kind = "cancelled"
      BY DEF Msg
    <3> QED
      BY <1>6, <3>1, StoppedJob DEF Flushes, Stops
  <2> QED
    BY <1>2, <1>4, <1>6, <2>1, StoppedJob
<1>7. CASE Ends \/ StartSlotTasks \/ AckJob
  <2>1. UNCHANGED events /\ jobLoop' \in {"off", "idle"} /\ inflight' \subseteq inflight
    BY <1>7 DEF Ends, Down, StartSlotTasks, AckJob, redis, answers
  <2>2. Flushes'
    BY <2>1 DEF Flushes
  <2> QED
    BY <1>2, <2>1, <2>2
<1>8. CASE ReadJob \/ LockJob
  <2>1. UNCHANGED <<events, inflight>>
        /\ (jobLoop' = "publish" => outcome' = Msg("failed", pending'[tasks]))
    BY <1>8, Sends
  <2>2. Msg("failed", pending'[tasks]).kind = "failed"
    BY DEF Msg
  <2>3. Flushes'
    BY <2>1, <2>2 DEF Flushes
  <2> QED
    BY <1>2, <2>1, <2>3
<1>9. CASE ReceiveFails \/ Flushed
  <2>1. UNCHANGED <<events, inflight>>
    BY <1>9 DEF ReceiveFails, Flushed, redis, answers
  <2>2. Flushes'
    <3>1. Msg("failed", job).kind = "failed"
      BY DEF Msg
    <3>2. CASE ReceiveFails
      BY <3>1, <3>2 DEF ReceiveFails, Flushes
    <3>3. CASE Flushed
      BY <3>3 DEF Flushed, Flushes, job, redis, streams
    <3> QED
      BY <1>9, <3>2, <3>3
  <2> QED
    BY <1>2, <2>1, <2>2
<1>10. CASE ReceiveMessage
  <2>1. UNCHANGED <<events, pending, tasks>> /\ jobLoop = "wait"
    BY <1>10 DEF ReceiveMessage, redis, streams, answers
  <2>2. Flushes'
    BY <1>10, <2>1 DEF ReceiveMessage, Flushes, Terminal
  <2>3. CASE UNCHANGED inflight
    BY <1>2, <2>1, <2>2, <2>3
  <2>4. CASE inflight' = inflight \cup {job}
    <3>1. job \in Job /\ ~Answered(job)
      BY <2>1 DEF Hands, Answers, WithJob, job
    <3>2. ~SucceededIn(events[job])
      BY <3>1 DEF SucceededIn, Answered, Terminal
    <3> QED
      BY <2>1, <2>2, <2>4, <3>2, EventViews, ProgressViews
  <2> QED
    BY <1>10, <2>3, <2>4 DEF ReceiveMessage
<1>11. CASE PublishJobEvent
  <2>1. jobLoop' = "ack" /\ UNCHANGED inflight /\ PublishOutcome /\ jobLoop = "publish"
    BY <1>11 DEF PublishJobEvent
  <2>2. Flushes'
    BY <2>1 DEF Flushes
  <2> QED
    BY <1>4, <2>1, <2>2
<1>12. CASE ChildMoves
  BY <1>3, <1>12, Pulls
<1>13. ASSUME NEW j \in Job, Dispatch(j) PROVE Progress'
  BY <1>3, <1>13 DEF Dispatch, runner, answers, tasksOf
<1>14. ASSUME NEW j \in Job, PublishProgress(j) PROVE Progress'
  <2>1. PICK m \in Message : m.kind = "progress" /\ events'[j] = Append(events[j], m)
    BY <1>14, Reports
  <2>2. ~SucceededIn(events[j])
    BY <1>14, Reports, ProgressViews
  <2>3. SuccessOf(events'[j]) /\ ~SucceededIn(events'[j])
    BY <1>1, <2>1, <2>2, AppendEvent, EventViews, ProgressViews
  <2>4. Flushes'
    <3>1. UNCHANGED <<jobLoop, outcome, tasks, pending>> /\ inflight' \subseteq inflight
      BY <1>14, Reports
    <3> QED
      BY <3>1, ProgressViews DEF Flushes
  <2>5. ASSUME NEW k \in Job
        PROVE  SuccessOf(events'[k]) /\ (SucceededIn(events'[k]) => k \notin inflight')
    BY <1>14, <2>3, Reports, EventViews, ProgressViews
  <2> QED
    BY <2>4, <2>5, ProgressViews
<1> QED
  BY <1>5, <1>6, <1>7, <1>8, <1>9, <1>10, <1>11, <1>12, <1>13, <1>14, JobSteps DEF LoopMoves

-----------------------------------------------------------------------------
(***************************************************************************)
(* Whose the messages in the pipe are.                                     *)
(***************************************************************************)
Held(w)    == Elements(w.inbox) \cup ({w.job} \ {Nobody}) \cup {m.of : m \in Elements(w.out)}
Settled(w) == \A i \in DOMAIN w.out : w.out[i].kind \in Terminal =>
                  /\ w.job # w.out[i].of
                  /\ \A k \in DOMAIN w.out : i < k => w.out[k].of # w.out[i].of
Stamped(w, P) == \A m \in Elements(w.out) : m.of \in P
OwnOf(e, j, L) == \A i \in DOMAIN e : e[i].kind \in Terminal => e[i].of \in {j} \cup L
OwnOutcome == jobLoop \in {"flush", "publish"} => outcome.of \in {pending[tasks]} \cup left

LEMMA PipeViews ==
    /\ Pipe <=> /\ \A k \in Held(worker) : Awaited(k)
                /\ Stamped(worker, prepared) /\ Settled(worker) /\ OwnOutcome
                /\ \A j \in Job : OwnOf(events[j], j, left)
    /\ Pipe' <=> /\ \A k \in Held(worker') : Awaited(k)'
                 /\ Stamped(worker', prepared') /\ Settled(worker') /\ OwnOutcome'
                 /\ \A j \in Job : OwnOf(events'[j], j, left')
<1>1. (\A k \in Held(worker) : Awaited(k)) <=>
          /\ \A k \in Elements(worker.inbox) \cup ({worker.job} \ {Nobody}) : Awaited(k)
          /\ \A m \in Elements(worker.out) : Awaited(m.of)
  BY DEF Held
<1>2. (\A k \in Held(worker') : Awaited(k)') <=>
          /\ \A k \in Elements(worker'.inbox) \cup ({worker'.job} \ {Nobody}) : Awaited(k)'
          /\ \A m \in Elements(worker'.out) : Awaited(m.of)'
  BY DEF Held
<1>3. /\ Stamped(worker, prepared) <=> \A m \in Elements(worker.out) : m.of \in prepared
      /\ Stamped(worker', prepared') <=> \A m \in Elements(worker'.out) : m.of \in prepared'
  BY DEF Stamped
<1>4. /\ ResultIsOwn <=> \A j \in Job : OwnOf(events[j], j, left)
      /\ ResultIsOwn' <=> \A j \in Job : OwnOf(events'[j], j, left')
  BY DEF ResultIsOwn, OwnOf
<1> QED
  BY <1>1, <1>2, <1>3, <1>4 DEF Pipe, Settled, OwnOutcome

LEMMA AppendOwn ==
    ASSUME NEW e \in Seq(Message), NEW m \in Message, NEW j, NEW L, NEW M, L \subseteq M
    PROVE  /\ OwnOf(e, j, L) => OwnOf(e, j, M)
           /\ OwnOf(e, j, L) /\ (m.kind \in Terminal => m.of \in {j} \cup M)
                  => OwnOf(Append(e, m), j, M)
<1>1. \A i \in DOMAIN Append(e, m) : (i \in DOMAIN e /\ Append(e, m)[i] = e[i])
          \/ Append(e, m)[i] = m
  OBVIOUS
<1> QED
  BY <1>1 DEF OwnOf

\* The first message leaves the pipe.
LEMMA TailSettled ==
    ASSUME NEW w \in Child, NEW v \in Child, w.out # <<>>, v.out = Tail(w.out), v.job = w.job,
           v.inbox = w.inbox
    PROVE  /\ Held(v) \subseteq Held(w) /\ Head(w.out).of \in Held(w) /\ Head(w.out) \in Message
           /\ \A P : Stamped(w, P) => Stamped(v, P) /\ Head(w.out).of \in P
           /\ Settled(w) => Settled(v)
           /\ Settled(w) /\ Head(w.out).kind \in Terminal =>
                  w.job # Head(w.out).of /\ \A m \in Elements(v.out) : m.of # Head(w.out).of
<1> DEFINE q == w.out
           r == Tail(q)
<1>1. q \in Seq(Message)
  BY DEF Child
<1>2. /\ r \in Seq(Message) /\ Head(q) \in Message /\ Head(q) = q[1] /\ 1 \in DOMAIN q
      /\ \A i \in DOMAIN r : i + 1 \in DOMAIN q /\ r[i] = q[i + 1] /\ 1 < i + 1
      /\ Elements(q) = Elements(r) \cup {Head(q)}
  <2>1. /\ r \in Seq(Message) /\ Head(q) \in Message /\ Head(q) = q[1]
        /\ \A i \in DOMAIN r : i + 1 \in DOMAIN q /\ r[i] = q[i + 1]
        /\ Elements(q) = Elements(r) \cup {Head(q)}
    BY <1>1, TailElements
  <2>2. 1 \in DOMAIN q /\ \A i \in DOMAIN r : 1 < i + 1
    BY <1>1, <2>1
  <2> QED
    BY <2>1, <2>2
<1>3. \A i, k \in DOMAIN r : i < k => i + 1 < k + 1
  BY <1>2
<1>4. v.out = r /\ w.out = q
  OBVIOUS
<1> HIDE DEF q, r
<1>5. Held(v) \subseteq Held(w) /\ Head(q).of \in Held(w)
  BY <1>2, <1>4 DEF Held
<1>6. \A P : Stamped(w, P) => Stamped(v, P) /\ Head(q).of \in P
  BY <1>2, <1>4 DEF Stamped
<1>7. ASSUME Settled(w) PROVE Settled(v)
  <2> SUFFICES ASSUME NEW i \in DOMAIN r, r[i].kind \in Terminal
               PROVE  v.job # r[i].of /\ \A k \in DOMAIN r : i < k => r[k].of # r[i].of
    BY <1>4 DEF Settled
  <2>1. i + 1 \in DOMAIN q /\ q[i + 1] = r[i]
    BY <1>2
  <2>2. w.job # r[i].of /\ \A k \in DOMAIN q : i + 1 < k => q[k].of # r[i].of
    BY <1>4, <1>7, <2>1 DEF Settled
  <2> QED
    BY <1>2, <1>3, <2>2
<1>8. ASSUME Settled(w), Head(q).kind \in Terminal
      PROVE  w.job # Head(q).of /\ \A m \in Elements(v.out) : m.of # Head(q).of
  <2>1. w.job # Head(q).of /\ \A k \in DOMAIN q : 1 < k => q[k].of # Head(q).of
    BY <1>2, <1>4, <1>8 DEF Settled
  <2>2. \A i \in DOMAIN r : r[i].of # Head(q).of
    BY <1>2, <2>1
  <2> QED
    BY <1>4, <2>1, <2>2 DEF Elements
<1> QED
  BY <1>2, <1>4, <1>5, <1>6, <1>7, <1>8

\* The child says something.
LEMMA AppendSettled ==
    ASSUME NEW w \in Child, NEW v \in Child, NEW m \in Message, m.of = w.job, w.job # Nobody,
           v.out = Append(w.out, m), v.inbox = w.inbox,
           (v.job = w.job /\ m.kind \notin Terminal) \/ v.job = Nobody
    PROVE  /\ Held(v) \subseteq Held(w)
           /\ \A P : Stamped(w, P) /\ w.job \in P => Stamped(v, P)
           /\ Settled(w) => Settled(v)
<1> DEFINE q == w.out
           r == Append(q, m)
           n == Len(q) + 1
<1>1. q \in Seq(Message)
  BY DEF Child
<1>2. /\ Elements(r) = Elements(q) \cup {m}
      /\ \A i \in DOMAIN q : r[i] = q[i]
  BY <1>1, AppendElements
<1>3. /\ DOMAIN r = DOMAIN q \cup {n} /\ r[n] = m
      /\ \A i \in DOMAIN q : q[i] \in Message /\ i < n
      /\ \A k \in DOMAIN r : ~(n < k)
  BY <1>1
<1>4. v.out = r /\ w.out = q /\ m.of \in Job /\ m.of # Nobody
  BY NotSession DEF Message
<1> HIDE DEF q, r, n
<1>5. Held(v) \subseteq Held(w)
  BY <1>2, <1>4 DEF Held
<1>6. \A P : Stamped(w, P) /\ w.job \in P => Stamped(v, P)
  BY <1>2, <1>4 DEF Stamped
<1>7. ASSUME Settled(w) PROVE Settled(v)
  <2> SUFFICES ASSUME NEW i \in DOMAIN r, r[i].kind \in Terminal
               PROVE  v.job # r[i].of /\ \A k \in DOMAIN r : i < k => r[k].of # r[i].of
    BY <1>4 DEF Settled
  <2>1. CASE i = n
    BY <1>3, <1>4, <2>1
  <2>2. CASE i \in DOMAIN q
    <3>1. r[i] = q[i] /\ q[i] \in Message
      BY <1>2, <1>3, <2>2
    <3>2. w.job # q[i].of /\ \A k \in DOMAIN q : i < k => q[k].of # q[i].of
      BY <1>4, <1>7, <2>2, <3>1 DEF Settled
    <3>3. q[i].of # Nobody
      BY <3>1, NotSession DEF Message
    <3>4. \A k \in DOMAIN r : k = n \/ (k \in DOMAIN q /\ r[k] = q[k])
      BY <1>2, <1>3
    <3> QED
      BY <1>3, <1>4, <3>1, <3>2, <3>3, <3>4
  <2> QED
    BY <1>3, <2>1, <2>2
<1> QED
  BY <1>5, <1>6, <1>7

LEMMA PipeStep == ASSUME Typed, Hands, Streams, Once, Pipe, Next PROVE Pipe'
<1>0. /\ worker \in Child /\ worker.inbox \in Seq(Job) /\ worker.out \in Seq(Message)
      /\ \A j \in Job : events[j] \in Seq(Message)
  BY DEF Typed, ChildTypes, Child, RedisTypes
<1>1. ASSUME \A k : Awaited(k) => Awaited(k)', Held(worker') \subseteq Held(worker),
             Stamped(worker', prepared'), Settled(worker'), OwnOutcome',
             UNCHANGED events, left \subseteq left'
      PROVE  Pipe'
  <2>1. \A j \in Job : OwnOf(events'[j], j, left')
    BY <1>0, <1>1, AppendOwn, PipeViews DEF OwnOf
  <2> QED
    BY <1>1, <2>1, PipeViews
<1>2. ASSUME \A k : Awaited(k) => Awaited(k)', UNCHANGED <<worker, prepared, events>>, OwnOutcome',
             left \subseteq left'
      PROVE  Pipe'
  <2>1. Held(worker') \subseteq Held(worker) /\ Stamped(worker', prepared') /\ Settled(worker')
    BY <1>2, PipeViews
  <2> QED
    BY <1>1, <1>2, <2>1
<1>3. ASSUME UNCHANGED <<jobLoop, tasks, pending, left, outcome>>
      PROVE  (\A k : Awaited(k) => Awaited(k)') /\ OwnOutcome' /\ left \subseteq left'
  BY <1>3, PipeViews DEF Awaited, OwnOutcome
<1>4. ASSUME worker'.inbox = <<>>, worker'.job = Nobody, worker'.out = <<>>
      PROVE  Held(worker') = {} /\ Settled(worker') /\ \A P : Stamped(worker', P)
  BY <1>4, EmptyElements DEF Held, Settled, Stamped
<1>5. ASSUME worker'.inbox = worker.inbox, worker'.job = worker.job, worker'.out = worker.out
      PROVE  /\ Held(worker') = Held(worker) /\ Settled(worker')
             /\ \A P : prepared \subseteq P => Stamped(worker', P)
  BY <1>5, PipeViews DEF Held, Settled, Stamped
<1>6. CASE Elsewhere
  <2>1. UNCHANGED <<jobLoop, tasks, pending, left, outcome, events, prepared>>
    BY <1>6 DEF Elsewhere, jobVars
  <2>2. Held(worker') \subseteq Held(worker) /\ Settled(worker') /\ Stamped(worker', prepared')
    BY <1>4, <1>5, <1>6, <2>1, ElsewherePulls
  <2>3. (\A k : Awaited(k) => Awaited(k)') /\ OwnOutcome' /\ left \subseteq left'
    BY <1>3, <2>1
  <2> QED
    BY <1>1, <2>1, <2>2, <2>3
<1>7. CASE Stops
  <2>1. /\ UNCHANGED <<worker, prepared, tasks>> /\ left \subseteq left'
        /\ \A k : Awaited(k) => k \in left'
    BY <1>7 DEF Stops, StopSlotTasks, Awaited
  <2>2. \A k : Awaited(k) => Awaited(k)'
    BY <2>1 DEF Awaited
  <2>3. OwnOutcome'
    <3>1. Msg("cancelled", pending[tasks]).of = pending[tasks]
      BY DEF Msg
    <3> QED
      BY <1>7, <3>1, StoppedJob DEF OwnOutcome
  <2>4. CASE UNCHANGED events
    BY <1>2, <2>1, <2>2, <2>3, <2>4
  <2>5. CASE PublishOutcome /\ jobLoop = "publish"
    <3>1. outcome.of \in {pending[tasks]} \cup left
      BY <2>5, PipeViews DEF OwnOutcome
    <3>2. \A j \in Job : OwnOf(events'[j], j, left')
      <4> TAKE j \in Job
      <4>1. OwnOf(events[j], j, left)
        BY PipeViews
      <4>2. CASE j = pending[tasks]
        <5>1. /\ events[j] \in Seq(Message) /\ outcome \in Message
              /\ events'[j] = Append(events[j], outcome)
          BY <1>0, <2>5, <4>2, Publishes
        <5>2. outcome.of \in {j} \cup left'
          BY <2>1, <3>1, <4>2
        <5>3. OwnOf(Append(events[j], outcome), j, left')
          BY <2>1, <4>1, <5>1, <5>2, AppendOwn
        <5> QED
          BY <5>1, <5>3
      <4>3. CASE j # pending[tasks]
        BY <1>0, <2>1, <2>5, <4>1, <4>3, Publishes DEF OwnOf
      <4> QED
        BY <4>2, <4>3
    <3>3. (\A k \in Held(worker') : Awaited(k)') /\ Stamped(worker', prepared') /\ Settled(worker')
      BY <2>1, <2>2, PipeViews
    <3> QED
      BY <2>3, <3>2, <3>3, PipeViews
  <2> QED
    BY <1>7, <2>4, <2>5, StoppedJob
<1>8. CASE Ends
  <2>1. /\ worker'.inbox = <<>> /\ worker'.job = Nobody /\ worker'.out = <<>>
        /\ UNCHANGED <<events, prepared, left>> /\ jobLoop' = "off"
    BY <1>8 DEF Ends, Down, NoWorker
  <2>2. OwnOutcome' /\ Held(worker') = {} /\ Settled(worker') /\ Stamped(worker', prepared')
    BY <1>4, <2>1 DEF OwnOutcome
  <2> QED
    BY <2>1, <2>2, PipeViews
<1>9. CASE StartSlotTasks \/ AckJob \/ Flushed
  <2>1. /\ UNCHANGED <<worker, prepared, events, left>> /\ jobLoop # "wait"
    BY <1>9 DEF StartSlotTasks, AckJob, Flushed, TasksEnded, redis, answers, outer, marks
  <2>2. \A k : Awaited(k) => Awaited(k)'
    BY <2>1 DEF Awaited
  <2>3. OwnOutcome'
    <3>1. CASE Flushed
      BY <3>1, PipeViews DEF Flushed, OwnOutcome, redis, streams, outer, marks
    <3>2. CASE StartSlotTasks \/ AckJob
      BY <3>2 DEF StartSlotTasks, AckJob, OwnOutcome
    <3> QED
      BY <1>9, <3>1, <3>2
  <2> QED
    BY <1>2, <2>1, <2>2, <2>3
<1>10. CASE PublishJobEvent
  <2>1. /\ UNCHANGED <<worker, prepared, left>> /\ jobLoop = "publish" /\ jobLoop' = "ack"
        /\ PublishOutcome
    BY <1>10 DEF PublishJobEvent, outer, marks
  <2>2. outcome.of \in {pending[tasks]} \cup left
    BY <2>1, PipeViews DEF OwnOutcome
  <2>3. \A j \in Job : OwnOf(events'[j], j, left')
    <3> TAKE j \in Job
    <3>1. OwnOf(events[j], j, left)
      BY PipeViews
    <3>2. CASE j = pending[tasks]
      <4>1. /\ events[j] \in Seq(Message) /\ outcome \in Message
            /\ events'[j] = Append(events[j], outcome)
        BY <1>0, <2>1, <3>2, Publishes
      <4>2. OwnOf(Append(events[j], outcome), j, left)
        BY <2>2, <3>1, <3>2, <4>1, AppendOwn
      <4> QED
        BY <2>1, <4>1, <4>2
    <3>3. CASE j # pending[tasks]
      BY <2>1, <3>1, <3>3, Publishes
    <3> QED
      BY <3>2, <3>3
  <2>4. OwnOutcome' /\ \A k : Awaited(k) => Awaited(k)'
    BY <2>1 DEF OwnOutcome, Awaited
  <2> QED
    BY <2>1, <2>3, <2>4, PipeViews
<1>11. CASE ReadJob \/ LockJob
  <2> DEFINE j == pending'[tasks]
  <2>1. /\ UNCHANGED <<tasks, prepared, events, left>> /\ j \in Job /\ jobLoop # "wait"
        /\ \/ jobLoop' = "wait" /\ worker' = [worker EXCEPT !.inbox = Append(worker.inbox, j)]
           \/ worker' = worker /\ jobLoop' = "publish" /\ outcome' = Msg("failed", j)
           \/ worker' = worker /\ jobLoop' = "lock"
    BY <1>11, Sends
  <2>2. \A k : Awaited(k) => Awaited(k)'
    BY <2>1 DEF Awaited
  <2>3. OwnOutcome'
    <3>1. Msg("failed", j).of = j
      BY DEF Msg
    <3> QED
      BY <2>1, <3>1 DEF OwnOutcome
  <2>4. CASE worker' = worker
    BY <1>2, <2>1, <2>2, <2>3, <2>4
  <2>5. CASE jobLoop' = "wait" /\ worker' = [worker EXCEPT !.inbox = Append(worker.inbox, j)]
    <3>1. worker'.inbox = Append(worker.inbox, j) /\ worker'.job = worker.job
          /\ worker'.out = worker.out
      BY <1>0, <2>5 DEF Child
    <3>2. Elements(Append(worker.inbox, j)) = Elements(worker.inbox) \cup {j}
      BY <1>0, <2>1, AppendElements
    <3>3. Held(worker') = Held(worker) \cup {j}
      BY <3>1, <3>2 DEF Held
    <3>4. Settled(worker') /\ Stamped(worker', prepared')
      BY <2>1, <3>1, PipeViews DEF Settled, Stamped
    <3>5. ASSUME NEW k \in Held(worker') PROVE Awaited(k)'
      <4>1. CASE k = j
        BY <2>1, <2>5, <4>1 DEF Awaited
      <4>2. CASE k \in Held(worker)
        BY <2>2, <4>2, PipeViews
      <4> QED
        BY <3>3, <4>1, <4>2
    <3>6. \A i \in Job : OwnOf(events'[i], i, left')
      BY <2>1, PipeViews
    <3> QED
      BY <2>3, <3>4, <3>5, <3>6, PipeViews
  <2> QED
    BY <2>1, <2>4, <2>5
<1>12. CASE ReceiveFails
  <2>1. /\ UNCHANGED <<worker, prepared, events, tasks, pending>> /\ jobLoop = "wait"
        /\ jobLoop' = "publish" /\ outcome' = Msg("failed", pending[tasks])
    BY <1>12 DEF ReceiveFails, redis, streams, answers, job
  <2>2. OwnOutcome'
    <3>1. Msg("failed", pending[tasks]).of = pending[tasks]
      BY DEF Msg
    <3> QED
      BY <2>1, <3>1 DEF OwnOutcome
  <2>3. CASE left' = left \cup {job}
    <3>1. \A k : Awaited(k) => Awaited(k)'
      BY <2>3 DEF Awaited, job
    <3> QED
      BY <1>2, <2>1, <2>2, <2>3, <3>1
  <2>4. CASE worker.st = "dead" /\ worker.out = <<>> /\ UNCHANGED left
    <3>1. worker.inbox = <<>> /\ worker.job = Nobody
      BY <2>4 DEF Hands
    <3>2. Held(worker') = {} /\ Settled(worker') /\ Stamped(worker', prepared')
      BY <1>4, <2>1, <2>4, <3>1
    <3>3. \A j \in Job : OwnOf(events'[j], j, left')
      BY <2>1, <2>4, PipeViews
    <3> QED
      BY <2>2, <3>2, <3>3, PipeViews
  <2> QED
    BY <1>12, <2>3, <2>4 DEF ReceiveFails
<1>13. CASE ReceiveMessage
  <2> DEFINE m == Head(worker.out)
  <2>1. /\ UNCHANGED <<prepared, events, tasks, pending>> /\ jobLoop = "wait" /\ worker.out # <<>>
        /\ worker' = [worker EXCEPT !.out = Tail(worker.out)]
        /\ \/ UNCHANGED <<jobLoop, outcome, left>>
           \/ /\ m.kind \in Terminal /\ jobLoop' \in {"flush", "publish"} /\ outcome' = m
              /\ left' = left \cup ({pending[tasks]} \ {m.of})
    BY <1>13 DEF ReceiveMessage, redis, streams, answers, job
  <2>2. /\ worker' \in Child /\ worker'.out = Tail(worker.out) /\ worker'.job = worker.job
        /\ worker'.inbox = worker.inbox
    BY <1>0, <2>1, ReceivedTyped DEF Child
  <2>3. /\ Held(worker') \subseteq Held(worker) /\ m.of \in Held(worker)
        /\ Stamped(worker', prepared') /\ m.of \in prepared /\ Settled(worker')
        /\ m.kind \in Terminal => worker.job # m.of /\ \A n \in Elements(worker'.out) : n.of # m.of
    <3>1. /\ Held(worker') \subseteq Held(worker) /\ m.of \in Held(worker)
          /\ \A P : Stamped(worker, P) => Stamped(worker', P) /\ m.of \in P
          /\ Settled(worker) => Settled(worker')
          /\ Settled(worker) /\ m.kind \in Terminal =>
                 worker.job # m.of /\ \A n \in Elements(worker'.out) : n.of # m.of
      <4> DEFINE v == worker'
      <4>0. v \in Child /\ worker \in Child /\ worker.out # <<>> /\ v.out = Tail(worker.out)
            /\ v.job = worker.job /\ v.inbox = worker.inbox
        BY <1>0, <2>1, <2>2
      <4> HIDE DEF v
      <4>1. /\ Held(v) \subseteq Held(worker) /\ Head(worker.out).of \in Held(worker)
            /\ Settled(worker) => Settled(v)
        BY <4>0, TailSettled
      <4>2. \A P : Stamped(worker, P) => Stamped(v, P) /\ Head(worker.out).of \in P
        BY <4>0, TailSettled
      <4>3. Settled(worker) /\ Head(worker.out).kind \in Terminal =>
               worker.job # Head(worker.out).of
               /\ \A n \in Elements(v.out) : n.of # Head(worker.out).of
        BY <4>0, TailSettled
      <4> QED
        BY <4>1, <4>2, <4>3 DEF v
    <3>2. Settled(worker) /\ Stamped(worker, prepared) /\ UNCHANGED prepared
      BY <2>1, PipeViews
    <3> HIDE DEF m
    <3> QED
      BY <3>1, <3>2
  <2> HIDE DEF m
  <2>4. CASE UNCHANGED <<jobLoop, outcome, left>>
    <3>1. (\A k : Awaited(k) => Awaited(k)') /\ OwnOutcome' /\ left \subseteq left'
      BY <1>3, <2>1, <2>4
    <3> QED
      BY <1>1, <2>1, <2>3, <3>1
  <2>5. CASE /\ m.kind \in Terminal /\ jobLoop' \in {"flush", "publish"} /\ outcome' = m
             /\ left' = left \cup ({pending[tasks]} \ {m.of})
    <3>1. ASSUME NEW k \in Held(worker') PROVE Awaited(k)'
      <4>1. k \in left \/ k = pending[tasks]
        BY <2>3, PipeViews DEF Awaited
      <4>2. k # m.of
        <5>1. m.of \notin Elements(worker.inbox)
          BY <2>3 DEF Once
        <5> QED
          BY <2>2, <2>3, <2>5, <5>1 DEF Held
      <4>3. k \in left'
        BY <2>5, <4>1, <4>2
      <4> QED
        BY <4>3 DEF Awaited
    <3>2. OwnOutcome'
      <4>1. m.of \in left \/ m.of = pending[tasks]
        BY <2>3, PipeViews DEF Awaited
      <4> QED
        BY <2>1, <2>5, <4>1 DEF OwnOutcome
    <3>3. \A j \in Job : OwnOf(events'[j], j, left')
      <4>1. left \subseteq left'
        BY <2>5
      <4> QED
        BY <2>1, <4>1, PipeViews DEF OwnOf
    <3> QED
      BY <2>3, <3>1, <3>2, <3>3, PipeViews
  <2> QED
    BY <2>1, <2>4, <2>5
<1>14. CASE ChildMoves
  <2>1. /\ UNCHANGED <<pending, jobLoop, tasks, outcome, events, left>>
        /\ prepared \subseteq prepared'
    BY <1>14, Pulls
  <2>2. (\A k : Awaited(k) => Awaited(k)') /\ OwnOutcome' /\ left \subseteq left'
    BY <1>3, <2>1
  <2>3. Held(worker') \subseteq Held(worker) /\ Settled(worker') /\ Stamped(worker', prepared')
    <3>1. CASE StartJob
      <4> DEFINE h == Head(worker.inbox)
      <4>1. /\ worker.inbox # <<>> /\ worker'.inbox = Tail(worker.inbox) /\ worker'.job = h
            /\ worker'.out = worker.out
        BY <1>0, <3>1 DEF StartJob, Child
      <4>2. Elements(worker.inbox) = Elements(Tail(worker.inbox)) \cup {h} /\ h \in Job
        BY <1>0, <4>1, TailElements
      <4> HIDE DEF h
      <4>3. Held(worker') \subseteq Held(worker)
        BY <4>1, <4>2 DEF Held
      <4>4. h \notin prepared
        BY <4>2 DEF Once
      <4>5. \A i \in DOMAIN worker.out : worker.out[i].of \in prepared
        BY PipeViews DEF Stamped, Elements
      <4>6. Settled(worker')
        BY <4>1, <4>4, <4>5, PipeViews DEF Settled
      <4>7. Stamped(worker', prepared')
        BY <2>1, <4>1, PipeViews DEF Stamped
      <4> QED
        BY <4>3, <4>6, <4>7
    <3>2. CASE ReportProgress \/ FinishJob
      <4>1. worker.st = "busy" /\ worker.job # Nobody /\ worker.job \in Job
            /\ worker.job \in prepared
        BY <1>0, <3>2 DEF ReportProgress, FinishJob, Hands, Once, Child
      <4>2. \E m \in Message : /\ m.of = worker.job /\ worker'.out = Append(worker.out, m)
                             /\ worker'.inbox = worker.inbox
                             /\ \/ worker'.job = worker.job /\ m.kind \notin Terminal
                                \/ worker'.job = Nobody
        <5>1. CASE ReportProgress
          <6>1. /\ Msg("progress", worker.job) \in Message
                /\ Msg("progress", worker.job).of = worker.job
                /\ Msg("progress", worker.job).kind \notin Terminal
            BY <4>1 DEF Msg, Message, Terminal
          <6>2. /\ worker'.out = Append(worker.out, Msg("progress", worker.job))
                /\ worker'.inbox = worker.inbox /\ worker'.job = worker.job
            BY <1>0, <5>1 DEF ReportProgress, Child
          <6> QED
            BY <6>1, <6>2
        <5>2. CASE FinishJob
          <6> PICK kind \in Terminal :
                worker' = [worker EXCEPT !.st = "idle", !.job = Nobody,
                                         !.out = Append(worker.out, Msg(kind, worker.job))]
            BY <5>2 DEF FinishJob
          <6>1. /\ Msg(kind, worker.job) \in Message
                /\ Msg(kind, worker.job).of = worker.job
            BY <4>1 DEF Msg, Message
          <6>2. /\ worker'.out = Append(worker.out, Msg(kind, worker.job))
                /\ worker'.inbox = worker.inbox /\ worker'.job = Nobody
            BY <1>0 DEF Child
          <6> QED
            BY <6>1, <6>2
        <5> QED
          BY <3>2, <5>1, <5>2
      <4> PICK m \in Message : /\ m.of = worker.job /\ worker'.out = Append(worker.out, m)
                             /\ worker'.inbox = worker.inbox
                             /\ \/ worker'.job = worker.job /\ m.kind \notin Terminal
                                \/ worker'.job = Nobody
        BY <4>2
      <4>3. worker' \in Child
        BY <1>14, TypesStep DEF Typed, ChildTypes
      <4> QED
        <5>1. /\ Held(worker') \subseteq Held(worker)
              /\ \A P : Stamped(worker, P) /\ worker.job \in P => Stamped(worker', P)
              /\ Settled(worker) => Settled(worker')
          BY <1>0, <4>1, <4>3, AppendSettled
        <5>2. Settled(worker) /\ Stamped(worker, prepared)
          BY PipeViews
        <5>3. Stamped(worker', prepared)
          BY <4>1, <5>1, <5>2
        <5> QED
          BY <2>1, <5>1, <5>2, <5>3 DEF Stamped
    <3>3. CASE WorkerDies
      <4>1. worker'.inbox = <<>> /\ worker'.job = Nobody /\ worker'.out = worker.out
        BY <1>0, <3>3 DEF WorkerDies, Child
      <4>2. Held(worker') \subseteq Held(worker)
        BY <4>1, EmptyElements DEF Held
      <4>3. \A i \in DOMAIN worker.out : worker.out[i].of # Nobody
        <5>1. \A i \in DOMAIN worker.out : worker.out[i] \in Message
          BY <1>0
        <5> QED
          BY <5>1, NotSession DEF Message
      <4> QED
        BY <2>1, <4>1, <4>2, <4>3, PipeViews DEF Settled, Stamped
    <3>4. CASE StrayRead
      <4>1. /\ worker.out # <<>> /\ worker'.out = Tail(worker.out) /\ worker'.job = worker.job
            /\ worker'.inbox = worker.inbox /\ worker' \in Child
        BY <1>0, <3>4, ReceivedTyped DEF StrayRead, Child
      <4> QED
        BY <1>0, <2>1, <4>1, TailSettled, PipeViews DEF Stamped
    <3> QED
      BY <1>14, <3>1, <3>2, <3>3, <3>4 DEF ChildMoves
  <2> QED
    BY <1>1, <2>1, <2>2, <2>3
<1>15. ASSUME NEW j \in Job, Dispatch(j) PROVE Pipe'
  <2>1. UNCHANGED <<worker, prepared, events, jobLoop, tasks, pending, left, outcome>>
    BY <1>15 DEF Dispatch, runner, answers, tasksOf, marks
  <2> QED
    BY <1>2, <1>3, <2>1
<1>16. ASSUME NEW j \in Job, PublishProgress(j) PROVE Pipe'
  <2>1. UNCHANGED <<worker, prepared, jobLoop, tasks, pending, left, outcome>>
    BY <1>16, Reports
  <2>2. PICK m \in Message : m.kind = "progress" /\ events'[j] = Append(events[j], m)
    BY <1>16, Reports
  <2>3. OwnOf(events'[j], j, left)
    <3>1. m.kind \notin Terminal
      BY <2>2 DEF Terminal
    <3>2. OwnOf(events[j], j, left)
      BY PipeViews
    <3> QED
      BY <1>0, <2>2, <3>1, <3>2, AppendOwn
  <2>4. \A k \in Job : OwnOf(events'[k], k, left')
    BY <1>16, <2>1, <2>3, Reports, PipeViews
  <2>5. (\A k : Awaited(k) => Awaited(k)') /\ OwnOutcome'
    BY <1>3, <2>1
  <2> QED
    BY <2>1, <2>4, <2>5, PipeViews
<1> QED
  BY <1>6, <1>7, <1>8, <1>9, <1>10, <1>11, <1>12, <1>13, <1>14, <1>15, <1>16, JobSteps DEF LoopMoves

-----------------------------------------------------------------------------
(***************************************************************************)
(* The steps, as the LOADs see them.                                       *)
(***************************************************************************)
loadVars == <<lease, gateway, boot, loading, queue, at, result, process, loaded,
              cache["load"], reply["load"]>>

GatewayMoves(s) == Acquire(s) \/ LoadAnswered(s) \/ Unload(s) \/ UnloadAnswered(s)

\* Nothing but the child, or where the loop rests, is another.
Rests ==
    /\ UNCHANGED <<lease, gateway, boot, loading, queue, cache["load"], reply["load"]>>
    /\ \/ at' \in Resting /\ UNCHANGED <<process, loaded>>
       \/ at' \in {at, "idle"} /\ process' = Nobody /\ UNCHANGED result
       \/ at' = "idle" /\ process' = Nobody

BootMoves ==
    \/ ReadBootstrap \/ CheckBootstrap \/ Load \/ LoadReady \/ LoadFails \/ Recheck
    \/ StartSlotTasks \/ CacheResult \/ PublishResult \/ AckBootstrap
    \/ \E ok \in BOOLEAN : Cleared(ok) \/ Undone(ok)

\* The results of an UNLOAD are none of the LOADs.
LEMMA OtherCommand ==
    ASSUME Typed, CacheControlResult \/ PublishControlResult
    PROVE  UNCHANGED <<cache["load"], reply["load"]>>
<1>1. cache \in Result /\ reply \in Result
  BY DEF Typed, RedisTypes
<1>2. CASE CacheControlResult
  <2>1. cache' = [cache EXCEPT !["unload"] =
                     [cache["unload"] EXCEPT ![tasks] = IF control = "cache_ok" THEN "ok"
                     ELSE "failed"]]
        /\ UNCHANGED reply
    BY <1>2 DEF CacheControlResult
  <2> QED
    BY <1>1, <2>1 DEF Result
<1>3. CASE PublishControlResult
  <2>1. reply' = [reply EXCEPT !["unload"] =
                     [reply["unload"] EXCEPT ![tasks] = cache["unload"][tasks]]]
        /\ UNCHANGED cache
    BY <1>3 DEF PublishControlResult
  <2> QED
    BY <1>1, <2>1 DEF Result
<1> QED
  BY <1>2, <1>3

LEMMA BootSteps ==
    ASSUME Typed, Next
    PROVE  \/ UNCHANGED loadVars \/ Rests \/ BootMoves \/ LoseLease
           \/ \E s \in Session : GatewayMoves(s)
           \/ \E j \in Job : Dispatch(j)
<1> USE DEF loadVars, redis, streams, answers, outer, supervisor
<1>1. CASE \E i \in Id : Cancel(i) \/ TouchCancelFile(i)
  BY <1>1 DEF Cancel, TouchCancelFile, runner
<1>2. CASE CacheControlResult \/ PublishControlResult
  BY <1>2, OtherCommand DEF CacheControlResult, PublishControlResult
<1>3. CASE \/ ReadControl \/ AckControl \/ ReleaseLocked("boot") \/ ReleaseLocked("control")
           \/ ReadJob \/ LockJob \/ ReceiveMessage \/ ReceiveFails \/ Flushed \/ AckJob \/ Restart
  BY <1>3 DEF ReadControl, AckControl, ReleaseLocked, ReadJob, LockJob, ReceiveMessage,
              ReceiveFails, Flushed, AckJob, Restart
<1>4. CASE PublishJobEvent \/ \E j \in Job : PublishProgress(j)
  BY <1>4 DEF PublishJobEvent, PublishProgress
<1>5. CASE Worker \/ WorkerDies \/ StrayRead
  BY <1>5 DEF Worker, StartJob, ReportProgress, FinishJob, Quit, WorkerDies, StrayRead, others
<1>6. ASSUME NEW ok \in BOOLEAN, ControlReleased(ok) PROVE Rests
  BY <1>6 DEF ControlReleased, NoProcess, Rests
<1>7. CASE Crash \/ Closed
  BY <1>7 DEF Crash, Closed, Down, Rests
<1>8. CASE Stop
  BY <1>8 DEF Stop, Rests, Resting
<1>9. CASE Closing
  BY <1>9 DEF Closing, Down, Rests, Resting
<1> QED
  BY <1>1, <1>2, <1>3, <1>4, <1>5, <1>6, <1>7, <1>8, <1>9
     DEF Next, Gateway, GatewayMoves, BootstrapLoop, BootMoves, ControlLoop, JobLoop, Process

LEMMA Caches ==
    ASSUME Typed, Hands, CacheResult
    PROVE  /\ loading \in Session /\ result \in {"ok", "failed"} /\ cache'["load"][loading] = result
           /\ \A s \in Session : s # loading => cache'["load"][s] = cache["load"][s]
           /\ at = "cache" /\ at' = "publish"
           /\ UNCHANGED <<lease, gateway, boot, loading, queue, result, process, loaded, reply>>
<1>1. /\ loading \in Session /\ result \in {"ok", "failed"} /\ cache \in Result
      /\ cache' = [cache EXCEPT !["load"] = [cache["load"] EXCEPT ![loading] = result]]
  BY DEF CacheResult, Hands, Resting, Typed, LoopTypes, RedisTypes
<1>2. /\ cache'["load"][loading] = result
      /\ \A s \in Session : s # loading => cache'["load"][s] = cache["load"][s]
  BY <1>1 DEF Result
<1> QED
  BY <1>1, <1>2 DEF CacheResult, streams, outer, supervisor

LEMMA Replies ==
    ASSUME Typed, Hands, PublishResult
    PROVE  /\ loading \in Session /\ result \in {"ok", "failed"} /\ reply'["load"][loading] = result
           /\ \A s \in Session : s # loading => reply'["load"][s] = reply["load"][s]
           /\ at = "publish" /\ at' = "ack"
           /\ UNCHANGED <<lease, gateway, boot, loading, queue, result, process, loaded, cache>>
<1>1. /\ loading \in Session /\ result \in {"ok", "failed"} /\ reply \in Result
      /\ reply' = [reply EXCEPT !["load"] = [reply["load"] EXCEPT ![loading] = result]]
  BY DEF PublishResult, Hands, Resting, Typed, LoopTypes, RedisTypes
<1>2. /\ reply'["load"][loading] = result
      /\ \A s \in Session : s # loading => reply'["load"][s] = reply["load"][s]
  BY <1>1 DEF Result
<1> QED
  BY <1>1, <1>2 DEF PublishResult, streams, outer, supervisor

\* A Gateway's step changes its own session and takes or gives up the lease.
LEMMA GatewaySteps ==
    ASSUME Typed, NEW s \in Session, GatewayMoves(s)
    PROVE  /\ UNCHANGED <<loading, queue, cache, reply, at, result, process, loaded>>
           /\ \A t \in Session : t # s => gateway'[t] = gateway[t]
           /\ gateway'[s] # "new"
           /\ gateway'[s] = "ready" => gateway[s] = "loading" /\ reply["load"][s] = "ok"
           /\ \/ gateway[s] = "new" /\ lease = Nobody /\ lease' = s /\ boot' = Append(boot, s)
                 /\ gateway'[s] = "loading"
              \/ lease' \in {lease, Nobody} /\ UNCHANGED boot
<1>1. gateway \in [Session -> {"new", "loading", "ready", "releasing", "failed", "released"}]
  BY DEF Typed, RedisTypes
<1>2. CASE Acquire(s)
  BY <1>1, <1>2 DEF Acquire, answers, runner, supervisor
<1>3. CASE LoadAnswered(s)
  BY <1>1, <1>3 DEF LoadAnswered, streams, answers, runner, supervisor
<1>4. CASE Unload(s) \/ UnloadAnswered(s)
  BY <1>1, <1>4 DEF Unload, UnloadAnswered, streams, answers, runner, supervisor
<1> QED
  BY <1>2, <1>3, <1>4 DEF GatewayMoves

LEMMA DispatchSteps ==
    ASSUME Typed, NEW j \in Job, Dispatch(j)
    PROVE  /\ UNCHANGED <<lease, gateway, boot, loading, cache, reply, at, result, process, loaded>>
           /\ SlotOf[j] \in Session /\ gateway[SlotOf[j]] = "ready"
           /\ \A s \in Session : s # SlotOf[j] => queue'[s] = queue[s]
BY DEF Dispatch, answers, runner, supervisor, Typed, RedisTypes

LEMMA LoadsStep == ASSUME Typed, Hands, Loads, Next PROVE Loads'
<1> USE DEF Loads, InLoad
<1>1. CASE UNCHANGED loadVars
  BY <1>1 DEF loadVars
<1>2. CASE Rests
  BY <1>2 DEF Rests, Resting
<1>3. CASE LoseLease
  BY <1>3 DEF LoseLease, streams, answers, runner
<1>4. ASSUME NEW s \in Session, GatewayMoves(s) PROVE Loads'
  BY <1>4, GatewaySteps
<1>5. ASSUME NEW j \in Job, Dispatch(j) PROVE Loads'
  BY <1>5, DispatchSteps
<1>6. CASE CacheResult
  <2>1. \A s \in Session : cache["load"][s] # "none" => cache'["load"][s] # "none"
    BY <1>6, Caches
  <2> QED
    BY <1>6, <2>1, Caches
<1>7. CASE PublishResult
  BY <1>7, Replies
<1>8. CASE ReadBootstrap \/ AckBootstrap
  BY <1>8 DEF ReadBootstrap, AckBootstrap, answers, outer
<1>9. CASE CheckBootstrap
  BY <1>9 DEF CheckBootstrap, redis, streams, answers, outer
<1>10. CASE Load \/ LoadReady \/ LoadFails \/ Recheck \/ StartSlotTasks
  <2>1. /\ UNCHANGED <<loading, queue, gateway, cache, reply>> /\ at \in InLoad
        /\ at' \in InLoad \cup {"cache"}
    BY <1>10 DEF Load, LoadReady, LoadFails, Recheck, StartSlotTasks, redis, streams, answers, outer
  <2> QED
    BY <2>1
<1>11. ASSUME NEW ok \in BOOLEAN, Cleared(ok) \/ Undone(ok) PROVE Loads'
  <2>1. /\ UNCHANGED <<loading, queue, gateway, cache, reply>> /\ at \in InLoad
        /\ at' \in InLoad \cup {"cache"}
    BY <1>11 DEF Cleared, Undone, redis, streams, answers
  <2> QED
    BY <2>1
<1> QED
  BY <1>1, <1>2, <1>3, <1>4, <1>5, <1>6, <1>7, <1>8, <1>9, <1>10, <1>11, BootSteps DEF BootMoves

\* A LOAD is delivered: the next of the stream, or again the one not acked.
LEMMA Delivers ==
    ASSUME Typed, ReadBootstrap
    PROVE  /\ UNCHANGED <<lease, gateway, queue, cache, reply, result, process, loaded>>
           /\ at' = "check"
           /\ \/ loading # Nobody /\ UNCHANGED <<boot, loading>>
              \/ /\ loading = Nobody /\ boot # <<>> /\ loading' = Head(boot) /\ boot' = Tail(boot)
                 /\ Elements(boot) = Elements(boot') \cup {loading'} /\ loading' \in Session
                 /\ Distinct(boot) => Distinct(boot') /\ loading' \notin Elements(boot')
                 /\ boot' # <<>> => boot'[Len(boot')] = boot[Len(boot)]
                 /\ boot' = <<>> => loading' = boot[Len(boot)]
<1>1. boot \in Seq(Session)
  BY DEF Typed, RedisTypes
<1>2. /\ UNCHANGED <<lease, gateway, queue, cache, reply, result, process, loaded>>
      /\ at' = "check"
  BY DEF ReadBootstrap, answers, outer, supervisor
<1>3. CASE loading = Nobody /\ boot # <<>> /\ loading' = Head(boot) /\ boot' = Tail(boot)
  <2>1. /\ Elements(boot) = Elements(Tail(boot)) \cup {Head(boot)} /\ Head(boot) \in Session
        /\ Distinct(boot) => Distinct(Tail(boot)) /\ Head(boot) \notin Elements(Tail(boot))
    BY <1>1, <1>3, TailElements
  <2>2. /\ Tail(boot) # <<>> => Tail(boot)[Len(Tail(boot))] = boot[Len(boot)]
        /\ Tail(boot) = <<>> => Head(boot) = boot[Len(boot)]
    <3> DEFINE t == Tail(boot)
               n == Len(boot)
    <3>1. /\ n \in Nat \ {0} /\ Len(t) = n - 1 /\ Head(boot) = boot[1] /\ t \in Seq(Session)
          /\ \A i \in DOMAIN t : t[i] = boot[i + 1]
      BY <1>1, <1>3, TailElements
    <3> HIDE DEF t, n
    <3>2. ASSUME t # <<>> PROVE t[Len(t)] = boot[n]
      <4>1. Len(t) \in DOMAIN t /\ Len(t) + 1 = n
        BY <3>1, <3>2
      <4> QED
        BY <3>1, <4>1
    <3>3. ASSUME t = <<>> PROVE Head(boot) = boot[n]
      <4>1. n = 1
        BY <3>1, <3>3
      <4> QED
        BY <3>1, <4>1
    <3> QED
      BY <3>2, <3>3 DEF t, n
  <2> QED
    BY <1>2, <1>3, <2>1, <2>2
<1> QED
  BY <1>2, <1>3 DEF ReadBootstrap

LEMMA OrderStep == ASSUME Typed, Hands, Loads, Order, Next PROVE Order'
<1>0. boot \in Seq(Session) /\ Elements(boot) \subseteq Session /\ Nobody \notin Session
  BY ElementsTyped, NotSession DEF Typed, RedisTypes
<1>1. CASE UNCHANGED loadVars
  BY <1>1 DEF Order, loadVars
<1>2. CASE Rests
  BY <1>2 DEF Rests, Order
<1>3. CASE LoseLease
  <2>1. UNCHANGED <<gateway, boot, loading, cache>> /\ lease' = Nobody
    BY <1>3 DEF LoseLease, streams, answers, runner
  <2> QED
    BY <1>0, <2>1 DEF Order
<1>4. ASSUME NEW s \in Session, GatewayMoves(s) PROVE Order'
  <2>1. /\ UNCHANGED <<loading, cache>>
        /\ \A t \in Session : gateway'[t] = "new" => t # s /\ gateway[t] = "new"
    BY <1>4, GatewaySteps
  <2>2. CASE lease' \in {lease, Nobody} /\ UNCHANGED boot
    BY <1>0, <2>1, <2>2 DEF Order
  <2>3. CASE gateway[s] = "new" /\ lease' = s /\ boot' = Append(boot, s)
    <3>1. /\ s \notin Elements(boot) /\ loading # s /\ cache["load"][s] = "none" /\ Distinct(boot)
      BY <2>3 DEF Order
    <3>2. /\ boot' # <<>> /\ boot'[Len(boot')] = s /\ Elements(boot') = Elements(boot) \cup {s}
          /\ Distinct(boot')
      BY <1>0, <2>3, <3>1, AppendElements
    <3>3. ASSUME NEW t \in Session, gateway'[t] = "new"
          PROVE t \notin Elements(boot') /\ loading' # t /\ lease' # t /\ cache'["load"][t] = "none"
      BY <2>1, <2>3, <3>2, <3>3 DEF Order
    <3>4. \A t \in Session : cache'["load"][t] # "none" => t \notin Elements(boot')
      BY <2>1, <3>1, <3>2 DEF Order
    <3> QED
      BY <2>1, <2>3, <3>1, <3>2, <3>3, <3>4 DEF Order
  <2> QED
    BY <1>4, <2>2, <2>3, GatewaySteps
<1>5. ASSUME NEW j \in Job, Dispatch(j) PROVE Order'
  BY <1>5, DispatchSteps DEF Order
<1>6. CASE CacheResult
  <2>1. /\ UNCHANGED <<lease, gateway, boot, loading>> /\ loading \in Session
        /\ \A s \in Session : s # loading => cache'["load"][s] = cache["load"][s]
    BY <1>6, Caches
  <2> QED
    BY <2>1 DEF Order
<1>7. CASE PublishResult
  BY <1>7, Replies DEF Order
<1>8. CASE ReadBootstrap
  <2>1. UNCHANGED <<lease, gateway, cache>>
    BY <1>8, Delivers
  <2>2. CASE UNCHANGED <<boot, loading>>
    BY <2>1, <2>2 DEF Order
  <2>3. CASE /\ loading = Nobody /\ boot # <<>>
             /\ Elements(boot) = Elements(boot') \cup {loading'} /\ loading' \in Session
             /\ Distinct(boot) => Distinct(boot') /\ loading' \notin Elements(boot')
             /\ boot' # <<>> => boot'[Len(boot')] = boot[Len(boot)]
             /\ boot' = <<>> => loading' = boot[Len(boot)]
    BY <2>1, <2>3 DEF Order
  <2> QED
    BY <1>8, <2>2, <2>3, Delivers
<1>9. CASE AckBootstrap
  <2>1. UNCHANGED <<lease, gateway, cache, boot>> /\ loading' = Nobody
    BY <1>9 DEF AckBootstrap, answers, outer
  <2> QED
    BY <1>0, <2>1 DEF Order
<1>10. CASE CheckBootstrap \/ Load \/ LoadReady \/ LoadFails \/ Recheck \/ StartSlotTasks
  <2>1. UNCHANGED <<lease, gateway, boot, loading, cache>>
    BY <1>10 DEF CheckBootstrap, Load, LoadReady, LoadFails, Recheck, StartSlotTasks, redis,
                 streams, answers, outer
  <2> QED
    BY <2>1 DEF Order
<1>11. ASSUME NEW ok \in BOOLEAN, Cleared(ok) \/ Undone(ok) PROVE Order'
  <2>1. UNCHANGED <<lease, gateway, boot, loading, cache>>
    BY <1>11 DEF Cleared, Undone, redis, streams, answers
  <2> QED
    BY <2>1 DEF Order
<1> QED
  BY <1>1, <1>2, <1>3, <1>4, <1>5, <1>6, <1>7, <1>8, <1>9, <1>10, <1>11, BootSteps DEF BootMoves

\* While a LOAD is carried out, no session has the lease and a loaded model.
LEMMA NoneServed ==
    ASSUME Typed, Hands, Loads, Order, at \in InLoad, NEW s \in Session, lease = s
    PROVE  cache["load"][s] # "ok"
<1>1. loading \in Session /\ cache["load"][loading] = "none" /\ lease # Nobody
  BY NotSession DEF Hands, Loads, InLoad, Resting
<1>2. CASE boot = <<>>
  BY <1>1, <1>2, NotSession DEF Order
<1>3. CASE boot # <<>>
  <2>1. boot[Len(boot)] = s /\ boot \in Seq(Session)
    BY <1>1, <1>3 DEF Order, Typed, RedisTypes
  <2>2. s \in Elements(boot)
    BY <1>3, <2>1 DEF Elements
  <2> QED
    BY <2>2 DEF Order
<1> QED
  BY <1>2, <1>3

LEMMA ModelsStep == ASSUME Typed, Hands, Loads, Order, Models, Next PROVE Models'
<1>0. Nobody \notin Session /\ (at \notin Resting => loading \in Session)
  BY NotSession DEF Hands
<1>1. CASE UNCHANGED loadVars
  BY <1>1 DEF Models, Through, loadVars
<1>2. CASE Rests
  BY <1>2 DEF Rests, Models, Through, Resting
<1>3. CASE LoseLease
  <2>1. UNCHANGED <<loading, at>> /\ lease' = Nobody
    BY <1>3 DEF LoseLease, streams, runner
  <2> QED
    BY <1>0, <2>1 DEF Models, Resting
<1>4. ASSUME NEW s \in Session, GatewayMoves(s) PROVE Models'
  <2>1. UNCHANGED <<loading, queue, cache, reply, at, result, process, loaded>>
    BY <1>4, GatewaySteps
  <2>2. CASE lease' \in {lease, Nobody}
    <3>1. \A t \in Session : gateway'[t] = "ready"
            => gateway[t] = "ready" \/ reply["load"][t] = "ok"
      BY <1>4, GatewaySteps
    <3> QED
      BY <1>0, <2>1, <2>2, <3>1 DEF Models, Through, Resting
  <2>3. CASE gateway[s] = "new" /\ lease' = s /\ gateway'[s] = "loading"
    <3>1. loading # s /\ cache["load"][s] = "none"
      BY <2>3 DEF Order
    <3>2. queue[s] = <<>> /\ reply["load"][s] = "none"
      BY <3>1 DEF Loads
    <3> QED
      BY <2>1, <2>3, <3>1, <3>2 DEF Models, Through
  <2> QED
    BY <1>4, <2>2, <2>3, GatewaySteps
<1>5. ASSUME NEW j \in Job, Dispatch(j) PROVE Models'
  <2>1. \A s \in Session : queue'[s] # <<>> => queue[s] # <<>> \/ gateway[s] = "ready"
    BY <1>5, DispatchSteps
  <2> QED
    BY <1>5, <2>1, DispatchSteps DEF Models, Through
<1>6. CASE CacheResult
  <2>1. /\ UNCHANGED <<lease, gateway, queue, loading, reply, result, process, loaded>>
        /\ loading \in Session /\ result \in {"ok", "failed"} /\ at = "cache" /\ at' = "publish"
        /\ cache'["load"][loading] = result
        /\ \A s \in Session : s # loading => cache'["load"][s] = cache["load"][s]
    BY <1>6, Caches
  <2>2. ASSUME NEW s \in Session, lease = s,
               queue[s] # <<>> \/ gateway[s] = "ready" \/ reply["load"][s] = "ok"
        PROVE  cache'["load"][s] = "ok"
    <3>1. cache["load"][s] = "ok"
      BY <2>2 DEF Models
    <3>2. s = loading => result # "failed"
      BY <2>1, <2>2, <3>1 DEF Models
    <3> QED
      BY <2>1, <3>1, <3>2
  <2>3. \A s \in Session : Through(s)' => Through(s)
    BY <2>1 DEF Through
  <2> QED
    BY <2>1, <2>2, <2>3 DEF Models
<1>7. CASE PublishResult
  <2>1. /\ UNCHANGED <<lease, gateway, queue, loading, cache, result, process, loaded>>
        /\ at = "publish" /\ at' = "ack" /\ loading \in Session
        /\ reply'["load"][loading] = result
        /\ \A s \in Session : s # loading => reply'["load"][s] = reply["load"][s]
    BY <1>7, Replies
  <2>2. \A s \in Session : reply'["load"][s] = "ok"
            => reply["load"][s] = "ok" \/ cache["load"][s] = "ok"
    BY <2>1 DEF Loads
  <2> QED
    BY <2>1, <2>2 DEF Models, Through
<1>8. CASE ReadBootstrap \/ AckBootstrap
  <2>1. UNCHANGED <<lease, gateway, queue, cache, reply, process, loaded>>
        /\ at' \in {"check", "idle"}
    BY <1>8, Delivers DEF AckBootstrap, answers, outer, supervisor, streams
  <2> QED
    BY <2>1 DEF Models, Through
<1>9. CASE CheckBootstrap
  <2>1. /\ UNCHANGED <<lease, gateway, queue, loading, cache, reply, process, loaded>>
        /\ at' = "cache" => lease # loading /\ result' = "failed"
        /\ at' \in {"cache", "load", "publish"}
    BY <1>9 DEF CheckBootstrap, redis, streams, answers, outer, supervisor
  <2> QED
    BY <2>1 DEF Models, Through
<1>10. ASSUME UNCHANGED <<lease, gateway, queue, loading, cache, reply>>, at \in InLoad,
              at' # "undo",
              ~(/\ at' = "cache" /\ result' = "failed"
                /\ lease = loading /\ cache["load"][loading] # "none"),
              at' \in {"recheck", "stopping"} \/ (at' = "cache" /\ result' = "ok")
                  => lease # loading \/ process' = Nobody \/ loaded' = SpecOf[loading]
       PROVE  Models'
  <2>1. \A s \in Session : lease = s => cache["load"][s] # "ok"
    BY <1>10, NoneServed
  <2>2. ASSUME NEW s \in Session, lease = s, Through(s)', process' # Nobody
        PROVE  loaded' = SpecOf[s]
    BY <1>10, <2>1, <2>2 DEF Through
  <2> QED
    BY <1>10, <2>1, <2>2 DEF Models
<1>11. CASE Load
  <2>1. /\ UNCHANGED <<lease, gateway, queue, loading, cache, reply, result>> /\ at = "load"
        /\ at' \in {"clear", "receive", "recheck"}
        /\ at' = "recheck" => loaded = SpecOf[loading] /\ UNCHANGED loaded
    BY <1>11 DEF Load, redis, streams, answers, outer, supervisor
  <2> QED
    BY <1>10, <2>1 DEF InLoad
<1>12. CASE LoadReady
  <2>1. /\ UNCHANGED <<lease, gateway, queue, loading, cache, reply>> /\ at = "receive"
        /\ at' = "recheck" /\ loaded' = SpecOf[loading]
    BY <1>12 DEF LoadReady, redis, streams, answers, outer
  <2> QED
    BY <1>10, <2>1 DEF InLoad
<1>13. CASE LoadFails
  <2>1. /\ UNCHANGED <<lease, gateway, queue, loading, cache, reply>> /\ at = "receive"
        /\ at' = "cache" /\ result' = "failed"
    BY <1>13 DEF LoadFails, redis, streams, answers
  <2>2. cache["load"][loading] = "none"
    BY <2>1 DEF Loads, InLoad
  <2> QED
    BY <1>10, <2>1, <2>2 DEF InLoad
<1>14. CASE Recheck
  <2>1. UNCHANGED <<lease, gateway, queue, loading, cache, reply, process, loaded, result>>
        /\ at = "recheck"
    BY <1>14 DEF Recheck, redis, streams, answers
  <2>2. CASE lease # loading
    <3>1. at' = "undo"
      BY <1>14, <2>2 DEF Recheck
    <3> QED
      BY <2>1, <2>2, <3>1 DEF Models, Through
  <2>3. CASE lease = loading
    <3>1. at' = "stopping"
      BY <1>14, <2>3 DEF Recheck
    <3> QED
      BY <2>1, <3>1 DEF Models, Through
  <2> QED
    BY <2>2, <2>3
<1>15. CASE StartSlotTasks
  <2>1. UNCHANGED <<lease, gateway, queue, loading, cache, reply, process, loaded>>
        /\ at = "stopping" /\ at' = "cache" /\ result' = "ok"
    BY <1>15 DEF StartSlotTasks, redis, streams, answers, outer, supervisor
  <2> QED
    BY <2>1 DEF Models, Through
<1>16. ASSUME NEW ok \in BOOLEAN, Cleared(ok) PROVE Models'
  <2>1. /\ UNCHANGED <<lease, gateway, queue, loading, cache, reply>> /\ at = "clear"
        /\ at' = "receive"
    BY <1>16 DEF Cleared, redis, streams, answers
  <2> QED
    BY <1>10, <2>1 DEF InLoad
<1>17. ASSUME NEW ok \in BOOLEAN, Undone(ok) PROVE Models'
  <2>1. /\ UNCHANGED <<lease, gateway, queue, loading, cache, reply>> /\ at = "undo"
        /\ at' = "cache" /\ result' = "failed" /\ lease # loading
    BY <1>17 DEF Undone, redis, streams, answers, Models
  <2> QED
    BY <1>10, <2>1 DEF InLoad
<1> QED
  BY <1>1, <1>2, <1>3, <1>4, <1>5, <1>6, <1>7, <1>8, <1>9, <1>11, <1>12, <1>13, <1>14, <1>15,
     <1>16, <1>17, BootSteps DEF BootMoves

-----------------------------------------------------------------------------
(* The inductive invariant of the jobs and the LOADs *)

RunnerInv ==
    /\ LockInv /\ Typed /\ Hands
    /\ Streams /\ Once /\ Answers /\ Progress /\ Pipe
    /\ Loads /\ Order /\ Models

LEMMA RunnerInit == Init => RunnerInv
<1> SUFFICES ASSUME Init PROVE RunnerInv
  OBVIOUS
<1> USE DEF Init
<1>1. LockInv
  BY DEF LockInv, LockTypes, JobHoldsLock, ReleaseHoldsLock, BootReleases, ControlReleases, Caller
<1>2. /\ \A s \in Session : queue[s] = <<>> /\ taken[s] = 0 /\ pending[s] = Nobody
      /\ \A j \in Job : events[j] = <<>>
      /\ \A s \in Session : gateway[s] = "new" /\ cache["load"][s] = "none"
         /\ reply["load"][s] = "none"
  BY DEF None2
<1>3. worker.inbox = <<>> /\ worker.job = Nobody /\ worker.out = <<>> /\ worker.st = "none"
  BY DEF NoWorker
<1>4. Typed
  <2>1. RedisTypes
    <3>1. <<>> \in Seq(Session) /\ <<>> \in Seq(Job) /\ <<>> \in Seq(Message)
      OBVIOUS
    <3>2. None2 \in Result
      BY DEF None2, Result
    <3> QED
      BY <3>1, <3>2 DEF RedisTypes
  <2>2. LoopTypes
    BY DEF LoopTypes
  <2>3. ChildTypes
    BY FreshTyped DEF ChildTypes
  <2> QED
    BY <2>1, <2>2, <2>3 DEF Typed
<1>5. Hands
  BY <1>3 DEF Hands, Resting, WithJob
<1>6. \A j \in Job : ~Answered(j) /\ ~Delivered(j)
  BY <1>2 DEF Answered, Delivered
<1>7. Streams
  BY <1>2, <1>3, <1>6, EmptyElements DEF Streams
<1>8. Once
  BY <1>3, EmptyElements DEF Once
<1>9. Answers /\ Progress
  BY <1>2 DEF Answers, Progress, OneOutcome, SuccessIsLast, WithJob
<1>10. Pipe
  BY <1>2, <1>3, EmptyElements DEF Pipe, ResultIsOwn
<1>11. Loads /\ Order /\ Models
  BY <1>2, EmptyElements, NotSession DEF Loads, Order, Models, InLoad
<1> QED
  BY <1>1, <1>4, <1>5, <1>7, <1>8, <1>9, <1>10, <1>11 DEF RunnerInv

LEMMA RunnerStep == RunnerInv /\ [Next]_vars => RunnerInv'
<1> SUFFICES ASSUME RunnerInv, [Next]_vars PROVE RunnerInv'
  OBVIOUS
<1> USE DEF RunnerInv
<1>1. LockInv' /\ Typed' /\ Hands'
  BY LockStep, TypesStep, HandsStep
<1>2. CASE Next
  BY <1>1, <1>2, StreamsStep, OnceStep, AnswersStep, ProgressStep, PipeStep, LoadsStep, OrderStep,
     ModelsStep
<1>3. CASE UNCHANGED vars
  <2> USE <1>3 DEF vars, redis, streams, answers, marks, tasksOf, supervisor
  <2>1. Streams' /\ Once' /\ Answers'
    <3>1. \A j \in Job : (Answered(j)' <=> Answered(j)) /\ (Delivered(j)' <=> Delivered(j))
      BY DEF Answered, Delivered
    <3>2. Streams'
      <4>1. UNCHANGED <<queue, taken, pending, events, prepared, worker>>
        OBVIOUS
      <4> QED
        BY <3>1, <4>1, StreamsFrame DEF Streams, Pulled
    <3>3. Once' /\ OneOutcome'
      BY DEF Once, Answers, OneOutcome
    <3>4. Answers'
      BY <3>3 DEF Answers, Answered
    <3> QED
      BY <3>2, <3>3, <3>4
  <2>2. Progress' /\ Pipe'
    BY DEF Progress, SuccessIsLast, Pipe, ResultIsOwn, Awaited
  <2>3. Loads' /\ Order' /\ Models'
    BY DEF Loads, Order, Models, Through
  <2> QED
    BY <1>1, <2>1, <2>2, <2>3
<1> QED
  BY <1>2, <1>3

\* A job the child has in hand was dispatched on a slot whose LOAD went through.
LEMMA ModelHolds == RunnerInv => RightModel
<1> SUFFICES ASSUME RunnerInv, worker.st = "busy", lease = SlotOf[worker.job]
             PROVE  loaded = SpecOf[SlotOf[worker.job]]
  BY DEF RightModel
<1> DEFINE s == SlotOf[worker.job]
<1>1. worker.job \in Job /\ worker.job \in prepared
  BY DEF RunnerInv, Hands, Once, Typed, ChildTypes, Child
<1>2. s \in Session /\ queue[s] # <<>>
  <2>1. s \in Session /\ Delivered(worker.job)
    BY <1>1 DEF RunnerInv, Streams
  <2>2. queue[s] \in Seq(Job) /\ taken[s] \in 0..Len(queue[s])
    BY <2>1 DEF RunnerInv, Typed, RedisTypes, Streams
  <2>3. \E i \in 1..taken[s] : TRUE
    BY <2>1 DEF Delivered
  <2> HIDE DEF s
  <2>4. Len(queue[s]) # 0
    BY <2>2, <2>3
  <2> QED
    BY <2>1, <2>2, <2>4
<1>3. cache["load"][s] = "ok"
  BY <1>2 DEF RunnerInv, Models
<1>4. process # Nobody
  BY DEF RunnerInv, Hands, NoWorker
<1> QED
  BY <1>2, <1>3, <1>4 DEF RunnerInv, Models, Through

-----------------------------------------------------------------------------
(***************************************************************************)
(* Every variable of the Runner keeps its type, whatever dies, is lost or  *)
(* answers late.                                                           *)
(***************************************************************************)
THEOREM RunnerTypeCorrect == Spec => []TypeOK
<1>1. RunnerInv => TypeOK
  BY TypedTypeOK DEF RunnerInv
<1> QED
  BY <1>1, RunnerInit, RunnerStep, PTL DEF Spec

(***************************************************************************)
(* What _publish_event says last of an attempt is its only outcome, but    *)
(* for the cancellation of a loop that was publishing.  A retry is a new   *)
(* message with an outcome of its own on the same stream; a message not    *)
(* acked is never given out again: the loops of a slot are started once.   *)
(***************************************************************************)
THEOREM RunnerOneOutcome == Spec => []OneOutcome
<1>1. RunnerInv => OneOutcome
  BY DEF RunnerInv, Answers
<1> QED
  BY <1>1, RunnerInit, RunnerStep, PTL DEF Spec

(***************************************************************************)
(* Success comes after every report of progress: the tasks that publish    *)
(* them are gathered first, and none is started for an attempt once        *)
(* answered.                                                               *)
(***************************************************************************)
THEOREM RunnerSuccessIsLast == Spec => []SuccessIsLast
<1>1. RunnerInv => SuccessIsLast
  BY DEF RunnerInv, Progress
<1> QED
  BY <1>1, RunnerInit, RunnerStep, PTL DEF Spec

(***************************************************************************)
(* An attempt gets its own result or that of one nobody awaits: what the   *)
(* child has in hand, has yet to read or has said is of the one attempt    *)
(* the loop waits for, or of one that was left.                            *)
(***************************************************************************)
THEOREM RunnerResultIsOwn == Spec => []ResultIsOwn
<1>1. RunnerInv => ResultIsOwn
  BY DEF RunnerInv, Pipe
<1> QED
  BY <1>1, RunnerInit, RunnerStep, PTL DEF Spec

(***************************************************************************)
(* The jobs of the session with the lease run on its model: no other LOAD  *)
(* is carried out once its own went through, since its LOAD was the last   *)
(* of the control stream and one with an answer is not carried out again.  *)
(***************************************************************************)
THEOREM RunnerRightModel == Spec => []RightModel
  BY RunnerInit, RunnerStep, ModelHolds, PTL DEF Spec

(***************************************************************************)
(* No attempt is begun by a child twice: its message is read from the      *)
(* stream once and written to a pipe once, and no other child has that     *)
(* pipe.                                                                   *)
(***************************************************************************)
THEOREM RunnerRunsOnce == Spec => RunOnce
<1> DEFINE Begins == \A j \in Job : (worker.job # j /\ worker'.job = j) => j \notin prepared
<1>1. RunnerInv /\ [Next]_vars => [Begins]_vars
  BY BeginsOnce DEF RunnerInv
<1>2. Spec => [][Begins]_vars
  BY <1>1, RunnerInit, RunnerStep, PTL DEF Spec
<1> QED
  BY <1>2 DEF RunOnce
=============================================================================
