------------------------- MODULE AgentRuntimeProofs -------------------------
(***************************************************************************)
(* AgentRuntime, proved for any calls, executors, turns and disturbances:  *)
(* its types; that every step of it is a step of the repository or none,   *)
(* so that what the repository promises holds of it; that the tool of a    *)
(* call is executed at most once; and that the coroutines together do not  *)
(* ask the provider more often than a run may.                             *)
(***************************************************************************)
EXTENDS AgentRuntime, AgentRepositoryProofs

USE AgentAssumption, RuntimeAssumption DEF stored

-----------------------------------------------------------------------------
(***************************************************************************)
(* Types alone are not inductive: a coroutine that is about to start or to *)
(* close a tool must have a call in hand, and a continuation the call      *)
(* whose decision it carries out.  Sound says so, and that a coroutine     *)
(* that asks the provider has a turn left and one that marks an attempt.   *)
(***************************************************************************)
Kinds == {"turn", "resume", "inner", "recovery", "cancel"}
Over  == {"settle", "release", "done", "none"}
Hands == {"schedule", "startTool", "tool", "finishTool", "startApproved", "abandon"}
Driving == {"turn", "resume", "inner"}

Sound(w) ==
    /\ w.pc \in Hands => w.call \in Call
    /\ w.pc = "renew" /\ w.kind = "resume" => w.call \in Call
    /\ w.kind \in {"resume", "inner"} /\ w.pc \notin Over => w.decided \in Call
    /\ w.pc \in Loop \cup {"stopped", "resumeStopped"} => w.kind \in Driving
    /\ w.pc = "resumeStopped" => w.kind # "turn"
    /\ w.pc \in {"startApproved", "abandon", "load"} => w.kind = "resume"
    /\ w.pc = "stream" => w.n < MaxTurns
    /\ w.pc = "failRead" => w.tries <= 3
    /\ w.pc = "failWrite" => w.tries < 3
    /\ w.pc = "cancelWrite" => w.tries < 4

OthersTyped ==
    /\ life \in [Executor -> {"new", "starting", "up", "closing", "gone"}]
    /\ flags \in [Executor -> SUBSET {"userCancelled", "leaseLost", "budget"}]
    /\ timer \in [Executor -> SUBSET Call]
    /\ queued \in [Executor -> Call \cup {Nobody}]
    /\ asked \in Nat /\ spent \in 0..Budget

Typed ==
    /\ task \in [Coroutine -> TaskType]
    /\ \A t \in Coroutine : Sound(task[t])
    /\ OthersTyped /\ StoredTypeOK

\* How a step moves the coroutines: none is sent to execute a tool.
TaskMoves ==
    /\ task' \in [Coroutine -> TaskType]
    /\ \A t \in Coroutine : task'[t] = task[t] \/ (Sound(task'[t]) /\ task'[t].pc # "tool")

\* All steps but those that start or execute a tool.
Plain == TaskMoves /\ OthersTyped' /\ UNCHANGED ran /\ [RepositoryNext]_stored

LEMMA PcFacts ==
    /\ Marking \cup Loop \cup Handler \cup Outer \cup Recovery \subseteq Pc
    /\ {"none", "done", "write", "interrupt", "sweep", "failRead", "failWrite", "cancelRead",
        "cancelWrite", "begin", "start", "turn", "stream", "propose", "schedule", "startTool",
        "tool", "finishTool", "finishRun", "stopped", "resumeStopped", "sweepFail",
        "sweepCancel", "settle", "release", "renew", "startApproved", "abandon", "load",
        "approvals", "list", "claim", "tools"} \subseteq Pc
BY DEF Pc, Marking, Loop, Handler, Outer, Recovery

LEMMA CoroutineFacts ==
    ASSUME NEW t \in Coroutine
    PROVE  t[1] \in Executor /\ As(t) \in Executor \cup {Nobody}
BY DEF Coroutine, As

LEMMA TaskFacts ==
    ASSUME Typed, NEW t \in Coroutine
    PROVE  task[t] \in TaskType /\ Sound(task[t])
BY DEF Typed

LEMMA Fields ==
    ASSUME NEW w \in TaskType
    PROVE  /\ w.pc \in Pc /\ w.kind \in Kinds
           /\ w.call \in Call \cup {Nobody} /\ w.decided \in Call \cup {Nobody}
           /\ w.todo \in SUBSET Call /\ w.ok \in BOOLEAN /\ w.n \in 0..MaxTurns
           /\ w.saw \in Read /\ w.saw.status \in RunStatus /\ w.saw.requests \in 0..MaxTurns
           /\ w.tries \in 0..4 /\ w.shielded \in BOOLEAN
BY DEF TaskType, Kinds, Read

LEMMA Columns ==
    ASSUME NEW w \in TaskType
    PROVE  /\ \A x \in Pc : [w EXCEPT !.pc = x] \in TaskType
           /\ \A x \in Kinds : [w EXCEPT !.kind = x] \in TaskType
           /\ \A x \in Call \cup {Nobody} : [w EXCEPT !.call = x] \in TaskType
           /\ \A x \in Call \cup {Nobody} : [w EXCEPT !.decided = x] \in TaskType
           /\ \A x \in SUBSET Call : [w EXCEPT !.todo = x] \in TaskType
           /\ \A x \in BOOLEAN : [w EXCEPT !.ok = x] \in TaskType
           /\ \A x \in 0..MaxTurns : [w EXCEPT !.n = x] \in TaskType
           /\ \A x \in Read : [w EXCEPT !.saw = x] \in TaskType
           /\ \A x \in 0..4 : [w EXCEPT !.tries = x] \in TaskType
           /\ \A x \in BOOLEAN : [w EXCEPT !.shielded = x] \in TaskType
BY DEF TaskType, Kinds

LEMMA NotReadType == NotRead \in Read
BY DEF NotRead, Read, RunStatus

LEMMA NowType == StoredTypeOK => Now \in Read /\ run[R].requests \in 0..MaxTurns
BY DEF StoredTypeOK, Now, Read

LEMMA StartType ==
    ASSUME NEW p \in Pc, NEW k \in Kinds, NEW c \in Call \cup {Nobody}, NEW b \in BOOLEAN
    PROVE  /\ Start(p, k, c, b) \in TaskType
           /\ Start(p, k, c, b).pc = p /\ Start(p, k, c, b).kind = k
           /\ Start(p, k, c, b).call = c /\ Start(p, k, c, b).decided = c
BY NotReadType DEF Start, TaskType, Kinds

LEMMA IdleStart ==
    ASSUME NEW p \in Pc, NEW k \in Kinds
    PROVE  LET s == Start(p, k, Nobody, FALSE) IN
           s \in TaskType /\ s.pc = p /\ s.kind = k /\ s.decided = Nobody
<1>1. Start(p, k, Nobody, FALSE) \in TaskType
  BY StartType
<1>2. LET s == Start(p, k, Nobody, FALSE) IN s.pc = p /\ s.kind = k /\ s.decided = Nobody
  BY DEF Start
<1> QED
  BY <1>1, <1>2

LEMMA NoTaskType == NoTask \in TaskType /\ NoTask.pc = "none" /\ NoTask.kind = "turn"
<1>1. "none" \in Pc /\ "turn" \in Kinds
  BY PcFacts DEF Kinds
<1> QED
  BY <1>1, IdleStart DEF NoTask

LEMMA TypedFacts == Typed /\ ran \in [Call -> Nat] => TypeOK
BY DEF TypeOK, Typed, OthersTyped

-----------------------------------------------------------------------------
(***************************************************************************)
(* Moving one coroutine.                                                   *)
(***************************************************************************)
LEMMA Becomes ==
    ASSUME Typed, NEW t \in Coroutine, NEW w \in TaskType, Sound(w), w.pc # "tool",
           task' = [task EXCEPT ![t] = w]
    PROVE  TaskMoves
BY DEF Typed, TaskMoves

LEMMA Stays == ASSUME Typed, UNCHANGED task PROVE TaskMoves
BY DEF Typed, TaskMoves

\* Places that ask for nothing in particular.
Careful == Loop \cup Hands \cup Marking \cup {"stopped", "resumeStopped", "renew", "load"}

LEMMA SoundElsewhere ==
    ASSUME NEW w, Sound(w), NEW v, v.pc \notin Careful,
           v.pc \in Over \/ (w.pc \notin Over /\ v.kind = w.kind /\ v.decided = w.decided)
    PROVE  Sound(v)
BY DEF Sound, Careful, Hands, Loop, Marking

LEMMA SoundMarking ==
    ASSUME NEW w, Sound(w), w.pc \notin Over, NEW v, v.pc \in Marking \cup {"interrupt"},
           v.kind = w.kind, v.decided = w.decided,
           v.pc = "failRead" => v.tries <= 3, v.pc = "failWrite" => v.tries < 3,
           v.pc = "cancelWrite" => v.tries < 4
    PROVE  Sound(v) /\ v.pc # "tool"
BY DEF Sound, Loop, Hands, Marking

LEMMA SoundInLoop ==
    ASSUME NEW w, Sound(w), w.pc \in Loop, NEW v, v.pc \in Loop,
           v.kind = w.kind, v.decided = w.decided,
           v.pc \in Hands => v.call \in Call, v.pc = "stream" => v.n < MaxTurns
    PROVE  Sound(v)
BY DEF Sound, Loop, Over

LEMMA SoundStart ==
    ASSUME NEW p \in Pc \ Careful, NEW k \in Kinds, k \notin {"resume", "inner"} \/ p \in Over
    PROVE  Sound(Start(p, k, Nobody, FALSE)) /\ p # "tool"
<1>1. Start(p, k, Nobody, FALSE).pc = p /\ Start(p, k, Nobody, FALSE).kind = k
  BY IdleStart
<1> QED
  BY <1>1 DEF Sound, Careful, Hands, Loop, Marking

LEMMA SoundNoTask == Sound(NoTask)
BY NoTaskType DEF Sound, Loop, Hands, Over

LEMMA GotoMoves ==
    ASSUME Typed, NEW t \in Coroutine, NEW p \in Pc \ Careful, task[t].pc \notin Over \/ p \in Over,
           Goto(t, p)
    PROVE  TaskMoves
<1> DEFINE w == [task[t] EXCEPT !.pc = p]
<1>1. task[t] \in TaskType /\ Sound(task[t])
  BY TaskFacts
<1>2. w \in TaskType
  BY <1>1, Columns
<1>3. w.pc = p /\ w.kind = task[t].kind /\ w.decided = task[t].decided
  BY <1>1 DEF TaskType
<1>4. task' = [task EXCEPT ![t] = w]
  BY DEF Goto
<1>5. Sound(w) /\ w.pc # "tool"
  BY <1>1, <1>3, SoundElsewhere DEF Careful, Hands
<1> QED
  BY <1>2, <1>4, <1>5, Becomes

LEMMA EndMoves == ASSUME Typed, NEW t \in Coroutine, End(t) PROVE TaskMoves
<1> DEFINE w == CASE task[t].kind = "cancel" -> NoTask
                  [] task[t].kind = "turn"   -> Start("settle", "turn", Nobody, FALSE)
                  [] OTHER -> Start("release", task[t].kind, Nobody, FALSE)
           Right(v) == v \in TaskType /\ Sound(v) /\ v.pc # "tool"
<1>1. task[t].kind \in Kinds
  BY TaskFacts, Fields
<1>2. Right(NoTask)
  BY NoTaskType, SoundNoTask
<1>3. "settle" \in (Pc \ Careful) \cap Over /\ "release" \in (Pc \ Careful) \cap Over
      /\ "turn" \in Kinds /\ "turn" \notin {"resume", "inner"}
  BY PcFacts DEF Careful, Over, Loop, Hands, Marking, Kinds
<1> HIDE DEF w
<1>4. ASSUME NEW p \in (Pc \ Careful) \cap Over, NEW k \in Kinds, p # "tool"
      PROVE  Right(Start(p, k, Nobody, FALSE))
  <2>1. Start(p, k, Nobody, FALSE) \in TaskType /\ Start(p, k, Nobody, FALSE).pc = p
    BY <1>4, IdleStart
  <2>2. Sound(Start(p, k, Nobody, FALSE))
    BY <1>4, SoundStart
  <2> QED
    BY <1>4, <2>1, <2>2
<1>5. Right(Start("settle", "turn", Nobody, FALSE))
      /\ Right(Start("release", task[t].kind, Nobody, FALSE))
  BY <1>1, <1>3, <1>4
<1>6. Right(w)
  BY <1>2, <1>5 DEF w
<1>7. task' = [task EXCEPT ![t] = w]
  BY DEF End, w
<1> QED
  BY <1>6, <1>7, Becomes

LEMMA MarkMoves ==
    ASSUME Typed, NEW t \in Coroutine, NEW how \in Marking \cup {"interrupt"}, NEW b \in BOOLEAN,
           task[t].pc \notin Over, Mark(t, how, b)
    PROVE  TaskMoves
<1> DEFINE a == [task[t] EXCEPT !.pc = how, !.tries = 0, !.todo = {}]
           w == [a EXCEPT !.n = 0, !.saw = NotRead, !.shielded = b]
<1>1. task[t] \in TaskType /\ Sound(task[t]) /\ 0 \in 0..MaxTurns /\ 0 \in 0..4 /\ {} \in SUBSET Call
      /\ how \in Pc
  BY TaskFacts, PcFacts
<1>2. a \in TaskType
  BY <1>1, Columns
<1>3. w \in TaskType
  BY <1>1, <1>2, NotReadType, Columns
<1>4. w.pc = how /\ w.kind = task[t].kind /\ w.decided = task[t].decided /\ w.tries = 0
  BY <1>1 DEF TaskType
<1>5. ASSUME NEW v, v.pc = how, v.kind = task[t].kind, v.decided = task[t].decided, v.tries = 0
      PROVE  Sound(v) /\ v.pc # "tool"
  <2>1. v.tries <= 3 /\ v.tries < 3 /\ v.tries < 4
    BY <1>5
  <2> QED
    BY <1>1, <1>5, <2>1, SoundMarking
<1>6. task' = [task EXCEPT ![t] = w]
  BY DEF Mark
<1> QED
  BY <1>3, <1>4, <1>5, <1>6, Becomes

LEMMA FailMoves ==
    ASSUME Typed, NEW t \in Coroutine, task[t].pc \notin Over, Fail(t) \/ Cancel(t)
    PROVE  TaskMoves
BY MarkMoves DEF Fail, Cancel, Marking

LEMMA LostMoves ==
    ASSUME Typed, NEW t \in Coroutine, task[t].pc \notin Over, Lost(t) \/ Conflict(t)
    PROVE  TaskMoves /\ UNCHANGED stored
BY EndMoves, FailMoves DEF Lost, Conflict

LEMMA InterruptedSound ==
    ASSUME NEW w \in TaskType, Sound(w), NEW p \in Targets(w)
    PROVE  /\ Interrupted(w, p) \in TaskType /\ Sound(Interrupted(w, p))
           /\ Interrupted(w, p) = w \/ Interrupted(w, p).pc # "tool"
<1> DEFINE kind == IF p = "resumeStopped" THEN "resume" ELSE w.kind
           s == Start(p, kind, Nobody, FALSE)
           v == [s EXCEPT !.decided = w.decided]
<1>1. CASE p = w.pc
  BY <1>1 DEF Interrupted
<1>2. CASE p # w.pc
  <2>1. p \in {"done", "release", "settle", "stopped", "resumeStopped"}
    BY <1>2 DEF Targets
  <2>2. w.pc \notin Over
    BY <1>2 DEF Targets, Over, Outer, Loop, Marking
  <2>3. /\ p = "stopped" => w.kind \in Driving
        /\ p = "resumeStopped" => w.kind \in {"resume", "inner"}
    BY <1>2 DEF Targets, Sound, Driving, Outer, Loop, Marking
  <2>a. w.kind \in Kinds /\ w.decided \in Call \cup {Nobody}
    BY Fields
  <2>b. /\ kind \in Kinds
        /\ p = "resumeStopped" => kind = "resume"
        /\ p # "resumeStopped" => kind = w.kind
    BY <2>a DEF Kinds
  <2> HIDE DEF kind
  <2>4. p \in Pc /\ kind \in Kinds /\ w.decided \in Call \cup {Nobody}
    BY <2>1, <2>a, <2>b, PcFacts
  <2>5. s \in TaskType /\ s.pc = p /\ s.kind = kind
    BY <2>4, IdleStart
  <2>6. v \in TaskType
    BY <2>4, <2>5, Columns
  <2>7. v.pc = p /\ v.kind = kind /\ v.decided = w.decided
    BY <2>5 DEF TaskType
  <2>8. Sound(v)
    BY <2>1, <2>2, <2>3, <2>b, <2>7 DEF Sound, Hands, Loop, Over, Driving
  <2>9. Interrupted(w, p) = v
    BY <1>2 DEF Interrupted, kind
  <2> QED
    BY <2>1, <2>6, <2>7, <2>8, <2>9
<1> QED
  BY <1>1, <1>2

LEMMA InterruptMoves == ASSUME Typed, NEW e \in Executor, Interrupt(e) PROVE TaskMoves
<1> DEFINE w == task[RunTask(e)]
<1>1. RunTask(e) \in Coroutine
  BY DEF RunTask, Coroutine
<1>2. w \in TaskType /\ Sound(w)
  BY <1>1, TaskFacts
<1>3. PICK p \in Targets(w) : task' = [task EXCEPT ![RunTask(e)] = Interrupted(w, p)]
  BY DEF Interrupt
<1> HIDE DEF w
<1>4. /\ Interrupted(w, p) \in TaskType /\ Sound(Interrupted(w, p))
      /\ Interrupted(w, p) = w \/ Interrupted(w, p).pc # "tool"
  BY <1>2, InterruptedSound
<1> QED
  BY <1>1, <1>3, <1>4 DEF TaskMoves, Typed, w

-----------------------------------------------------------------------------
(***************************************************************************)
(* The operations the coroutines call are steps of the repository.         *)
(***************************************************************************)
LEMMA TransitionStep ==
    ASSUME NEW e \in Executor \cup {Nobody}, NEW saw \in Read, NEW to,
           TransitionRun(R, saw, to, e)
    PROVE  RepositoryNext
<1>1. saw.status \in RunStatus /\ saw.requests \in 0..MaxTurns
      /\ saw = [status |-> saw.status, requests |-> saw.requests]
  BY DEF Read
<1>2. to \in RunStatus
  BY StatusFacts DEF TransitionRun
<1>3. TransitionRun(R, [status |-> saw.status, requests |-> saw.requests], to, e)
  BY <1>1
<1> QED
  BY <1>1, <1>2, <1>3 DEF RepositoryNext, RunNext

LEMMA CallSteps ==
    ASSUME NEW c \in Call, NEW e \in Executor \cup {Nobody}
    PROVE  /\ \A n \in 0..MaxTurns : ProposeToolCall(c, n, e) => RepositoryNext
           /\ StartTool(c, e) => RepositoryNext
           /\ \A st : FinishTool(c, st, e) => RepositoryNext
           /\ \A approve \in BOOLEAN :
                  e \in Executor /\ DecideApproval(c, approve, e) => RepositoryNext
           /\ ApprovalFallsDue(c) \/ ExpireApproval(c) => RepositoryNext
<1>1. ASSUME NEW st, FinishTool(c, st, e) PROVE RepositoryNext
  <2>1. st \in CallStatus
    BY <1>1, CallStatuses DEF FinishTool
  <2> QED
    BY <1>1, <2>1 DEF RepositoryNext, CallNext
<1>2. ASSUME NEW approve \in BOOLEAN, e \in Executor, DecideApproval(c, approve, e)
      PROVE  RepositoryNext
  BY <1>2 DEF RepositoryNext, CallNext
<1>3. ASSUME NEW n \in 0..MaxTurns, ProposeToolCall(c, n, e) PROVE RepositoryNext
  BY <1>3 DEF RepositoryNext, CallNext
<1>4. StartTool(c, e) => RepositoryNext
  BY DEF RepositoryNext, CallNext
<1>5. ApprovalFallsDue(c) \/ ExpireApproval(c) => RepositoryNext
  BY DEF RepositoryNext
<1> QED
  BY <1>1, <1>2, <1>3, <1>4, <1>5

LEMMA RunSteps ==
    ASSUME NEW e \in Executor \cup {Nobody}
    PROVE  /\ \A n \in 0..MaxTurns : FinishRun(R, n, e) => RepositoryNext
           /\ e \in Executor /\ (CreateRun(R, e) \/ ClaimRunExecution(R, e)
                                    \/ ReleaseRunExecution(R, e)) => RepositoryNext
           /\ LeaseLapses(R) => RepositoryNext
BY DEF RepositoryNext, RunNext, OwnershipNext

LEMMA OnlyTaskPlain ==
    ASSUME Typed, OnlyTask, TaskMoves, RepositoryNext \/ UNCHANGED stored
    PROVE  Plain
BY DEF Plain, Typed, OthersTyped, OnlyTask, past

-----------------------------------------------------------------------------
(***************************************************************************)
(* The steps of the turn loop.                                             *)
(***************************************************************************)
LEMMA LoopFacts ==
    /\ (Loop \cup Hands \cup Marking \cup Recovery \cup {"stopped", "resumeStopped", "sweepFail",
        "sweepCancel", "renew", "load", "write", "interrupt", "sweep"}) \cap Over = {}
    /\ {"begin", "start", "turn", "stream", "propose", "startTool", "finishRun",
        "schedule", "tool", "finishTool"} \subseteq Loop
    /\ {"done", "release", "sweepFail", "sweepCancel", "claim", "tools", "list", "sweep"}
           \subseteq Pc \ Careful
    /\ {"done", "release"} \subseteq Over
BY PcFacts DEF Loop, Hands, Marking, Recovery, Over, Careful

LEMMA RenewTurnStep == ASSUME Typed, NEW t \in Coroutine, RenewTurn(t) PROVE Plain
<1>1. CASE Goto(t, "begin")
  <2> DEFINE w == [task[t] EXCEPT !.pc = "begin"]
  <2>1. task[t] \in TaskType
    BY TaskFacts
  <2>2. w \in TaskType
    BY <2>1, Columns, PcFacts
  <2>3. w.pc = "begin" /\ w.kind = "turn"
    BY <2>1 DEF TaskType, RenewTurn
  <2>4. Sound(w)
    BY <2>3 DEF Sound, Hands, Driving
  <2>5. task' = [task EXCEPT ![t] = w]
    BY <1>1 DEF Goto
  <2> QED
    BY <2>2, <2>3, <2>4, <2>5, Becomes, OnlyTaskPlain DEF RenewTurn
<1>2. CASE Goto(t, "done")
  BY <1>2, GotoMoves, LoopFacts, OnlyTaskPlain DEF RenewTurn
<1> QED
  BY <1>1, <1>2 DEF RenewTurn

\* Within the loop only the count, the proposals and the row last read change.
LEMMA LoopMoves ==
    ASSUME Typed, NEW t \in Coroutine, task[t].pc \in Loop,
           NEW w \in TaskType, w.pc \in Loop \ {"tool"},
           w.kind = task[t].kind, w.decided = task[t].decided,
           w.pc \in Hands => w.call \in Call, w.pc = "stream" => w.n < MaxTurns,
           task' = [task EXCEPT ![t] = w]
    PROVE  TaskMoves
<1>1. Sound(w)
  BY TaskFacts, SoundInLoop
<1> QED
  BY <1>1, Becomes

LEMMA BeginStep == ASSUME Typed, NEW t \in Coroutine, Begin(t) PROVE Plain
<1>1. task[t] \in TaskType /\ task[t].pc = "begin" /\ task[t].pc \notin Over
  BY TaskFacts, LoopFacts DEF Begin, At
<1>2. CASE End(t) \/ Fail(t)
  BY <1>1, <1>2, EndMoves, FailMoves, OnlyTaskPlain DEF Begin
<1>3. CASE task' = [task EXCEPT ![t].pc = "turn", ![t].n = run[R].requests]
  <2> DEFINE w == [task[t] EXCEPT !.pc = "turn", !.n = run[R].requests]
  <2>1. run[R].requests \in 0..MaxTurns
    BY NowType DEF Typed
  <2>2. w \in TaskType
    BY <1>1, <2>1, Columns, PcFacts
  <2>3. w.pc = "turn" /\ w.kind = task[t].kind /\ w.decided = task[t].decided
    BY <1>1 DEF TaskType
  <2>4. task' = [task EXCEPT ![t] = w]
    BY <1>3
  <2> QED
    BY <1>1, <2>2, <2>3, <2>4, LoopMoves, LoopFacts, OnlyTaskPlain DEF Begin, Hands
<1>4. CASE task' = [task EXCEPT ![t].pc = "start", ![t].saw = Now]
  <2> DEFINE w == [task[t] EXCEPT !.pc = "start", !.saw = Now]
  <2>1. Now \in Read
    BY NowType DEF Typed
  <2>2. w \in TaskType
    BY <1>1, <2>1, Columns, PcFacts
  <2>3. w.pc = "start" /\ w.kind = task[t].kind /\ w.decided = task[t].decided
    BY <1>1 DEF TaskType
  <2>4. task' = [task EXCEPT ![t] = w]
    BY <1>4
  <2> QED
    BY <1>1, <2>2, <2>3, <2>4, LoopMoves, LoopFacts, OnlyTaskPlain DEF Begin, Hands
<1> QED
  BY <1>2, <1>3, <1>4 DEF Begin

LEMMA StartStreamingStep == ASSUME Typed, NEW t \in Coroutine, StartStreaming(t) PROVE Plain
<1>1. task[t] \in TaskType /\ task[t].pc = "start" /\ task[t].pc \notin Over
  BY TaskFacts, LoopFacts DEF StartStreaming, At
<1>2. CASE Lost(t) \/ Conflict(t)
  BY <1>1, <1>2, LostMoves, OnlyTaskPlain DEF StartStreaming
<1>3. CASE /\ TransitionRun(R, task[t].saw, "streaming", As(t))
           /\ task' = [task EXCEPT ![t].pc = "turn", ![t].n = task[t].saw.requests,
                                   ![t].saw = NotRead]
  <2> DEFINE w == [task[t] EXCEPT !.pc = "turn", !.n = task[t].saw.requests, !.saw = NotRead]
  <2>1. task[t].saw \in Read /\ task[t].saw.requests \in 0..MaxTurns
    BY <1>1, Fields
  <2>2. w \in TaskType
    BY <1>1, <2>1, Columns, PcFacts, NotReadType
  <2>3. w.pc = "turn" /\ w.kind = task[t].kind /\ w.decided = task[t].decided
    BY <1>1 DEF TaskType
  <2>4. task' = [task EXCEPT ![t] = w]
    BY <1>3
  <2>5. RepositoryNext
    BY <1>3, <2>1, TransitionStep, CoroutineFacts
  <2>6. w.pc \in Loop \ ({"tool", "stream"} \cup Hands) /\ task[t].pc \in Loop
    BY <1>1, <2>3, LoopFacts DEF Hands
  <2>7. TaskMoves
    BY <2>2, <2>3, <2>4, <2>6, LoopMoves
  <2> QED
    BY <2>5, <2>7, OnlyTaskPlain DEF StartStreaming
<1> QED
  BY <1>2, <1>3 DEF StartStreaming

LEMMA TurnStepPlain == ASSUME Typed, NEW t \in Coroutine, Turn(t) PROVE Plain
<1>1. OthersTyped' /\ UNCHANGED ran /\ UNCHANGED stored
  BY DEF Turn, Typed, OthersTyped
<1>2. task[t] \in TaskType /\ task[t].pc = "turn" /\ task[t].pc \notin Over
      /\ task[t].n \in 0..MaxTurns
  BY TaskFacts, Fields, LoopFacts DEF Turn, At
<1>3. CASE End(t) \/ Fail(t) \/ Cancel(t)
  BY <1>1, <1>2, <1>3, EndMoves, FailMoves DEF Plain
<1>4. CASE task[t].n < MaxTurns /\ Goto(t, "stream")
  <2> DEFINE w == [task[t] EXCEPT !.pc = "stream"]
  <2>1. w \in TaskType
    BY <1>2, Columns, PcFacts
  <2>2. w.pc = "stream" /\ w.kind = task[t].kind /\ w.decided = task[t].decided
        /\ w.n = task[t].n
    BY <1>2 DEF TaskType
  <2>3. task' = [task EXCEPT ![t] = w]
    BY <1>4 DEF Goto
  <2> QED
    BY <1>1, <1>2, <1>4, <2>1, <2>2, <2>3, LoopMoves, LoopFacts DEF Plain, Hands
<1> QED
  BY <1>2, <1>3, <1>4 DEF Turn

LEMMA StreamStep == ASSUME Typed, NEW t \in Coroutine, Stream(t) PROVE Plain
<1>1. task[t] \in TaskType /\ task[t].pc = "stream" /\ task[t].pc \notin Over
  BY TaskFacts, LoopFacts DEF Stream, At
<1>2. task[t].n + 1 \in 0..MaxTurns
  BY <1>1, TaskFacts, Fields DEF Sound
<1>3. CASE Lost(t) \/ Conflict(t) \/ Fail(t)
  BY <1>1, <1>3, LostMoves, FailMoves, OnlyTaskPlain DEF Stream
<1>4. ASSUME NEW S \in SUBSET Call,
             task' = [task EXCEPT ![t].pc = "propose", ![t].todo = S, ![t].n = @ + 1]
      PROVE  Plain
  <2> DEFINE w == [task[t] EXCEPT !.pc = "propose", !.todo = S, !.n = task[t].n + 1]
  <2>1. w \in TaskType
    BY <1>1, <1>2, Columns, PcFacts
  <2>2. w.pc = "propose" /\ w.kind = task[t].kind /\ w.decided = task[t].decided
    BY <1>1 DEF TaskType
  <2>3. task' = [task EXCEPT ![t] = w]
    BY <1>4
  <2> QED
    BY <1>1, <2>1, <2>2, <2>3, LoopMoves, LoopFacts, OnlyTaskPlain DEF Stream, Hands
<1>5. CASE task' = [task EXCEPT ![t].pc = "finishRun", ![t].n = @ + 1]
  <2> DEFINE w == [task[t] EXCEPT !.pc = "finishRun", !.n = task[t].n + 1]
  <2>1. w \in TaskType
    BY <1>1, <1>2, Columns, PcFacts
  <2>2. w.pc = "finishRun" /\ w.kind = task[t].kind /\ w.decided = task[t].decided
    BY <1>1 DEF TaskType
  <2>3. task' = [task EXCEPT ![t] = w]
    BY <1>5
  <2> QED
    BY <1>1, <2>1, <2>2, <2>3, LoopMoves, LoopFacts, OnlyTaskPlain DEF Stream, Hands
<1> QED
  BY <1>3, <1>4, <1>5 DEF Stream, WhileStreaming

LEMMA AnswerStep == ASSUME Typed, NEW t \in Coroutine, AnswerRun(t) PROVE Plain
<1>1. task[t] \in TaskType /\ task[t].pc \notin Over /\ task[t].n \in 0..MaxTurns
  BY TaskFacts, Fields, LoopFacts DEF AnswerRun, At
<1>2. CASE Lost(t) \/ Conflict(t)
  BY <1>1, <1>2, LostMoves, OnlyTaskPlain DEF AnswerRun
<1>3. CASE FinishRun(R, task[t].n, As(t)) /\ End(t)
  <2>1. RepositoryNext
    BY <1>1, <1>3, RunSteps, CoroutineFacts
  <2> QED
    BY <1>3, <2>1, EndMoves, OnlyTaskPlain DEF AnswerRun
<1> QED
  BY <1>2, <1>3 DEF AnswerRun, WhileStreaming

LEMMA Next1Moves ==
    ASSUME Typed, NEW t \in Coroutine, task[t].pc \in Loop, NEW c \in Call, Next1(t, c)
    PROVE  TaskMoves
<1> DEFINE rest == task[t].todo \ {c}
           p == IF rest = {} THEN "turn" ELSE "propose"
           a == [task[t] EXCEPT !.todo = rest, !.call = Nobody, !.ok = FALSE]
           w == [a EXCEPT !.pc = p]
<1>1. task[t] \in TaskType /\ rest \in SUBSET Call /\ FALSE \in BOOLEAN
      /\ Nobody \in Call \cup {Nobody} /\ p \in {"turn", "propose"}
  BY TaskFacts, Fields
<1>2. a \in TaskType
  BY <1>1, Columns
<1>3. w \in TaskType
  BY <1>1, <1>2, Columns, PcFacts
<1>4. w.pc = p /\ w.kind = task[t].kind /\ w.decided = task[t].decided
  BY <1>1 DEF TaskType
<1>5. task' = [task EXCEPT ![t] = w]
  BY DEF Next1
<1>6. p \in Loop \ Hands /\ p # "stream"
  BY <1>1, LoopFacts DEF Hands
<1> QED
  BY <1>3, <1>4, <1>5, <1>6, LoopMoves DEF Hands

LEMMA ProposeStep == ASSUME Typed, NEW t \in Coroutine, Propose(t) PROVE Plain
<1>1. task[t] \in TaskType /\ task[t].pc = "propose" /\ task[t].pc \notin Over
      /\ task[t].n \in 0..MaxTurns /\ task[t].todo \in SUBSET Call
  BY TaskFacts, Fields, LoopFacts DEF Propose, At
<1>2. OnlyTask
  BY DEF Propose
<1>3. CASE (Fail(t) /\ UNCHANGED stored) \/ Lost(t) \/ Conflict(t)
  BY <1>1, <1>2, <1>3, LostMoves, FailMoves, OnlyTaskPlain
<1>4. ASSUME NEW c \in task[t].todo, ProposeToolCall(c, task[t].n, As(t)),
             \/ task' = [task EXCEPT ![t].call = c,
                           ![t].pc = IF c \in Costly THEN "schedule" ELSE "startTool"]
             \/ Next1(t, c)
             \/ Fail(t)
      PROVE  Plain
  <2>1. c \in Call /\ RepositoryNext
    BY <1>1, <1>4, CallSteps, CoroutineFacts
  <2>2. CASE Next1(t, c) \/ Fail(t)
    BY <1>1, <1>2, <2>1, <2>2, Next1Moves, FailMoves, LoopFacts, OnlyTaskPlain
  <2>3. CASE task' = [task EXCEPT ![t].call = c,
                        ![t].pc = IF c \in Costly THEN "schedule" ELSE "startTool"]
    <3> DEFINE p == IF c \in Costly THEN "schedule" ELSE "startTool"
               w == [task[t] EXCEPT !.call = c, !.pc = p]
    <3>1. p \in {"schedule", "startTool"}
      OBVIOUS
    <3>2. w \in TaskType
      BY <1>1, <2>1, <3>1, Columns, PcFacts
    <3>3. w.pc = p /\ w.kind = task[t].kind /\ w.decided = task[t].decided /\ w.call = c
      BY <1>1 DEF TaskType
    <3>4. task' = [task EXCEPT ![t] = w]
      BY <2>3
    <3>5. w.pc \in Loop \ {"tool"} /\ w.pc # "stream" /\ w.call \in Call /\ task[t].pc \in Loop
      BY <1>1, <2>1, <3>1, <3>3, LoopFacts
    <3>6. TaskMoves
      BY <3>2, <3>3, <3>4, <3>5, LoopMoves
    <3> QED
      BY <1>2, <2>1, <3>6, OnlyTaskPlain
  <2> QED
    BY <1>4, <2>2, <2>3
<1> QED
  BY <1>3, <1>4 DEF Propose, WhileStreaming

LEMMA ScheduleStep == ASSUME Typed, NEW t \in Coroutine, Schedule(t) PROVE Plain
<1>1. task[t].call \in Call /\ t[1] \in Executor
  BY TaskFacts, CoroutineFacts DEF Schedule, At, Sound, Hands
<1>2. timer' \in [Executor -> SUBSET Call]
  BY <1>1 DEF Schedule, Typed, OthersTyped
<1>3. OthersTyped' /\ UNCHANGED ran /\ UNCHANGED stored
  BY <1>2 DEF Schedule, Typed, OthersTyped, past
<1> QED
  BY <1>3, EndMoves DEF Schedule, Plain

\* The two steps that start a tool, and the one that executes it.
StartsTool(t) ==
    /\ task[t].pc # "tool" /\ task[t].call \in Call
    /\ StartTool(task[t].call, As(t))
    /\ task' = [task EXCEPT ![t] = [task[t] EXCEPT !.pc = "tool"]]
    /\ task'[t] \in TaskType /\ Sound(task'[t])
    /\ OthersTyped' /\ UNCHANGED ran

LEMMA StartDirectStep ==
    ASSUME Typed, NEW t \in Coroutine, StartDirect(t) PROVE Plain \/ StartsTool(t)
<1>1. task[t] \in TaskType /\ task[t].pc = "startTool" /\ task[t].pc \notin Over
      /\ Sound(task[t]) /\ task[t].call \in Call
  BY TaskFacts, LoopFacts DEF StartDirect, At, Sound, Hands
<1>2. OnlyTask
  BY DEF StartDirect
<1>3. CASE Lost(t) \/ Conflict(t) \/ (UNCHANGED stored /\ Fail(t))
  BY <1>1, <1>2, <1>3, LostMoves, FailMoves, OnlyTaskPlain
<1>4. CASE StartTool(task[t].call, As(t)) /\ Goto(t, "tool")
  <2> DEFINE w == [task[t] EXCEPT !.pc = "tool"]
  <2>1. w \in TaskType
    BY <1>1, Columns, PcFacts
  <2>2. w.pc = "tool" /\ w.kind = task[t].kind /\ w.decided = task[t].decided
        /\ w.call = task[t].call
    BY <1>1 DEF TaskType
  <2>3. Sound(w)
    BY <1>1, <2>2, SoundInLoop, LoopFacts
  <2>4. task' = [task EXCEPT ![t] = w] /\ task'[t] = w
    BY <1>4 DEF Goto, Typed
  <2>5. OthersTyped' /\ UNCHANGED ran
    BY <1>2 DEF Typed, OthersTyped, OnlyTask, past
  <2> QED
    BY <1>1, <1>4, <2>1, <2>3, <2>4, <2>5 DEF StartsTool
<1> QED
  BY <1>3, <1>4 DEF StartDirect, WhileStreaming

LEMMA RunToolStep ==
    ASSUME Typed, NEW t \in Coroutine, RunTool(t)
    PROVE  TaskMoves /\ OthersTyped' /\ UNCHANGED stored /\ task'[t].pc # "tool"
<1>1. task[t] \in TaskType /\ task[t].pc = "tool" /\ task[t].pc \notin Over
      /\ Sound(task[t]) /\ task[t].call \in Call
  BY TaskFacts, LoopFacts DEF RunTool, At, Sound, Hands
<1>2. TaskMoves
  <2>1. CASE End(t) \/ Fail(t)
    BY <1>1, <2>1, EndMoves, FailMoves
  <2>2. ASSUME NEW ok \in BOOLEAN,
               task' = [task EXCEPT ![t].pc = "finishTool", ![t].ok = ok]
        PROVE  TaskMoves
    <3> DEFINE w == [task[t] EXCEPT !.pc = "finishTool", !.ok = ok]
    <3>1. w \in TaskType
      BY <1>1, Columns, PcFacts
    <3>2. w.pc = "finishTool" /\ w.kind = task[t].kind /\ w.decided = task[t].decided
          /\ w.call = task[t].call
      BY <1>1 DEF TaskType
    <3>3. task' = [task EXCEPT ![t] = w]
      BY <2>2
    <3> QED
      BY <1>1, <3>1, <3>2, <3>3, LoopMoves, LoopFacts
  <2> QED
    BY <2>1, <2>2 DEF RunTool
<1>3. OthersTyped' /\ UNCHANGED stored
  BY DEF RunTool, Typed, OthersTyped
<1>4. task'[t].pc # "tool"
  <2>1. task'[t] # task[t]
    BY <1>1 DEF RunTool, End, Fail, Mark, Typed, TaskType, Start, NoTask
  <2> QED
    BY <1>2, <2>1 DEF TaskMoves
<1> QED
  BY <1>2, <1>3, <1>4

LEMMA RecordToolStep == ASSUME Typed, NEW t \in Coroutine, RecordTool(t) PROVE Plain
<1>1. task[t] \in TaskType /\ task[t].pc = "finishTool" /\ task[t].pc \notin Over
      /\ Sound(task[t]) /\ task[t].call \in Call
  BY TaskFacts, LoopFacts DEF RecordTool, At, Sound, Hands
<1>2. OnlyTask
  BY DEF RecordTool
<1>3. CASE Lost(t) \/ (UNCHANGED stored /\ Fail(t))
  BY <1>1, <1>2, <1>3, LostMoves, FailMoves, OnlyTaskPlain
<1>4. CASE /\ FinishTool(task[t].call, Outcome(t), As(t))
           /\ IF task[t].kind = "resume" THEN Goto(t, "load") ELSE Next1(t, task[t].call)
  <2>1. RepositoryNext
    BY <1>1, <1>4, CallSteps, CoroutineFacts
  <2>2. CASE Next1(t, task[t].call)
    BY <1>1, <1>2, <2>1, <2>2, Next1Moves, LoopFacts, OnlyTaskPlain
  <2>3. CASE task[t].kind = "resume" /\ Goto(t, "load")
    <3> DEFINE w == [task[t] EXCEPT !.pc = "load"]
    <3>1. w \in TaskType
      BY <1>1, Columns, PcFacts
    <3>2. w.pc = "load" /\ w.kind = "resume" /\ w.decided = task[t].decided
      BY <1>1, <2>3 DEF TaskType
    <3>3. Sound(w)
      BY <1>1, <2>3, <3>2 DEF Sound, Hands, Loop, Over
    <3>4. task' = [task EXCEPT ![t] = w]
      BY <2>3 DEF Goto
    <3> QED
      BY <1>2, <2>1, <3>1, <3>2, <3>3, <3>4, Becomes, OnlyTaskPlain
  <2> QED
    BY <1>4, <2>2, <2>3
<1> QED
  BY <1>3, <1>4 DEF RecordTool

-----------------------------------------------------------------------------
(***************************************************************************)
(* The continuation after a decision.                                      *)
(***************************************************************************)
LEMMA RenewResumeStep == ASSUME Typed, NEW t \in Coroutine, RenewResume(t) PROVE Plain
<1>1. task[t] \in TaskType /\ task[t].pc = "renew" /\ task[t].kind = "resume"
      /\ Sound(task[t]) /\ task[t].pc \notin Over
  BY TaskFacts, LoopFacts DEF RenewResume, At
<1>2. CASE Goto(t, "release")
  BY <1>1, <1>2, GotoMoves, LoopFacts, OnlyTaskPlain DEF RenewResume
<1>3. ASSUME NEW p \in {"startApproved", "load"}, Goto(t, p) PROVE Plain
  <2> DEFINE w == [task[t] EXCEPT !.pc = p]
  <2>1. w \in TaskType
    BY <1>1, Columns, PcFacts
  <2>2. w.pc = p /\ w.kind = "resume" /\ w.decided = task[t].decided /\ w.call = task[t].call
    BY <1>1 DEF TaskType
  <2>3. Sound(w)
    BY <1>1, <2>2 DEF Sound, Hands, Loop, Over
  <2>4. task' = [task EXCEPT ![t] = w]
    BY <1>3 DEF Goto
  <2> QED
    BY <2>1, <2>2, <2>3, <2>4, Becomes, OnlyTaskPlain DEF RenewResume
<1> QED
  BY <1>2, <1>3 DEF RenewResume

LEMMA StartApprovedStep ==
    ASSUME Typed, NEW t \in Coroutine, StartApproved(t) PROVE Plain \/ StartsTool(t)
<1>1. task[t] \in TaskType /\ task[t].pc = "startApproved" /\ task[t].pc \notin Over
      /\ Sound(task[t]) /\ task[t].call \in Call /\ task[t].kind = "resume"
  BY TaskFacts, LoopFacts DEF StartApproved, At, Sound, Hands
<1>2. OnlyTask
  BY DEF StartApproved
<1>3. CASE Lost(t) \/ (UNCHANGED stored /\ Fail(t))
  BY <1>1, <1>2, <1>3, LostMoves, FailMoves, OnlyTaskPlain
<1>4. CASE StartTool(task[t].call, As(t)) /\ Goto(t, "tool")
  <2> DEFINE w == [task[t] EXCEPT !.pc = "tool"]
  <2>1. w \in TaskType
    BY <1>1, Columns, PcFacts
  <2>2. w.pc = "tool" /\ w.kind = "resume" /\ w.decided = task[t].decided
        /\ w.call = task[t].call
    BY <1>1 DEF TaskType
  <2>3. Sound(w)
    BY <1>1, <2>2 DEF Sound, Driving, Hands, Over
  <2>4. task' = [task EXCEPT ![t] = w] /\ task'[t] = w
    BY <1>4 DEF Goto, Typed
  <2>5. OthersTyped' /\ UNCHANGED ran
    BY <1>2 DEF Typed, OthersTyped, OnlyTask, past
  <2> QED
    BY <1>1, <1>4, <2>1, <2>3, <2>4, <2>5 DEF StartsTool
<1>5. CASE UNCHANGED stored /\ task' = [task EXCEPT ![t].pc = "abandon", ![t].saw = Now]
  <2> DEFINE w == [task[t] EXCEPT !.pc = "abandon", !.saw = Now]
  <2>1. Now \in Read
    BY NowType DEF Typed
  <2>2. w \in TaskType
    BY <1>1, <2>1, Columns, PcFacts
  <2>3. w.pc = "abandon" /\ w.kind = "resume" /\ w.decided = task[t].decided
        /\ w.call = task[t].call
    BY <1>1 DEF TaskType
  <2>4. Sound(w)
    BY <1>1, <2>3 DEF Sound, Loop, Hands, Over
  <2>5. task' = [task EXCEPT ![t] = w]
    BY <1>5
  <2> QED
    BY <1>2, <1>5, <2>2, <2>3, <2>4, <2>5, Becomes, OnlyTaskPlain
<1> QED
  BY <1>3, <1>4, <1>5 DEF StartApproved

LEMMA AbandonStep == ASSUME Typed, NEW t \in Coroutine, Abandon(t) PROVE Plain
<1>1. task[t].pc \notin Over /\ task[t].call \in Call
  BY TaskFacts, LoopFacts DEF Abandon, At, Sound, Hands
<1>2. OnlyTask
  BY DEF Abandon
<1>3. CASE Lost(t) \/ (UNCHANGED stored /\ Fail(t))
  BY <1>1, <1>2, <1>3, LostMoves, FailMoves, OnlyTaskPlain
<1>4. CASE FinishTool(task[t].call, "failed", As(t)) /\ (Cancel(t) \/ Fail(t))
  <2>1. RepositoryNext
    BY <1>1, <1>4, CallSteps, CoroutineFacts
  <2> QED
    BY <1>1, <1>2, <1>4, <2>1, FailMoves, OnlyTaskPlain
<1> QED
  BY <1>3, <1>4 DEF Abandon

LEMMA LoadStep == ASSUME Typed, NEW t \in Coroutine, Load(t) PROVE Plain
<1> DEFINE a == [task[t] EXCEPT !.pc = "begin", !.kind = "inner"]
           w == [a EXCEPT !.call = Nobody, !.ok = FALSE]
<1>1. task[t] \in TaskType /\ task[t].pc = "load" /\ Sound(task[t]) /\ "inner" \in Kinds
      /\ FALSE \in BOOLEAN /\ Nobody \in Call \cup {Nobody}
  BY TaskFacts DEF Load, At, Kinds
<1>2. a \in TaskType
  BY <1>1, Columns, PcFacts
<1>3. w \in TaskType
  BY <1>1, <1>2, Columns
<1>4. w.pc = "begin" /\ w.kind = "inner" /\ w.decided = task[t].decided
  BY <1>1 DEF TaskType
<1>5. Sound(w)
  BY <1>1, <1>4 DEF Sound, Driving, Hands, Over
<1>6. task' = [task EXCEPT ![t] = w]
  BY DEF Load
<1> QED
  BY <1>3, <1>4, <1>5, <1>6, Becomes, OnlyTaskPlain DEF Load

-----------------------------------------------------------------------------
(***************************************************************************)
(* The markings, which read and write again.                               *)
(***************************************************************************)

\* The row is read, to be written as it was read.
LEMMA ReadMoves ==
    ASSUME Typed, NEW t \in Coroutine, task[t].pc \notin Over,
           NEW p \in {"failWrite", "cancelWrite"},
           task[t].tries < IF p = "failWrite" THEN 3 ELSE 4,
           task' = [task EXCEPT ![t].pc = p, ![t].saw = Now]
    PROVE  TaskMoves
<1> DEFINE w == [task[t] EXCEPT !.pc = p, !.saw = Now]
<1>1. task[t] \in TaskType /\ Sound(task[t]) /\ Now \in Read
  BY TaskFacts, NowType DEF Typed
<1>2. w \in TaskType
  <2>1. [task[t] EXCEPT !.pc = p] \in TaskType
    BY <1>1, Columns, PcFacts
  <2> QED
    BY <1>1, <2>1, Columns
<1>3. w.pc = p /\ w.kind = task[t].kind /\ w.decided = task[t].decided
      /\ w.tries = task[t].tries
  BY <1>1 DEF TaskType
<1>4. Sound(w) /\ w.pc # "tool"
  BY <1>1, <1>3, SoundMarking DEF Marking
<1>5. task' = [task EXCEPT ![t] = w]
  OBVIOUS
<1> QED
  BY <1>2, <1>4, <1>5, Becomes

\* The write found another row: once more from the read.
LEMMA AgainMoves ==
    ASSUME Typed, NEW t \in Coroutine, task[t].pc \notin Over,
           NEW p \in {"failRead", "cancelRead"},
           task[t].tries < IF p = "failRead" THEN 3 ELSE 4,
           task' = [task EXCEPT ![t].pc = p, ![t].tries = @ + 1]
    PROVE  TaskMoves
<1> DEFINE w == [task[t] EXCEPT !.pc = p, !.tries = task[t].tries + 1]
<1>1. task[t] \in TaskType /\ Sound(task[t])
  BY TaskFacts
<1>2. task[t].tries + 1 \in 0..4 /\ (p = "failRead" => task[t].tries + 1 <= 3)
  BY <1>1, Fields
<1>3. w \in TaskType
  BY <1>1, <1>2, Columns, PcFacts
<1>4. w.pc = p /\ w.kind = task[t].kind /\ w.decided = task[t].decided
      /\ w.tries = task[t].tries + 1
  BY <1>1 DEF TaskType
<1>5. Sound(w) /\ w.pc # "tool"
  BY <1>1, <1>2, <1>4, SoundMarking DEF Marking
<1>6. task' = [task EXCEPT ![t] = w]
  OBVIOUS
<1> QED
  BY <1>3, <1>5, <1>6, Becomes

LEMMA MarkSteps == ASSUME Typed, NEW t \in Coroutine, MarkStep(t) PROVE Plain
<1> USE LoopFacts DEF Marking
<1>1. task[t].pc \notin Over /\ OnlyTask /\ task[t] \in TaskType
      /\ task[t].saw \in Read /\ task[t].shielded \in BOOLEAN
      /\ task[t].tries \in 0..4 /\ Sound(task[t])
  BY TaskFacts, Fields DEF MarkStep, ReadToFail, WriteFailed, ReadToCancel, WriteCancelled, At
<1>2. CASE ReadToFail(t)
  <2>1. task[t].tries <= 3 /\ UNCHANGED stored
    BY <1>1, <1>2 DEF ReadToFail, At, Sound
  <2>2. CASE End(t)
    BY <1>1, <2>1, <2>2, EndMoves, OnlyTaskPlain
  <2>3. CASE Mark(t, "cancelRead", task[t].shielded)
    BY <1>1, <2>1, <2>3, MarkMoves, OnlyTaskPlain
  <2>4. CASE /\ task[t].tries # 3
             /\ task' = [task EXCEPT ![t].pc = "failWrite", ![t].saw = Now]
    <3>1. task[t].tries < 3
      BY <1>1, <2>1, <2>4
    <3> QED
      BY <1>1, <2>1, <2>4, <3>1, ReadMoves, OnlyTaskPlain
  <2> QED
    BY <1>2, <2>2, <2>3, <2>4 DEF ReadToFail
<1>3. CASE ReadToCancel(t)
  <2>1. UNCHANGED stored
    BY <1>3 DEF ReadToCancel
  <2>2. CASE End(t)
    BY <1>1, <2>1, <2>2, EndMoves, OnlyTaskPlain
  <2>3. CASE /\ task[t].tries # 4
             /\ task' = [task EXCEPT ![t].pc = "cancelWrite", ![t].saw = Now]
    <3>1. task[t].tries < 4
      BY <1>1, <2>3
    <3> QED
      BY <1>1, <2>1, <2>3, <3>1, ReadMoves, OnlyTaskPlain
  <2> QED
    BY <1>3, <2>2, <2>3 DEF ReadToCancel
<1>4. CASE WriteFailed(t)
  <2>1. CASE Lost(t)
    BY <1>1, <2>1, LostMoves, OnlyTaskPlain
  <2>2. CASE Retry(t, "failRead")
    <3>1. task[t].tries < 3
      BY <1>1, <1>4 DEF WriteFailed, At, Sound
    <3> QED
      BY <1>1, <2>2, <3>1, EndMoves, AgainMoves, OnlyTaskPlain DEF Retry
  <2>3. CASE TransitionRun(R, task[t].saw, "failed", As(t)) /\ End(t)
    BY <1>1, <2>3, TransitionStep, CoroutineFacts, EndMoves, OnlyTaskPlain
  <2> QED
    BY <1>4, <2>1, <2>2, <2>3 DEF WriteFailed
<1>5. CASE WriteCancelled(t)
  <2>1. CASE Lost(t)
    BY <1>1, <2>1, LostMoves, OnlyTaskPlain
  <2>2. CASE Retry(t, "cancelRead")
    <3>1. task[t].tries < 4
      BY <1>1, <1>5 DEF WriteCancelled, At, Sound
    <3> QED
      BY <1>1, <2>2, <3>1, EndMoves, AgainMoves, OnlyTaskPlain DEF Retry
  <2>3. CASE TransitionRun(R, task[t].saw, "cancelled", As(t)) /\ End(t)
    BY <1>1, <2>3, TransitionStep, CoroutineFacts, EndMoves, OnlyTaskPlain
  <2>4. CASE /\ TransitionRun(R, task[t].saw, "cancelling", As(t))
             /\ task' = [task EXCEPT ![t].pc = "cancelRead", ![t].tries = @ + 1]
    <3>1. task[t].tries < 4
      BY <1>1, <1>5 DEF WriteCancelled, At, Sound
    <3>2. RepositoryNext
      BY <1>1, <2>4, TransitionStep, CoroutineFacts
    <3> QED
      BY <1>1, <2>4, <3>1, <3>2, AgainMoves, OnlyTaskPlain
  <2> QED
    BY <1>5, <2>1, <2>2, <2>3, <2>4 DEF WriteCancelled
<1> QED
  BY <1>2, <1>3, <1>4, <1>5 DEF MarkStep

-----------------------------------------------------------------------------
(***************************************************************************)
(* Handlers, the end of a task, recovery.                                  *)
(***************************************************************************)
LEMMA StoppedStep == ASSUME Typed, NEW t \in Coroutine, Stopped(t) PROVE Plain
<1>1. task[t].pc \notin Over
  BY LoopFacts DEF Stopped, At
<1> QED
  BY <1>1, EndMoves, GotoMoves, LoopFacts, OnlyTaskPlain DEF Stopped

LEMMA SweepStep == ASSUME Typed, NEW t \in Coroutine, Sweep(t) PROVE Plain
<1>1. task[t].pc \notin Over /\ OnlyTask
  BY LoopFacts DEF Sweep
<1>2. CASE Lost(t)
  BY <1>1, <1>2, LostMoves, OnlyTaskPlain
<1>3. ASSUME NEW c \in Call, FinishTool(c, "failed", As(t)), UNCHANGED task PROVE Plain
  BY <1>1, <1>3, CallSteps, CoroutineFacts, Stays, OnlyTaskPlain
<1>4. ASSUME NEW how \in Marking, Mark(t, how, TRUE), UNCHANGED stored PROVE Plain
  BY <1>1, <1>4, MarkMoves, OnlyTaskPlain
<1>5. {"failRead", "cancelRead"} \subseteq Marking
  BY DEF Marking
<1> QED
  BY <1>2, <1>3, <1>4, <1>5 DEF Sweep

LEMMA ResumeStoppedStep == ASSUME Typed, NEW t \in Coroutine, ResumeStopped(t) PROVE Plain
<1>1. task[t].pc \notin Over /\ OnlyTask /\ task[t].pc = "resumeStopped"
  BY LoopFacts DEF ResumeStopped, At
<1>2. task[t].decided \in Call
  BY <1>1, TaskFacts DEF Sound, Driving
<1>3. ASSUME NEW how \in Marking, FinishTool(task[t].decided, "failed", As(t)), Mark(t, how, TRUE)
      PROVE  Plain
  BY <1>1, <1>2, <1>3, CallSteps, CoroutineFacts, MarkMoves, OnlyTaskPlain
<1>4. ASSUME NEW how \in Marking, Mark(t, how, TRUE), UNCHANGED stored PROVE Plain
  BY <1>1, <1>4, MarkMoves, OnlyTaskPlain
<1>5. CASE UNCHANGED stored /\ End(t)
  BY <1>1, <1>5, EndMoves, OnlyTaskPlain
<1>6. {"failRead", "cancelRead"} \subseteq Marking
  BY DEF Marking
<1> QED
  BY <1>3, <1>4, <1>5, <1>6 DEF ResumeStopped

LEMMA SettleStep == ASSUME Typed, NEW t \in Coroutine, Settle(t) PROVE Plain
<1>1. TaskMoves
  BY GotoMoves, LoopFacts DEF Settle
<1>2. flags' \in [Executor -> SUBSET {"userCancelled", "leaseLost", "budget"}]
  BY CoroutineFacts DEF Settle, Typed, OthersTyped
<1> QED
  BY <1>1, <1>2 DEF Settle, Plain, Typed, OthersTyped, past

LEMMA ReleaseStep == ASSUME Typed, NEW t \in Coroutine, Release(t) PROVE Plain
<1>1. TaskMoves
  BY GotoMoves, LoopFacts DEF Release
<1>2. flags' \in [Executor -> SUBSET {"userCancelled", "leaseLost", "budget"}]
  BY CoroutineFacts DEF Release, Typed, OthersTyped
<1>3. RepositoryNext
  BY CoroutineFacts, RunSteps DEF Release
<1> QED
  BY <1>1, <1>2, <1>3 DEF Release, Plain, Typed, OthersTyped, past

LEMMA ResumeStart ==
    ASSUME NEW c \in Call, NEW b \in BOOLEAN
    PROVE  LET w == Start("renew", "resume", c, b) IN
           w \in TaskType /\ Sound(w) /\ w.pc # "tool"
<1>1. "renew" \in Pc /\ "resume" \in Kinds
  BY PcFacts DEF Kinds
<1> QED
  BY <1>1, StartType DEF Sound, Loop, Hands

LEMMA DoneStep == ASSUME Typed, NEW t \in Coroutine, Done(t) PROVE Plain
<1>1. t[1] \in Executor
  BY CoroutineFacts
<1>2. CASE task' = [task EXCEPT ![t] = NoTask]
  <2>1. TaskMoves
    BY <1>2, NoTaskType, SoundNoTask, Becomes
  <2> QED
    BY <1>1, <2>1 DEF Done, Plain, Typed, OthersTyped, past
<1>3. CASE /\ queued[t[1]] # Nobody
           /\ task' = [task EXCEPT ![t] = Start("renew", "resume", queued[t[1]],
                                                call[queued[t[1]]] = "approved")]
  <2>1. queued[t[1]] \in Call
    BY <1>1, <1>3 DEF Typed, OthersTyped
  <2>2. TaskMoves
    BY <1>3, <2>1, ResumeStart, Becomes
  <2> QED
    BY <1>1, <2>2 DEF Done, Plain, Typed, OthersTyped, past
<1> QED
  BY <1>2, <1>3 DEF Done

LEMMA RecoverApprovalsStep == ASSUME Typed, NEW t \in Coroutine, RecoverApprovals(t) PROVE Plain
<1>1. ASSUME NEW c \in Call, ExpireApproval(c), UNCHANGED <<task, timer>> PROVE Plain
  <2>1. RepositoryNext
    BY <1>1, CallSteps
  <2> QED
    BY <1>1, <2>1, Stays DEF RecoverApprovals, Plain, Typed, OthersTyped, past
<1>2. CASE /\ task' = [task EXCEPT ![t].pc = "list", ![t].todo = Pending]
           /\ timer' = [timer EXCEPT ![t[1]] = Pending]
           /\ UNCHANGED stored
  <2> DEFINE w == [task[t] EXCEPT !.pc = "list", !.todo = Pending]
  <2>1. task[t] \in TaskType /\ Sound(task[t]) /\ task[t].pc = "approvals"
        /\ task[t].pc \notin Over /\ Pending \in SUBSET Call
    BY TaskFacts, LoopFacts DEF RecoverApprovals, At, Recovery, Pending
  <2>2. w \in TaskType
    BY <2>1, Columns, PcFacts
  <2>3. w.pc = "list" /\ w.kind = task[t].kind /\ w.decided = task[t].decided
    BY <2>1 DEF TaskType
  <2>4. Sound(w)
    BY <2>1, <2>3, SoundElsewhere, LoopFacts
  <2>5. task' = [task EXCEPT ![t] = w]
    BY <1>2
  <2>6. TaskMoves
    BY <2>2, <2>3, <2>4, <2>5, Becomes
  <2>7. timer' \in [Executor -> SUBSET Call]
    BY <1>2, <2>1, CoroutineFacts DEF Typed, OthersTyped
  <2> QED
    BY <1>2, <2>6, <2>7 DEF RecoverApprovals, Plain, Typed, OthersTyped, past
<1> QED
  BY <1>1, <1>2 DEF RecoverApprovals, Pending

LEMMA RecoverListStep == ASSUME Typed, NEW t \in Coroutine, RecoverList(t) PROVE Plain
<1>1. task[t].pc \notin Over
  BY LoopFacts DEF RecoverList, At, Recovery
<1> QED
  BY <1>1, GotoMoves, LoopFacts, OnlyTaskPlain DEF RecoverList

LEMMA RecoverClaimStep == ASSUME Typed, NEW t \in Coroutine, RecoverClaim(t) PROVE Plain
<1>1. task[t] \in TaskType /\ Sound(task[t]) /\ task[t].pc \notin Over /\ OnlyTask
  BY TaskFacts, LoopFacts DEF RecoverClaim, At, Recovery
<1>2. CASE UNCHANGED stored /\ Goto(t, "done")
  BY <1>1, <1>2, GotoMoves, LoopFacts, OnlyTaskPlain
<1>3. CASE /\ ClaimRunExecution(R, t[1])
           /\ task' = [task EXCEPT ![t].pc = "tools", ![t].saw = Now, ![t].todo = {}]
  <2> DEFINE w == [task[t] EXCEPT !.pc = "tools", !.saw = Now, !.todo = {}]
  <2>1. Now \in Read /\ {} \in SUBSET Call
    BY NowType DEF Typed
  <2>2. w \in TaskType
    BY <1>1, <2>1, Columns, PcFacts
  <2>3. w.pc = "tools" /\ w.kind = task[t].kind /\ w.decided = task[t].decided
    BY <1>1 DEF TaskType
  <2>4. Sound(w)
    BY <1>1, <2>3, SoundElsewhere, LoopFacts
  <2>5. task' = [task EXCEPT ![t] = w]
    BY <1>3
  <2>6. RepositoryNext
    BY <1>3, CoroutineFacts, RunSteps
  <2> QED
    BY <1>1, <2>2, <2>3, <2>4, <2>5, <2>6, Becomes, OnlyTaskPlain
<1> QED
  BY <1>2, <1>3 DEF RecoverClaim

LEMMA RecoverToolsStep == ASSUME Typed, NEW t \in Coroutine, RecoverTools(t) PROVE Plain
<1>1. task[t].pc \notin Over /\ OnlyTask
  BY LoopFacts DEF RecoverTools, At, Recovery
<1>2. CASE Lost(t)
  BY <1>1, <1>2, LostMoves, OnlyTaskPlain
<1>3. ASSUME NEW c \in Call, FinishTool(c, "failed", As(t)), UNCHANGED task PROVE Plain
  BY <1>1, <1>3, CallSteps, CoroutineFacts, Stays, OnlyTaskPlain
<1>4. CASE UNCHANGED stored /\ (Cancel(t) \/ Fail(t))
  BY <1>1, <1>4, FailMoves, OnlyTaskPlain
<1> QED
  BY <1>2, <1>3, <1>4 DEF RecoverTools

-----------------------------------------------------------------------------
(***************************************************************************)
(* Requests, time and the life of the process.                             *)
(***************************************************************************)
LEMMA CoroutinesOf ==
    ASSUME NEW e \in Executor
    PROVE  /\ RunTask(e) \in Coroutine /\ Request(e) \in Coroutine
           /\ RunTask(e)[1] = e /\ As(RunTask(e)) = e
BY DEF RunTask, Request, Coroutine, As

LEMMA CreateStep == ASSUME Typed, NEW e \in Executor, CreateAgentRun(e) PROVE Plain
<1> DEFINE w == Start("renew", "turn", Nobody, FALSE)
<1>1. w \in TaskType /\ w.pc = "renew" /\ w.kind = "turn"
  <2>1. "renew" \in Pc /\ "turn" \in Kinds
    BY PcFacts DEF Kinds
  <2> QED
    BY <2>1, IdleStart
<1>2. Sound(w)
  BY <1>1 DEF Sound, Loop, Hands
<1>3. TaskMoves
  BY <1>1, <1>2, CoroutinesOf, Becomes DEF CreateAgentRun
<1>4. RepositoryNext
  BY RunSteps DEF CreateAgentRun
<1> QED
  BY <1>3, <1>4 DEF CreateAgentRun, Plain, Typed, OthersTyped, past

LEMMA SpendTyped == ASSUME Typed, NEW k, Spend(k) PROVE spent' \in 0..Budget
BY DEF Spend, Typed, OthersTyped

LEMMA RequestPlaces ==
    /\ {"write", "interrupt"} \subseteq Pc \ Careful /\ "tool" \in Careful
    /\ "cancel" \in Kinds \ {"resume", "inner"}
    /\ "recovery" \in Kinds \ {"resume", "inner"} /\ "approvals" \in Pc \ Careful
BY PcFacts DEF Careful, Loop, Hands, Marking, Kinds

LEMMA CancelReadStep == ASSUME Typed, NEW e \in Executor, CancelRead(e) PROVE Plain
<1> DEFINE i == Start("interrupt", "cancel", Nobody, FALSE)
           s == Start("write", "cancel", Nobody, FALSE)
           w == [s EXCEPT !.saw = Now]
<1>1. i \in TaskType /\ i.pc # "tool" /\ Sound(i)
  BY RequestPlaces, IdleStart, SoundStart
<1>2. s \in TaskType /\ s.pc = "write" /\ s.kind = "cancel" /\ Sound(s)
  BY RequestPlaces, IdleStart, SoundStart
<1>3. Now \in Read
  BY NowType DEF Typed
<1>4. w \in TaskType
  BY <1>2, <1>3, Columns
<1>5. w.pc = "write" /\ w.kind = s.kind /\ w.decided = s.decided
  BY <1>2 DEF TaskType
<1>6. Sound(w) /\ w.pc # "tool"
  BY <1>2, <1>5, SoundElsewhere, RequestPlaces, LoopFacts
<1>7. task' = [task EXCEPT ![Request(e)] = i] \/ task' = [task EXCEPT ![Request(e)] = w]
  BY DEF CancelRead
<1>8. TaskMoves
  BY <1>1, <1>4, <1>6, <1>7, CoroutinesOf, Becomes
<1> QED
  BY <1>8, SpendTyped DEF CancelRead, Spend, Plain, Typed, OthersTyped

LEMMA CancelWriteStep == ASSUME Typed, NEW t \in Coroutine, CancelWrite(t) PROVE Plain
<1>1. task[t].pc \notin Over /\ task[t].saw \in Read /\ OnlyTask
  BY TaskFacts, Fields, LoopFacts DEF CancelWrite, At
<1>2. CASE TransitionRun(R, task[t].saw, "cancelling", Nobody) /\ Mark(t, "interrupt", FALSE)
  <2>1. RepositoryNext
    BY <1>1, <1>2, TransitionStep
  <2> QED
    BY <1>1, <1>2, <2>1, MarkMoves, OnlyTaskPlain
<1>3. CASE UNCHANGED stored /\ task' = [task EXCEPT ![t] = NoTask]
  BY <1>1, <1>3, NoTaskType, SoundNoTask, Becomes, OnlyTaskPlain
<1> QED
  BY <1>2, <1>3 DEF CancelWrite

LEMMA CancelTaskStep ==
    ASSUME Typed, NEW t \in Coroutine, t[2] # "run", CancelTask(t) PROVE Plain
<1> DEFINE u == RunTask(t[1])
<1>1. t[1] \in Executor /\ u \in Coroutine /\ u # t
  BY CoroutineFacts, CoroutinesOf DEF RunTask
<1>2. CASE Goto(t, "sweep")
  BY <1>2, GotoMoves, LoopFacts DEF CancelTask, At, Plain, Typed, OthersTyped, past
<1>3. ASSUME NEW p \in Targets(task[u]),
             task' = [task EXCEPT ![t] = NoTask, ![u] = Interrupted(@, p)]
      PROVE  Plain
  <2> DEFINE v == Interrupted(task[u], p)
  <2>1. task[u] \in TaskType /\ Sound(task[u])
    BY <1>1, TaskFacts
  <2>2. task' = [[task EXCEPT ![t] = NoTask] EXCEPT ![u] = v]
    BY <1>1, <1>3 DEF Typed
  <2>4. v \in TaskType /\ Sound(v) /\ (v = task[u] \/ v.pc # "tool")
    BY <1>3, <2>1, InterruptedSound
  <2> HIDE DEF v
  <2>3. TaskMoves
    BY <1>1, <2>1, <2>2, <2>4, NoTaskType, SoundNoTask DEF TaskMoves, Typed
  <2> QED
    BY <2>3 DEF CancelTask, Plain, Typed, OthersTyped, past
<1> QED
  BY <1>2, <1>3 DEF CancelTask

LEMMA CancelSweepStep == ASSUME Typed, NEW t \in Coroutine, CancelSweep(t) PROVE Plain
<1>1. task[t].pc \notin Over /\ OnlyTask
  BY LoopFacts DEF CancelSweep, At
<1>2. ASSUME NEW c \in Call, FinishTool(c, "failed", Nobody), UNCHANGED task PROVE Plain
  BY <1>1, <1>2, CallSteps, Stays, OnlyTaskPlain
<1>3. CASE UNCHANGED stored /\ task' = [task EXCEPT ![t] = NoTask]
  BY <1>1, <1>3, NoTaskType, SoundNoTask, Becomes, OnlyTaskPlain
<1>4. CASE UNCHANGED stored /\ Cancel(t)
  BY <1>1, <1>4, FailMoves, OnlyTaskPlain
<1> QED
  BY <1>2, <1>3, <1>4 DEF CancelSweep

LEMMA DecideStep ==
    ASSUME Typed, NEW c \in Costly, NEW approve \in BOOLEAN, NEW e \in Executor,
           Decide(c, approve, e)
    PROVE  Plain
<1>1. c \in Call /\ RunTask(e) \in Coroutine
  BY CoroutinesOf
<1>2. timer' \in [Executor -> SUBSET Call]
  BY DEF Decide, Typed, OthersTyped
<1>3. TaskMoves /\ queued' \in [Executor -> Call \cup {Nobody}]
  <2>1. CASE task' = [task EXCEPT ![RunTask(e)] = Start("renew", "resume", c, approve)]
             /\ UNCHANGED queued
    BY <1>1, <2>1, ResumeStart, Becomes DEF Typed, OthersTyped
  <2>2. CASE UNCHANGED task /\ queued' \in {queued, [queued EXCEPT ![e] = c]}
    BY <1>1, <2>2, Stays DEF Typed, OthersTyped
  <2> QED
    BY <2>1, <2>2 DEF Decide
<1>4. RepositoryNext \/ UNCHANGED stored
  <2>1. DecideApproval(c, approve, e) => RepositoryNext
    BY <1>1, CallSteps
  <2>2. ExpireApproval(c) => RepositoryNext
    BY <1>1, CallSteps
  <2> QED
    BY <2>1, <2>2 DEF Decide
<1> QED
  BY <1>2, <1>3, <1>4 DEF Decide, Plain, Typed, OthersTyped, past

LEMMA TimerStep ==
    ASSUME Typed, NEW c \in Call, NEW e \in Executor, TimerFires(c, e) PROVE Plain
<1>1. timer' \in [Executor -> SUBSET Call]
  BY DEF TimerFires, Typed, OthersTyped
<1>2. RepositoryNext \/ UNCHANGED stored
  <2>1. ExpireApproval(c) => RepositoryNext
    BY CallSteps
  <2> QED
    BY <2>1 DEF TimerFires
<1> QED
  BY <1>1, <1>2, Stays DEF TimerFires, Plain, Typed, OthersTyped, past

LEMMA FallDueStep == ASSUME Typed, NEW c \in Call, FallDue(c) PROVE Plain
<1>1. RepositoryNext
  BY CallSteps DEF FallDue
<1> QED
  BY <1>1, Stays DEF FallDue, Plain, Typed, OthersTyped, past

LEMMA LapseStep == ASSUME Typed, Lapse PROVE Plain
<1>1. RepositoryNext
  BY RunSteps DEF Lapse
<1>2. asked' = asked /\ ran' = ran /\ spent' \in 0..Budget
  BY SpendTyped DEF Lapse, Spend, past, Typed, OthersTyped
<1> QED
  BY <1>1, <1>2, Stays DEF Lapse, Plain, Typed, OthersTyped

LEMMA RenewalFailsStep == ASSUME Typed, NEW e \in Executor, RenewalFails(e) PROVE Plain
<1>1. flags' \in [Executor -> SUBSET {"userCancelled", "leaseLost", "budget"}]
  BY DEF RenewalFails, Typed, OthersTyped
<1> QED
  BY <1>1, InterruptMoves DEF RenewalFails, Plain, Typed, OthersTyped, past

LEMMA BudgetStep == ASSUME Typed, NEW e \in Executor, BudgetEnds(e) PROVE Plain
<1>1. RunTask(e) \in Coroutine
  BY CoroutinesOf
<1>2. flags' \in [Executor -> SUBSET {"userCancelled", "leaseLost", "budget"}]
  BY DEF BudgetEnds, Typed, OthersTyped
<1>3. TaskMoves
  <2>1. CASE task[RunTask(e)].pc \in Loop /\ Fail(RunTask(e))
    BY <1>1, <2>1, FailMoves, LoopFacts
  <2> QED
    BY <2>1, InterruptMoves DEF BudgetEnds
<1> QED
  BY <1>2, <1>3, SpendTyped DEF BudgetEnds, Spend, Plain, Typed, OthersTyped

LEMMA StartUpStep == ASSUME Typed, NEW e \in Executor, StartUp(e) PROVE Plain
<1> DEFINE w == Start("approvals", "recovery", Nobody, FALSE)
<1>1. w \in TaskType /\ Sound(w) /\ w.pc # "tool"
  BY RequestPlaces, IdleStart, SoundStart
<1>2. TaskMoves
  BY <1>1, CoroutinesOf, Becomes DEF StartUp
<1>3. life' \in [Executor -> {"new", "starting", "up", "closing", "gone"}]
  BY DEF StartUp, Typed, OthersTyped
<1> QED
  BY <1>2, <1>3 DEF StartUp, Plain, Typed, OthersTyped, past

LEMMA CloseStep == ASSUME Typed, NEW e \in Executor, Close(e) PROVE Plain
<1>1. life' \in [Executor -> {"new", "starting", "up", "closing", "gone"}]
      /\ timer' \in [Executor -> SUBSET Call]
  BY DEF Close, Typed, OthersTyped
<1> QED
  BY <1>1, InterruptMoves, SpendTyped DEF Close, Spend, Plain, Typed, OthersTyped

LEMMA GoneMoves ==
    ASSUME Typed, NEW e \in Executor, NEW from, Gone(e, from)
    PROVE  /\ TaskMoves /\ UNCHANGED stored
           /\ life' \in [Executor -> {"new", "starting", "up", "closing", "gone"}]
           /\ flags' \in [Executor -> SUBSET {"userCancelled", "leaseLost", "budget"}]
           /\ timer' \in [Executor -> SUBSET Call]
           /\ queued' \in [Executor -> Call \cup {Nobody}]
<1>1. TaskMoves
  BY CoroutinesOf, NoTaskType, SoundNoTask DEF Gone, TaskMoves, Typed
<1> QED
  BY <1>1 DEF Gone, Typed, OthersTyped

LEMMA EndOfLife == ASSUME Typed, NEW e \in Executor, Closed(e) \/ Crash(e) PROVE Plain
<1>1. asked' = asked /\ ran' = ran /\ spent' \in 0..Budget
  BY SpendTyped DEF Closed, Crash, Spend, past, Typed, OthersTyped
<1> QED
  BY <1>1, GoneMoves DEF Closed, Crash, Plain, Typed, OthersTyped

-----------------------------------------------------------------------------
(***************************************************************************)
(* Every step.                                                             *)
(***************************************************************************)
LEMMA Steps ==
    ASSUME Typed, Next
    PROVE  Plain \/ \E t \in Coroutine : StartsTool(t) \/ RunTool(t)
<1>1. ASSUME NEW t \in Coroutine, TaskStep(t) PROVE Plain \/ StartsTool(t) \/ RunTool(t)
  <2>1. CASE TurnStep(t)
    BY <2>1, RenewTurnStep, BeginStep, StartStreamingStep, TurnStepPlain, StreamStep, AnswerStep,
       ProposeStep, ScheduleStep, StartDirectStep, RecordToolStep DEF TurnStep
  <2>2. CASE ResumeStep(t)
    BY <2>2, RenewResumeStep, StartApprovedStep, AbandonStep, LoadStep DEF ResumeStep
  <2>3. CASE HandlerStep(t)
    BY <2>3, StoppedStep, SweepStep, ResumeStoppedStep, SettleStep, ReleaseStep, DoneStep
       DEF HandlerStep
  <2>4. CASE RecoveryStep(t)
    BY <2>4, RecoverApprovalsStep, RecoverListStep, RecoverClaimStep, RecoverToolsStep
       DEF RecoveryStep
  <2> QED
    BY <1>1, <2>1, <2>2, <2>3, <2>4 DEF TaskStep
<1>2. ASSUME NEW t \in Coroutine, t[2] # "run", RequestStep(t) PROVE Plain
  BY <1>2, CancelWriteStep, CancelTaskStep, CancelSweepStep DEF RequestStep
<1>3. ASSUME NEW t \in Coroutine, Step(t) PROVE Plain \/ StartsTool(t) \/ RunTool(t)
  BY <1>1, <1>2, <1>3, MarkSteps DEF Step
<1>4. ASSUME NEW e \in Executor, User(e) \/ Life(e) PROVE Plain
  BY <1>4, CreateStep, CancelReadStep, DecideStep, RenewalFailsStep, BudgetStep, StartUpStep,
     CloseStep, EndOfLife DEF User, Life
<1>5. CASE Timers \/ Lapse
  BY <1>5, FallDueStep, TimerStep, LapseStep DEF Timers
<1> QED
  BY <1>3, <1>4, <1>5 DEF Next

LEMMA StartIsStep ==
    ASSUME Typed, NEW t \in Coroutine, StartsTool(t)
    PROVE  RepositoryNext
BY CallSteps, CoroutineFacts DEF StartsTool

LEMMA RepositoryStep == Typed /\ [Next]_vars => [RepositoryNext]_stored
<1>1. ASSUME Typed, Next PROVE [RepositoryNext]_stored
  BY <1>1, Steps, StartIsStep, RunToolStep DEF Plain
<1> QED
  BY <1>1 DEF vars

LEMMA TypedInit == Init => Typed /\ ran \in [Call -> Nat]
<1> SUFFICES ASSUME Init PROVE Typed /\ ran \in [Call -> Nat]
  OBVIOUS
<1>1. StoredTypeOK
  BY TypeInit DEF Init
<1>2. task \in [Coroutine -> TaskType] /\ \A t \in Coroutine : Sound(task[t])
  BY NoTaskType, SoundNoTask DEF Init
<1> QED
  BY <1>1, <1>2 DEF Init, Typed, OthersTyped

LEMMA TypedStep == Typed /\ [Next]_vars => Typed'
<1> SUFFICES ASSUME Typed, [Next]_vars PROVE Typed'
  OBVIOUS
<1>1. StoredTypeOK'
  BY RepositoryStep, TypeStep DEF Typed
<1>2. CASE Next
  <2>1. CASE TaskMoves /\ OthersTyped'
    BY <1>1, <2>1 DEF TaskMoves, Typed
  <2>2. ASSUME NEW t \in Coroutine, StartsTool(t) PROVE Typed'
    BY <1>1, <2>2 DEF StartsTool, Typed
  <2> QED
    BY <1>2, <2>1, <2>2, Steps, RunToolStep DEF Plain
<1>3. CASE UNCHANGED vars
  BY <1>1, <1>3 DEF vars, local, past, Typed, OthersTyped
<1> QED
  BY <1>2, <1>3

LEMMA RanStep == Typed /\ ran \in [Call -> Nat] /\ [Next]_vars => ran' \in [Call -> Nat]
<1> SUFFICES ASSUME Typed, ran \in [Call -> Nat], [Next]_vars PROVE ran' \in [Call -> Nat]
  OBVIOUS
<1>1. CASE Next
  <2>1. ASSUME NEW t \in Coroutine, RunTool(t) PROVE ran' \in [Call -> Nat]
    <3>1. task[t].call \in Call
      BY <2>1, TaskFacts DEF RunTool, At, Sound, Hands
    <3>2. ran' \in {ran, [ran EXCEPT ![task[t].call] = @ + 1]}
      BY <2>1 DEF RunTool
    <3> QED
      BY <3>1, <3>2
  <2> QED
    BY <1>1, <2>1, Steps DEF Plain, StartsTool
<1>2. CASE UNCHANGED vars
  BY <1>2 DEF vars, past
<1> QED
  BY <1>1, <1>2

\* The rows, the coroutines and the tables of AgentRuntime keep their types, among them
\* the attempts of _mark_failed and _mark_cancelled and the count of requests
\* (_run_loop), for any calls, executors and disturbances.
THEOREM TypeCorrect == Spec => []TypeOK
<1> DEFINE I == Typed /\ ran \in [Call -> Nat]
<1>1. Init => I
  BY TypedInit
<1>2. I /\ [Next]_vars => I'
  BY TypedStep, RanStep
<1>3. I => TypeOK
  BY TypedFacts
<1> QED
  BY <1>1, <1>2, <1>3, PTL DEF Spec

\* The coroutines of all executors together change the rows only by the operations of
\* AgentRepository: what those promise holds of a run whatever AgentRuntime does.
THEOREM DrivesRepository == Spec => RepositorySpec
<1>1. Init => Typed /\ StoredInit
  BY TypedInit DEF Init
<1> QED
  BY <1>1, TypedStep, RepositoryStep, PTL DEF Spec, RepositorySpec

\* Whatever coroutines of AgentRuntime are interrupted, recovered or too late, a costly
\* call goes on only with a consumed approval (decide_approval, start_tool).
THEOREM RuntimeConsent == Spec => []ConsentBeforeCost
BY DrivesRepository, RepositoryConsent, PTL

\* No coroutine of AgentRuntime, however late, changes the status of a run that has
\* ended, or proposes, approves or starts one of its calls (transition_run,
\* propose_tool_call, decide_approval, start_tool).
THEOREM RuntimeEnds == Spec => NothingAfterTheEnd
BY DrivesRepository, RepositoryEnds, PTL

-----------------------------------------------------------------------------
(***************************************************************************)
(* A tool is executed once.  start_tool accepts a call that nobody has     *)
(* started, and no operation of the repository makes it so again; hence a  *)
(* coroutine that is about to execute a tool is the only one, and the tool *)
(* has not been executed.                                                  *)
(***************************************************************************)
Begun(c) == call[c] \in {"running", "succeeded", "failed"}

OnceInv ==
    /\ ran \in [Call -> Nat]
    /\ \A c \in Call : ran[c] <= 1 /\ (ran[c] > 0 => Begun(c))
    /\ \A t \in Coroutine : At(t, "tool") => Begun(task[t].call) /\ ran[task[t].call] = 0
    /\ \A t, u \in Coroutine :
           At(t, "tool") /\ At(u, "tool") /\ task[t].call = task[u].call => t = u

LEMMA BegunStays ==
    ASSUME StoredTypeOK, ConsentBeforeCost, [RepositoryNext]_stored, NEW c \in Call, Begun(c)
    PROVE  Begun(c)'
<1>1. approval[c].status # "pending" /\ c \in Call /\ call \in [Call -> CallStatus]
  BY Types DEF ConsentBeforeCost, Begun
<1>2. CASE UNCHANGED stored
  BY <1>2 DEF Begun
<1>3. CASE \/ \E r \in Run, e \in Executor : \/ CreateRun(r, e) \/ ClaimRunExecution(r, e)
                                             \/ ReleaseRunExecution(r, e)
           \/ \E r \in Run : LeaseLapses(r)
           \/ \E r \in Run, n \in 0..MaxTurns, e \in Executor \cup {Nobody} : FinishRun(r, n, e)
           \/ \E r \in Run, n \in 0..MaxTurns, e \in Executor \cup {Nobody}, from, to \in RunStatus :
                  TransitionRun(r, [status |-> from, requests |-> n], to, e)
           \/ \E d \in Call : ApprovalFallsDue(d)
  BY <1>3 DEF Begun, CreateRun, ClaimRunExecution, ReleaseRunExecution, LeaseLapses, FinishRun,
              TransitionRun, ApprovalFallsDue
<1>4. ASSUME NEW d \in Call, NEW n \in 0..MaxTurns, NEW e \in Executor \cup {Nobody},
             ProposeToolCall(d, n, e)
      PROVE  Begun(c)'
  BY <1>1, <1>4 DEF Begun, ProposeToolCall
<1>5. ASSUME NEW d \in Call, NEW e \in Executor \cup {Nobody}, StartTool(d, e) PROVE Begun(c)'
  BY <1>1, <1>5 DEF Begun, StartTool, StartToolAs
<1>6. ASSUME NEW d \in Call, NEW st \in CallStatus, NEW e \in Executor \cup {Nobody},
             FinishTool(d, st, e)
      PROVE  Begun(c)'
  BY <1>1, <1>6 DEF Begun, FinishTool
<1>7. ASSUME NEW d \in Call, NEW approve \in BOOLEAN, NEW e \in Executor,
             DecideApproval(d, approve, e)
      PROVE  Begun(c)'
  BY <1>1, <1>7 DEF Begun, DecideApproval, Decidable
<1>8. ASSUME NEW d \in Call, ExpireApproval(d) PROVE Begun(c)'
  BY <1>1, <1>8 DEF Begun, ExpireApproval
<1> QED
  BY <1>2, <1>3, <1>4, <1>5, <1>6, <1>7, <1>8, StepIsOperation DEF Operation

LEMMA OnceStep ==
    ASSUME Typed, ConsentBeforeCost, OnceInv, [Next]_vars
    PROVE  OnceInv'
<1>1. \A c \in Call : Begun(c) => Begun(c)'
  BY RepositoryStep, BegunStays DEF Typed
<1>2. ran' \in [Call -> Nat]
  BY RanStep DEF OnceInv
<1>3. ASSUME TaskMoves, UNCHANGED ran PROVE OnceInv'
  <2>1. \A t \in Coroutine : At(t, "tool")' => task'[t] = task[t] /\ At(t, "tool")
    BY <1>3 DEF TaskMoves, At
  <2>2. \A t \in Coroutine : At(t, "tool") => task[t].call \in Call
    BY TaskFacts DEF Sound, At, Hands
  <2>3. \A c \in Call : ran'[c] <= 1 /\ (ran'[c] > 0 => Begun(c)')
    BY <1>1, <1>3 DEF OnceInv
  <2>4. \A t \in Coroutine : At(t, "tool")' => Begun(task[t].call)' /\ ran'[task'[t].call] = 0
    BY <1>1, <1>3, <2>1, <2>2 DEF OnceInv
  <2> QED
    BY <1>2, <2>1, <2>3, <2>4 DEF OnceInv, Begun, At
<1>4. ASSUME NEW t \in Coroutine, StartsTool(t) PROVE OnceInv'
  <2> DEFINE c == task[t].call
  <2>1. c \in Call /\ ~Begun(c) /\ Begun(c)' /\ UNCHANGED ran
    BY <1>4, Types DEF StartsTool, StartTool, StartToolAs, Begun, Typed
  <2>2. ran[c] = 0
    BY <2>1 DEF OnceInv
  <2>3. \A u \in Coroutine : At(u, "tool") => task[u].call # c /\ task[u].call \in Call
    BY <2>1, TaskFacts DEF OnceInv, Sound, At, Hands
  <2>4. /\ task'[t].call = c /\ task'[t].pc = "tool"
        /\ \A u \in Coroutine \ {t} : task'[u] = task[u]
    BY <1>4, TaskFacts DEF StartsTool, Typed, TaskType
  <2>5. \A d \in Call : ran'[d] <= 1 /\ (ran'[d] > 0 => Begun(d)')
    BY <1>1, <2>1 DEF OnceInv
  <2>6. ASSUME NEW u \in Coroutine \ {t}, At(u, "tool")'
        PROVE  At(u, "tool") /\ task'[u].call = task[u].call /\ task[u].call # c
               /\ Begun(task[u].call)' /\ ran'[task'[u].call] = 0
    <3>1. At(u, "tool") /\ task'[u].call = task[u].call /\ task'[u] = task[u]
      BY <2>4, <2>6 DEF At
    <3>2. task[u].call \in Call /\ task[u].call # c /\ Begun(task[u].call)
          /\ ran[task[u].call] = 0
      BY <2>3, <3>1 DEF OnceInv
    <3>3. Begun(task[u].call)'
      BY <1>1, <3>1, <3>2 DEF Begun
    <3> QED
      BY <2>1, <3>1, <3>2, <3>3
  <2>7. ASSUME NEW u \in Coroutine, NEW v \in Coroutine, At(u, "tool")', At(v, "tool")',
               task'[u].call = task'[v].call
        PROVE  u = v
    BY <2>4, <2>6, <2>7 DEF OnceInv
  <2>8. ASSUME NEW u \in Coroutine, At(u, "tool")'
        PROVE  Begun(task[u].call)' /\ ran'[task'[u].call] = 0
    BY <2>1, <2>2, <2>4, <2>6, <2>8 DEF Begun
  <2> QED
    BY <1>2, <2>5, <2>7, <2>8 DEF OnceInv
<1>5. ASSUME NEW t \in Coroutine, RunTool(t) PROVE OnceInv'
  <2> DEFINE c == task[t].call
  <2>1. TaskMoves /\ UNCHANGED stored /\ task'[t].pc # "tool"
    BY <1>5, RunToolStep
  <2>2. At(t, "tool") /\ c \in Call /\ ran[c] = 0 /\ Begun(c)
        /\ ran' \in {ran, [ran EXCEPT ![c] = @ + 1]}
    BY <1>5, TaskFacts DEF RunTool, OnceInv, Sound, At, Hands
  <2>3. \A d \in Call : ran'[d] = ran[d] \/ (d = c /\ ran'[d] = 1)
    BY <2>2 DEF OnceInv
  <2>4. \A d \in Call : ran'[d] <= 1 /\ (ran'[d] > 0 => Begun(d)')
    BY <1>1, <2>2, <2>3 DEF OnceInv
  <2>5. \A u \in Coroutine : At(u, "tool")' =>
            u # t /\ task'[u] = task[u] /\ At(u, "tool") /\ task[u].call \in Call
    BY <2>1, TaskFacts DEF TaskMoves, At, Sound, Hands
  <2>6. ASSUME NEW u \in Coroutine, At(u, "tool")'
        PROVE  Begun(task[u].call)' /\ ran'[task'[u].call] = 0
    <3>1. task'[u] = task[u] /\ At(u, "tool") /\ u # t /\ task[u].call \in Call
      BY <2>5, <2>6
    <3>2. task[u].call # c /\ Begun(task[u].call) /\ ran[task[u].call] = 0
      BY <2>2, <3>1 DEF OnceInv
    <3>3. Begun(task[u].call)'
      BY <1>1, <3>1, <3>2 DEF Begun
    <3> QED
      BY <2>3, <3>1, <3>2, <3>3
  <2>7. ASSUME NEW u \in Coroutine, NEW v \in Coroutine, At(u, "tool")', At(v, "tool")',
               task'[u].call = task'[v].call
        PROVE  u = v
    BY <2>5, <2>7 DEF OnceInv
  <2> QED
    BY <1>2, <2>4, <2>6, <2>7 DEF OnceInv
<1>6. CASE UNCHANGED vars
  BY <1>6 DEF vars, local, past, OnceInv, Begun, At
<1> QED
  BY <1>3, <1>4, <1>5, <1>6, Steps DEF Plain

\* However a run is interrupted, recovered or continued, and on whichever executor,
\* tool_registry.execute is called for a tool call at most once (start_tool compares the
\* status it finds; recover_incomplete closes an interrupted call and never replays it).
THEOREM ToolsRunOnce == Spec => []ToolRunsOnce
<1>1. Init => OnceInv
  BY NoTaskType DEF Init, OnceInv, At
<1>2. OnceInv => ToolRunsOnce
  BY DEF OnceInv, ToolRunsOnce
<1>3. Init => Typed
  BY TypedInit
<1> QED
  BY <1>1, <1>2, <1>3, TypedStep, OnceStep, RuntimeConsent, PTL DEF Spec

-----------------------------------------------------------------------------
(***************************************************************************)
(* The turns of a run.                                                     *)
(*                                                                         *)
(* Each coroutine compares its own count of requests with MaxTurns, so the *)
(* bound on all of them together needs that one coroutine at a time is on  *)
(* its way to the provider, and that it starts from the count of the one   *)
(* before it, which is in the row while the run waits.                     *)
(***************************************************************************)
Going  == {"queued", "recovering", "streaming", "waiting_approval", "executing_tool"}
Asking == {"renew", "startApproved", "load", "begin", "start", "turn", "stream", "propose",
           "startTool", "tool", "finishTool"}
Asks(w) == w.pc \in Asking

\* It will still read the count from the row.
Fresh(w) == \/ w.pc \in {"renew", "startApproved", "load", "begin", "start"}
            \/ w.kind = "resume" /\ w.pc \in {"tool", "finishTool"}

\* What the record of a coroutine says of the requests sent so far.
Counts(w) ==
    /\ w.pc \in {"begin", "start", "turn", "stream", "propose", "startTool"} => w.kind # "resume"
    /\ Fresh(w) /\ run[R].status \in Going => asked <= run[R].requests
    /\ w.pc = "start" => /\ w.saw.status \in Going \ {"streaming"}
                         /\ w.saw.status = run[R].status => w.saw.requests = run[R].requests
    /\ w.pc = "stream" => asked <= w.n + 1
    /\ Asks(w) /\ ~Fresh(w) /\ w.pc # "stream" => asked <= w.n

\* One coroutine, or one decision that waits for a coroutine to end, is about to ask.
OneAsks ==
    /\ \A t, u \in Coroutine : Asks(task[t]) /\ Asks(task[u]) => t = u
    /\ \A t \in Coroutine, e \in Executor : Asks(task[t]) => queued[e] = Nobody
    /\ \A d, e \in Executor : queued[d] # Nobody /\ queued[e] # Nobody => d = e

NobodyAsks ==
    /\ \A t \in Coroutine : ~Asks(task[t])
    /\ \A e \in Executor : queued[e] = Nobody

TurnInv ==
    /\ asked <= MaxTurns /\ OneAsks
    /\ run[R].status = "none" => asked = 0 /\ NobodyAsks
    /\ run[R].status = "waiting_approval" => asked <= run[R].requests /\ NobodyAsks
    /\ run[R].status \in Going =>
           \A e \in Executor : queued[e] # Nobody => asked <= run[R].requests
    /\ \A t \in Coroutine : Counts(task[t])

\* A step that sends nobody to the provider.
QuietTasks == \A t \in Coroutine : Asks(task'[t]) => task'[t] = task[t]
QuietRun ==
    \/ run'[R].status = run[R].status /\ run'[R].requests = run[R].requests
    \/ run'[R].status \notin Going \cup {"none"}
Quiet ==
    /\ QuietTasks /\ QuietRun /\ asked' = asked
    /\ \A e \in Executor : queued'[e] \in {queued[e], Nobody}

LEMMA QuietKeeps == ASSUME TurnInv, Quiet PROVE TurnInv'
<1>1. OneAsks'
  BY DEF TurnInv, Quiet, QuietTasks, OneAsks, Asks
<1>2. NobodyAsks => NobodyAsks'
  BY DEF Quiet, QuietTasks, NobodyAsks, Asks
<1>3. ASSUME NEW t \in Coroutine PROVE Counts(task[t])'
  <2>1. CASE Asks(task'[t])
    <3>1. task'[t] = task[t] /\ Counts(task[t])
      BY <2>1 DEF Quiet, QuietTasks, TurnInv
    <3>2. task[t].pc = "start" /\ run'[R].status \notin Going \cup {"none"}
             => task[t].saw.status # run'[R].status
      BY <3>1 DEF Counts
    <3> QED
      BY <3>1, <3>2 DEF Quiet, QuietRun, Counts, Fresh, Asks
  <2>2. CASE ~Asks(task'[t])
    BY <2>2 DEF Counts, Fresh, Asks, Asking
  <2> QED
    BY <2>1, <2>2
<1>4. CASE run'[R].status = run[R].status /\ run'[R].requests = run[R].requests
  BY <1>1, <1>2, <1>3, <1>4 DEF TurnInv, Quiet
<1>5. CASE run'[R].status \notin Going \cup {"none"}
  BY <1>1, <1>3, <1>5 DEF TurnInv, Quiet, Going
<1> QED
  BY <1>4, <1>5 DEF Quiet, QuietRun

\* The coroutine that asks goes on.
LEMMA AskerGoesOn ==
    ASSUME TurnInv, NEW t \in Coroutine, Asks(task[t]), queued' = queued,
           \A u \in Coroutine \ {t} : task'[u] = task[u],
           asked' <= MaxTurns, run'[R].status # "none", Counts(task[t])',
           run'[R].status = "waiting_approval" => ~Asks(task'[t]) /\ asked' <= run'[R].requests
    PROVE  TurnInv'
<1>1. \A u \in Coroutine \ {t} : ~Asks(task'[u])
  BY DEF TurnInv, OneAsks
<1>2. \A e \in Executor : queued'[e] = Nobody
  BY DEF TurnInv, OneAsks
<1>3. OneAsks' /\ (~Asks(task'[t]) => NobodyAsks')
  BY <1>1, <1>2 DEF OneAsks, NobodyAsks
<1>4. ASSUME NEW u \in Coroutine PROVE Counts(task[u])'
  BY <1>1 DEF Counts, Fresh, Asks, Asking
<1> QED
  BY <1>2, <1>3, <1>4 DEF TurnInv

\* A coroutine is about to ask that was not, where nobody was.
LEMMA AskerAppears ==
    ASSUME TurnInv, NobodyAsks, NEW t \in Coroutine, asked' = asked,
           \A u \in Coroutine \ {t} : ~Asks(task'[u]),
           \A e \in Executor : queued'[e] = Nobody,
           run'[R].status \notin {"none", "waiting_approval"},
           task'[t].pc = "renew", asked <= run'[R].requests
    PROVE  TurnInv'
<1>1. OneAsks'
  BY DEF OneAsks
<1>2. ASSUME NEW u \in Coroutine PROVE Counts(task[u])'
  BY DEF Counts, Fresh, Asks, Asking
<1> QED
  BY <1>1, <1>2 DEF TurnInv

-----------------------------------------------------------------------------
\* Leaving for a handler, a marking or the end.
LEMMA QuietGoto ==
    ASSUME Typed, NEW t \in Coroutine, NEW w, w.pc \notin Asking, task' = [task EXCEPT ![t] = w]
    PROVE  QuietTasks
BY DEF QuietTasks, Asks, Typed

LEMMA QuietEnd == ASSUME Typed, NEW t \in Coroutine, End(t) PROVE QuietTasks
<1> DEFINE w == CASE task[t].kind = "cancel" -> NoTask
                  [] task[t].kind = "turn"   -> Start("settle", "turn", Nobody, FALSE)
                  [] OTHER -> Start("release", task[t].kind, Nobody, FALSE)
<1>1. w.pc \in {"none", "settle", "release"}
  BY DEF Start, NoTask
<1>2. task' = [task EXCEPT ![t] = w]
  BY DEF End
<1> HIDE DEF w
<1> QED
  BY <1>1, <1>2, QuietGoto DEF Asking

LEMMA QuietMark ==
    ASSUME Typed, NEW t \in Coroutine, NEW how, how \notin Asking, NEW b, Mark(t, how, b)
    PROVE  QuietTasks
<1> DEFINE w == [task[t] EXCEPT !.pc = how, !.tries = 0, !.todo = {}, !.n = 0,
                                !.saw = NotRead, !.shielded = b]
<1>1. w.pc = how
  BY TaskFacts DEF TaskType
<1>2. task' = [task EXCEPT ![t] = w]
  BY DEF Mark
<1> HIDE DEF w
<1> QED
  BY <1>1, <1>2, QuietGoto

LEMMA QuietFail ==
    ASSUME Typed, NEW t \in Coroutine, Fail(t) \/ Cancel(t) PROVE QuietTasks
BY QuietMark DEF Fail, Cancel, Asking

LEMMA QuietLost ==
    ASSUME Typed, NEW t \in Coroutine, Lost(t) \/ Conflict(t)
    PROVE  QuietTasks /\ UNCHANGED stored
BY QuietEnd, QuietFail DEF Lost, Conflict

\* A column that is changed leaves the others.
LEMMA QuietPlace ==
    ASSUME Typed, NEW t \in Coroutine, NEW p, p \notin Asking, Goto(t, p) PROVE QuietTasks
<1> DEFINE w == [task[t] EXCEPT !.pc = p]
<1>1. w.pc = p
  BY TaskFacts DEF TaskType
<1>2. task' = [task EXCEPT ![t] = w]
  BY DEF Goto
<1> HIDE DEF w
<1> QED
  BY <1>1, <1>2, QuietGoto

LEMMA QuietInterrupted ==
    ASSUME NEW w \in TaskType, NEW p \in Targets(w)
    PROVE  ~Asks(Interrupted(w, p)) \/ Interrupted(w, p) = w
<1>1. CASE p = w.pc
  BY <1>1 DEF Interrupted
<1>2. CASE p # w.pc
  <2>1. p \in {"done", "release", "settle", "stopped", "resumeStopped"}
    BY <1>2 DEF Targets
  <2>2. Interrupted(w, p).pc = p
    BY <1>2 DEF Interrupted, Start
  <2> QED
    BY <2>1, <2>2 DEF Asks, Asking
<1> QED
  BY <1>1, <1>2

LEMMA QuietInterrupt == ASSUME Typed, NEW e \in Executor, Interrupt(e) PROVE QuietTasks
<1> DEFINE w == task[RunTask(e)]
<1>1. RunTask(e) \in Coroutine /\ w \in TaskType
  BY CoroutinesOf, TaskFacts
<1>2. PICK p \in Targets(w) : task' = [task EXCEPT ![RunTask(e)] = Interrupted(w, p)]
  BY DEF Interrupt
<1> HIDE DEF w
<1>3. ~Asks(Interrupted(w, p)) \/ Interrupted(w, p) = w
  BY <1>1, QuietInterrupted
<1> QED
  BY <1>1, <1>2, <1>3 DEF QuietTasks, Typed, w

\* The operations of the repository that neither let a run go on nor write another count.
LEMMA QuietOperations ==
    ASSUME Typed, NEW c \in Call, NEW e
    PROVE  /\ UNCHANGED stored => QuietRun
           /\ \A st : FinishTool(c, st, e) => QuietRun
           /\ StartTool(c, e) => UNCHANGED run
           /\ e \in Executor /\ (ClaimRunExecution(R, e) \/ ReleaseRunExecution(R, e)) => QuietRun
           /\ LeaseLapses(R) => QuietRun
           /\ ApprovalFallsDue(c) \/ ExpireApproval(c) => QuietRun
           /\ \A n : FinishRun(R, n, e) => QuietRun
           /\ \A saw, to : to \in {"failed", "cancelled", "cancelling"}
                               /\ TransitionRun(R, saw, to, e) => QuietRun
<1>1. run \in [Run -> [status : RunStatus, executor : Executor \cup {Nobody},
                       leased : BOOLEAN, requests : 0..MaxTurns]] /\ RunOf[c] = R
  BY DEF Typed, StoredTypeOK
<1>2. ASSUME e \in Executor, ClaimRunExecution(R, e) \/ ReleaseRunExecution(R, e)
      PROVE  QuietRun
  BY <1>2, OwnershipKeepsStatus DEF Typed, QuietRun
<1>3. ASSUME ApprovalFallsDue(c) \/ ExpireApproval(c) PROVE QuietRun
  BY <1>1, <1>3 DEF ApprovalFallsDue, ExpireApproval, QuietRun, Going
<1>4. ASSUME NEW n, FinishRun(R, n, e) PROVE QuietRun
  BY <1>1, <1>4 DEF FinishRun, QuietRun, Going
<1>5. ASSUME NEW saw, NEW to \in {"failed", "cancelled", "cancelling"}, TransitionRun(R, saw, to, e)
      PROVE  QuietRun
  BY <1>1, <1>5 DEF TransitionRun, QuietRun, Going
<1>6. /\ UNCHANGED stored => QuietRun
      /\ \A st : FinishTool(c, st, e) => QuietRun
      /\ StartTool(c, e) => UNCHANGED run
  BY DEF FinishTool, StartTool, StartToolAs, QuietRun
<1>7. LeaseLapses(R) => QuietRun
  BY <1>1 DEF LeaseLapses, QuietRun
<1> QED
  BY <1>2, <1>3, <1>4, <1>5, <1>6, <1>7

LEMMA QuietUnmoved == UNCHANGED task => QuietTasks
BY DEF QuietTasks

LEMMA QuietTask ==
    ASSUME OnlyTask, QuietTasks, QuietRun PROVE Quiet
BY DEF OnlyTask, past, Quiet

-----------------------------------------------------------------------------
(***************************************************************************)
(* Steps that send nobody to the provider.                                 *)
(***************************************************************************)
LEMMA QuietTurns ==
    ASSUME Typed, NEW t \in Coroutine, AnswerRun(t) \/ Schedule(t) PROVE Quiet
<1>1. CASE AnswerRun(t)
  <2>1. CASE Lost(t) \/ Conflict(t)
    BY <1>1, <2>1, QuietLost, QuietTask DEF AnswerRun, QuietRun
  <2>2. CASE FinishRun(R, task[t].n, As(t)) /\ End(t)
    <3>1. QuietRun
      BY <2>2 DEF FinishRun, QuietRun, Going, Typed, StoredTypeOK
    <3> QED
      BY <1>1, <2>2, <3>1, QuietEnd, QuietTask DEF AnswerRun
  <2> QED
    BY <1>1, <2>1, <2>2 DEF AnswerRun, WhileStreaming
<1>2. CASE Schedule(t)
  BY <1>2, QuietEnd DEF Schedule, Quiet, QuietRun, past
<1> QED
  BY <1>1, <1>2

LEMMA QuietAbandon == ASSUME Typed, NEW t \in Coroutine, Abandon(t) PROVE Quiet
<1>1. task[t].call \in Call /\ OnlyTask
  BY TaskFacts DEF Abandon, At, Sound, Hands
<1>2. QuietRun
  BY <1>1, QuietOperations, QuietLost DEF Abandon
<1>3. QuietTasks
  BY QuietLost, QuietFail DEF Abandon
<1> QED
  BY <1>1, <1>2, <1>3, QuietTask

LEMMA QuietMarking == ASSUME Typed, NEW t \in Coroutine, MarkStep(t) PROVE Quiet
<1>1. ASSUME NEW how \in Marking, NEW x \in Read,
             task' = [task EXCEPT ![t].pc = how, ![t].saw = x]
      PROVE  QuietTasks
  <2> DEFINE w == [task[t] EXCEPT !.pc = how, !.saw = x]
  <2>1. w.pc = how
    BY TaskFacts DEF TaskType
  <2>2. task' = [task EXCEPT ![t] = w]
    BY <1>1
  <2> HIDE DEF w
  <2> QED
    BY <2>1, <2>2, QuietGoto DEF Marking, Asking
<1>2. ASSUME NEW again \in Marking, NEW k \in Nat,
             task' = [task EXCEPT ![t].pc = again, ![t].tries = k]
      PROVE  QuietTasks
  <2> DEFINE w == [task[t] EXCEPT !.pc = again, !.tries = k]
  <2>1. w.pc = again
    BY TaskFacts DEF TaskType
  <2>2. task' = [task EXCEPT ![t] = w]
    BY <1>2
  <2> HIDE DEF w
  <2> QED
    BY <2>1, <2>2, QuietGoto DEF Marking, Asking
<1>3. Now \in Read /\ task[t].tries + 1 \in Nat
      /\ {"failRead", "failWrite", "cancelRead", "cancelWrite"} = Marking
  BY NowType, TaskFacts, Fields DEF Marking, Typed
<1>4. ASSUME NEW again \in Marking, Retry(t, again) PROVE QuietTasks /\ QuietRun
  <2>1. QuietTasks
    BY <1>2, <1>3, <1>4, QuietEnd DEF Retry
  <2> QED
    BY <1>4, <2>1 DEF Retry, QuietRun
<1>5. CASE ReadToFail(t)
  <2>1. QuietTasks
    BY <1>1, <1>3, <1>5, QuietEnd, QuietMark DEF ReadToFail, Asking
  <2> QED
    BY <1>5, <2>1, QuietTask DEF ReadToFail, QuietRun
<1>6. CASE ReadToCancel(t)
  <2>1. QuietTasks
    BY <1>1, <1>3, <1>6, QuietEnd DEF ReadToCancel
  <2> QED
    BY <1>6, <2>1, QuietTask DEF ReadToCancel, QuietRun
<1>7. ASSUME NEW to \in {"failed", "cancelled", "cancelling"},
             TransitionRun(R, task[t].saw, to, As(t))
      PROVE  QuietRun
  BY <1>7 DEF TransitionRun, QuietRun, Going, Typed, StoredTypeOK
<1>8. CASE WriteFailed(t)
  BY <1>3, <1>4, <1>7, <1>8, QuietLost, QuietEnd, QuietTask DEF WriteFailed, QuietRun
<1>9. CASE WriteCancelled(t)
  <2>1. CASE /\ TransitionRun(R, task[t].saw, "cancelling", As(t))
             /\ task' = [task EXCEPT ![t].pc = "cancelRead", ![t].tries = @ + 1]
    <3>1. QuietTasks
      BY <1>2, <1>3, <2>1
    <3> QED
      BY <1>7, <1>9, <2>1, <3>1, QuietTask DEF WriteCancelled
  <2>2. CASE Lost(t) \/ Retry(t, "cancelRead")
             \/ (TransitionRun(R, task[t].saw, "cancelled", As(t)) /\ End(t))
    BY <1>3, <1>4, <1>7, <1>9, <2>2, QuietLost, QuietEnd, QuietTask DEF WriteCancelled, QuietRun
  <2> QED
    BY <1>9, <2>1, <2>2 DEF WriteCancelled
<1> QED
  BY <1>5, <1>6, <1>8, <1>9 DEF MarkStep

-----------------------------------------------------------------------------
LEMMA QuietHandlers ==
    ASSUME Typed, NEW t \in Coroutine,
           Stopped(t) \/ Sweep(t) \/ ResumeStopped(t) \/ Settle(t) \/ Release(t)
    PROVE  Quiet
<1>1. CASE Stopped(t)
  BY <1>1, QuietEnd, QuietPlace, QuietTask DEF Stopped, QuietRun, Asking
<1>2. CASE Sweep(t)
  <2>1. QuietRun
    BY <1>2, QuietOperations, QuietLost DEF Sweep, QuietRun
  <2>2. QuietTasks
    BY <1>2, QuietLost, QuietMark, QuietUnmoved DEF Sweep, Asking
  <2> QED
    BY <1>2, <2>1, <2>2, QuietTask DEF Sweep
<1>3. CASE ResumeStopped(t)
  <2>1. UNCHANGED stored \/ FinishTool(task[t].decided, "failed", As(t))
    BY <1>3 DEF ResumeStopped
  <2>2. QuietRun
    BY <2>1 DEF FinishTool, QuietRun
  <2>3. QuietTasks
    BY <1>3, QuietEnd, QuietMark DEF ResumeStopped, Asking
  <2> QED
    BY <1>3, <2>2, <2>3, QuietTask DEF ResumeStopped
<1>4. CASE Settle(t)
  <2>1. QuietTasks
    BY <1>4, QuietPlace DEF Settle, Asking
  <2> QED
    BY <1>4, <2>1 DEF Settle, Quiet, QuietRun, past
<1>5. CASE Release(t)
  <2>1. QuietRun
    <3>1. ReleaseRunExecution(R, t[1]) /\ t[1] \in Executor
      BY <1>5, CoroutineFacts DEF Release
    <3> QED
      BY <3>1, OwnershipKeepsStatus DEF QuietRun, Typed
  <2>2. QuietTasks
    BY <1>5, QuietPlace DEF Release, Asking
  <2> QED
    BY <1>5, <2>1, <2>2 DEF Release, Quiet, past
<1> QED
  BY <1>1, <1>2, <1>3, <1>4, <1>5

LEMMA QuietRecovery == ASSUME Typed, NEW t \in Coroutine, RecoveryStep(t) PROVE Quiet
<1>1. ASSUME NEW p, p \notin Asking, NEW S,
             task' = [task EXCEPT ![t].pc = p, ![t].todo = S]
      PROVE  QuietTasks
  <2> DEFINE w == [task[t] EXCEPT !.pc = p, !.todo = S]
  <2>1. w.pc = p
    BY TaskFacts DEF TaskType
  <2>2. task' = [task EXCEPT ![t] = w]
    BY <1>1
  <2> HIDE DEF w
  <2> QED
    BY <1>1, <2>1, <2>2, QuietGoto
<1>2. CASE RecoverApprovals(t)
  <2>1. QuietRun
    <3>1. ASSUME NEW c \in Call, ExpireApproval(c) PROVE QuietRun
      BY <3>1, QuietOperations
    <3> QED
      BY <1>2, <3>1 DEF RecoverApprovals, QuietRun, Pending
  <2>2. QuietTasks
    BY <1>1, <1>2, QuietUnmoved DEF RecoverApprovals, Asking
  <2> QED
    BY <1>2, <2>1, <2>2 DEF RecoverApprovals, Quiet, past
<1>3. CASE RecoverList(t)
  BY <1>3, QuietPlace, QuietTask DEF RecoverList, QuietRun, Asking
<1>4. CASE RecoverClaim(t)
  <2>1. QuietRun
    BY <1>4, CoroutineFacts, OwnershipKeepsStatus DEF RecoverClaim, QuietRun, Typed
  <2>2. CASE task' = [task EXCEPT ![t].pc = "tools", ![t].saw = Now, ![t].todo = {}]
    <3> DEFINE w == [task[t] EXCEPT !.pc = "tools", !.saw = Now, !.todo = {}]
    <3>1. w.pc = "tools"
      BY TaskFacts DEF TaskType
    <3>2. task' = [task EXCEPT ![t] = w]
      BY <2>2
    <3> HIDE DEF w
    <3>3. QuietTasks
      BY <3>1, <3>2, QuietGoto DEF Asking
    <3> QED
      BY <1>4, <2>1, <3>3, QuietTask DEF RecoverClaim
  <2>3. CASE Goto(t, "done")
    BY <1>4, <2>1, <2>3, QuietPlace, QuietTask DEF RecoverClaim, Asking
  <2> QED
    BY <1>4, <2>2, <2>3 DEF RecoverClaim
<1>5. CASE RecoverTools(t)
  <2>1. QuietRun
    BY <1>5, QuietOperations, QuietLost DEF RecoverTools, QuietRun
  <2>2. QuietTasks
    BY <1>5, QuietLost, QuietFail, QuietUnmoved DEF RecoverTools
  <2> QED
    BY <1>5, <2>1, <2>2, QuietTask DEF RecoverTools
<1> QED
  BY <1>2, <1>3, <1>4, <1>5 DEF RecoveryStep

LEMMA QuietRequests == ASSUME Typed, NEW t \in Coroutine, t[2] # "run", RequestStep(t) PROVE Quiet
<1>1. t[1] \in Executor /\ RunTask(t[1]) \in Coroutine /\ t # RunTask(t[1])
  BY CoroutineFacts, CoroutinesOf DEF RunTask
<1>2. CASE CancelWrite(t)
  <2>1. QuietRun
    <3>1. CASE UNCHANGED stored
      BY <3>1 DEF QuietRun
    <3>2. CASE TransitionRun(R, task[t].saw, "cancelling", Nobody)
      BY <3>2 DEF TransitionRun, QuietRun, Going, Typed, StoredTypeOK
    <3> QED
      BY <1>2, <3>1, <3>2 DEF CancelWrite
  <2>2. QuietTasks
    BY <1>2, QuietMark, QuietGoto, NoTaskType DEF CancelWrite, Asking
  <2> QED
    BY <1>2, <2>1, <2>2, QuietTask DEF CancelWrite
<1>3. CASE CancelTask(t)
  <2>1. CASE Goto(t, "sweep")
    <3>1. QuietTasks
      BY <2>1, QuietPlace DEF Asking
    <3> QED
      BY <1>3, <3>1 DEF CancelTask, Quiet, QuietRun, past
  <2>2. ASSUME NEW p \in Targets(task[RunTask(t[1])]),
               task' = [task EXCEPT ![t] = NoTask, ![RunTask(t[1])] = Interrupted(@, p)]
        PROVE  Quiet
    <3> DEFINE u == RunTask(t[1])  w == Interrupted(task[u], p)
    <3>1. /\ task'[t] = NoTask /\ task'[u] = w
          /\ \A v \in Coroutine \ {t, u} : task'[v] = task[v]
      BY <1>1, <2>2 DEF Typed
    <3>2. ~Asks(NoTask) /\ (~Asks(w) \/ w = task[u])
      BY <1>1, <2>2, NoTaskType, TaskFacts, QuietInterrupted DEF Asks, Asking
    <3> HIDE DEF u, w
    <3>3. QuietTasks
      BY <3>1, <3>2 DEF QuietTasks
    <3> QED
      BY <1>3, <3>3 DEF CancelTask, Quiet, QuietRun, past
  <2> QED
    BY <1>1, <1>3, <2>1, <2>2 DEF CancelTask
<1>4. CASE CancelSweep(t)
  <2>1. QuietRun
    BY <1>4, QuietOperations DEF CancelSweep, QuietRun
  <2>2. QuietTasks
    BY <1>4, QuietUnmoved, QuietFail, QuietGoto, NoTaskType DEF CancelSweep, Asking
  <2> QED
    BY <1>4, <2>1, <2>2, QuietTask DEF CancelSweep
<1> QED
  BY <1>2, <1>3, <1>4 DEF RequestStep

-----------------------------------------------------------------------------
LEMMA QuietLife ==
    ASSUME Typed, NEW e \in Executor, CancelRead(e) \/ Life(e)
    PROVE  Quiet
<1>1. RunTask(e) \in Coroutine /\ Request(e) \in Coroutine /\ RunTask(e) # Request(e)
  BY CoroutinesOf DEF RunTask, Request
<1>2. \A k : Spend(k) => asked' = asked
  BY DEF Spend
<1>3. \A p, k : p \notin Asking => ~Asks(Start(p, k, Nobody, FALSE))
  BY DEF Start, Asks
<1>4. CASE CancelRead(e)
  <2> DEFINE w == IF run[R].status = "cancelling" THEN Start("interrupt", "cancel", Nobody, FALSE)
                  ELSE [Start("write", "cancel", Nobody, FALSE) EXCEPT !.saw = Now]
  <2>1. w.pc \notin Asking
    BY DEF Start, Asking
  <2>2. task' = [task EXCEPT ![Request(e)] = w]
    BY <1>4 DEF CancelRead
  <2> HIDE DEF w
  <2>3. QuietTasks
    BY <1>1, <2>1, <2>2, QuietGoto
  <2> QED
    BY <1>2, <1>4, <2>3 DEF CancelRead, Quiet, QuietRun
<1>5. CASE RenewalFails(e)
  BY <1>5, QuietInterrupt DEF RenewalFails, Quiet, QuietRun, past
<1>6. CASE BudgetEnds(e)
  <2>1. QuietTasks
    BY <1>1, <1>6, QuietInterrupt, QuietFail DEF BudgetEnds
  <2> QED
    BY <1>2, <1>6, <2>1 DEF BudgetEnds, Quiet, QuietRun
<1>7. CASE StartUp(e)
  <2>1. QuietTasks
    BY <1>1, <1>3, <1>7, QuietGoto DEF StartUp, Asks, Asking
  <2> QED
    BY <1>7, <2>1 DEF StartUp, Quiet, QuietRun, past
<1>8. CASE Close(e)
  BY <1>2, <1>8, QuietInterrupt DEF Close, Quiet, QuietRun
<1>9. CASE Closed(e) \/ Crash(e)
  <2>1. \E from : Gone(e, from)
    BY <1>9 DEF Closed, Crash
  <2>2. ~Asks(NoTask)
    BY NoTaskType DEF Asks, Asking
  <2>3. QuietTasks
    BY <1>1, <2>1, <2>2 DEF Gone, QuietTasks, Typed
  <2>4. \A d \in Executor : queued'[d] \in {queued[d], Nobody}
    BY <2>1 DEF Gone, Typed, OthersTyped
  <2> QED
    BY <1>2, <1>9, <2>1, <2>3, <2>4 DEF Closed, Crash, Gone, Quiet, QuietRun, past
<1> QED
  BY <1>4, <1>5, <1>6, <1>7, <1>8, <1>9 DEF Life

LEMMA QuietTime == ASSUME Typed, Timers \/ Lapse PROVE Quiet
<1>1. asked' = asked /\ UNCHANGED <<task, queued>>
  BY DEF Timers, FallDue, TimerFires, Lapse, Spend, past
<1>2. ASSUME NEW c \in Call, ExpireApproval(c) \/ ApprovalFallsDue(c) PROVE QuietRun
  BY <1>2, QuietOperations
<1>3. ASSUME LeaseLapses(R) PROVE QuietRun
  BY <1>3 DEF LeaseLapses, QuietRun, Typed, StoredTypeOK
<1>4. QuietRun
  BY <1>2, <1>3 DEF Timers, FallDue, TimerFires, Lapse, QuietRun
<1> QED
  BY <1>1, <1>4, QuietUnmoved DEF Quiet

-----------------------------------------------------------------------------
(***************************************************************************)
(* Steps on the way to the provider.                                       *)
(***************************************************************************)
LEMMA AskerFacts ==
    ASSUME Typed, TurnInv, NEW t \in Coroutine, Asks(task[t])
    PROVE  /\ run[R].status \notin {"none", "waiting_approval"} /\ Counts(task[t])
           /\ asked \in Nat /\ asked <= MaxTurns /\ run[R].requests \in 0..MaxTurns
           /\ task[t] \in TaskType /\ task[t].n \in 0..MaxTurns
<1>1. run[R].requests \in 0..MaxTurns /\ asked \in Nat
  BY NowType DEF Typed, OthersTyped
<1> QED
  BY <1>1, TaskFacts, Fields DEF TurnInv, NobodyAsks

\* It goes on while the run stays where it is and nothing is sent.
LEMMA AskerMoves ==
    ASSUME Typed, TurnInv, NEW t \in Coroutine, Asks(task[t]), NEW w, Counts(w),
           task' = [task EXCEPT ![t] = w], OnlyTask,
           run'[R].status = run[R].status, run'[R].requests = run[R].requests
    PROVE  TurnInv'
<1>1. /\ asked' = asked /\ queued' = queued /\ task'[t] = w
      /\ \A u \in Coroutine \ {t} : task'[u] = task[u]
  BY DEF OnlyTask, past, Typed
<1>2. Counts(task[t])'
  BY <1>1 DEF Counts, Fresh
<1> QED
  BY <1>1, <1>2, AskerFacts, AskerGoesOn

LEMMA QuietAsker ==
    ASSUME Typed, TurnInv, NEW t \in Coroutine, OnlyTask,
           Lost(t) \/ Conflict(t) \/ (QuietRun /\ (End(t) \/ Fail(t) \/ Cancel(t)))
    PROVE  TurnInv'
<1>1. QuietTasks /\ QuietRun
  BY QuietLost, QuietEnd, QuietFail DEF QuietRun
<1> QED
  BY <1>1, QuietTask, QuietKeeps

\* From the row to the loop.
LEMMA AskRenewTurn == ASSUME Typed, TurnInv, NEW t \in Coroutine, RenewTurn(t) PROVE TurnInv'
<1>1. CASE Goto(t, "done")
  BY <1>1, QuietPlace, QuietTask, QuietKeeps DEF RenewTurn, QuietRun, Asking
<1>2. CASE Goto(t, "begin")
  <2> DEFINE w == [task[t] EXCEPT !.pc = "begin"]
  <2>1. task[t].pc = "renew" /\ task[t].kind = "turn" /\ Asks(task[t])
    BY <1>2 DEF RenewTurn, At, Asks, Asking
  <2>2. w.pc = "begin" /\ w.kind = "turn" /\ task' = [task EXCEPT ![t] = w]
    BY <1>2, <2>1, TaskFacts DEF Goto, TaskType
  <2> HIDE DEF w
  <2>3. Counts(w)
    BY <2>1, <2>2, AskerFacts DEF Counts, Fresh
  <2> QED
    BY <1>2, <2>1, <2>2, <2>3, AskerMoves DEF RenewTurn
<1> QED
  BY <1>1, <1>2 DEF RenewTurn

LEMMA AskRenewResume == ASSUME Typed, TurnInv, NEW t \in Coroutine, RenewResume(t) PROVE TurnInv'
<1>1. CASE Goto(t, "release")
  BY <1>1, QuietPlace, QuietTask, QuietKeeps DEF RenewResume, QuietRun, Asking
<1>2. ASSUME NEW p \in {"startApproved", "load"}, Goto(t, p) PROVE TurnInv'
  <2> DEFINE w == [task[t] EXCEPT !.pc = p]
  <2>1. task[t].pc = "renew" /\ Asks(task[t])
    BY <1>2 DEF RenewResume, At, Asks, Asking
  <2>2. w.pc = p /\ task' = [task EXCEPT ![t] = w]
    BY <1>2, <2>1, TaskFacts DEF Goto, TaskType
  <2> HIDE DEF w
  <2>3. Counts(w)
    BY <2>1, <2>2, AskerFacts DEF Counts, Fresh
  <2> QED
    BY <1>2, <2>1, <2>2, <2>3, AskerMoves DEF RenewResume
<1> QED
  BY <1>1, <1>2 DEF RenewResume

LEMMA AskLoad == ASSUME Typed, TurnInv, NEW t \in Coroutine, Load(t) PROVE TurnInv'
<1> DEFINE w == [task[t] EXCEPT !.pc = "begin", !.kind = "inner", !.call = Nobody, !.ok = FALSE]
<1>1. task[t].pc = "load" /\ Asks(task[t])
  BY DEF Load, At, Asks, Asking
<1>2. w.pc = "begin" /\ w.kind = "inner" /\ task' = [task EXCEPT ![t] = w]
  BY <1>1, TaskFacts DEF Load, TaskType
<1> HIDE DEF w
<1>3. Counts(w)
  BY <1>1, <1>2, AskerFacts DEF Counts, Fresh
<1> QED
  BY <1>1, <1>2, <1>3, AskerMoves DEF Load

\* _run_loop takes the count from the row.
LEMMA AskBegin == ASSUME Typed, TurnInv, NEW t \in Coroutine, Begin(t) PROVE TurnInv'
<1>1. task[t].pc = "begin" /\ Asks(task[t]) /\ task[t].kind # "resume" /\ OnlyTask
  BY AskerFacts DEF Begin, At, Asks, Asking, Counts
<1>2. run[R].status \in Going => asked <= run[R].requests
  BY <1>1, AskerFacts DEF Counts, Fresh
<1>3. CASE End(t) \/ Fail(t)
  BY <1>1, <1>3, QuietAsker DEF Begin, QuietRun
<1>4. CASE run[R].status = "streaming"
           /\ task' = [task EXCEPT ![t].pc = "turn", ![t].n = run[R].requests]
  <2> DEFINE w == [task[t] EXCEPT !.pc = "turn", !.n = run[R].requests]
  <2>1. w.pc = "turn" /\ w.kind = task[t].kind /\ w.n = run[R].requests
    BY TaskFacts DEF TaskType
  <2>2. task' = [task EXCEPT ![t] = w]
    BY <1>4
  <2> HIDE DEF w
  <2>3. Counts(w)
    BY <1>1, <1>2, <1>4, <2>1 DEF Counts, Fresh, Going
  <2> QED
    BY <1>1, <2>2, <2>3, AskerMoves DEF Begin
<1>5. CASE /\ "streaming" \in Allowed[run[R].status] /\ ~Ended(R)
           /\ run[R].status \notin {"waiting_approval", "streaming"}
           /\ task' = [task EXCEPT ![t].pc = "start", ![t].saw = Now]
  <2> DEFINE w == [task[t] EXCEPT !.pc = "start", !.saw = Now]
  <2>1. w.pc = "start" /\ w.kind = task[t].kind /\ w.saw = Now
    BY TaskFacts DEF TaskType
  <2>2. task' = [task EXCEPT ![t] = w]
    BY <1>5
  <2> HIDE DEF w
  <2>3. run[R].status \in Going \ {"streaming"}
    <3>1. run[R].status \in RunStatus \ ({"none"} \cup Terminal)
      BY <1>1, <1>5, AskerFacts DEF Ended, Typed, StoredTypeOK
    <3>2. run[R].status # "cancelling"
      BY <1>5 DEF Allowed
    <3> QED
      BY <1>5, <3>1, <3>2 DEF RunStatus, Going
  <2>4. Counts(w)
    BY <1>1, <1>2, <2>1, <2>3 DEF Counts, Fresh, Now, Asks
  <2> QED
    BY <1>1, <2>2, <2>4, AskerMoves DEF Begin
<1> QED
  BY <1>3, <1>4, <1>5 DEF Begin

LEMMA AskStart == ASSUME Typed, TurnInv, NEW t \in Coroutine, StartStreaming(t) PROVE TurnInv'
<1>1. task[t].pc = "start" /\ Asks(task[t]) /\ OnlyTask /\ Counts(task[t]) /\ task[t].kind # "resume"
  BY AskerFacts DEF StartStreaming, At, Asks, Asking, Counts
<1>2. CASE Lost(t) \/ Conflict(t)
  BY <1>1, <1>2, QuietAsker
<1>3. CASE /\ TransitionRun(R, task[t].saw, "streaming", As(t))
           /\ task' = [task EXCEPT ![t].pc = "turn", ![t].n = task[t].saw.requests,
                                   ![t].saw = NotRead]
  <2> DEFINE w == [task[t] EXCEPT !.pc = "turn", !.n = task[t].saw.requests, !.saw = NotRead]
  <2>1. w.pc = "turn" /\ w.kind = task[t].kind /\ w.n = task[t].saw.requests
    BY TaskFacts DEF TaskType
  <2>2. task' = [task EXCEPT ![t] = w]
    BY <1>3
  <2> HIDE DEF w
  <2>3. /\ task'[t] = w /\ \A u \in Coroutine \ {t} : task'[u] = task[u]
        /\ asked' = asked /\ queued' = queued
    BY <1>1, <2>2 DEF Typed, OnlyTask, past
  <2>4. run'[R].status = "streaming" /\ asked <= task[t].saw.requests
    <3>1. task[t].saw.status = run[R].status /\ run'[R].status = "streaming"
      BY <1>3 DEF TransitionRun, Typed, StoredTypeOK
    <3> QED
      BY <1>1, <3>1 DEF Counts, Fresh, Going
  <2>5. Counts(task[t])'
    BY <1>1, <2>1, <2>3, <2>4 DEF Counts, Fresh
  <2> QED
    BY <1>1, <2>3, <2>4, <2>5, AskerFacts, AskerGoesOn
<1> QED
  BY <1>1, <1>2, <1>3 DEF StartStreaming

\* The only step that sends a request: the count in hand has those before it.
LEMMA AskTurn == ASSUME Typed, TurnInv, NEW t \in Coroutine, Turn(t) PROVE TurnInv'
<1>1. task[t].pc = "turn" /\ Asks(task[t]) /\ UNCHANGED <<stored, queued>>
      /\ task[t].kind # "resume" /\ asked <= task[t].n /\ asked \in Nat /\ task[t].n \in 0..MaxTurns
  BY AskerFacts DEF Turn, At, Asks, Asking, Counts, Fresh
<1>2. CASE asked' = asked /\ (End(t) \/ Fail(t) \/ Cancel(t))
  BY <1>1, <1>2, QuietEnd, QuietFail, QuietKeeps DEF Quiet, QuietRun
<1>3. CASE task[t].n < MaxTurns /\ Goto(t, "stream") /\ asked' = asked + 1
  <2> DEFINE w == [task[t] EXCEPT !.pc = "stream"]
  <2>1. w.pc = "stream" /\ w.kind = task[t].kind /\ w.n = task[t].n
    BY TaskFacts DEF TaskType
  <2>2. task' = [task EXCEPT ![t] = w]
    BY <1>3 DEF Goto
  <2> HIDE DEF w
  <2>3. task'[t] = w /\ \A u \in Coroutine \ {t} : task'[u] = task[u]
    BY <2>2 DEF Typed
  <2>4. asked' <= w.n + 1 /\ asked' <= MaxTurns
    BY <1>1, <1>3, <2>1
  <2>5. Counts(task[t])'
    BY <1>1, <2>1, <2>3, <2>4 DEF Counts, Fresh, Asks
  <2>6. run'[R].status \notin {"none", "waiting_approval"}
    BY <1>1, AskerFacts
  <2> QED
    BY <1>1, <2>3, <2>4, <2>5, <2>6, AskerGoesOn
<1> QED
  BY <1>1, <1>2, <1>3 DEF Turn

LEMMA AskStream == ASSUME Typed, TurnInv, NEW t \in Coroutine, Stream(t) PROVE TurnInv'
<1>1. task[t].pc = "stream" /\ Asks(task[t]) /\ UNCHANGED stored /\ OnlyTask
      /\ task[t].kind # "resume" /\ asked <= task[t].n + 1
  BY AskerFacts DEF Stream, At, Asks, Asking, Counts
<1>2. CASE Lost(t) \/ Conflict(t) \/ Fail(t)
  BY <1>1, <1>2, QuietAsker DEF QuietRun
<1>3. ASSUME NEW S \in SUBSET Call,
             task' = [task EXCEPT ![t].pc = "propose", ![t].todo = S, ![t].n = @ + 1]
      PROVE  TurnInv'
  <2> DEFINE m == task[t].n + 1
             w == [task[t] EXCEPT !.pc = "propose", !.todo = S, !.n = m]
  <2>1. task' = [task EXCEPT ![t] = w]
    BY <1>3
  <2>2. asked <= m
    BY <1>1
  <2> HIDE DEF m
  <2>3. w.pc = "propose" /\ w.kind = task[t].kind /\ w.n = m
    BY TaskFacts DEF TaskType
  <2> HIDE DEF w
  <2>4. Counts(w)
    BY <1>1, <2>2, <2>3 DEF Counts, Fresh
  <2> QED
    BY <1>1, <2>1, <2>4, AskerMoves
<1>4. CASE task' = [task EXCEPT ![t].pc = "finishRun", ![t].n = @ + 1]
  <2> DEFINE m == task[t].n + 1
             w == [task[t] EXCEPT !.pc = "finishRun", !.n = m]
  <2>1. task' = [task EXCEPT ![t] = w]
    BY <1>4
  <2> HIDE DEF m
  <2>2. w.pc = "finishRun"
    BY TaskFacts DEF TaskType
  <2> HIDE DEF w
  <2>3. QuietTasks
    BY <2>1, <2>2, QuietGoto DEF Asking
  <2> QED
    BY <1>1, <2>3, QuietTask, QuietKeeps DEF QuietRun
<1> QED
  BY <1>1, <1>2, <1>3, <1>4 DEF Stream, WhileStreaming

\* The next proposal or the next turn, with the same count.
LEMMA AskNext ==
    ASSUME Typed, TurnInv, NEW t \in Coroutine, NEW c, Next1(t, c), OnlyTask,
           task[t].kind # "resume", task[t].pc \in {"propose", "finishTool"},
           run'[R].status = run[R].status
    PROVE  TurnInv'
<1> DEFINE rest == task[t].todo \ {c}
           p == IF rest = {} THEN "turn" ELSE "propose"
           w == [task[t] EXCEPT !.todo = rest, !.call = Nobody, !.ok = FALSE, !.pc = p]
<1>1. task' = [task EXCEPT ![t] = w] /\ p \in {"turn", "propose"}
  BY DEF Next1
<1> HIDE DEF p
<1>2. w.pc = p /\ w.kind = task[t].kind /\ w.n = task[t].n
  BY TaskFacts DEF TaskType
<1> HIDE DEF w
<1>3. Asks(task[t])
  BY DEF Asks, Asking
<1>4. asked <= task[t].n
  BY <1>3, AskerFacts DEF Counts, Fresh
<1>5. /\ task'[t] = w /\ \A u \in Coroutine \ {t} : task'[u] = task[u]
      /\ asked' = asked /\ queued' = queued
  BY <1>1 DEF Typed, OnlyTask, past
<1>6. Counts(task[t])'
  BY <1>1, <1>2, <1>4, <1>5 DEF Counts, Fresh
<1> QED
  BY <1>3, <1>5, <1>6, AskerFacts, AskerGoesOn

\* propose_tool_call writes the count into the row, where it is while the run waits.
LEMMA AskPropose == ASSUME Typed, TurnInv, NEW t \in Coroutine, Propose(t) PROVE TurnInv'
<1>1. task[t].pc = "propose" /\ Asks(task[t]) /\ OnlyTask /\ task[t].kind # "resume"
      /\ asked <= task[t].n /\ task[t].todo \in SUBSET Call /\ asked <= MaxTurns
  BY AskerFacts, Fields DEF Propose, At, Asks, Asking, Counts, Fresh
<1>2. CASE Lost(t) \/ Conflict(t) \/ (Fail(t) /\ UNCHANGED stored)
  BY <1>1, <1>2, QuietAsker DEF QuietRun
<1>3. ASSUME NEW c \in Call, ProposeToolCall(c, task[t].n, As(t)),
             \/ /\ call[c] = "none"
                /\ task' = [task EXCEPT ![t].call = c,
                      ![t].pc = IF c \in Costly THEN "schedule" ELSE "startTool"]
             \/ call[c] \in Settled /\ Next1(t, c)
             \/ call[c] \notin Settled \cup {"none"} /\ Fail(t)
      PROVE  TurnInv'
  <2>1. /\ run[R].status = "streaming" /\ RunOf[c] = R
        /\ run'[R].requests = task[t].n
        /\ run'[R].status = IF call[c] = "none" /\ c \in Costly THEN "waiting_approval"
                            ELSE "streaming"
    BY <1>3 DEF ProposeToolCall, Typed, StoredTypeOK
  <2>2. CASE call[c] \in Settled /\ Next1(t, c)
    <3>1. run'[R].status = run[R].status
      BY <2>1, <2>2 DEF Settled
    <3> QED
      BY <1>1, <2>2, <3>1, AskNext
  <2>3. CASE call[c] \notin Settled \cup {"none"} /\ Fail(t)
    <3> DEFINE w == [task[t] EXCEPT !.pc = "failRead", !.tries = 0, !.todo = {}, !.n = 0,
                                    !.saw = NotRead, !.shielded = FALSE]
    <3>1. w.pc = "failRead" /\ task' = [task EXCEPT ![t] = w]
      BY <2>3, TaskFacts DEF Fail, Mark, TaskType
    <3> HIDE DEF w
    <3>2. /\ task'[t] = w /\ \A u \in Coroutine \ {t} : task'[u] = task[u]
          /\ asked' = asked /\ queued' = queued /\ run'[R].status = "streaming"
      BY <1>1, <2>1, <2>3, <3>1 DEF Typed, OnlyTask, past
    <3>3. Counts(task[t])'
      BY <3>1, <3>2 DEF Counts, Fresh, Asks, Asking
    <3> QED
      BY <1>1, <3>2, <3>3, AskerGoesOn
  <2>4. CASE /\ call[c] = "none"
             /\ task' = [task EXCEPT ![t].call = c,
                   ![t].pc = IF c \in Costly THEN "schedule" ELSE "startTool"]
    <3> DEFINE p == IF c \in Costly THEN "schedule" ELSE "startTool"
               w == [task[t] EXCEPT !.call = c, !.pc = p]
    <3>1. task' = [task EXCEPT ![t] = w]
      BY <2>4
    <3>2. \/ c \in Costly /\ p = "schedule" /\ run'[R].status = "waiting_approval"
          \/ p = "startTool" /\ run'[R].status = "streaming"
      BY <2>1, <2>4
    <3> HIDE DEF p
    <3>3. w.pc = p /\ w.kind = task[t].kind /\ w.n = task[t].n
      BY TaskFacts DEF TaskType
    <3> HIDE DEF w
    <3>4. /\ task'[t] = w /\ \A u \in Coroutine \ {t} : task'[u] = task[u]
          /\ asked' = asked /\ queued' = queued
      BY <1>1, <3>1 DEF Typed, OnlyTask, past
    <3>5. Counts(task[t])'
      BY <1>1, <3>2, <3>3, <3>4 DEF Counts, Fresh, Asks, Asking
    <3>6. run'[R].status = "waiting_approval" => ~Asks(task'[t]) /\ asked' <= run'[R].requests
      BY <1>1, <2>1, <3>2, <3>3, <3>4 DEF Asks, Asking
    <3>7. run'[R].status # "none"
      BY <3>2
    <3> QED
      BY <1>1, <3>4, <3>5, <3>6, <3>7, AskerGoesOn
  <2> QED
    BY <1>3, <2>2, <2>3, <2>4
<1> QED
  BY <1>1, <1>2, <1>3 DEF Propose, WhileStreaming

\* The tools keep the count, or leave it in the row.
LEMMA AskTool ==
    ASSUME Typed, TurnInv, NEW t \in Coroutine, NEW p \in {"tool", "load"}, Goto(t, p), OnlyTask,
           task[t].pc \in {"startTool", "startApproved", "finishTool"},
           p = "load" => task[t].pc = "finishTool" /\ task[t].kind = "resume",
           p = "tool" => task[t].pc # "finishTool", UNCHANGED run
    PROVE  TurnInv'
<1> DEFINE w == [task[t] EXCEPT !.pc = p]
<1>1. task' = [task EXCEPT ![t] = w] /\ Asks(task[t])
  BY DEF Goto, Asks, Asking
<1>2. w.pc = p /\ w.kind = task[t].kind /\ w.n = task[t].n
  BY TaskFacts DEF TaskType
<1>3. task[t].pc = "startApproved" => task[t].kind = "resume"
  BY TaskFacts DEF Sound
<1> HIDE DEF w
<1>4. Counts(w)
  BY <1>1, <1>2, <1>3, AskerFacts DEF Counts, Fresh, Asks
<1> QED
  BY <1>1, <1>4, AskerMoves

LEMMA AskTools ==
    ASSUME Typed, TurnInv, NEW t \in Coroutine,
           StartDirect(t) \/ StartApproved(t) \/ RunTool(t) \/ RecordTool(t)
    PROVE  TurnInv'
<1>1. CASE StartDirect(t)
  <2>1. CASE StartTool(task[t].call, As(t)) /\ Goto(t, "tool")
    BY <1>1, <2>1, AskTool DEF StartDirect, At, StartTool, StartToolAs
  <2>2. CASE Lost(t) \/ Conflict(t) \/ (UNCHANGED stored /\ Fail(t))
    BY <1>1, <2>2, QuietAsker DEF StartDirect, QuietRun
  <2> QED
    BY <1>1, <2>1, <2>2 DEF StartDirect, WhileStreaming
<1>2. CASE StartApproved(t)
  <2>1. CASE StartTool(task[t].call, As(t)) /\ Goto(t, "tool")
    BY <1>2, <2>1, AskTool DEF StartApproved, At, StartTool, StartToolAs
  <2>2. CASE Lost(t) \/ (UNCHANGED stored /\ Fail(t))
    BY <1>2, <2>2, QuietAsker DEF StartApproved, QuietRun
  <2>3. CASE UNCHANGED stored /\ task' = [task EXCEPT ![t].pc = "abandon", ![t].saw = Now]
    <3> DEFINE w == [task[t] EXCEPT !.pc = "abandon", !.saw = Now]
    <3>1. w.pc = "abandon" /\ task' = [task EXCEPT ![t] = w]
      BY <2>3, TaskFacts DEF TaskType
    <3> HIDE DEF w
    <3>2. QuietTasks
      BY <3>1, QuietGoto DEF Asking
    <3> QED
      BY <1>2, <2>3, <3>2, QuietTask, QuietKeeps DEF StartApproved, QuietRun
  <2> QED
    BY <1>2, <2>1, <2>2, <2>3 DEF StartApproved
<1>3. CASE RunTool(t)
  <2>1. CASE End(t) \/ Fail(t)
    BY <1>3, <2>1, QuietEnd, QuietFail, QuietKeeps DEF RunTool, Quiet, QuietRun
  <2>2. ASSUME NEW ok \in BOOLEAN, task' = [task EXCEPT ![t].pc = "finishTool", ![t].ok = ok]
        PROVE  TurnInv'
    <3> DEFINE w == [task[t] EXCEPT !.pc = "finishTool", !.ok = ok]
    <3>1. w.pc = "finishTool" /\ w.kind = task[t].kind /\ w.n = task[t].n
      BY TaskFacts DEF TaskType
    <3>2. task' = [task EXCEPT ![t] = w]
      BY <2>2
    <3> HIDE DEF w
    <3>3. /\ task'[t] = w /\ \A u \in Coroutine \ {t} : task'[u] = task[u]
          /\ asked' = asked /\ queued' = queued /\ run' = run /\ Asks(task[t])
          /\ task[t].pc = "tool"
      BY <1>3, <3>2 DEF Typed, RunTool, At, Asks, Asking
    <3>4. Counts(task[t])'
      BY <3>1, <3>3, AskerFacts DEF Counts, Fresh, Asks
    <3> QED
      BY <3>3, <3>4, AskerFacts, AskerGoesOn
  <2> QED
    BY <1>3, <2>1, <2>2 DEF RunTool
<1>4. CASE RecordTool(t)
  <2>1. CASE Lost(t) \/ (UNCHANGED stored /\ Fail(t))
    BY <1>4, <2>1, QuietAsker DEF RecordTool, QuietRun
  <2>2. CASE /\ FinishTool(task[t].call, Outcome(t), As(t))
             /\ IF task[t].kind = "resume" THEN Goto(t, "load") ELSE Next1(t, task[t].call)
    <3>1. UNCHANGED run /\ task[t].pc = "finishTool" /\ OnlyTask
      BY <1>4, <2>2 DEF RecordTool, FinishTool, At
    <3>2. CASE task[t].kind = "resume"
      BY <2>2, <3>1, <3>2, AskTool
    <3>3. CASE task[t].kind # "resume"
      BY <2>2, <3>1, <3>3, AskNext
    <3> QED
      BY <3>2, <3>3
  <2> QED
    BY <1>4, <2>1, <2>2 DEF RecordTool
<1> QED
  BY <1>1, <1>2, <1>3, <1>4

(***************************************************************************)
(* A new run, a decision, and a decision that has waited.                  *)
(***************************************************************************)
LEMMA AskCreate == ASSUME Typed, TurnInv, NEW e \in Executor, CreateAgentRun(e) PROVE TurnInv'
<1> DEFINE w == Start("renew", "turn", Nobody, FALSE)
<1>1. run[R].status = "none" /\ run'[R].status = "queued" /\ run'[R].requests = 0
  BY DEF CreateAgentRun, CreateRun, Typed, StoredTypeOK
<1>2. asked = 0 /\ NobodyAsks
  BY <1>1 DEF TurnInv
<1>3. /\ task'[RunTask(e)] = w /\ \A u \in Coroutine \ {RunTask(e)} : task'[u] = task[u]
      /\ asked' = asked /\ queued' = queued /\ RunTask(e) \in Coroutine
  BY CoroutinesOf DEF CreateAgentRun, Typed, past
<1>4. w.pc = "renew"
  BY DEF Start
<1>5. \A u \in Coroutine \ {RunTask(e)} : ~Asks(task'[u])
  BY <1>2, <1>3 DEF NobodyAsks
<1>6. \A d \in Executor : queued'[d] = Nobody
  BY <1>2, <1>3 DEF NobodyAsks
<1>7. run'[R].status \notin {"none", "waiting_approval"} /\ asked <= run'[R].requests
  BY <1>1, <1>2
<1>8. task'[RunTask(e)].pc = "renew"
  BY <1>3, <1>4
<1> HIDE DEF w
<1> QED
  BY <1>2, <1>3, <1>5, <1>6, <1>7, <1>8, AskerAppears

LEMMA AskDone == ASSUME Typed, TurnInv, NEW t \in Coroutine, Done(t) PROVE TurnInv'
<1>1. t[1] \in Executor /\ UNCHANGED stored /\ asked' = asked
      /\ queued' = [queued EXCEPT ![t[1]] = Nobody]
      /\ \A d \in Executor : queued'[d] \in {queued[d], Nobody}
  BY CoroutineFacts DEF Done, past, Typed, OthersTyped
<1>2. CASE task' = [task EXCEPT ![t] = NoTask]
  BY <1>1, <1>2, NoTaskType, QuietGoto, QuietKeeps DEF Quiet, QuietRun, Asking
<1>3. CASE /\ queued[t[1]] # Nobody
           /\ task' = [task EXCEPT ![t] =
                  Start("renew", "resume", queued[t[1]], call[queued[t[1]]] = "approved")]
  <2> DEFINE w == Start("renew", "resume", queued[t[1]], call[queued[t[1]]] = "approved")
  <2>1. w.pc = "renew"
    BY DEF Start
  <2>2. task' = [task EXCEPT ![t] = w]
    BY <1>3
  <2> HIDE DEF w
  <2>3. /\ \A u \in Coroutine : ~Asks(task[u])
        /\ \A d \in Executor : d # t[1] => queued[d] = Nobody
        /\ run[R].status \notin {"none", "waiting_approval"}
    BY <1>1, <1>3 DEF TurnInv, OneAsks, NobodyAsks
  <2>4. task'[t] = w /\ \A u \in Coroutine \ {t} : task'[u] = task[u]
    BY <2>2 DEF Typed
  <2>5. \A d \in Executor : queued'[d] = Nobody
    BY <1>1, <2>3 DEF Typed, OthersTyped
  <2>6. OneAsks'
    BY <2>3, <2>4, <2>5 DEF OneAsks
  <2>7. run[R].status \in Going => asked <= run[R].requests
    BY <1>1, <1>3 DEF TurnInv
  <2>8. ASSUME NEW u \in Coroutine PROVE Counts(task[u])'
    <3>1. CASE u = t
      BY <1>1, <2>1, <2>4, <2>7, <3>1 DEF Counts, Fresh
    <3>2. CASE u # t
      BY <2>3, <2>4, <3>2 DEF Counts, Fresh, Asks, Asking
    <3> QED
      BY <3>1, <3>2
  <2> QED
    BY <1>1, <2>3, <2>5, <2>6, <2>8 DEF TurnInv
<1> QED
  BY <1>2, <1>3 DEF Done

LEMMA AskDecide ==
    ASSUME Typed, TurnInv, NEW c \in Costly, NEW approve \in BOOLEAN, NEW e \in Executor,
           Decide(c, approve, e)
    PROVE  TurnInv'
<1>1. c \in Call /\ RunOf[c] = R /\ asked' = asked /\ RunTask(e) \in Coroutine
  BY CoroutinesOf DEF Decide, past
<1>2. CASE UNCHANGED <<task, queued>> /\ (UNCHANGED stored \/ ExpireApproval(c))
  <2>1. QuietRun
    BY <1>1, <1>2, QuietOperations
  <2> QED
    BY <1>1, <1>2, <2>1, QuietUnmoved, QuietKeeps DEF Quiet
<1>3. CASE DecideApproval(c, approve, e)
  <2>1. run[R].status = "waiting_approval"
    BY <1>1, <1>3 DEF DecideApproval, Decidable
  <2>2. NobodyAsks /\ asked <= run[R].requests /\ asked <= MaxTurns
    BY <2>1 DEF TurnInv
  <2>3. run'[R].status = "executing_tool" /\ run'[R].requests = run[R].requests
    <3>1. run[R] \in RunRecord /\ R \in Run /\ run \in [Run -> RunRecord]
      BY Types DEF Typed
    <3>2. run' = [run EXCEPT ![R] = [run[R] EXCEPT !.status = "executing_tool", !.executor = e,
                                                  !.leased = TRUE]]
      BY <1>1, <1>3, <3>1 DEF DecideApproval
    <3> QED
      BY <3>1, <3>2 DEF RunRecord
  <2>4. asked' <= run'[R].requests /\ asked' <= MaxTurns
        /\ run'[R].status \notin {"none", "waiting_approval"}
    BY <1>1, <2>2, <2>3
  <2>5. CASE task' = [task EXCEPT ![RunTask(e)] = Start("renew", "resume", c, approve)]
             /\ UNCHANGED queued
    <3> DEFINE w == Start("renew", "resume", c, approve)
    <3>1. w.pc = "renew"
      BY DEF Start
    <3> HIDE DEF w
    <3>2. task'[RunTask(e)] = w /\ \A u \in Coroutine \ {RunTask(e)} : task'[u] = task[u]
      BY <1>1, <2>5 DEF Typed, w
    <3>3. \A u \in Coroutine \ {RunTask(e)} : ~Asks(task'[u])
      BY <2>2, <3>2 DEF NobodyAsks
    <3>4. \A d \in Executor : queued'[d] = Nobody
      BY <2>2, <2>5 DEF NobodyAsks
    <3> QED
      BY <1>1, <2>2, <2>4, <3>1, <3>2, <3>3, <3>4, AskerAppears
  <2>6. CASE queued' = [queued EXCEPT ![e] = c] /\ UNCHANGED task
    <3>1. \A d \in Executor \ {e} : queued'[d] = Nobody
      BY <2>2, <2>6 DEF NobodyAsks, Typed, OthersTyped
    <3>2. \A u \in Coroutine : ~Asks(task'[u])
      BY <2>2, <2>6 DEF NobodyAsks
    <3>3. OneAsks'
      BY <3>1, <3>2 DEF OneAsks
    <3>4. ASSUME NEW u \in Coroutine PROVE Counts(task[u])'
      BY <3>2 DEF Counts, Fresh, Asks, Asking
    <3> QED
      BY <2>4, <3>3, <3>4 DEF TurnInv
  <2>7. Decidable(c) /\ approval[c].status = "pending"
    BY <1>3 DEF DecideApproval, Decidable
  <2> QED
    BY <2>5, <2>6, <2>7 DEF Decide
<1> QED
  BY <1>2, <1>3 DEF Decide

-----------------------------------------------------------------------------
LEMMA TurnTaskStep == ASSUME Typed, TurnInv, NEW t \in Coroutine, TaskStep(t) PROVE TurnInv'
<1>1. CASE TurnStep(t)
  BY <1>1, AskRenewTurn, AskBegin, AskStart, AskTurn, AskStream, QuietTurns, QuietKeeps,
     AskPropose, AskTools DEF TurnStep
<1>2. CASE ResumeStep(t)
  BY <1>2, AskRenewResume, AskTools, QuietAbandon, QuietKeeps, AskLoad DEF ResumeStep
<1>3. CASE HandlerStep(t)
  BY <1>3, QuietHandlers, QuietKeeps, AskDone DEF HandlerStep
<1>4. CASE RecoveryStep(t)
  BY <1>4, QuietRecovery, QuietKeeps
<1> QED
  BY <1>1, <1>2, <1>3, <1>4 DEF TaskStep

LEMMA TurnInvStep == Typed /\ TurnInv /\ [Next]_vars => TurnInv'
<1> SUFFICES ASSUME Typed, TurnInv, [Next]_vars PROVE TurnInv'
  OBVIOUS
<1>1. ASSUME NEW t \in Coroutine, Step(t) PROVE TurnInv'
  <2>1. CASE MarkStep(t)
    BY <2>1, QuietMarking, QuietKeeps
  <2>2. CASE t[2] = "run" /\ TaskStep(t)
    BY <2>2, TurnTaskStep
  <2>3. CASE t[2] # "run" /\ RequestStep(t)
    BY <2>3, QuietRequests, QuietKeeps
  <2> QED
    BY <1>1, <2>1, <2>2, <2>3 DEF Step
<1>2. ASSUME NEW e \in Executor, User(e) \/ Life(e) PROVE TurnInv'
  BY <1>2, AskCreate, AskDecide, QuietLife, QuietKeeps DEF User
<1>3. CASE Timers \/ Lapse
  BY <1>3, QuietTime, QuietKeeps
<1>4. CASE UNCHANGED vars
  <2>1. UNCHANGED <<task, queued, run>> /\ asked' = asked
    BY <1>4 DEF vars, local, past
  <2> QED
    BY <2>1, QuietKeeps DEF Quiet, QuietTasks, QuietRun
<1> QED
  BY <1>1, <1>2, <1>3, <1>4 DEF Next

LEMMA TurnInit == Init => TurnInv
<1> SUFFICES ASSUME Init PROVE TurnInv
  OBVIOUS
<1>1. asked = 0 /\ run[R].status = "none"
  BY DEF Init, StoredInit
<1>2. NobodyAsks
  BY NoTaskType DEF Init, NobodyAsks, Asks, Asking
<1>3. ASSUME NEW t \in Coroutine PROVE Counts(task[t])
  BY <1>2 DEF NobodyAsks, Counts, Fresh, Asks, Asking
<1> QED
  BY <1>1, <1>2, <1>3 DEF TurnInv, OneAsks, NobodyAsks, Going

\* However often a run is interrupted, recovered or decided about, the coroutines of all
\* its executors together ask the provider at most MaxTurns times: one of them at a time
\* is on its way to it, and the count of the one before is in the row while the run waits
\* (_run_loop counts from the usage of the run; propose_tool_call writes it).
THEOREM RuntimeTurnBudget == Spec => []TurnBudget
<1>1. TurnInv => TurnBudget
  BY DEF TurnInv, TurnBudget
<1> QED
  BY <1>1, TypedInit, TypedStep, TurnInit, TurnInvStep, PTL DEF Spec
=============================================================================
