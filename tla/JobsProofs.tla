----------------------------- MODULE JobsProofs -----------------------------
(***************************************************************************)
(* Jobs, proved for any jobs, slots, conversations, attempts, disturbances *)
(* and budget.                                                             *)
(***************************************************************************)
EXTENDS Jobs, TLAPS

USE JobsAssumption

(***************************************************************************)
(* Types.  An attempt number is at least one wherever it is dispatched.    *)
(***************************************************************************)
Event   == [kind : Terminal \cup {"progress"}, of : 1..MaxAttempts]
Message == Job \X (1..MaxAttempts)
Numbered == {"requeue", "inputs", "reserve", "assign", "attempt", "dispatch"}

Counted ==
    /\ spent \in 0..Budget /\ happened \subseteq Disturbance
    /\ met \in [Thread -> SUBSET {"store", "twice"}]

TypeInv ==
    /\ row \in [Job -> Row]
    /\ attempts \in [Job -> Seq(Terminal \cup {"assigned"})]
    /\ \A j \in Job : Len(attempts[j]) <= MaxAttempts
    /\ stream \in [Job -> Seq(Event)]
    /\ queue \in [Slot -> Seq(Message)]
    /\ slotState \in [Slot -> {"ready", "busy"}]
    /\ token \subseteq Slot /\ cancelFile \subseteq Job
    /\ up \in BOOLEAN /\ busy \subseteq Slot /\ cancelRequested \subseteq Job
    /\ thread \in [Thread -> ThreadType]
    /\ \A t \in Thread : thread[t].pc \in Numbered => thread[t].mine.attempt > 0
    /\ cancelling \in [Job -> Row]
    /\ working \in [Slot -> Message \cup {<<>>}]
    /\ Counted

(***************************************************************************)
(* A slot has one holder.                                                  *)
(***************************************************************************)
Holds(t) == thread[t].pc \in Holding

\* What a request has reserved, or a restart found in a row, is marked in both places
\* and held by nobody else.
Marked ==
    /\ \A t \in Thread : Holds(t) =>
           /\ thread[t].slot \in busy /\ slotState[thread[t].slot] = "busy"
           /\ thread[t].mine.slot = thread[t].slot
    /\ \A t, u \in Thread :
           Holds(t) /\ Holds(u) /\ thread[t].slot = thread[u].slot => t = u

\* A row whose job has not ended.
Names(j, s) == Incomplete(j) /\ row[j].slot = s /\ s # Nobody

\* A slot that such a row names is marked and is no other job's; it is given back only
\* after the row has ended.
RowsNameTheirs ==
    /\ \A j \in Job, s \in Slot : Names(j, s) =>
           /\ slotState[s] = "busy"
           /\ \A t \in Thread : Holds(t) /\ thread[t].slot = s => JobOf(t) = j
           /\ \A i \in Job : Names(i, s) => i = j
    /\ \A t \in Thread : thread[t].pc \in {"finish", "release"} =>
           ~ Names(JobOf(t), thread[t].slot)

Undisturbed == ~ Did({"dispatch", "store", "cancel"})

Slots ==
    /\ ("crash" \notin happened \/ Undisturbed) => Marked
    /\ Undisturbed => RowsNameTheirs

\* What the place of a thread says of its memory and of what has happened.
Says(t) ==
    /\ thread[t].pc = "insert" => t[2] = 1
    /\ thread[t].pc = "requeue" => thread[t].mine.stage = "queued"
                                   /\ thread[t].mine.slot = Nobody
    /\ thread[t].pc = "assign" => thread[t].mine.stage = "assigned"
    /\ thread[t].pc = "undo" => "dispatch" \in happened
    /\ thread[t].pc \in {"end", "finish"} => thread[t].mine.stage \in Terminal

\* Before the Gateway serves there are the restored executions only; a cancel request has
\* read a row that had not ended; and only an insertion finds no row.
Record ==
    /\ ~ up => "crash" \in happened /\ \A j \in Job : thread[<<j, 2>>].pc = "none"
    /\ \A j \in Job : cancelling[j] # NoRow =>
           /\ "cancel" \in happened /\ row[j].stage # "none"
           /\ cancelling[j].stage \notin Terminal \cup {"none"}
    /\ \A t \in Thread : Says(t)
    /\ \A t \in Thread : thread[t].pc \notin {"none", "insert"} => row[JobOf(t)].stage # "none"

(***************************************************************************)
(* A job has one writer, but for twins.                                    *)
(***************************************************************************)
Writing == {"insert", "requeue", "inputs", "reserve", "assign", "attempt", "dispatch", "undo",
            "dispatchFailed", "execute", "register", "end"}

\* A thread that may yet write its row: also the end of a success, when a call fails.
Succeeded(t) == thread[t].pc = "finish" /\ thread[t].mine.stage = "succeeded"
Pending(t)   == thread[t].pc \in Writing \/ Succeeded(t)
Twin(t)      == "twice" \in met[t]

\* The row that such a thread is about to write over.
Failing(t) == /\ thread[t].pc = "end" /\ thread[t].mine.stage = "failed"
              /\ "store" \in met[t] /\ row[JobOf(t)].stage = "succeeded"
Finds(t) ==
    /\ thread[t].pc = "insert"  => row[JobOf(t)].stage = "none"
    /\ thread[t].pc = "requeue" =>
           row[JobOf(t)].stage \in {"failed", "cancelled", "cancel_requested"}
    /\ Succeeded(t) => row[JobOf(t)].stage \in {"succeeded", "cancel_requested"}
    /\ thread[t].pc \notin {"insert", "requeue", "finish"} => Incomplete(JobOf(t)) \/ Failing(t)

Writers ==
    /\ \A t \in Thread : Pending(t) => Twin(t) \/ Finds(t)
    /\ \A t, u \in Thread : Pending(t) /\ Pending(u) /\ JobOf(t) = JobOf(u) /\ t # u => Twin(t)

JobsInv == TypeInv /\ Record /\ Slots /\ Writers

-----------------------------------------------------------------------------
(***************************************************************************)
(* Every step keeps the types.                                             *)
(***************************************************************************)
LEMMA ThreadParts ==
    ASSUME TypeInv, NEW t \in Thread
    PROVE  /\ thread[t] \in ThreadType /\ JobOf(t) \in Job
           /\ thread[t].mine \in Row /\ thread[t].slot \in Slot \cup {Nobody}
           /\ thread[t].pos \in Nat /\ row[JobOf(t)] \in Row
BY DEF TypeInv, ThreadType, Thread, JobOf

LEMMA InitType == Init => TypeInv
<1> SUFFICES ASSUME Init PROVE TypeInv
  OBVIOUS
<1>1. NoRow \in Row
  BY DEF NoRow, Row, Stage
<1>2. NoThread \in ThreadType
  BY <1>1 DEF NoThread, ThreadType
<1>3. NoThread.pc = "none"
  BY DEF NoThread
<1> QED
  BY <1>1, <1>2, <1>3 DEF Init, TypeInv, Counted, Numbered

\* What a step of one thread may do to the state that is not its own.
LEMMA ThreadTyped ==
    ASSUME TypeInv, NEW t \in Thread, NEW x \in ThreadType,
           thread' = [thread EXCEPT ![t] = x],
           x.pc \in Numbered => x.mine.attempt > 0
    PROVE  /\ thread' \in [Thread -> ThreadType]
           /\ \A u \in Thread : thread'[u].pc \in Numbered => thread'[u].mine.attempt > 0
BY DEF TypeInv

LEMMA HappensTyped ==
    ASSUME TypeInv, NEW k, Happens(k)
    PROVE  spent' \in 0..Budget /\ happened' \subseteq Disturbance
<1>1. spent \in 0..Budget /\ Budget \in Nat /\ happened \subseteq Disturbance
  BY JobsAssumption DEF TypeInv, Counted
<1>2. CASE k = "asset"
  BY <1>1, <1>2 DEF Happens
<1>3. CASE k # "asset"
  <2>1. spent < Budget /\ spent' = spent + 1
    BY <1>3 DEF Happens
  <2>2. happened' \subseteq Disturbance
    BY <1>1 DEF Happens
  <2> QED
    BY <1>1, <2>1, <2>2
<1> QED
  BY <1>2, <1>3

LEMMA SpendTyped ==
    ASSUME TypeInv, NEW k, Spend(k)
    PROVE  Counted'
BY HappensTyped DEF TypeInv, Counted, Spend

LEMMA CalmTyped ==
    ASSUME TypeInv, Calm
    PROVE  Counted'
BY DEF TypeInv, Counted, Calm

LEMMA RequestsType ==
    ASSUME TypeInv, NEW t \in Thread, Requests(t)
    PROVE  TypeInv'
<1>1. NoRow \in Row /\ NoThread \in ThreadType
  BY DEF NoRow, Row, Stage, NoThread, ThreadType
<1>2. CASE Admit(t)
  <2> DEFINE x == [thread[t] EXCEPT !.pc = "insert"]
  <2>1. thread' = [thread EXCEPT ![t] = x] /\ x \in ThreadType /\ x.pc = "insert"
    <3>1. thread' = [thread EXCEPT ![t] = [thread[t] EXCEPT !.pc = "insert"]]
      BY <1>2 DEF Admit, Goto, TypeInv
    <3> QED
      BY <3>1, ThreadParts DEF ThreadType
  <2> QED
    BY <1>2, <2>1, ThreadTyped DEF Admit, TypeInv, Counted, OnlyThread, Numbered
<1>3. CASE RetryRead(t)
  <2> DEFINE j == JobOf(t)
             m == [stage |-> "queued", attempt |-> Len(attempts[j]) + 1, slot |-> Nobody]
             x == [NoThread EXCEPT !.pc = "requeue", !.mine = m]
  <2>1. m \in Row /\ m.attempt > 0
    BY <1>3, ThreadParts DEF RetryRead, Read, TypeInv, Row, Stage, Active, JobOf
  <2>2. x \in ThreadType /\ x.mine = m
    BY <1>1, <2>1 DEF ThreadType, NoThread
  <2>3. thread' = [thread EXCEPT ![t] = x]
    BY <1>3 DEF RetryRead, Read
  <2> HIDE DEF m, x
  <2>4. Counted'
    <3>1. spent' \in 0..Budget /\ happened' \subseteq Disturbance
      BY <1>3 DEF RetryRead, Read, Happens, TypeInv, Counted
    <3>2. met' \in [Thread -> SUBSET {"store", "twice"}]
      <4>1. met \in [Thread -> SUBSET {"store", "twice"}]
        BY DEF TypeInv, Counted
      <4>2. \E a \in SUBSET {"store", "twice"}, twin \in BOOLEAN :
                met' = [met EXCEPT ![t] = a,
                           ![<<j, 3 - t[2]>>] = IF twin THEN @ \cup {"twice"} ELSE @]
        BY <1>3 DEF RetryRead, Read
      <4> QED
        BY <4>1, <4>2
    <3> QED
      BY <3>1, <3>2 DEF Counted
  <2> QED
    BY <1>3, <2>1, <2>2, <2>3, <2>4, ThreadTyped DEF RetryRead, Read, TypeInv, durable
<1> QED
  BY <1>2, <1>3 DEF Requests

LEMMA SaveTyped ==
    ASSUME TypeInv, NEW t \in Thread, NEW r \in Row, NEW pc, Save(t, r, pc),
           pc \in Holding \cup {"none", "insert", "requeue", "inputs", "reserve",
                                "dispatchFailed", "finishFailed"},
           pc \in Numbered => r.attempt > 0
    PROVE  /\ row' \in [Job -> Row] /\ thread' \in [Thread -> ThreadType]
           /\ \A u \in Thread : thread'[u].pc \in Numbered => thread'[u].mine.attempt > 0
<1> DEFINE x == [thread[t] EXCEPT !.mine = r, !.pc = pc]
<1>1. x \in ThreadType /\ x.pc = pc /\ x.mine = r
  BY ThreadParts DEF ThreadType
<1>2. thread' = [thread EXCEPT ![t] = x]
  BY DEF Save
<1> HIDE DEF x
<1>3. row' \in [Job -> Row]
  BY ThreadParts DEF Save, TypeInv
<1> QED
  BY <1>1, <1>2, <1>3, ThreadTyped

LEMMA GotoTyped ==
    ASSUME TypeInv, NEW t \in Thread, NEW pc, Goto(t, pc),
           pc \in Holding \cup {"none", "insert", "requeue", "inputs", "reserve",
                                "dispatchFailed", "finishFailed"},
           pc \in Numbered => thread[t].pc \in Numbered
    PROVE  /\ thread' \in [Thread -> ThreadType]
           /\ \A u \in Thread : thread'[u].pc \in Numbered => thread'[u].mine.attempt > 0
<1> DEFINE x == [thread[t] EXCEPT !.pc = pc]
<1>1. x \in ThreadType /\ x.pc = pc /\ x.mine = thread[t].mine
  BY ThreadParts DEF ThreadType
<1>2. thread' = [thread EXCEPT ![t] = x]
  BY ThreadParts DEF Goto, TypeInv
<1>3. x.pc \in Numbered => x.mine.attempt > 0
  BY <1>1 DEF TypeInv
<1> HIDE DEF x
<1> QED
  BY <1>1, <1>2, <1>3, ThreadTyped

LEMMA NoThreadTyped ==
    ASSUME TypeInv, NEW t \in Thread, thread' = [thread EXCEPT ![t] = NoThread]
    PROVE  /\ thread' \in [Thread -> ThreadType]
           /\ \A u \in Thread : thread'[u].pc \in Numbered => thread'[u].mine.attempt > 0
<1>1. NoThread \in ThreadType /\ NoThread.pc = "none"
  BY DEF NoRow, Row, Stage, NoThread, ThreadType
<1> QED
  BY <1>1, ThreadTyped DEF Numbered

LEMMA FinishTyped ==
    ASSUME TypeInv, NEW t \in Thread, NEW status \in Terminal, Finish(t, status)
    PROVE  /\ attempts' \in [Job -> Seq(Terminal \cup {"assigned"})]
           /\ \A j \in Job : Len(attempts'[j]) <= MaxAttempts
<1> DEFINE j == JobOf(t)  n == thread[t].mine.attempt
           s == IF n \in DOMAIN attempts[j] THEN [attempts[j] EXCEPT ![n] = status]
                                            ELSE attempts[j]
<1>1. j \in Job /\ attempts[j] \in Seq(Terminal \cup {"assigned"})
  BY ThreadParts DEF TypeInv
<1>2. attempts' = [attempts EXCEPT ![j] = s]
  BY <1>1 DEF Finish, TypeInv
<1>3. s \in Seq(Terminal \cup {"assigned"}) /\ Len(s) = Len(attempts[j])
  BY <1>1
<1> HIDE DEF s, j
<1> QED
  BY <1>1, <1>2, <1>3 DEF TypeInv

LEMMA RequestType ==
    ASSUME TypeInv, NEW t \in Thread, Request(t)
    PROVE  TypeInv'
<1>1. CASE Insert(t)
  <2> DEFINE r == [stage |-> "queued", attempt |-> 1, slot |-> Nobody]
  <2>1. r \in Row /\ r.attempt > 0
    BY DEF Row, Stage, Active
  <2>2. Save(t, r, "reserve")
    BY <1>1 DEF Insert
  <2> HIDE DEF r
  <2> QED
    BY <1>1, <2>1, <2>2, SaveTyped DEF Insert, TypeInv, Counted, OnlyThread, Calm
<1>2. CASE Requeue(t)
  <2>1. thread[t].mine.attempt > 0
    BY <1>2 DEF Requeue, At, TypeInv, Numbered
  <2> QED
    BY <1>2, <2>1, ThreadParts, SaveTyped DEF Requeue, TypeInv, Counted, OnlyThread, Calm
<1>10. CASE Inputs(t)
  <2>1. Counted'
    BY <1>10, SpendTyped, CalmTyped DEF Inputs
  <2>2. /\ thread' \in [Thread -> ThreadType]
        /\ \A u \in Thread : thread'[u].pc \in Numbered => thread'[u].mine.attempt > 0
    BY <1>10, GotoTyped, NoThreadTyped DEF Inputs, At, Numbered
  <2> QED
    BY <1>10, <2>1, <2>2 DEF Inputs, TypeInv, OnlyThread
<1>3. CASE Reserve(t)
  <2>0. Counted'
    BY <1>3, SpendTyped, CalmTyped DEF Reserve
  <2>1. CASE Goto(t, "dispatchFailed")
    <3>1. busy' \subseteq Slot /\ slotState' \in [Slot -> {"ready", "busy"}]
      BY <1>3 DEF Reserve, TypeInv, Ready
    <3> QED
      BY <1>3, <2>0, <2>1, <3>1, GotoTyped DEF Reserve, TypeInv, Numbered
  <2>2. ASSUME NEW s \in Ready, s \in token,
               busy' = busy \cup {s} /\ slotState' = [slotState EXCEPT ![s] = "busy"],
               thread' = [thread EXCEPT ![t].slot = s, ![t].pc = "assign",
                             ![t].mine.stage = "assigned", ![t].mine.slot = s]
        PROVE  TypeInv'
    <3> DEFINE m == [thread[t].mine EXCEPT !.stage = "assigned", !.slot = s]
               x == [thread[t] EXCEPT !.slot = s, !.pc = "assign", !.mine = m]
    <3>1. m \in Row /\ m.attempt = thread[t].mine.attempt
      BY ThreadParts, <2>2 DEF Row, Stage, Active, Ready
    <3>2. x \in ThreadType /\ x.mine = m
      BY ThreadParts, <2>2, <3>1 DEF ThreadType, Holding, Ready
    <3>3. thread' = [thread EXCEPT ![t] = x]
      <4>1. /\ DOMAIN thread = Thread
            /\ [[thread[t].mine EXCEPT !.stage = "assigned"] EXCEPT !.slot = s] = m
        BY ThreadParts DEF TypeInv, Row
      <4> QED
        <5> DEFINE y == [[[[thread[t] EXCEPT !.slot = s] EXCEPT !.pc = "assign"]
                          EXCEPT !.mine.stage = "assigned"] EXCEPT !.mine.slot = s]
        <5>1. thread' = [thread EXCEPT ![t] = y]
          BY <2>2, <4>1
        <5>2. y = x
          BY <4>1, ThreadParts DEF ThreadType
        <5> QED
          BY <5>1, <5>2
    <3>4. m.attempt > 0
      BY <1>3, <3>1 DEF Reserve, At, TypeInv, Numbered
    <3> HIDE DEF m, x
    <3> QED
      BY <1>3, <2>0, <2>2, <3>2, <3>3, <3>4, ThreadTyped DEF Reserve, TypeInv, Ready
  <2> QED
    BY <1>3, <2>1, <2>2 DEF Reserve
<1>4. CASE Assign(t)
  <2>1. thread[t].mine.attempt > 0
    BY <1>4 DEF Assign, At, TypeInv, Numbered
  <2> QED
    BY <1>4, <2>1, ThreadParts, SaveTyped
       DEF Assign, TypeInv, Counted, OnlyThread, Calm, Holding
<1>5. CASE AddAttempt(t)
  <2> DEFINE j == JobOf(t)
  <2>1. /\ thread' \in [Thread -> ThreadType]
        /\ \A u \in Thread : thread'[u].pc \in Numbered => thread'[u].mine.attempt > 0
    BY <1>5, GotoTyped DEF AddAttempt, At, Numbered, Holding
  <2>2. CASE attempts' = [attempts EXCEPT ![j] = Append(@, "assigned")]
             /\ thread[t].mine.attempt = Len(attempts[j]) + 1
    <3>1. j \in Job /\ attempts[j] \in Seq(Terminal \cup {"assigned"})
      BY ThreadParts DEF TypeInv
    <3>2. Append(attempts[j], "assigned") \in Seq(Terminal \cup {"assigned"})
          /\ Len(Append(attempts[j], "assigned")) = Len(attempts[j]) + 1
      BY <3>1
    <3>3. Len(attempts[j]) + 1 <= MaxAttempts
      BY <2>2, <3>1, ThreadParts DEF Row
    <3>4. attempts' \in [Job -> Seq(Terminal \cup {"assigned"})]
          /\ \A i \in Job : Len(attempts'[i]) <= MaxAttempts
      BY <2>2, <3>1, <3>2, <3>3 DEF TypeInv
    <3> QED
      BY <1>5, <2>1, <3>4 DEF AddAttempt, TypeInv, Counted, OnlyThread, Calm
  <2>3. CASE UNCHANGED attempts
    BY <1>5, <2>1, <2>3 DEF AddAttempt, TypeInv, Counted, OnlyThread, Calm
  <2> QED
    BY <1>5, <2>2, <2>3 DEF AddAttempt
<1>6. CASE Dispatch(t)
  <2> DEFINE s == thread[t].slot  m == <<JobOf(t), thread[t].mine.attempt>>
  <2>1. /\ thread' \in [Thread -> ThreadType]
        /\ \A u \in Thread : thread'[u].pc \in Numbered => thread'[u].mine.attempt > 0
    BY <1>6, GotoTyped DEF Dispatch, At, Numbered, Holding
  <2>2. queue' \in [Slot -> Seq(Message)]
    <3>1. m \in Message
      <4>1. thread[t].mine.attempt > 0
        BY <1>6 DEF Dispatch, At, TypeInv, Numbered
      <4>2. thread[t].mine.attempt \in 1..MaxAttempts /\ JobOf(t) \in Job
        BY <4>1, ThreadParts DEF Row
      <4> QED
        BY <4>2 DEF Message
    <3>2. \A z \in Slot : Append(queue[z], m) \in Seq(Message)
      BY <3>1 DEF TypeInv
    <3>3. queue' = [queue EXCEPT ![s] = Append(queue[s], m)] \/ queue' = queue
      BY <1>6 DEF Dispatch
    <3> HIDE DEF m, s
    <3>4. DOMAIN queue = Slot /\ DOMAIN queue' = Slot
      BY <3>3 DEF TypeInv
    <3>5. \A z \in Slot : queue'[z] \in {queue[z], Append(queue[z], m)}
      BY <3>3, <3>4
    <3>6. queue' = [z \in Slot |-> queue'[z]]
      BY <3>3, <3>4 DEF TypeInv
    <3>7. \A z \in Slot : queue'[z] \in Seq(Message)
      <4> TAKE z \in Slot
      <4>1. queue[z] \in Seq(Message)
        BY DEF TypeInv
      <4> QED
        BY <3>2, <3>5, <4>1
    <3> QED
      BY <3>6, <3>7
  <2>3. Counted'
    BY <1>6, SpendTyped, CalmTyped DEF Dispatch
  <2> QED
    BY <1>6, <2>1, <2>2, <2>3 DEF Dispatch, TypeInv
<1>7. CASE Undo(t)
  BY <1>7, GotoTyped DEF Undo, GiveBack, TypeInv, Counted, Calm, Numbered
<1>8. CASE MarkDispatchFailed(t)
  <2> DEFINE r == [thread[t].mine EXCEPT !.stage = "failed"]
  <2>1. r \in Row
    BY ThreadParts DEF Row, Stage, Terminal
  <2>2. Save(t, r, "finishFailed")
    BY <1>8 DEF MarkDispatchFailed
  <2> HIDE DEF r
  <2> QED
    BY <1>8, <2>1, <2>2, SaveTyped
       DEF MarkDispatchFailed, TypeInv, Counted, OnlyThread, Calm, Numbered
<1>9. CASE FinishFailed(t)
  BY <1>9, NoThreadTyped, FinishTyped
     DEF FinishFailed, TypeInv, Counted, OnlyThread, Calm, Terminal
<1> QED
  BY <1>1, <1>2, <1>3, <1>4, <1>5, <1>6, <1>7, <1>8, <1>9, <1>10 DEF Request

LEMMA ExecuteType ==
    ASSUME TypeInv, Record, NEW t \in Thread, Execute(t)
    PROVE  TypeInv'
<1> DEFINE j == JobOf(t)
<1>1. CASE ReadEvent(t)
  <2> DEFINE e == stream[j][thread[t].pos + 1]
             p == thread[t].pos + 1
             progress == [thread[t].mine EXCEPT !.stage = "running"]
             kind == e.kind
             ended == [thread[t].mine EXCEPT !.stage = kind]
  <2>1. e \in Event
    BY <1>1, ThreadParts DEF ReadEvent, TypeInv
  <2>2. progress \in Row
    BY ThreadParts DEF Row, Stage, Active
  <2>p. p \in Nat
    BY ThreadParts
  <2>3. CASE e.kind = "progress"
    <3> DEFINE x == [thread[t] EXCEPT !.pos = p, !.mine = progress]
    <3>0. row' = [row EXCEPT ![j] = progress]
          /\ thread' = [thread EXCEPT ![t] = [[thread[t] EXCEPT !.pos = @ + 1]
                                                EXCEPT !.mine.stage = "running"]]
      BY <1>1, <2>3 DEF ReadEvent
    <3>1. x \in ThreadType /\ x.pc = thread[t].pc
      <4> HIDE DEF progress, p
      <4> QED
        BY <2>2, <2>p, ThreadParts DEF ThreadType
    <3>2. thread' = [thread EXCEPT ![t] = x]
      BY <3>0, ThreadParts DEF ThreadType
    <3>3. row' \in [Job -> Row]
      <4> HIDE DEF progress
      <4> QED
        BY <3>0, <2>2, ThreadParts DEF TypeInv
    <3>4. x.pc \notin Numbered
      BY <1>1, <3>1 DEF ReadEvent, At, Numbered
    <3> HIDE DEF x
    <3> QED
      BY <1>1, <3>1, <3>2, <3>3, <3>4, ThreadTyped
         DEF ReadEvent, TypeInv, Counted, OnlyThread, Calm
  <2>4. CASE e.kind = "succeeded"
    <3> DEFINE x == [thread[t] EXCEPT !.pos = p, !.by = e.of, !.pc = "register"]
    <3>1. x \in ThreadType /\ x.pc = "register"
      <4>1. e.of \in 0..MaxAttempts
        BY <2>1 DEF Event
      <4> HIDE DEF e, p
      <4> QED
        BY <2>p, <4>1, ThreadParts DEF ThreadType, Holding
    <3>2. thread' = [thread EXCEPT ![t] = x]
      BY <1>1, <2>4, ThreadParts DEF ReadEvent, ThreadType
    <3>3. row' = row
      BY <1>1, <2>4 DEF ReadEvent
    <3> HIDE DEF x, e
    <3> QED
      BY <1>1, <3>1, <3>2, <3>3, ThreadTyped
         DEF ReadEvent, TypeInv, Counted, OnlyThread, Calm, Numbered
  <2>5. CASE e.kind \in {"failed", "cancelled"}
    <3> DEFINE x == [thread[t] EXCEPT !.pos = p, !.by = e.of, !.pc = "end",
                                      !.mine = ended]
    <3>1. ended \in Row
      BY <2>5, ThreadParts DEF Row, Stage, Terminal
    <3>2. x \in ThreadType /\ x.pc = "end"
      <4>1. e.of \in 0..MaxAttempts
        BY <2>1 DEF Event
      <4> HIDE DEF e, ended, p
      <4> QED
        BY <2>p, <3>1, <4>1, ThreadParts DEF ThreadType, Holding
    <3>3. thread' = [thread EXCEPT ![t] = x]
      BY <1>1, <2>5, ThreadParts DEF ReadEvent, ThreadType
    <3>4. row' = row
      BY <1>1, <2>5 DEF ReadEvent
    <3> HIDE DEF x, e, ended
    <3> QED
      BY <1>1, <3>2, <3>3, <3>4, ThreadTyped
         DEF ReadEvent, TypeInv, Counted, OnlyThread, Calm, Numbered
  <2> QED
    BY <2>1, <2>3, <2>4, <2>5 DEF Event, Terminal
<1>2. ASSUME NEW stage \in Terminal,
             thread' = [thread EXCEPT ![t].pc = "end", ![t].mine.stage = stage]
      PROVE  /\ thread' \in [Thread -> ThreadType]
             /\ \A u \in Thread : thread'[u].pc \in Numbered => thread'[u].mine.attempt > 0
  <2> DEFINE m == [thread[t].mine EXCEPT !.stage = stage]
             x == [thread[t] EXCEPT !.pc = "end", !.mine = m]
  <2>1. m \in Row
    BY ThreadParts DEF Row, Stage
  <2>2. x \in ThreadType /\ x.pc = "end"
    BY <2>1, ThreadParts DEF ThreadType, Holding
  <2>3. thread' = [thread EXCEPT ![t] = x]
    BY <1>2, ThreadParts DEF TypeInv, ThreadType
  <2> HIDE DEF x, m
  <2> QED
    BY <2>2, <2>3, ThreadTyped DEF Numbered
<1>3. CASE Timeout(t)
  <2>1. Counted'
    BY <1>3, SpendTyped, CalmTyped DEF Timeout
  <2> QED
    BY <1>2, <1>3, <2>1 DEF Timeout, TypeInv, OnlyThread, Terminal
<1>4. CASE Register(t)
  BY <1>2, <1>4 DEF Register, TypeInv, Counted, OnlyThread, Calm, Terminal
<1>5. CASE End(t)
  BY <1>5, ThreadParts, SaveTyped DEF End, TypeInv, Counted, OnlyThread, Calm, Holding, Numbered
<1>6. CASE FinishAttempt(t)
  <2>1. thread[t].mine.stage \in Terminal
    BY <1>6 DEF FinishAttempt, At, Record, Says
  <2> QED
    BY <1>6, <2>1, GotoTyped, FinishTyped
       DEF FinishAttempt, TypeInv, Counted, OnlyThread, Calm, Holding, Numbered
<1>7. CASE Release(t)
  BY <1>7, NoThreadTyped DEF Release, GiveBack, TypeInv, Counted, Calm
<1> QED
  BY <1>1, <1>3, <1>4, <1>5, <1>6, <1>7 DEF Execute

\* A failed call leaves the row of the thread's memory as it was, or failed.
LEMMA AfterRaiseIs ==
    ASSUME TypeInv, NEW t \in Thread, StoreFails(t)
    PROVE  /\ AfterRaise(t) \in ThreadType
           /\ thread' = [thread EXCEPT ![t] = AfterRaise(t)]
           /\ \/ AfterRaise(t) = NoThread
              \/ /\ AfterRaise(t).pc = "dispatchFailed"
                 /\ AfterRaise(t).slot = thread[t].slot
                 /\ thread[t].pc \in {"assign", "attempt", "dispatch"}
              \/ /\ AfterRaise(t).pc = "end" /\ Holds(t)
                 /\ \/ thread[t].pc = "execute"
                    \/ thread[t].pc \in {"end", "finish"} /\ thread[t].mine.stage = "succeeded"
                 /\ AfterRaise(t).mine.stage = "failed"
                 /\ AfterRaise(t).mine.slot = thread[t].mine.slot
                 /\ AfterRaise(t).slot = thread[t].slot
              \/ /\ AfterRaise(t).pc = "release" /\ Holds(t)
                 /\ AfterRaise(t).mine = thread[t].mine
                 /\ AfterRaise(t).slot = thread[t].slot
<1> DEFINE m == [thread[t].mine EXCEPT !.stage = "failed"]
           failed == [thread[t] EXCEPT !.pc = "end", !.mine = m]
           toFailed == [thread[t] EXCEPT !.pc = "dispatchFailed"]
           release == [thread[t] EXCEPT !.pc = "release"]
<1>1. NoThread \in ThreadType
  BY DEF NoRow, Row, Stage, NoThread, ThreadType
<1>2. m \in Row /\ m.stage = "failed" /\ m.slot = thread[t].mine.slot
  BY ThreadParts DEF Row, Stage, Terminal
<1>3. failed \in ThreadType /\ failed.pc = "end" /\ failed.mine = m
      /\ failed.slot = thread[t].slot
  BY <1>2, ThreadParts DEF ThreadType, Holding
<1>4. toFailed \in ThreadType /\ toFailed.pc = "dispatchFailed"
      /\ toFailed.slot = thread[t].slot
  BY ThreadParts DEF ThreadType
<1>5. release \in ThreadType /\ release.pc = "release" /\ release.mine = thread[t].mine
      /\ release.slot = thread[t].slot
  BY ThreadParts DEF ThreadType, Holding
<1>6. [thread[t] EXCEPT !.pc = "end", !.mine.stage = "failed"] = failed
  BY ThreadParts DEF ThreadType
<1>7. \/ AfterRaise(t) = NoThread
      \/ AfterRaise(t) = toFailed /\ thread[t].pc \in {"assign", "attempt", "dispatch"}
      \/ /\ AfterRaise(t) = failed
         /\ \/ thread[t].pc = "execute"
            \/ thread[t].pc \in {"end", "finish"} /\ thread[t].mine.stage = "succeeded"
      \/ AfterRaise(t) = release /\ thread[t].pc \in {"end", "finish"}
  BY <1>6 DEF StoreFails, AfterRaise, At
<1>8. thread' = [thread EXCEPT ![t] = AfterRaise(t)] /\ thread'[t] = AfterRaise(t)
  BY DEF StoreFails, TypeInv
<1> HIDE DEF m, failed, toFailed, release
<1> QED
  BY <1>1, <1>2, <1>3, <1>4, <1>5, <1>7, <1>8 DEF Holds, Holding

LEMMA StoreFailsType ==
    ASSUME TypeInv, NEW t \in Thread, StoreFails(t)
    PROVE  TypeInv'
<1>1. Counted'
  BY DEF StoreFails, Happens, TypeInv, Counted
<1>2. AfterRaise(t).pc \notin Numbered /\ AfterRaise(t) \in ThreadType
      /\ thread' = [thread EXCEPT ![t] = AfterRaise(t)]
  BY AfterRaiseIs DEF Numbered, NoThread
<1>3. /\ thread' \in [Thread -> ThreadType]
      /\ \A u \in Thread : thread'[u].pc \in Numbered => thread'[u].mine.attempt > 0
  BY <1>2, ThreadTyped
<1> QED
  BY <1>1, <1>3 DEF StoreFails, TypeInv, OnlyThread

LEMMA JobType ==
    ASSUME TypeInv, NEW j \in Job, CancelRead(j) \/ CancelWrite(j) \/ Restore(j)
    PROVE  TypeInv'
<1>1. CASE CancelRead(j)
  BY <1>1, SpendTyped DEF CancelRead, TypeInv, durable
<1>2. CASE CancelWrite(j)
  <2> DEFINE r == [cancelling[j] EXCEPT !.stage = "cancel_requested"]
  <2>1. r \in Row /\ NoRow \in Row
    <3>1. cancelling[j] \in Row
      BY DEF TypeInv
    <3> QED
      BY <3>1 DEF Row, Stage, NoRow
  <2>2. row' = [row EXCEPT ![j] = r] /\ cancelling' = [cancelling EXCEPT ![j] = NoRow]
    BY <1>2 DEF CancelWrite
  <2> HIDE DEF r
  <2>3. row' \in [Job -> Row] /\ cancelling' \in [Job -> Row]
    BY <2>1, <2>2 DEF TypeInv
  <2> QED
    BY <1>2, <2>3, CalmTyped DEF CancelWrite, TypeInv
<1>3. CASE Restore(j)
  <2> DEFINE t == <<j, 1>>  s == row[j].slot  r == row[j]
             failed == [NoThread EXCEPT !.mine = r, !.slot = s, !.pc = "dispatchFailed"]
             again == [NoThread EXCEPT !.mine = r, !.slot = s, !.pc = "execute"]
  <2>1. t \in Thread /\ r \in Row /\ s \in Slot \cup {Nobody}
    BY DEF Thread, TypeInv, Row
  <2>2. failed \in ThreadType /\ failed.pc = "dispatchFailed"
        /\ again \in ThreadType /\ again.pc = "execute"
    <3>1. NoThread \in ThreadType
      BY DEF NoRow, Row, Stage, NoThread, ThreadType
    <3> HIDE DEF r, s
    <3> QED
      BY <2>1, <3>1 DEF ThreadType, Holding
  <2>3. thread' = [thread EXCEPT ![t] = failed] \/ thread' = [thread EXCEPT ![t] = again]
    BY <1>3 DEF Restore
  <2>4. busy' \subseteq Slot /\ cancelRequested' \subseteq Job
        /\ slotState' \in [Slot -> {"ready", "busy"}]
    <3>1. \/ UNCHANGED <<busy, slotState>>
          \/ /\ s \in Slot /\ busy' = busy \cup {s}
             /\ slotState' = [slotState EXCEPT ![s] = "busy"]
      BY <1>3, <2>1 DEF Restore
    <3>2. cancelRequested' \in {cancelRequested, cancelRequested \cup {j}}
      BY <1>3 DEF Restore
    <3> HIDE DEF s
    <3> QED
      BY <3>1, <3>2 DEF TypeInv
  <2>6. Counted'
    <3>1. spent' \in 0..Budget /\ happened' \subseteq Disturbance
      <4>1. UNCHANGED <<spent, happened>> \/ Happens("store") \/ Happens("asset")
        BY <1>3 DEF Restore
      <4> QED
        BY <4>1, HappensTyped DEF TypeInv, Counted
    <3>2. met' = [met EXCEPT ![t] = {}]
      BY <1>3 DEF Restore
    <3> QED
      BY <2>1, <3>1, <3>2 DEF Counted, TypeInv
  <2> HIDE DEF t, s, r, failed, again
  <2>5. /\ thread' \in [Thread -> ThreadType]
        /\ \A u \in Thread : thread'[u].pc \in Numbered => thread'[u].mine.attempt > 0
    BY <2>1, <2>2, <2>3, ThreadTyped DEF Numbered
  <2> QED
    BY <1>3, <2>4, <2>5, <2>6 DEF Restore, TypeInv
<1> QED
  BY <1>1, <1>2, <1>3

LEMMA SlotType ==
    ASSUME TypeInv, NEW s \in Slot, Runner(s) \/ RunnerLoses(s) \/ LeaseLost(s)
    PROVE  TypeInv'
<1>1. ASSUME NEW j \in Job, NEW kind \in Terminal \cup {"progress"}, NEW n \in 1..MaxAttempts,
             Publish(j, kind, n)
      PROVE  stream' \in [Job -> Seq(Event)]
  <2> DEFINE e == [kind |-> kind, of |-> n]
  <2>1. e \in Event
    BY DEF Event
  <2>2. stream' = [stream EXCEPT ![j] = Append(stream[j], e)]
    BY <1>1 DEF Publish
  <2> HIDE DEF e
  <2>3. Append(stream[j], e) \in Seq(Event)
    BY <2>1 DEF TypeInv
  <2> QED
    BY <2>2, <2>3 DEF TypeInv
<1>2. CASE RunnerTakes(s)
  <2> DEFINE m == Head(queue[s])
  <2>1. m \in Message /\ Tail(queue[s]) \in Seq(Message)
    BY <1>2 DEF RunnerTakes, TypeInv
  <2>2. m[1] \in Job /\ m[2] \in 1..MaxAttempts
    BY <2>1 DEF Message
  <2>3. stream' \in [Job -> Seq(Event)]
    BY <1>1, <1>2, <2>2 DEF RunnerTakes
  <2>4. queue' \in [Slot -> Seq(Message)] /\ working' \in [Slot -> Message \cup {<<>>}]
        /\ cancelFile' \subseteq Job
    BY <1>2, <2>1 DEF RunnerTakes, TypeInv
  <2> QED
    BY <1>2, <2>3, <2>4, CalmTyped DEF RunnerTakes, TypeInv, memory
<1>3. CASE RunnerEnds(s)
  <2>1. working[s] \in Message /\ working[s][1] \in Job /\ working[s][2] \in 1..MaxAttempts
    BY <1>3 DEF RunnerEnds, TypeInv, Message
  <2>2. stream' \in [Job -> Seq(Event)]
    BY <1>1, <1>3, <2>1 DEF RunnerEnds
  <2> QED
    BY <1>3, <2>2, CalmTyped DEF RunnerEnds, TypeInv, memory
<1>4. CASE RunnerLoses(s)
  BY <1>4, SpendTyped DEF RunnerLoses, TypeInv, durable, memory
<1>5. CASE LeaseLost(s)
  BY <1>5, SpendTyped DEF LeaseLost, TypeInv, durable
<1> QED
  BY <1>2, <1>3, <1>4, <1>5 DEF Runner

LEMMA GatewayType ==
    ASSUME TypeInv, Crash \/ Serve
    PROVE  TypeInv'
<1>1. NoRow \in Row /\ NoThread \in ThreadType /\ NoThread.pc = "none"
  BY DEF NoRow, Row, Stage, NoThread, ThreadType
<1>2. CASE Crash
  BY <1>1, <1>2, SpendTyped DEF Crash, TypeInv, durable, Numbered
<1>3. CASE Serve
  BY <1>3, CalmTyped DEF Serve, TypeInv, durable
<1> QED
  BY <1>2, <1>3

LEMMA TypeStep ==
    ASSUME TypeInv, Record, [Next]_vars
    PROVE  TypeInv'
<1>1. CASE UNCHANGED vars
  BY <1>1 DEF vars, durable, memory, TypeInv, Counted
<1>2. ASSUME NEW t \in Thread, TouchCancel(t)
      PROVE  TypeInv'
  BY <1>2, ThreadParts, CalmTyped DEF TouchCancel, TypeInv, memory
<1> QED
  BY <1>1, <1>2, RequestsType, RequestType, ExecuteType, StoreFailsType, JobType, SlotType,
     GatewayType DEF Next

LEMMA TypesAreRight == TypeInv => TypeOK
<1> SUFFICES ASSUME TypeInv PROVE TypeOK
  OBVIOUS
<1>1. \A j \in Job : \A i \in DOMAIN stream[j] :
          stream[j][i] \in [kind : Terminal \cup {"progress"}, of : 1..MaxAttempts]
  <2> TAKE j \in Job
  <2> TAKE i \in DOMAIN stream[j]
  <2>1. stream[j] \in Seq(Event)
    BY DEF TypeInv
  <2>2. stream[j][i] \in Event
    BY <2>1
  <2> QED
    BY <2>2 DEF Event
<1> QED
  BY <1>1 DEF TypeInv, Counted, TypeOK, Message

-----------------------------------------------------------------------------
(***************************************************************************)
(* What a step of a thread does to the rest.                               *)
(***************************************************************************)
Kept(t) ==
    /\ \A u \in Thread : u # t => thread'[u] = thread[u]
    /\ \A i \in Job : i # JobOf(t) => row'[i] = row[i]
    /\ up' = up /\ cancelling' = cancelling /\ happened \subseteq happened'
    /\ up \/ thread[t].pc # "none"
    /\ Says(t)'
    /\ row[JobOf(t)].stage # "none" \/ thread'[t].pc \notin {"none", "insert"} =>
           row'[JobOf(t)].stage # "none"

\* It keeps its slot or forgets it, and writes a row that names that slot or none.
KeepsSlot(t) ==
    /\ busy' = busy /\ slotState' = slotState
    /\ Holds(t)' => /\ Holds(t) /\ thread'[t].slot = thread[t].slot
                    /\ thread'[t].mine.slot = thread[t].mine.slot
    /\ \/ row'[JobOf(t)] = row[JobOf(t)]
       \/ row'[JobOf(t)].stage \in Terminal
       \/ row'[JobOf(t)].slot = Nobody
       \/ Holds(t) /\ row'[JobOf(t)].slot = thread[t].mine.slot
    /\ thread'[t].pc \in {"finish", "release"} =>
           \/ row'[JobOf(t)].stage \in Terminal
           \/ thread[t].pc \in {"finish", "release"} /\ row'[JobOf(t)] = row[JobOf(t)]
           \/ "store" \in happened'

\* It marks a slot, for itself or for nobody, or gives its own back.
TakesSlot(t) ==
    \E s \in Ready :
        /\ busy' = busy \cup {s} /\ slotState' = [slotState EXCEPT ![s] = "busy"]
        /\ row' = row /\ thread'[t].pc \in {"assign", "dispatchFailed"}
        /\ Holds(t)' => thread'[t].slot = s /\ thread'[t].mine.slot = s

GivesSlot(t) ==
    /\ Holds(t) /\ GiveBack(thread[t].slot) /\ row' = row /\ ~ Holds(t)'
    /\ thread[t].pc = "undo" \/ thread[t].pc = "release"

\* It writes only where it is a writer, and what the next place expects.
WritesOwn(t) ==
    /\ met' = met
    /\ row'[JobOf(t)] # row[JobOf(t)] => thread[t].pc \in Writing
    /\ Pending(t)' => Pending(t) /\ (Finds(t) => Finds(t)')

Steps(t) ==
    /\ Kept(t)
    /\ KeepsSlot(t) \/ TakesSlot(t) \/ GivesSlot(t)
    /\ WritesOwn(t)

LEMMA RequestSteps ==
    ASSUME TypeInv, Record, NEW t \in Thread, Request(t)
    PROVE  Steps(t)
<1> DEFINE j == JobOf(t)
<1>a. /\ thread \in [Thread -> ThreadType] /\ thread[t] \in ThreadType
      /\ row \in [Job -> Row] /\ j \in Job /\ thread[t].mine \in Row
  BY ThreadParts DEF TypeInv
<1>b. Says(t)
  BY DEF Record
<1>c. thread[t].pc \notin {"none", "insert"} => row[j].stage # "none"
  BY DEF Record
<1>1. CASE Insert(t)
  <2>1. /\ thread[t].pc = "insert" /\ thread'[t].pc = "reserve"
        /\ row'[j] = [stage |-> "queued", attempt |-> 1, slot |-> Nobody]
    BY <1>1, <1>a DEF Insert, At, Save, ThreadType
  <2>2. Kept(t)
    BY <1>1, <1>a, <1>c, <2>1 DEF Insert, Save, OnlyThread, Calm, Kept, Says, Terminal
  <2>3. KeepsSlot(t) /\ WritesOwn(t)
    BY <1>1, <2>1
       DEF Insert, OnlyThread, KeepsSlot, WritesOwn, Holds, Holding, Writing, Finds, Pending,
           Succeeded, Failing, Incomplete, Calm, Terminal
  <2> QED
    BY <2>2, <2>3 DEF Steps
<1>2. CASE Requeue(t)
  <2>1. /\ thread[t].pc = "requeue" /\ thread'[t].pc = "inputs"
        /\ row'[j] = thread[t].mine /\ thread[t].mine.stage = "queued"
    BY <1>2, <1>a, <1>b DEF Requeue, At, Save, ThreadType, Says
  <2>2. Kept(t)
    BY <1>2, <1>a, <1>c, <2>1 DEF Requeue, Save, OnlyThread, Calm, Kept, Says, Terminal
  <2>3. thread[t].mine.slot = Nobody
    BY <1>2, <1>b DEF Requeue, At, Says
  <2>4. KeepsSlot(t) /\ WritesOwn(t)
    BY <1>2, <2>1, <2>3
       DEF Requeue, OnlyThread, KeepsSlot, WritesOwn, Holds, Holding, Writing, Finds, Pending,
           Succeeded, Failing, Incomplete, Calm, Terminal
  <2> QED
    BY <2>2, <2>4 DEF Steps
<1>10. CASE Inputs(t)
  <2>1. /\ thread[t].pc = "inputs" /\ thread'[t].pc \in {"reserve", "none"} /\ row' = row
        /\ happened \subseteq happened' /\ met' = met
    BY <1>10, <1>a DEF Inputs, At, Goto, NoThread, ThreadType, Spend, Happens, Calm
  <2>2. Kept(t)
    BY <1>10, <1>a, <1>c, <2>1 DEF Inputs, Goto, OnlyThread, Kept, Says
  <2>3. KeepsSlot(t) /\ WritesOwn(t)
    BY <1>10, <2>1
       DEF Inputs, OnlyThread, KeepsSlot, WritesOwn, Holds, Holding, Writing, Finds, Pending,
           Succeeded, Failing, Incomplete
  <2> QED
    BY <2>2, <2>3 DEF Steps
<1>3. CASE Reserve(t)
  <2>0. happened \subseteq happened' /\ met' = met
    BY <1>3 DEF Reserve, Spend, Happens, Calm
  <2>1. CASE Goto(t, "dispatchFailed") /\ UNCHANGED <<busy, slotState>>
    <3>1. /\ thread[t].pc = "reserve" /\ thread'[t].pc = "dispatchFailed" /\ row' = row
      BY <1>3, <2>0, <2>1, <1>a DEF Reserve, At, Goto, ThreadType
    <3>2. Kept(t)
      BY <1>3, <2>0, <2>1, <1>a, <1>c, <3>1 DEF Reserve, Goto, Calm, Kept, Says, Terminal
    <3> QED
      BY <2>0, <2>1, <3>1, <3>2
         DEF Steps, KeepsSlot, WritesOwn, Holds, Holding, Writing, Finds, Pending, Succeeded,
             Failing, Incomplete, Calm
  <2>2. ASSUME NEW s \in Ready,
               busy' = busy \cup {s}, slotState' = [slotState EXCEPT ![s] = "busy"],
               Goto(t, "dispatchFailed")
        PROVE  Steps(t)
    <3>1. /\ thread[t].pc = "reserve" /\ thread'[t].pc = "dispatchFailed" /\ row' = row
      BY <1>3, <2>0, <2>2, <1>a DEF Reserve, At, Goto, ThreadType
    <3>2. Kept(t)
      BY <1>3, <2>0, <2>2, <1>a, <1>c, <3>1 DEF Reserve, Goto, Calm, Kept, Says, Terminal
    <3>3. TakesSlot(t)
      BY <2>2, <3>1 DEF TakesSlot, Holds, Holding
    <3> QED
      BY <2>0, <3>1, <3>2, <3>3
         DEF Steps, WritesOwn, Writing, Finds, Pending, Succeeded, Failing, Incomplete, Calm
  <2>3. ASSUME NEW s \in Ready,
               busy' = busy \cup {s}, slotState' = [slotState EXCEPT ![s] = "busy"],
               thread' = [thread EXCEPT ![t].slot = s, ![t].pc = "assign",
                             ![t].mine.stage = "assigned", ![t].mine.slot = s]
        PROVE  Steps(t)
    <3>1. /\ thread[t].pc = "reserve" /\ row' = row
      BY <1>3 DEF Reserve, At
    <3>2. /\ thread'[t].pc = "assign" /\ thread'[t].slot = s
          /\ thread'[t].mine.stage = "assigned" /\ thread'[t].mine.slot = s
      BY <2>3, <1>a DEF ThreadType, Row
    <3>3. Kept(t)
      BY <1>3, <2>0, <2>3, <1>a, <1>c, <3>1, <3>2 DEF Reserve, Calm, Kept, Says, Terminal
    <3>4. TakesSlot(t)
      BY <2>3, <3>1, <3>2 DEF TakesSlot
    <3> QED
      BY <2>0, <3>1, <3>2, <3>3, <3>4
         DEF Steps, WritesOwn, Writing, Finds, Pending, Succeeded, Failing, Incomplete, Calm
  <2> QED
    BY <1>3, <2>1, <2>2, <2>3 DEF Reserve
<1>4. CASE Assign(t)
  <2>1. /\ thread[t].pc = "assign" /\ thread'[t].pc = "attempt"
        /\ thread'[t].mine = thread[t].mine /\ thread'[t].slot = thread[t].slot
        /\ row'[j] = thread[t].mine /\ thread[t].mine.stage = "assigned"
    BY <1>4, <1>a, <1>b DEF Assign, At, Save, ThreadType, Says
  <2>2. Kept(t)
    BY <1>4, <1>a, <1>c, <2>1 DEF Assign, Save, OnlyThread, Calm, Kept, Says, Terminal
  <2>3. KeepsSlot(t) /\ WritesOwn(t)
    BY <1>4, <2>1
       DEF Assign, OnlyThread, KeepsSlot, WritesOwn, Holds, Holding, Writing, Finds, Pending,
           Succeeded, Failing, Incomplete, Calm, Terminal
  <2> QED
    BY <2>2, <2>3 DEF Steps
<1>5. CASE AddAttempt(t)
  <2>1. /\ thread[t].pc = "attempt" /\ thread'[t].pc \in {"dispatch", "dispatchFailed"}
        /\ thread'[t].mine = thread[t].mine /\ thread'[t].slot = thread[t].slot
        /\ row' = row
    BY <1>5, <1>a DEF AddAttempt, At, Goto, ThreadType
  <2>2. Kept(t)
    BY <1>5, <1>a, <1>c, <2>1 DEF AddAttempt, Goto, OnlyThread, Calm, Kept, Says, Terminal
  <2>3. KeepsSlot(t) /\ WritesOwn(t)
    BY <1>5, <2>1
       DEF AddAttempt, OnlyThread, KeepsSlot, WritesOwn, Holds, Holding, Writing, Finds,
           Pending, Succeeded, Failing, Incomplete, Calm
  <2> QED
    BY <2>2, <2>3 DEF Steps
<1>6. CASE Dispatch(t)
  <2>1. /\ thread[t].pc = "dispatch" /\ thread'[t].pc \in {"execute", "undo"}
        /\ thread'[t].mine = thread[t].mine /\ thread'[t].slot = thread[t].slot
        /\ row' = row /\ busy' = busy /\ slotState' = slotState
        /\ happened \subseteq happened' /\ met' = met
        /\ thread'[t].pc = "undo" => "dispatch" \in happened'
    BY <1>6, <1>a DEF Dispatch, At, Goto, ThreadType, Spend, Happens, Calm
  <2>2. Kept(t)
    BY <1>6, <1>a, <1>c, <2>1 DEF Dispatch, Goto, Kept, Says, Terminal
  <2>3. KeepsSlot(t) /\ WritesOwn(t)
    BY <2>1
       DEF KeepsSlot, WritesOwn, Holds, Holding, Writing, Finds, Pending, Succeeded, Failing,
           Incomplete, Calm
  <2> QED
    BY <2>2, <2>3 DEF Steps
<1>7. CASE Undo(t)
  <2>1. /\ thread[t].pc = "undo" /\ thread'[t].pc = "dispatchFailed" /\ row' = row
    BY <1>7, <1>a DEF Undo, At, Goto, ThreadType
  <2>2. Kept(t)
    BY <1>7, <1>a, <1>c, <2>1 DEF Undo, Goto, Calm, Kept, Says, Terminal
  <2>3. GivesSlot(t) /\ WritesOwn(t)
    BY <1>7, <2>1
       DEF Undo, GivesSlot, WritesOwn, Holds, Holding, Writing, Finds, Pending, Succeeded,
           Failing, Incomplete, Calm
  <2> QED
    BY <2>2, <2>3 DEF Steps
<1>8. CASE MarkDispatchFailed(t)
  <2>1. /\ thread[t].pc = "dispatchFailed" /\ thread'[t].pc = "finishFailed"
        /\ row'[j].stage = "failed"
    BY <1>8, <1>a DEF MarkDispatchFailed, At, Save, ThreadType, Row
  <2>2. Kept(t)
    BY <1>8, <1>a, <1>c, <2>1
       DEF MarkDispatchFailed, Save, OnlyThread, Calm, Kept, Says, Terminal
  <2>3. KeepsSlot(t) /\ WritesOwn(t)
    BY <1>8, <2>1
       DEF MarkDispatchFailed, OnlyThread, KeepsSlot, WritesOwn, Holds, Holding, Writing,
           Finds, Pending, Succeeded, Failing, Incomplete, Calm,
           Terminal
  <2> QED
    BY <2>2, <2>3 DEF Steps
<1>9. CASE FinishFailed(t)
  <2>1. /\ thread[t].pc = "finishFailed" /\ thread'[t].pc = "none" /\ row' = row
    BY <1>9, <1>a DEF FinishFailed, At, NoThread
  <2>2. Kept(t)
    BY <1>9, <1>a, <1>c, <2>1 DEF FinishFailed, OnlyThread, Calm, Kept, Says, Terminal
  <2>3. KeepsSlot(t) /\ WritesOwn(t)
    BY <1>9, <2>1
       DEF FinishFailed, OnlyThread, KeepsSlot, WritesOwn, Holds, Holding, Writing, Finds,
           Pending, Succeeded, Failing, Incomplete, Calm
  <2> QED
    BY <2>2, <2>3 DEF Steps
<1> QED
  BY <1>1, <1>2, <1>3, <1>4, <1>5, <1>6, <1>7, <1>8, <1>9, <1>10 DEF Request

LEMMA ExecuteSteps ==
    ASSUME TypeInv, Record, NEW t \in Thread, Execute(t)
    PROVE  Steps(t)
<1> DEFINE j == JobOf(t)
<1>a. /\ thread \in [Thread -> ThreadType] /\ thread[t] \in ThreadType
      /\ row \in [Job -> Row] /\ j \in Job /\ thread[t].mine \in Row
  BY ThreadParts DEF TypeInv
<1>b. Says(t)
  BY DEF Record
<1>c. thread[t].pc \notin {"none", "insert"} => row[j].stage # "none"
  BY DEF Record
<1>1. CASE ReadEvent(t)
  <2> DEFINE p == thread[t].pos + 1  e == stream[j][p]  kind == e.kind  by == e.of
  <2>1. CASE kind = "progress"
    <3>1. /\ thread[t].pc = "execute" /\ thread'[t].pc = "execute"
          /\ thread'[t].slot = thread[t].slot /\ thread'[t].mine.slot = thread[t].mine.slot
          /\ row'[j] = [thread[t].mine EXCEPT !.stage = "running"]
      <4>1. /\ thread[t].pc = "execute"
            /\ thread'[t] = [[thread[t] EXCEPT !.pos = p] EXCEPT !.mine.stage = "running"]
            /\ row'[j] = [thread[t].mine EXCEPT !.stage = "running"]
        BY <1>1, <2>1, <1>a DEF ReadEvent, At
      <4> HIDE DEF p
      <4> QED
        BY <4>1, <1>a DEF ThreadType, Row
    <3>2. row'[j].stage = "running" /\ row'[j].slot = thread[t].mine.slot
      BY <3>1, <1>a DEF Row
    <3>3. Kept(t)
      BY <1>1, <2>1, <1>a, <1>c, <3>1 DEF ReadEvent, OnlyThread, Calm, Kept, Says, Terminal
    <3>4. KeepsSlot(t) /\ WritesOwn(t)
      BY <1>1, <3>1, <3>2
         DEF ReadEvent, OnlyThread, KeepsSlot, WritesOwn, Holds, Holding, Writing, Finds,
             Pending, Succeeded, Failing, Incomplete, Calm, Terminal
    <3> QED
      BY <3>3, <3>4 DEF Steps
  <2>2. CASE kind \in Terminal
    <3>1. /\ thread[t].pc = "execute" /\ thread'[t].pc \in {"register", "end"}
          /\ thread'[t].slot = thread[t].slot /\ thread'[t].mine.slot = thread[t].mine.slot
          /\ thread'[t].pc = "end" => thread'[t].mine.stage \in Terminal
          /\ row' = row
      <4> DEFINE ended == [[thread[t] EXCEPT !.pos = p] EXCEPT !.by = by]
      <4>1. /\ thread[t].pc = "execute" /\ row' = row
            /\ \/ thread'[t] = [ended EXCEPT !.pc = "register"]
               \/ thread'[t] = [ended EXCEPT !.pc = "end", !.mine.stage = kind]
        BY <1>1, <2>2, <1>a DEF ReadEvent, At, Terminal
      <4>2. /\ ended.slot = thread[t].slot /\ ended.mine = thread[t].mine
            /\ DOMAIN ended = DOMAIN thread[t]
        BY <1>a DEF ThreadType
      <4>3. DOMAIN thread[t] = {"pc", "mine", "slot", "pos", "by"}
            /\ DOMAIN thread[t].mine = {"stage", "attempt", "slot"}
        BY <1>a DEF ThreadType, Row
      <4> HIDE DEF p, kind, by, ended
      <4>4. CASE thread'[t] = [ended EXCEPT !.pc = "register"]
        BY <4>1, <4>2, <4>3, <4>4
      <4>5. CASE thread'[t] = [ended EXCEPT !.pc = "end", !.mine.stage = kind]
        BY <4>1, <4>2, <4>3, <4>5, <2>2
      <4> QED
        BY <4>1, <4>4, <4>5
    <3>2. Kept(t)
      BY <1>1, <2>2, <1>a, <1>c, <3>1 DEF ReadEvent, OnlyThread, Calm, Kept, Says, Terminal
    <3>3. KeepsSlot(t) /\ WritesOwn(t)
      BY <1>1, <3>1
         DEF ReadEvent, OnlyThread, KeepsSlot, WritesOwn, Holds, Holding, Writing, Finds,
             Pending, Succeeded, Failing, Incomplete, Calm
    <3> QED
      BY <3>2, <3>3 DEF Steps
  <2> QED
    BY <1>1, <2>1, <2>2 DEF ReadEvent, Terminal
<1>2. ASSUME NEW stage \in Terminal, thread[t].pc \in {"execute", "register"}, row' = row,
             thread' = [thread EXCEPT ![t].pc = "end", ![t].mine.stage = stage],
             OnlyThread, happened \subseteq happened', met' = met
      PROVE  Steps(t)
  <2>1. /\ thread'[t].pc = "end" /\ thread'[t].mine.stage = stage
        /\ thread'[t].slot = thread[t].slot /\ thread'[t].mine.slot = thread[t].mine.slot
    BY <1>2, <1>a DEF ThreadType, Row
  <2>2. Kept(t)
    BY <1>2, <1>a, <1>c, <2>1 DEF OnlyThread, Kept, Says, Terminal
  <2>3. KeepsSlot(t) /\ WritesOwn(t)
    BY <1>2, <2>1
       DEF OnlyThread, KeepsSlot, WritesOwn, Holds, Holding, Writing, Finds, Pending,
           Succeeded, Failing, Incomplete, Calm
  <2> QED
    BY <2>2, <2>3 DEF Steps
<1>3. CASE Timeout(t)
  <2>1. happened \subseteq happened' /\ met' = met
    BY <1>3 DEF Timeout, Spend, Happens, Calm
  <2> QED
    BY <1>2, <1>3, <2>1 DEF Timeout, At, Terminal
<1>4. CASE Register(t)
  BY <1>2, <1>4 DEF Register, At, Calm, Terminal
<1>5. CASE End(t)
  <2>1. /\ thread[t].pc = "end" /\ thread'[t].pc = "finish"
        /\ thread'[t].mine = thread[t].mine /\ thread'[t].slot = thread[t].slot
        /\ row'[j] = thread[t].mine /\ thread[t].mine.stage \in Terminal
    BY <1>5, <1>a, <1>b DEF End, At, Save, ThreadType, Says
  <2>2. Kept(t)
    BY <1>5, <1>a, <1>c, <2>1 DEF End, Save, OnlyThread, Calm, Kept, Says, Terminal
  <2>3. KeepsSlot(t) /\ WritesOwn(t)
    BY <1>5, <2>1
       DEF End, OnlyThread, KeepsSlot, WritesOwn, Holds, Holding, Writing, Finds, Pending,
           Succeeded, Failing, Incomplete, Calm
  <2> QED
    BY <2>2, <2>3 DEF Steps
<1>6. CASE FinishAttempt(t)
  <2>1. /\ thread[t].pc = "finish" /\ thread'[t].pc = "release" /\ row' = row
        /\ thread'[t].mine = thread[t].mine /\ thread'[t].slot = thread[t].slot
    BY <1>6, <1>a DEF FinishAttempt, At, Goto, ThreadType
  <2>2. Kept(t)
    BY <1>6, <1>a, <1>c, <2>1 DEF FinishAttempt, Goto, OnlyThread, Calm, Kept, Says, Terminal
  <2>3. KeepsSlot(t) /\ WritesOwn(t)
    BY <1>6, <2>1
       DEF FinishAttempt, OnlyThread, KeepsSlot, WritesOwn, Holds, Holding, Writing, Finds,
           Pending, Succeeded, Failing, Incomplete, Calm
  <2> QED
    BY <2>2, <2>3 DEF Steps
<1>7. CASE Release(t)
  <2>1. /\ thread[t].pc = "release" /\ thread'[t].pc = "none" /\ row' = row
    BY <1>7, <1>a DEF Release, At, NoThread
  <2>2. Kept(t)
    BY <1>7, <1>a, <1>c, <2>1 DEF Release, Calm, Kept, Says, Terminal
  <2>3. GivesSlot(t) /\ WritesOwn(t)
    BY <1>7, <2>1
       DEF Release, GivesSlot, WritesOwn, Holds, Holding, Writing, Finds, Pending, Succeeded,
           Failing, Incomplete, Calm
  <2> QED
    BY <2>2, <2>3 DEF Steps
<1> QED
  BY <1>1, <1>3, <1>4, <1>5, <1>6, <1>7 DEF Execute

-----------------------------------------------------------------------------
(***************************************************************************)
(* A slot keeps its one holder.                                            *)
(***************************************************************************)
LEMMA StillUndisturbed ==
    ASSUME happened \subseteq happened'
    PROVE  /\ Undisturbed' => Undisturbed
           /\ ("crash" \notin happened \/ Undisturbed)' => ("crash" \notin happened \/ Undisturbed)
BY DEF Undisturbed, Did

LEMMA KeepsSlotMarked ==
    ASSUME TypeInv, Marked, NEW t \in Thread, Kept(t), KeepsSlot(t)
    PROVE  Marked'
<1>1. \A u \in Thread : Holds(u)' => /\ Holds(u) /\ thread'[u].slot = thread[u].slot
                                     /\ thread'[u].mine.slot = thread[u].mine.slot
  BY DEF Kept, KeepsSlot, Holds
<1>2. busy' = busy /\ slotState' = slotState
  BY DEF KeepsSlot
<1> QED
  BY <1>1, <1>2 DEF Marked

LEMMA TakesSlotMarked ==
    ASSUME TypeInv, Marked, NEW t \in Thread, Kept(t), TakesSlot(t)
    PROVE  Marked'
<1>1. PICK s \in Ready :
          /\ busy' = busy \cup {s} /\ slotState' = [slotState EXCEPT ![s] = "busy"]
          /\ Holds(t)' => thread'[t].slot = s /\ thread'[t].mine.slot = s
  BY DEF TakesSlot
<1>2. \A u \in Thread : u # t => (Holds(u)' <=> Holds(u)) /\ thread'[u] = thread[u]
  BY DEF Kept, Holds
<1>3. s \in Slot /\ s \notin busy /\ slotState'[s] = "busy"
      /\ \A z \in Slot : z # s => slotState'[z] = slotState[z]
  BY <1>1 DEF Ready, TypeInv
<1>4. \A u \in Thread : Holds(u) => /\ thread[u].slot # s /\ thread[u].slot \in busy
                                    /\ slotState[thread[u].slot] = "busy"
                                    /\ thread[u].slot \in Slot
  BY <1>3 DEF Marked, TypeInv
<1>5. \A u \in Thread : Holds(u)' =>
          /\ thread'[u].slot \in busy' /\ slotState'[thread'[u].slot] = "busy"
          /\ thread'[u].mine.slot = thread'[u].slot
  BY <1>1, <1>2, <1>3, <1>4 DEF Marked
<1>6. \A u, w \in Thread : Holds(u)' /\ Holds(w)' /\ thread'[u].slot = thread'[w].slot => u = w
  BY <1>1, <1>2, <1>4 DEF Marked
<1> QED
  BY <1>5, <1>6 DEF Marked

LEMMA GivesSlotMarked ==
    ASSUME TypeInv, Marked, NEW t \in Thread, Kept(t), GivesSlot(t)
    PROVE  Marked'
<1> DEFINE s == thread[t].slot
<1>1. busy' = busy \ {s} /\ slotState' = [slotState EXCEPT ![s] = "ready"]
  BY DEF GivesSlot, GiveBack
<1>2. \A u \in Thread : Holds(u)' => /\ u # t /\ Holds(u) /\ thread'[u] = thread[u]
                                     /\ thread[u].slot # s
  BY DEF Kept, Holds, GivesSlot, Marked
<1>3. \A u \in Thread : Holds(u) => thread[u].slot \in busy /\ thread[u].slot \in Slot
                                    /\ slotState[thread[u].slot] = "busy"
  BY DEF Marked, TypeInv
<1> HIDE DEF s
<1>4. \A u \in Thread : Holds(u)' =>
          /\ thread'[u].slot \in busy' /\ slotState'[thread'[u].slot] = "busy"
          /\ thread'[u].mine.slot = thread'[u].slot
  BY <1>1, <1>2, <1>3 DEF Marked, TypeInv
<1>5. \A u, w \in Thread : Holds(u)' /\ Holds(w)' /\ thread'[u].slot = thread'[w].slot => u = w
  BY <1>2 DEF Marked
<1> QED
  BY <1>4, <1>5 DEF Marked

\* Only a holder's row comes to name a slot, and it is the slot it holds.
LEMMA KeepsSlotNamed ==
    ASSUME TypeInv, Marked, RowsNameTheirs, NEW t \in Thread, Kept(t), KeepsSlot(t),
           "store" \notin happened'
    PROVE  RowsNameTheirs'
<1> DEFINE j == JobOf(t)
<1>1. \A u \in Thread : Holds(u)' => Holds(u) /\ thread'[u].slot = thread[u].slot
  BY DEF Kept, KeepsSlot, Holds
<1>2. \A i \in Job, s \in Slot : Names(i, s)' =>
          Names(i, s) \/ (i = j /\ Holds(t) /\ s = thread[t].slot)
  BY DEF Kept, KeepsSlot, Names, Incomplete, Marked
<1>3. ASSUME Holds(t)
      PROVE  /\ slotState[thread[t].slot] = "busy"
             /\ \A u \in Thread : Holds(u) /\ thread[u].slot = thread[t].slot => u = t
             /\ \A i \in Job : Names(i, thread[t].slot) => i = j
  <2>1. thread[t].slot \in Slot
    BY <1>3 DEF Marked, TypeInv
  <2> QED
    BY <1>3, <2>1 DEF Marked, RowsNameTheirs
<1>4. slotState' = slotState
  BY DEF KeepsSlot
<1>5. ASSUME NEW i \in Job, NEW s \in Slot, Names(i, s)'
      PROVE  /\ slotState'[s] = "busy"
             /\ \A u \in Thread : Holds(u)' /\ thread'[u].slot = s => JobOf(u) = i
             /\ \A k \in Job : Names(k, s)' => k = i
  <2>1. CASE Names(i, s)
    <3>1. /\ slotState[s] = "busy"
          /\ \A u \in Thread : Holds(u) /\ thread[u].slot = s => JobOf(u) = i
          /\ \A k \in Job : Names(k, s) => k = i
      BY <2>1 DEF RowsNameTheirs
    <3> QED
      BY <1>1, <1>2, <1>4, <3>1
  <2>2. CASE i = j /\ Holds(t) /\ s = thread[t].slot
    BY <1>1, <1>2, <1>3, <1>4, <2>2
  <2> QED
    BY <1>2, <1>5, <2>1, <2>2
<1>6. ASSUME NEW u \in Thread, thread'[u].pc \in {"finish", "release"}
      PROVE  ~ Names(JobOf(u), thread[u].slot)'
  <2>1. CASE u = t
    <3>1. CASE row'[j].stage \in Terminal
      BY <2>1, <3>1 DEF Names, Incomplete
    <3>2. CASE thread[t].pc \in {"finish", "release"} /\ row'[j] = row[j]
      <4>1. ~ Names(j, thread[t].slot) /\ thread'[t].slot = thread[t].slot
        BY <1>1, <1>6, <2>1, <3>2 DEF RowsNameTheirs, Holds, Holding
      <4> QED
        BY <2>1, <3>2, <4>1 DEF Names, Incomplete
    <3> QED
      BY <1>6, <2>1, <3>1, <3>2 DEF KeepsSlot
  <2>2. CASE u # t
    <3>1. thread'[u] = thread[u] /\ Holds(u)
      BY <1>6, <2>2 DEF Kept, Holds, Holding
    <3>2. ~ Names(JobOf(u), thread[u].slot)
      BY <1>6, <3>1 DEF RowsNameTheirs
    <3>3. JobOf(u) \in Job /\ thread[u].slot \in Slot
      BY <3>1, ThreadParts DEF Marked, TypeInv
    <3>4. ASSUME NEW s \in Slot, s = thread[u].slot, Names(JobOf(u), s)' PROVE FALSE
      <4>1. Holds(t) /\ thread[u].slot = thread[t].slot
        BY <1>2, <3>2, <3>3, <3>4
      <4> QED
        BY <1>3, <2>2, <3>1, <4>1
    <3> QED
      BY <3>1, <3>3, <3>4 DEF Names, Incomplete
  <2> QED
    BY <2>1, <2>2
<1> QED
  BY <1>5, <1>6 DEF RowsNameTheirs

LEMMA TakesSlotNamed ==
    ASSUME TypeInv, Marked, RowsNameTheirs, NEW t \in Thread, Kept(t), TakesSlot(t)
    PROVE  RowsNameTheirs'
<1>1. PICK s \in Ready :
          /\ slotState' = [slotState EXCEPT ![s] = "busy"]
          /\ Holds(t)' => thread'[t].slot = s
  BY DEF TakesSlot
<1>2. \A i \in Job, z \in Slot : Names(i, z)' <=> Names(i, z)
  BY DEF TakesSlot, Names, Incomplete
<1>3. s \in Slot /\ slotState[s] = "ready"
  BY DEF Ready
<1>4. \A i \in Job : ~ Names(i, s)
  BY <1>3 DEF RowsNameTheirs
<1>5. \A u \in Thread : Holds(u)' =>
          thread'[u].slot = s \/ (Holds(u) /\ thread'[u].slot = thread[u].slot)
  BY <1>1 DEF Kept, Holds
<1>6. ASSUME NEW i \in Job, NEW z \in Slot, Names(i, z)'
      PROVE  /\ slotState'[z] = "busy"
             /\ \A u \in Thread : Holds(u)' /\ thread'[u].slot = z => JobOf(u) = i
             /\ \A k \in Job : Names(k, z)' => k = i
  <2>1. Names(i, z) /\ z # s
    BY <1>2, <1>4, <1>6
  <2>2. /\ slotState[z] = "busy"
        /\ \A u \in Thread : Holds(u) /\ thread[u].slot = z => JobOf(u) = i
        /\ \A k \in Job : Names(k, z) => k = i
    BY <2>1 DEF RowsNameTheirs
  <2> QED
    BY <1>1, <1>2, <1>5, <2>1, <2>2 DEF TypeInv
<1>7. ASSUME NEW u \in Thread, thread'[u].pc \in {"finish", "release"}
      PROVE  ~ Names(JobOf(u), thread[u].slot)'
  <2>1. u # t /\ thread'[u] = thread[u]
    BY <1>7 DEF TakesSlot, Kept
  <2>2. JobOf(u) \in Job /\ thread[u].slot \in Slot
    BY <1>7, <2>1, ThreadParts DEF Marked, TypeInv, Holds, Holding
  <2> QED
    <3>1. ASSUME NEW i \in Job, NEW z \in Slot, i = JobOf(u), z = thread[u].slot
          PROVE  ~ Names(i, z)'
      <4>1. ~ Names(i, z)
        BY <1>7, <2>1, <3>1 DEF RowsNameTheirs
      <4> QED
        BY <1>2, <4>1
    <3> QED
      BY <2>1, <2>2, <3>1 DEF Names, Incomplete
<1> QED
  BY <1>6, <1>7 DEF RowsNameTheirs

LEMMA ReleaseNamed ==
    ASSUME TypeInv, Marked, RowsNameTheirs, NEW t \in Thread, Kept(t), GivesSlot(t),
           thread[t].pc = "release"
    PROVE  RowsNameTheirs'
<1> DEFINE s == thread[t].slot
<1>1. slotState' = [slotState EXCEPT ![s] = "ready"]
  BY DEF GivesSlot, GiveBack
<1>2. \A i \in Job, z \in Slot : Names(i, z)' <=> Names(i, z)
  BY DEF GivesSlot, Names, Incomplete
<1>3. s \in Slot /\ JobOf(t) \in Job /\ ~ Names(JobOf(t), s)
  BY ThreadParts DEF GivesSlot, Marked, TypeInv, RowsNameTheirs
<1>4. \A i \in Job : ~ Names(i, s)
  BY <1>3 DEF RowsNameTheirs, GivesSlot
<1>5. \A u \in Thread : Holds(u)' => u # t /\ Holds(u) /\ thread'[u] = thread[u]
  BY DEF Kept, Holds, GivesSlot
<1> HIDE DEF s
<1>6. ASSUME NEW i \in Job, NEW z \in Slot, Names(i, z)'
      PROVE  /\ slotState'[z] = "busy"
             /\ \A u \in Thread : Holds(u)' /\ thread'[u].slot = z => JobOf(u) = i
             /\ \A k \in Job : Names(k, z)' => k = i
  <2>1. Names(i, z) /\ z # s
    BY <1>2, <1>4, <1>6
  <2>2. /\ slotState[z] = "busy"
        /\ \A u \in Thread : Holds(u) /\ thread[u].slot = z => JobOf(u) = i
        /\ \A k \in Job : Names(k, z) => k = i
    BY <2>1 DEF RowsNameTheirs
  <2> QED
    BY <1>1, <1>2, <1>5, <2>1, <2>2 DEF TypeInv
<1>7. ASSUME NEW u \in Thread, thread'[u].pc \in {"finish", "release"}
      PROVE  ~ Names(JobOf(u), thread[u].slot)'
  <2>1. Holds(u) /\ thread'[u] = thread[u]
    BY <1>5, <1>7 DEF Holds, Holding
  <2>2. JobOf(u) \in Job /\ thread[u].slot \in Slot
    BY <2>1, ThreadParts DEF Marked, TypeInv
  <2> QED
    <3>1. ASSUME NEW i \in Job, NEW z \in Slot, i = JobOf(u), z = thread[u].slot
          PROVE  ~ Names(i, z)'
      <4>1. ~ Names(i, z)
        BY <1>7, <2>1, <3>1 DEF RowsNameTheirs
      <4> QED
        BY <1>2, <4>1
    <3> QED
      BY <2>1, <2>2, <3>1 DEF Names, Incomplete
<1> QED
  BY <1>6, <1>7 DEF RowsNameTheirs

LEMMA SlotsStep ==
    ASSUME TypeInv, Record, Slots, NEW t \in Thread, Kept(t),
           KeepsSlot(t) \/ TakesSlot(t) \/ GivesSlot(t)
    PROVE  Slots'
<1>1. happened \subseteq happened'
  BY DEF Kept
<1>2. ASSUME ("crash" \notin happened \/ Undisturbed)' PROVE Marked'
  <2>1. Marked
    BY <1>1, <1>2, StillUndisturbed DEF Slots
  <2> QED
    BY <2>1, KeepsSlotMarked, TakesSlotMarked, GivesSlotMarked
<1>3. ASSUME Undisturbed' PROVE RowsNameTheirs'
  <2>1. Undisturbed /\ Marked /\ RowsNameTheirs
    BY <1>1, <1>3, StillUndisturbed DEF Slots
  <2>2. "store" \notin happened' /\ "dispatch" \notin happened
    BY <1>3, <2>1 DEF Undisturbed, Did
  <2>3. thread[t].pc # "undo"
    BY <2>2 DEF Record, Says
  <2>4. GivesSlot(t) => thread[t].pc = "release"
    BY <2>3 DEF GivesSlot
  <2> QED
    BY <2>1, <2>2, <2>4, KeepsSlotNamed, TakesSlotNamed, ReleaseNamed
<1> QED
  BY <1>2, <1>3 DEF Slots

-----------------------------------------------------------------------------
(***************************************************************************)
(* The other two parts, and the steps that are no thread's own.            *)
(***************************************************************************)
LEMMA RecordStep ==
    ASSUME TypeInv, Record, NEW t \in Thread, Kept(t)
    PROVE  Record'
<1>1. ASSUME NEW u \in Thread PROVE Says(u)'
  <2>1. CASE u # t
    <3>1. thread'[u] = thread[u] /\ happened \subseteq happened' /\ Says(u)
      BY <2>1 DEF Kept, Record
    <3> QED
      BY <3>1 DEF Says
  <2> QED
    BY <2>1 DEF Kept
<1>2. ASSUME ~ up', NEW j \in Job PROVE thread'[<<j, 2>>].pc = "none"
  <2>1. ~ up /\ thread[<<j, 2>>].pc = "none" /\ <<j, 2>> \in Thread
    BY <1>2 DEF Kept, Record, Thread
  <2>2. <<j, 2>> # t
    BY <2>1 DEF Kept
  <2> QED
    BY <2>1, <2>2 DEF Kept
<1>3. ASSUME NEW i \in Job, row[i].stage # "none" PROVE row'[i].stage # "none"
  BY <1>3 DEF Kept
<1>4. ASSUME NEW u \in Thread, thread'[u].pc \notin {"none", "insert"}
      PROVE  row'[JobOf(u)].stage # "none"
  <2>1. CASE u = t
    BY <1>4, <2>1 DEF Kept
  <2>2. CASE u # t
    <3>1. row[JobOf(u)].stage # "none"
      BY <1>4, <2>2 DEF Kept, Record
    <3> QED
      BY <1>3, <3>1, ThreadParts
  <2> QED
    BY <2>1, <2>2
<1>5. cancelling' = cancelling /\ happened \subseteq happened'
  BY DEF Kept
<1>6. ASSUME NEW i \in Job, cancelling'[i] # NoRow
      PROVE  /\ "cancel" \in happened' /\ row'[i].stage # "none"
             /\ cancelling'[i].stage \notin Terminal \cup {"none"}
  BY <1>3, <1>5, <1>6 DEF Record
<1>7. ~ up' => "crash" \in happened'
  BY DEF Record, Kept
<1> QED
  BY <1>1, <1>2, <1>4, <1>6, <1>7 DEF Record

LEMMA WritersStep ==
    ASSUME TypeInv, Writers, NEW t \in Thread, Kept(t), WritesOwn(t)
    PROVE  Writers'
<1>1. /\ met' = met
      /\ \A u \in Thread : u # t => thread'[u] = thread[u]
      /\ \A u \in Thread : Twin(u)' <=> Twin(u)
  BY DEF Kept, WritesOwn, Twin
<1>2. \A u \in Thread : Pending(u)' => Pending(u)
  BY <1>1 DEF WritesOwn, Pending, Succeeded
<1>3. ASSUME NEW u \in Thread, Pending(u)', ~ Twin(u) PROVE Finds(u)'
  <2>1. Pending(u) /\ Finds(u)
    BY <1>2, <1>3 DEF Writers
  <2>2. CASE u = t
    BY <1>3, <2>1, <2>2 DEF WritesOwn
  <2>3. CASE u # t
    <3>1. row'[JobOf(u)] = row[JobOf(u)]
      <4>1. CASE JobOf(u) = JobOf(t)
        <5>1. ~ Pending(t)
          BY <1>3, <2>1, <2>3, <4>1 DEF Writers
        <5> QED
          BY <4>1, <5>1 DEF WritesOwn, Pending
      <4>2. CASE JobOf(u) # JobOf(t)
        BY <4>2, ThreadParts DEF Kept
      <4> QED
        BY <4>1, <4>2
    <3> QED
      BY <1>1, <2>1, <2>3, <3>1 DEF Finds, Failing, Succeeded, Incomplete
  <2> QED
    BY <2>2, <2>3
<1> QED
  BY <1>1, <1>2, <1>3 DEF Writers

LEMMA ThreadStep ==
    ASSUME JobsInv, NEW t \in Thread, Steps(t)
    PROVE  Record' /\ Slots' /\ Writers'
BY RecordStep, SlotsStep, WritersStep DEF JobsInv, Steps

\* A request is admitted when its job has no writer, or as the twin of one.
LEMMA RequestsStep ==
    ASSUME JobsInv, NEW t \in Thread, Requests(t)
    PROVE  Record' /\ Slots' /\ Writers'
<1> DEFINE j == JobOf(t)  other == <<j, 3 - t[2]>>
<1> USE DEF JobsInv
<1>a. /\ thread \in [Thread -> ThreadType] /\ thread[t] \in ThreadType /\ j \in Job
      /\ t = <<j, t[2]>> /\ t[2] \in {1, 2} /\ other \in Thread /\ other # t
      /\ met \in [Thread -> SUBSET {"store", "twice"}]
      /\ \A u \in Thread : u = <<JobOf(u), u[2]>> /\ u[2] \in {1, 2}
  BY ThreadParts DEF TypeInv, Counted, Thread, JobOf
<1>b. \A u \in Thread : JobOf(u) = j /\ u # t => u = other
  BY <1>a
<1> HIDE DEF other
<1>1. /\ up /\ thread[t].pc = "none" /\ row' = row /\ row[j].stage \in Stage
      /\ busy' = busy /\ slotState' = slotState /\ up' = up /\ cancelling' = cancelling
      /\ happened \subseteq happened'
  BY ThreadParts
     DEF Requests, Admit, RetryRead, Read, Free, At, OnlyThread, Happens, durable, Row
<1>2. CASE Admit(t)
  <2>1. thread'[t].pc = "insert" /\ t[2] = 1 /\ row[j].stage = "none"
        /\ \A u \in Thread : u # t => thread'[u] = thread[u]
    BY <1>2, <1>a DEF Admit, Goto, ThreadType
  <2>2. \A u \in Thread : u # t => met'[u] = met[u]
    BY <1>2, <1>a DEF Admit
  <2>3. Kept(t) /\ KeepsSlot(t)
    BY <1>1, <2>1 DEF Kept, KeepsSlot, Says, Holds, Holding
  <2>4. \A u \in Thread : JobOf(u) = j /\ u # t => ~ Pending(u)
    <3> SUFFICES ASSUME NEW u \in Thread, JobOf(u) = j, u # t, Pending(u)
                 PROVE  FALSE
      OBVIOUS
    <3>1. u[2] = 2 /\ Says(u) /\ thread[u].pc \in {"none", "insert"}
      BY <1>a, <2>1 DEF Record
    <3> QED
      BY <3>1 DEF Says, Pending, Writing, Succeeded
  <2>5. Finds(t)'
    BY <1>1, <2>1 DEF Finds, Succeeded
  <2>6. \A u \in Thread : u # t =>
            (Finds(u)' <=> Finds(u)) /\ (Pending(u)' <=> Pending(u)) /\ (Twin(u)' <=> Twin(u))
    BY <1>1, <2>1, <2>2 DEF Finds, Incomplete, Failing, Succeeded, Pending, Twin
  <2>7. Writers'
    BY <2>4, <2>5, <2>6 DEF Writers
  <2> QED
    BY <2>3, <2>7, RecordStep, SlotsStep
<1>3. CASE RetryRead(t)
  <2> DEFINE m == [stage |-> "queued", attempt |-> Len(attempts[j]) + 1, slot |-> Nobody]
  <2>1. thread' = [thread EXCEPT ![t] = [NoThread EXCEPT !.pc = "requeue", !.mine = m]]
    BY <1>3 DEF RetryRead, Read
  <2>2. thread'[t].pc = "requeue" /\ thread'[t].mine = m
        /\ \A u \in Thread : u # t => thread'[u] = thread[u]
    <3> HIDE DEF m
    <3> QED
      BY <2>1, <1>a DEF NoThread
  <2>3. row[j].stage \in {"failed", "cancelled"}
    BY <1>3 DEF RetryRead
  <2>4. Kept(t) /\ KeepsSlot(t)
    BY <1>1, <2>2, <2>3 DEF Kept, KeepsSlot, Says, Holds, Holding
  <2>5. /\ \A u \in Thread : u # t => met[u] \subseteq met'[u]
        /\ \A u \in Thread : u # t /\ u # other => met'[u] = met[u]
        /\ "store" \in met'[other] <=> "store" \in met[other]
        /\ (thread[other].pc = "requeue" \/ (thread[other].pc # "none" /\ Twin(other)))
              => "twice" \in met'[t] /\ "twice" \in met'[other]
    BY <1>3, <1>a DEF RetryRead, Read, At, Twin, other
  <2>6. Pending(other) => Twin(t)' /\ Twin(other)'
    <3> SUFFICES ASSUME Pending(other)
                 PROVE  thread[other].pc = "requeue" \/ (thread[other].pc # "none" /\ Twin(other))
      BY <2>5 DEF Twin
    <3>1. JobOf(other) = j
      BY DEF other, JobOf
    <3>2. thread[other].pc # "none"
      BY DEF Pending, Writing, Succeeded
    <3>3. CASE Finds(other)
      BY <2>3, <3>1, <3>3
         DEF Finds, Failing, Incomplete, Terminal, Pending, Writing, Succeeded
    <3> QED
      BY <1>a, <3>2, <3>3 DEF Writers
  <2>7. Finds(t)'
    BY <1>1, <2>2, <2>3 DEF Finds, Succeeded
  <2>8. \A u \in Thread : u # t =>
            (Finds(u) => Finds(u)') /\ (Pending(u)' <=> Pending(u)) /\ (Twin(u) => Twin(u)')
    BY <1>1, <2>2, <2>5 DEF Finds, Incomplete, Failing, Succeeded, Pending, Twin
  <2>9. Writers'
    <3>1. \A u \in Thread : Pending(u)' => Twin(u)' \/ Finds(u)'
      BY <2>7, <2>8 DEF Writers
    <3>2. ASSUME NEW u \in Thread, NEW w \in Thread, Pending(u)', Pending(w)',
                 JobOf(u) = JobOf(w), u # w
          PROVE  Twin(u)'
      <4>1. CASE u # t /\ w # t
        BY <2>8, <3>2, <4>1 DEF Writers
      <4>2. CASE u = t
        BY <1>b, <2>6, <2>8, <3>2, <4>2
      <4>3. CASE w = t
        BY <1>b, <2>6, <2>8, <3>2, <4>3
      <4> QED
        BY <4>1, <4>2, <4>3
    <3> QED
      BY <3>1, <3>2 DEF Writers
  <2> QED
    BY <2>4, <2>9, RecordStep, SlotsStep
<1> QED
  BY <1>2, <1>3 DEF Requests

\* A call that fails leaves its thread where it still finds what it expects; only the end of
\* a success that has been written becomes a failure.
LEMMA StoreFailsStep ==
    ASSUME JobsInv, NEW t \in Thread, StoreFails(t)
    PROVE  Record' /\ Slots' /\ Writers'
<1> USE DEF JobsInv
<1>1. /\ "store" \in happened' /\ happened \subseteq happened' /\ row' = row
      /\ busy' = busy /\ slotState' = slotState /\ up' = up /\ cancelling' = cancelling
  BY DEF StoreFails, Happens, OnlyThread
<1>2. thread[t].pc # "none"
  BY DEF StoreFails, At
<1>3. /\ thread'[t] = AfterRaise(t) /\ AfterRaise(t) \in ThreadType
      /\ \A u \in Thread : u # t => thread'[u] = thread[u]
  BY AfterRaiseIs DEF TypeInv
<1>4. Kept(t) /\ KeepsSlot(t)
  <2>1. row[JobOf(t)].stage # "none" \/ thread'[t].pc \notin {"none", "insert"} =>
            row'[JobOf(t)].stage # "none"
    <3>1. thread[t].pc = "insert" => thread'[t].pc = "none"
      BY <1>3, AfterRaiseIs DEF NoThread, Holds, Holding
    <3> QED
      BY <1>1, <1>2, <3>1 DEF Record
  <2> QED
    BY <1>1, <1>2, <1>3, <2>1, AfterRaiseIs
       DEF Kept, KeepsSlot, Says, Holds, Holding, NoThread, Terminal
<1>5. /\ \A u \in Thread : u # t => met'[u] = met[u]
      /\ met'[t] = met[t] \cup {"store"}
  BY DEF StoreFails, TypeInv, Counted
<1>6. Pending(t)' => Pending(t) /\ (Finds(t) => Finds(t)')
  <2>1. CASE AfterRaise(t) = NoThread
    BY <1>3, <2>1 DEF NoThread, Pending, Writing, Succeeded
  <2>2. CASE /\ AfterRaise(t).pc = "dispatchFailed"
             /\ thread[t].pc \in {"assign", "attempt", "dispatch"}
    BY <1>1, <1>3, <2>2 DEF Pending, Writing, Finds, Failing, Succeeded, Incomplete
  <2>3. CASE /\ AfterRaise(t).pc = "end" /\ AfterRaise(t).mine.stage = "failed"
             /\ \/ thread[t].pc = "execute"
                \/ thread[t].pc \in {"end", "finish"} /\ thread[t].mine.stage = "succeeded"
    <3>1. Pending(t)
      BY <2>3 DEF Pending, Writing, Succeeded
    <3>2. ASSUME Finds(t) PROVE Incomplete(JobOf(t)) \/ row[JobOf(t)].stage = "succeeded"
      BY <2>3, <3>2 DEF Finds, Failing, Succeeded, Incomplete, Terminal
    <3> QED
      BY <1>1, <1>3, <1>5, <2>3, <3>1, <3>2 DEF Finds, Failing, Succeeded, Incomplete
  <2>4. CASE AfterRaise(t).pc = "release"
    BY <1>3, <2>4 DEF Pending, Writing, Succeeded
  <2> QED
    BY <2>1, <2>2, <2>3, <2>4, AfterRaiseIs
<1>7. \A u \in Thread : u # t =>
          (Finds(u)' <=> Finds(u)) /\ (Pending(u)' <=> Pending(u))
  BY <1>1, <1>3, <1>5 DEF Finds, Incomplete, Failing, Succeeded, Pending
<1>8. \A u \in Thread : Twin(u)' <=> Twin(u)
  BY <1>5 DEF Twin
<1>9. Writers'
  BY <1>6, <1>7, <1>8 DEF Writers
<1> QED
  BY <1>1, <1>4, <1>9, RecordStep, SlotsStep

\* The steps that leave the threads, the rows and the marks alone.
LEMMA OtherStep ==
    ASSUME JobsInv, thread' = thread, row' = row, busy' = busy, slotState' = slotState,
           met' = met, happened \subseteq happened', ~ up' => ~ up,
           \A j \in Job : \/ cancelling'[j] = cancelling[j]
                          \/ /\ cancelling'[j] = row[j] /\ Incomplete(j)
                             /\ "cancel" \in happened'
    PROVE  Record' /\ Slots' /\ Writers'
<1> USE DEF JobsInv
<1>1. Record'
  <2>1. \A t \in Thread : Says(t)'
    BY DEF Record, Says
  <2>2. ASSUME NEW j \in Job, cancelling'[j] # NoRow
        PROVE  /\ "cancel" \in happened' /\ row'[j].stage # "none"
               /\ cancelling'[j].stage \notin Terminal \cup {"none"}
    BY <2>2 DEF Record, Incomplete
  <2> QED
    BY <2>1, <2>2 DEF Record
<1>2. (Marked <=> Marked') /\ (RowsNameTheirs <=> RowsNameTheirs') /\ (Writers <=> Writers')
  BY DEF Marked, RowsNameTheirs, Writers, Holds, Names, Incomplete, Finds, Pending, Twin,
         Failing, Succeeded
<1>3. Slots'
  BY <1>2, StillUndisturbed DEF Slots
<1> QED
  BY <1>1, <1>2, <1>3

LEMMA CancelWriteStep ==
    ASSUME JobsInv, NEW j \in Job, CancelWrite(j)
    PROVE  Record' /\ Slots' /\ Writers'
<1> USE DEF JobsInv
<1>1. /\ "cancel" \in happened /\ happened' = happened /\ thread' = thread /\ up' = up
      /\ busy' = busy /\ slotState' = slotState /\ met' = met
  BY DEF CancelWrite, Calm, Record
<1>2. /\ row[j].stage # "none" /\ row'[j].stage = "cancel_requested"
      /\ \A i \in Job : i # j => row'[i] = row[i]
      /\ \A i \in Job : cancelling'[i] \in {cancelling[i], NoRow}
  <2>1. cancelling[j] \in Row /\ row \in [Job -> Row]
    BY DEF TypeInv
  <2>2. [cancelling[j] EXCEPT !.stage = "cancel_requested"].stage = "cancel_requested"
    BY <2>1 DEF Row
  <2> QED
    BY <2>1, <2>2 DEF CancelWrite, Record, TypeInv
<1>3. \A i \in Job : row[i].stage # "none" => row'[i].stage # "none"
  BY <1>2
<1>4. Record'
  <2>1. \A t \in Thread : Says(t)'
    BY <1>1 DEF Record, Says
  <2>2. \A t \in Thread : thread'[t].pc \notin {"none", "insert"} => row'[JobOf(t)].stage # "none"
    BY <1>1, <1>3, ThreadParts DEF Record
  <2>3. ASSUME NEW i \in Job, cancelling'[i] # NoRow
        PROVE  /\ "cancel" \in happened' /\ row'[i].stage # "none"
               /\ cancelling'[i].stage \notin Terminal \cup {"none"}
    BY <1>1, <1>2, <1>3, <2>3 DEF Record
  <2> QED
    BY <1>1, <2>1, <2>2, <2>3 DEF Record
<1>5. Marked => Marked'
  BY <1>1 DEF Marked, Holds
<1>6. Slots'
  BY <1>1, <1>5 DEF Slots, Undisturbed, Did
<1>7. ASSUME NEW t \in Thread, Finds(t), Pending(t) PROVE Finds(t)'
  <2>1. CASE JobOf(t) = j
    BY <1>1, <1>2, <1>7, <2>1 DEF Finds, Incomplete, Terminal, Succeeded
  <2>2. CASE JobOf(t) # j
    BY <1>1, <1>2, <1>7, <2>2, ThreadParts DEF Finds, Incomplete, Failing, Succeeded
  <2> QED
    BY <2>1, <2>2
<1>8. \A t \in Thread : (Pending(t)' <=> Pending(t)) /\ (Twin(t)' <=> Twin(t))
  BY <1>1 DEF Pending, Succeeded, Twin
<1>9. Writers'
  BY <1>7, <1>8 DEF Writers
<1> QED
  BY <1>4, <1>6, <1>9

\* A restored execution takes the slot of its row, which nobody holds.
LEMMA RestoreStep ==
    ASSUME JobsInv, NEW j \in Job, Restore(j)
    PROVE  Record' /\ Slots' /\ Writers'
<1> DEFINE t == <<j, 1>>  s == row[j].slot  r == row[j]
           restored(pc) == [NoThread EXCEPT !.mine = r, !.slot = s, !.pc = pc]
<1> USE DEF JobsInv
<1>1. /\ ~ up /\ "crash" \in happened /\ Incomplete(j) /\ thread[t].pc = "none"
      /\ thread[<<j, 2>>].pc = "none" /\ t \in Thread /\ JobOf(t) = j
      /\ happened \subseteq happened' /\ row' = row /\ up' = up /\ cancelling' = cancelling
      /\ \A u \in Thread : u # t => met'[u] = met[u]
  BY DEF Restore, At, Record, Happens, Thread, JobOf, TypeInv, Counted
<1>2. /\ \/ thread' = [thread EXCEPT ![t] = restored("dispatchFailed")]
         \/ /\ thread' = [thread EXCEPT ![t] = restored("execute")]
            /\ s # Nobody
            /\ busy' = busy \cup {s} /\ slotState' = [slotState EXCEPT ![s] = "busy"]
      /\ \/ busy' = busy /\ slotState' = slotState
         \/ /\ s # Nobody
            /\ busy' = busy \cup {s} /\ slotState' = [slotState EXCEPT ![s] = "busy"]
  BY DEF Restore
<1>3. s \in Slot \cup {Nobody} /\ thread \in [Thread -> ThreadType]
      /\ slotState \in [Slot -> {"ready", "busy"}]
  BY DEF TypeInv, Row
<1> HIDE DEF r, s, t
<1>4. /\ \/ thread'[t].pc = "dispatchFailed"
         \/ /\ thread'[t].pc = "execute" /\ thread'[t].slot = s /\ thread'[t].mine = r
            /\ s \in Slot
            /\ busy' = busy \cup {s} /\ slotState' = [slotState EXCEPT ![s] = "busy"]
      /\ busy \subseteq busy'
      /\ \A z \in Slot : slotState[z] = "busy" => slotState'[z] = "busy"
  <2>1. /\ restored("dispatchFailed").pc = "dispatchFailed"
        /\ restored("execute").pc = "execute" /\ restored("execute").slot = s
        /\ restored("execute").mine = r
    BY DEF NoThread
  <2> HIDE DEF restored
  <2> QED
    BY <1>1, <1>2, <1>3, <2>1
<1>5. \A u \in Thread : u # t => thread'[u] = thread[u]
  BY <1>2, <1>3
<1>6. Record'
  <2>1. Says(t)'
    BY <1>4 DEF Says
  <2>2. \A u \in Thread : Says(u)'
    BY <1>1, <1>5, <2>1 DEF Says, Record
  <2>3. \A i \in Job : <<i, 2>> # t /\ <<i, 2>> \in Thread
    BY DEF t, Thread
  <2>4. \A u \in Thread : thread'[u].pc \notin {"none", "insert"} => row'[JobOf(u)].stage # "none"
    BY <1>1, <1>5 DEF Record, Incomplete
  <2> QED
    BY <1>1, <1>5, <2>2, <2>3, <2>4 DEF Record
<1>7. Writers'
  <2>1. \A u \in Thread : JobOf(u) = j /\ u # t => ~ Pending(u)'
    <3>1. \A u \in Thread : JobOf(u) = j => thread[u].pc = "none"
      BY <1>1 DEF Thread, JobOf, t
    <3> QED
      BY <1>5, <3>1 DEF Pending, Writing, Succeeded
  <2>2. Finds(t)'
    BY <1>1, <1>4 DEF Finds, Incomplete, Succeeded
  <2>3. \A u \in Thread : u # t =>
            (Finds(u)' <=> Finds(u)) /\ (Pending(u)' <=> Pending(u)) /\ (Twin(u)' <=> Twin(u))
    BY <1>1, <1>5 DEF Finds, Incomplete, Failing, Succeeded, Pending, Twin
  <2> QED
    BY <1>1, <2>1, <2>2, <2>3 DEF Writers
<1>8. ASSUME Undisturbed PROVE Marked' /\ RowsNameTheirs'
  <2>1. Marked /\ RowsNameTheirs
    BY <1>8 DEF Slots
  <2>2. \A u \in Thread : Holds(u) => u # t
    BY <1>1 DEF Holds, Holding
  <2>3. \A i \in Job, z \in Slot : Names(i, z)' <=> Names(i, z)
    BY <1>1 DEF Names, Incomplete
  <2>4. CASE thread'[t].pc = "dispatchFailed"
    <3>1. \A u \in Thread : (Holds(u)' <=> Holds(u)) /\ (Holds(u) => thread'[u] = thread[u])
      BY <1>5, <2>2, <2>4 DEF Holds, Holding
    <3>2. Marked'
      BY <1>4, <2>1, <3>1 DEF Marked, TypeInv
    <3>3. RowsNameTheirs'
      <4>1. \A u \in Thread : thread'[u].pc \in {"finish", "release"} => thread'[u] = thread[u]
        BY <1>5, <2>4
      <4>2. \A u \in Thread : thread'[u].pc \in {"finish", "release"} =>
                ~ Names(JobOf(u), thread[u].slot)'
        BY <1>1, <2>1, <4>1 DEF RowsNameTheirs, Names, Incomplete
      <4> QED
        BY <1>4, <2>1, <2>3, <3>1, <4>2 DEF RowsNameTheirs
    <3> QED
      BY <3>2, <3>3
  <2>5. CASE /\ thread'[t].pc = "execute" /\ thread'[t].slot = s /\ thread'[t].mine = r
             /\ s \in Slot
             /\ busy' = busy \cup {s} /\ slotState' = [slotState EXCEPT ![s] = "busy"]
    <3>1. Names(j, s) /\ r.slot = s
      BY <1>1, <2>5 DEF Names, s, r
    <3>2. \A u \in Thread : Holds(u) => thread[u].slot # s
      <4>1. \A u \in Thread : JobOf(u) = j => thread[u].pc = "none"
        BY <1>1 DEF Thread, JobOf, t
      <4> QED
        BY <2>1, <2>5, <3>1, <4>1 DEF RowsNameTheirs, Holds, Holding
    <3>3. \A u \in Thread : u # t => (Holds(u)' <=> Holds(u)) /\ thread'[u] = thread[u]
      BY <1>5 DEF Holds
    <3>4. \A u \in Thread : Holds(u) => /\ thread[u].slot \in busy /\ thread[u].slot \in Slot
                                        /\ slotState[thread[u].slot] = "busy"
      BY <2>1 DEF Marked, TypeInv
    <3>5. Marked'
      <4>1. \A u \in Thread : Holds(u)' =>
                /\ thread'[u].slot \in busy' /\ slotState'[thread'[u].slot] = "busy"
                /\ thread'[u].mine.slot = thread'[u].slot
        BY <1>3, <2>1, <2>5, <3>1, <3>3, <3>4 DEF Marked
      <4>2. \A u, w \in Thread :
                Holds(u)' /\ Holds(w)' /\ thread'[u].slot = thread'[w].slot => u = w
        BY <2>1, <2>5, <3>2, <3>3 DEF Marked
      <4> QED
        BY <4>1, <4>2 DEF Marked
    <3>6. \A u \in Thread : thread'[u].pc \in {"finish", "release"} =>
              ~ Names(JobOf(u), thread[u].slot)'
      <4>1. \A u \in Thread : thread'[u].pc \in {"finish", "release"} => thread'[u] = thread[u]
        BY <1>5, <2>5
      <4> QED
        BY <1>1, <2>1, <4>1 DEF RowsNameTheirs, Names, Incomplete
    <3>7. ASSUME NEW i \in Job, NEW z \in Slot, Names(i, z)'
          PROVE  /\ slotState'[z] = "busy"
                 /\ \A u \in Thread : Holds(u)' /\ thread'[u].slot = z => JobOf(u) = i
                 /\ \A k \in Job : Names(k, z)' => k = i
      <4>1. /\ slotState[z] = "busy"
            /\ \A u \in Thread : Holds(u) /\ thread[u].slot = z => JobOf(u) = i
            /\ \A k \in Job : Names(k, z) => k = i
        BY <2>1, <2>3, <3>7 DEF RowsNameTheirs
      <4>2. slotState'[z] = "busy"
        BY <1>3, <2>5, <4>1
      <4>3. z = s => i = j
        BY <3>1, <4>1
      <4> QED
        BY <1>1, <2>3, <2>5, <3>3, <4>1, <4>2, <4>3
    <3> QED
      BY <3>5, <3>6, <3>7 DEF RowsNameTheirs
  <2> QED
    BY <1>4, <2>4, <2>5
<1>9. Slots'
  <2>1. "crash" \in happened'
    BY <1>1
  <2> QED
    BY <1>1, <1>8, <2>1, StillUndisturbed DEF Slots
<1> QED
  BY <1>6, <1>7, <1>9

LEMMA CrashStep ==
    ASSUME JobsInv, Crash
    PROVE  Record' /\ Slots' /\ Writers'
<1> USE DEF JobsInv
<1>1. /\ \A t \in Thread : thread'[t].pc = "none"
      /\ \A j \in Job : cancelling'[j] = NoRow /\ <<j, 2>> \in Thread
      /\ "crash" \in happened' /\ happened \subseteq happened'
      /\ row' = row /\ slotState' = slotState
  BY DEF Crash, NoThread, Spend, Happens, durable, Thread
<1>2. Record'
  BY <1>1 DEF Record, Says
<1>3. Marked' /\ Writers'
  BY <1>1 DEF Marked, Writers, Pending, Succeeded, Holds, Holding, Writing
<1>4. Undisturbed' => RowsNameTheirs'
  BY <1>1, StillUndisturbed DEF Slots, RowsNameTheirs, Names, Incomplete, Holds, Holding
<1> QED
  BY <1>2, <1>3, <1>4 DEF Slots

LEMMA JobsInvInit == Init => JobsInv
<1> SUFFICES ASSUME Init PROVE JobsInv
  OBVIOUS
<1>1. /\ \A t \in Thread : thread[t].pc = "none"
      /\ \A j \in Job : cancelling[j] = NoRow /\ row[j].stage = "none"
      /\ up
  BY DEF Init, NoThread, NoRow
<1>2. Record
  BY <1>1 DEF Record, Says
<1>3. Slots
  BY <1>1 DEF Slots, Marked, RowsNameTheirs, Holds, Holding, Names, Incomplete
<1>4. Writers
  BY <1>1 DEF Writers, Pending, Succeeded, Writing
<1> QED
  BY <1>2, <1>3, <1>4, InitType DEF JobsInv

LEMMA JobsInvStep == JobsInv /\ [Next]_vars => JobsInv'
<1> SUFFICES ASSUME JobsInv, [Next]_vars PROVE Record' /\ Slots' /\ Writers'
  BY TypeStep DEF JobsInv
<1>a. TypeInv /\ Record
  BY DEF JobsInv
<1>1. ASSUME NEW t \in Thread, Requests(t) \/ Request(t) \/ Execute(t) \/ StoreFails(t)
      PROVE  Record' /\ Slots' /\ Writers'
  BY <1>1, <1>a, RequestsStep, StoreFailsStep, ThreadStep, RequestSteps, ExecuteSteps
<1>2. ASSUME NEW j \in Job, CancelWrite(j) \/ Restore(j)
      PROVE  Record' /\ Slots' /\ Writers'
  BY <1>2, CancelWriteStep, RestoreStep
<1>3. CASE \/ \E t \in Thread : TouchCancel(t)
           \/ \E j \in Job : CancelRead(j)
           \/ \E s \in Slot : Runner(s) \/ RunnerLoses(s) \/ LeaseLost(s)
           \/ Serve \/ UNCHANGED vars
  <2>1. /\ thread' = thread /\ row' = row /\ busy' = busy /\ slotState' = slotState
        /\ met' = met /\ happened \subseteq happened' /\ (~ up' => ~ up)
    BY <1>3 DEF TouchCancel, CancelRead, Runner, RunnerTakes, RunnerEnds, RunnerLoses,
                LeaseLost, Serve, Spend, Happens, Calm, durable, memory, vars
  <2>2. \A i \in Job : \/ cancelling'[i] = cancelling[i]
                       \/ /\ cancelling'[i] = row[i] /\ Incomplete(i)
                          /\ "cancel" \in happened'
    <3>1. ASSUME NEW j \in Job, CancelRead(j)
          PROVE  \A i \in Job : \/ cancelling'[i] = cancelling[i]
                                \/ /\ cancelling'[i] = row[i] /\ Incomplete(i)
                                   /\ "cancel" \in happened'
      BY <3>1, <1>a DEF CancelRead, Spend, Happens, TypeInv
    <3> QED
      BY <1>3, <3>1 DEF TouchCancel, Runner, RunnerTakes, RunnerEnds, RunnerLoses,
                        LeaseLost, Serve, memory, vars
  <2> QED
    BY <2>1, <2>2, OtherStep
<1>4. CASE Crash
  BY <1>4, CrashStep
<1> QED
  BY <1>1, <1>2, <1>3, <1>4 DEF Next

-----------------------------------------------------------------------------
(***************************************************************************)
(* What follows.                                                           *)
(***************************************************************************)

\* The invariant the other results rest on: the marks of JobScheduler, the rows of the
\* jobs and the executions agree on who has which slot, and who may write which row.
THEOREM JobsInvariant == Spec => []JobsInv
BY JobsInvInit, JobsInvStep, PTL DEF Spec

\* Whatever requests, executions, restarts, Runner and repository failures do, the rows,
\* attempts, events and reservations of JobService keep their types.
THEOREM JobsTypeCorrect == Spec => []TypeOK
<1>1. JobsInv => TypeOK
  BY TypesAreRight DEF JobsInv
<1> QED
  BY <1>1, JobsInvariant, PTL

\* JobScheduler.reserve never gives a slot to two executions, and after a restart that no
\* such failure preceded restore_inflight does not either: a slot runs one job at a time.
THEOREM JobsSlotHeldOnce == Spec => []ReservedOnce
<1>1. JobsInv => ReservedOnce
  <2> SUFFICES ASSUME JobsInv, NEW t \in Thread, NEW u \in Thread,
                      thread[t].pc \in Holding, thread[u].pc \in Holding,
                      thread[t].slot = thread[u].slot,
                      ~ ("crash" \in happened /\ Did({"dispatch", "store", "cancel"}))
               PROVE  t = u
    BY DEF ReservedOnce
  <2>1. Marked
    BY DEF JobsInv, Slots, Undisturbed
  <2> QED
    BY <2>1 DEF Marked, Holds
<1> QED
  BY <1>1, JobsInvariant, PTL

\* A row that has ended is written by a retry only, and then back to QUEUED: an execution,
\* a request, a restart, or an event of an earlier attempt does not change how a job ended.
\* The three writers of the same job that can are those that TerminalStays names.
THEOREM JobsStayEnded == Spec => TerminalStays
<1> DEFINE Stays(j) ==
             \/ row[j].stage # "succeeded" /\ row'[j].stage = "queued"
             \/ /\ row'[j].stage = "cancel_requested"
                /\ cancelling[j].stage \notin Terminal \cup {"none"}
             \/ /\ row[j].stage = "succeeded" /\ row'[j].stage = "failed"
                /\ \E t \in {j} \X {1, 2} : At(t, "end") /\ "store" \in met[t]
             \/ \E t \in {j} \X {1, 2} : ~ At(t, "none") /\ "twice" \in met[t]
           Stay == \A j \in Job :
                       row[j].stage \in Terminal /\ row[j].stage # row'[j].stage => Stays(j)
<1>1. ASSUME JobsInv, [Next]_vars PROVE Stay
  <2> SUFFICES ASSUME NEW j \in Job, row[j].stage \in Terminal, row[j].stage # row'[j].stage
               PROVE  Stays(j)
    OBVIOUS
  <2>a. TypeInv /\ Record /\ Writers
    BY <1>1 DEF JobsInv
  <2>1. ASSUME NEW t \in Thread, Request(t) \/ Execute(t)
        PROVE  Stays(j)
    <3>1. Steps(t)
      BY <2>1, <2>a, RequestSteps, ExecuteSteps
    <3>2. j = JobOf(t) /\ thread[t].pc \in Writing /\ Pending(t)
      BY <3>1 DEF Steps, Kept, WritesOwn, Pending
    <3>3. t \in {j} \X {1, 2} /\ ~ At(t, "none")
      BY <3>2 DEF Thread, JobOf, At, Writing
    <3>4. CASE Twin(t)
      BY <3>3, <3>4 DEF Twin
    <3>5. CASE Finds(t)
      <4>1. \/ thread[t].pc = "requeue" /\ row[j].stage # "succeeded"
            \/ Failing(t)
        BY <3>2, <3>5 DEF Finds, Incomplete, Terminal, Writing
      <4>2. CASE thread[t].pc = "requeue" /\ row[j].stage # "succeeded"
        <5>1. Requeue(t)
          BY <2>1, <4>2
             DEF Request, Insert, Inputs, Reserve, Assign, AddAttempt, Dispatch, Undo,
                 MarkDispatchFailed, FinishFailed, Execute, ReadEvent, Timeout, Register, End,
                 FinishAttempt, Release, At
        <5>2. row'[j] = thread[t].mine /\ thread[t].mine.stage = "queued"
          BY <2>a, <3>2, <4>2, <5>1 DEF Requeue, Save, Record, Says, TypeInv
        <5> QED
          BY <4>2, <5>2
      <4>3. CASE Failing(t)
        <5>1. End(t)
          BY <2>1, <4>3
             DEF Failing, Request, Insert, Requeue, Inputs, Reserve, Assign, AddAttempt,
                 Dispatch, Undo, MarkDispatchFailed, FinishFailed, Execute, ReadEvent, Timeout,
                 Register, FinishAttempt, Release, At
        <5>2. row'[j] = thread[t].mine
          BY <2>a, <3>2, <5>1 DEF End, Save, TypeInv
        <5> QED
          BY <3>2, <3>3, <4>3, <5>2 DEF Failing, At
      <4> QED
        BY <4>1, <4>2, <4>3
    <3> QED
      BY <2>a, <3>2, <3>4, <3>5 DEF Writers
  <2>2. ASSUME NEW i \in Job, CancelWrite(i)
        PROVE  Stays(j)
    <3>1. i = j
      BY <2>2, <2>a DEF CancelWrite, TypeInv
    <3>2. cancelling[j] \in Row /\ cancelling[j] # NoRow
      BY <2>2, <2>a, <3>1 DEF CancelWrite, TypeInv
    <3>3. row'[j].stage = "cancel_requested"
      BY <2>2, <2>a, <3>1, <3>2 DEF CancelWrite, TypeInv, Row
    <3> QED
      BY <2>a, <3>2, <3>3 DEF Record
  <2>3. CASE row' = row
    BY <2>3
  <2>4. CASE Next
    <3>1. ASSUME NEW t \in Thread, Requests(t) \/ TouchCancel(t) \/ StoreFails(t)
          PROVE  row' = row
      BY <3>1 DEF Requests, Admit, RetryRead, Read, TouchCancel, StoreFails, durable
    <3>2. ASSUME NEW i \in Job, CancelRead(i) \/ Restore(i)
          PROVE  row' = row
      BY <3>2 DEF CancelRead, Restore, durable
    <3>3. ASSUME NEW s \in Slot, Runner(s) \/ RunnerLoses(s) \/ LeaseLost(s)
          PROVE  row' = row
      BY <3>3 DEF Runner, RunnerTakes, RunnerEnds, RunnerLoses, LeaseLost, durable
    <3>4. Crash \/ Serve => row' = row
      BY DEF Crash, Serve, durable
    <3> QED
      BY <2>1, <2>2, <2>3, <2>4, <3>1, <3>2, <3>3, <3>4 DEF Next
  <2> QED
    BY <1>1, <2>3, <2>4 DEF vars, durable
<1>2. JobsInv /\ [Next]_vars => [Stay]_vars
  BY <1>1
<1> QED
  BY <1>2, JobsInvariant, PTL DEF Spec, TerminalStays
=============================================================================
