------------------------- MODULE SqlAgentRepository -------------------------
(***************************************************************************)
(* SqlAgentRepository (repositories/sql_agent.py over db/models/agent.py): *)
(* every operation is a PostgreSQL transaction that locks its rows one     *)
(* after the other, decides on what it then reads, writes, and commits.    *)
(* run, call and approval are the committed rows.  Clients are the         *)
(* coroutines of all Gateways; each runs one transaction at a time.        *)
(*                                                                         *)
(* Event ids come from one sequence when a row is inserted, and become     *)
(* visible when the transaction commits.  Only their order matters, so ids *)
(* are numbered among the open transactions.                               *)
(***************************************************************************)
EXTENDS AgentRepository, Sequences, FiniteSets

CONSTANTS
    Client,
    ThreadOf,       \* the agent thread of each run
    Offered         \* the kinds of operation this instance performs on each run

ASSUME SqlAssumption ==
    /\ IsFiniteSet(Client) /\ Client # {} /\ DOMAIN ThreadOf = Run /\ DOMAIN Offered = Run

VARIABLE tx         \* the transaction of each client

sqlVars == <<stored, tx>>

Actor == Executor \cup {Nobody}
RunRow(r) == <<"run", r>>
CallRow(c) == <<"call", c>>
ApprovalRow(c) == <<"approval", c>>
ThreadRow(r) == <<"thread", ThreadOf[r]>>
ThreadShare(r) == <<"share", ThreadOf[r]>>

\* An operation and its arguments; to is the status a caller asks for.
Op(kind, r, c, e, from, to) ==
    [kind |-> kind, r |-> r, c |-> c, e |-> e, from |-> from, to |-> to]

RunOps(r) ==
    {Op(k, r, Nobody, e, "none", "none") :
         k \in {"create", "claim", "release", "renew", "append", "finish"}, e \in Executor}
    \cup {Op("transition", r, Nobody, e, f, t) : e \in Executor, f \in DOMAIN Allowed,
              t \in {"streaming", "cancelling", "cancelled", "failed"}}
    \cup {Op("transition", r, Nobody, Nobody, f, t) : f \in DOMAIN Allowed,
              t \in {"cancelling", "cancelled"}}

CallOps(c) ==
    LET r == RunOf[c] IN
    {Op(k, r, c, e, "none", "none") : k \in {"propose", "start"}, e \in Executor}
    \cup {Op("finishTool", r, c, e, "none", t) : e \in Executor, t \in {"succeeded", "failed"}}
    \cup {Op("decide", r, c, e, "none", t) : e \in Executor, t \in {"approved", "rejected"}}
    \cup {Op("finishTool", r, c, Nobody, "none", "failed"),
          Op("expire", r, c, Nobody, "none", "none")}

\* What the runtime asks for: only cancel() acts without an executor, and a
\* transition is one _with_status allows.
Operations ==
    {o \in (UNION {RunOps(r) : r \in Run}) \cup (UNION {CallOps(c) : c \in Call}) :
        /\ o.kind \in Offered[o.r]
        /\ o.kind = "transition" => o.to \in Allowed[o.from]}

\* Mutants: the operations on a tool call do not lock the run, or lock it first.
PlanCallOnly(o) ==
    CASE o.kind = "create" -> <<ThreadRow(o.r)>>
      [] o.kind \in {"start", "finishTool"} -> <<CallRow(o.c)>>
      [] o.kind \in {"decide", "expire"} -> <<ApprovalRow(o.c), CallRow(o.c), RunRow(o.r)>>
      [] OTHER -> <<RunRow(o.r)>>
PlanRunFirst(o) ==
    CASE o.kind = "create" -> <<ThreadRow(o.r)>>
      [] o.kind \in {"start", "finishTool"} -> <<RunRow(o.r), CallRow(o.c)>>
      [] o.kind \in {"decide", "expire"} -> <<ApprovalRow(o.c), CallRow(o.c), RunRow(o.r)>>
      [] OTHER -> <<RunRow(o.r)>>

\* The rows an operation locks FOR UPDATE, in this order.
Plan(o) ==
    CASE o.kind = "create" -> <<ThreadRow(o.r)>>
      [] o.kind \in {"start", "finishTool"} -> <<CallRow(o.c), RunRow(o.r)>>
      [] o.kind \in {"decide", "expire"} ->
            <<ApprovalRow(o.c), CallRow(o.c), RunRow(o.r)>>
      [] OTHER -> <<RunRow(o.r)>>

\* The columns a transaction writes; "keep" leaves the lease columns alone.
NoWrite == [status |-> "none", executor |-> Nobody, lease |-> "keep",
            call |-> "none", approval |-> "none"]
Idle == [pc |-> "idle", op |-> Op("none", Nobody, Nobody, Nobody, "none", "none"),
         held |-> {}, plan |-> <<>>, new |-> NoWrite, id |-> 0, overtaken |-> FALSE]

SqlInit == StoredInit /\ tx = [p \in Client |-> Idle]

Open(p)     == tx[p].pc # "idle"
Others(p)   == {q \in Client \ {p} : Open(q)}
Written(p)  == tx[p].pc \in {"event", "commit"}

\* FOR UPDATE excludes every lock on the row, the FOR KEY SHARE of a foreign key
\* only FOR UPDATE.
Excludes(row, held) ==
    IF row[1] = "share" THEN <<"thread", row[2]>> \in held
    ELSE row \in held \/ (row[1] = "thread" /\ <<"share", row[2]>> \in held)

HeldBy(row, p) == {q \in Others(p) : Excludes(row, tx[q].held)}

Begin(p, o) ==
    /\ ~Open(p)
    /\ o.kind = "create" => run[o.r].status = "none"
    /\ o.kind # "create" => run[o.r].status # "none"
    /\ o.kind \in {"start", "finishTool"} => call[o.c] # "none"
    /\ o.kind \in {"decide", "expire"} => approval[o.c].status # "none"
    /\ o.kind = "transition" => o.from = run[o.r].status    \* as the caller read it
    /\ tx' = [tx EXCEPT ![p] = [Idle EXCEPT !.op = o, !.plan = Plan(o),
                                    !.pc = IF o.kind = "create" THEN "read" ELSE "lock"]]
    /\ UNCHANGED stored

\* Mutant: only the Idempotency-Key is compared.
TakenByKey(r) ==
    \E q \in Run : /\ OwnerOf[q] = OwnerOf[r] /\ run[q].status # "none"
                   /\ KeyOf[q] = KeyOf[r]

Taken(r) ==
    \E q \in Run : /\ OwnerOf[q] = OwnerOf[r] /\ run[q].status # "none"
                   /\ KeyOf[q] = KeyOf[r] \/ Live(q)

\* create_run first looks, without a lock, for the key and for an active run.
ReadFirst(p) ==
    /\ tx[p].pc = "read"
    /\ tx' = [tx EXCEPT ![p] = IF Taken(@.op.r) THEN Idle ELSE [@ EXCEPT !.pc = "lock"]]
    /\ UNCHANGED stored

Lock(p) ==
    LET row == Head(tx[p].plan) IN
    /\ tx[p].pc = "lock" /\ HeldBy(row, p) = {}
    /\ tx' = [tx EXCEPT ![p] = [tx[p] EXCEPT !.held = @ \cup {row}, !.plan = Tail(@),
                  !.pc = IF Len(tx[p].plan) = 1 THEN "check" ELSE "lock"]]
    /\ UNCHANGED stored

-----------------------------------------------------------------------------
(***************************************************************************)
(* What each operation requires of the rows it has locked, and writes.     *)
(***************************************************************************)
Accepts(o) ==
    LET st == run[o.r].status IN
    CASE o.kind = "claim"      -> Claimable(o.r, o.e)
      [] o.kind = "renew"      -> Owned(o.r, o.e)
      [] o.kind = "release"    -> run[o.r].executor = o.e
      [] o.kind = "transition" -> Authorised(o.r, o.e) /\ st = o.from
      [] o.kind \in {"append", "finish", "propose"} ->
                                  Authorised(o.r, o.e) /\ st = "streaming"
      [] o.kind = "start"      ->
            /\ Authorised(o.r, o.e)
            /\ IF o.c \in Costly THEN st = "executing_tool" /\ call[o.c] = "approved"
                                 ELSE st = "streaming" /\ call[o.c] = "proposed"
      [] o.kind = "finishTool" -> Authorised(o.r, o.e) /\ Finishable(o.c, o.to)
      [] o.kind = "decide"     ->
            /\ approval[o.c].status = "pending"
            /\ approval[o.c].due \/ Ended(o.r) \/ st = "waiting_approval"
      [] OTHER                 -> approval[o.c].status = "pending"

Expiring(o) == o.kind = "expire" \/ (o.kind = "decide" /\ (approval[o.c].due \/ Ended(o.r)))

NewStatus(o) ==
    LET st == run[o.r].status IN
    CASE o.kind = "create"     -> "queued"
      [] o.kind = "transition" -> o.to
      [] o.kind = "finish"     -> "completed"
      [] o.kind = "propose"    -> IF call[o.c] = "none" /\ o.c \in Costly
                                    THEN "waiting_approval" ELSE st
      [] o.kind \in {"decide", "expire"} ->
            IF ~Expiring(o) THEN "executing_tool"
            ELSE IF st = "waiting_approval" THEN "expired" ELSE st
      [] OTHER                 -> st

NewOwner(o) ==
    CASE o.kind \in {"create", "claim"} \/ (o.kind = "decide" /\ ~Expiring(o)) -> o.e
      [] o.kind = "release" -> Nobody
      [] OTHER              -> run[o.r].executor

NewLease(o) ==
    CASE o.kind \in {"create", "claim", "renew"} \/ (o.kind = "decide" /\ ~Expiring(o)) -> "set"
      [] o.kind = "release" -> "clear"
      [] OTHER              -> "keep"

NewCall(o) ==
    CASE o.kind = "propose" /\ call[o.c] = "none" ->
                    IF o.c \in Costly THEN "waiting_approval" ELSE "proposed"
      [] o.kind = "start"      -> "running"
      [] o.kind = "finishTool" -> o.to
      [] o.kind \in {"decide", "expire"} -> IF Expiring(o) THEN "expired" ELSE o.to
      [] OTHER                 -> "none"

\* Mutant: an approval stays approved instead of consumed.
NewApprovalKept(o) ==
    CASE o.kind = "propose" /\ call[o.c] = "none" /\ o.c \in Costly -> "pending"
      [] o.kind \in {"decide", "expire"} -> IF Expiring(o) THEN "expired" ELSE o.to
      [] OTHER            -> "none"

NewApproval(o) ==
    CASE o.kind = "propose" /\ call[o.c] = "none" /\ o.c \in Costly -> "pending"
      [] o.kind \in {"decide", "expire"} ->
            IF Expiring(o) THEN "expired"
            ELSE IF o.to = "approved" THEN "consumed" ELSE "rejected"
      [] OTHER            -> "none"

Write(o) == [status |-> NewStatus(o), executor |-> NewOwner(o), lease |-> NewLease(o),
             call |-> NewCall(o), approval |-> NewApproval(o)]

Emits(o) ==
    CASE o.kind \in {"claim", "renew", "release"} -> FALSE
      [] o.kind = "propose"    -> call[o.c] = "none"
      [] o.kind = "finishTool" -> call[o.c] # o.to
      [] OTHER                 -> TRUE

After(o) ==
    IF o.kind = "finish" THEN "thread" ELSE IF Emits(o) THEN "event" ELSE "commit"

\* The ownership check and the decision, on the rows the transaction has locked.
Check(p) ==
    LET o == tx[p].op IN
    /\ tx[p].pc = "check" /\ o.kind # "create"
    /\ tx' = [tx EXCEPT ![p] = IF Accepts(o) THEN [@ EXCEPT !.new = Write(o), !.pc = After(o)]
                                             ELSE Idle]
    /\ UNCHANGED stored

\* finish_run adds the answer to the thread before it writes the run.
LockThread(p) ==
    LET row == ThreadRow(tx[p].op.r) IN
    /\ tx[p].pc = "thread" /\ HeldBy(row, p) = {}
    /\ tx' = [tx EXCEPT ![p] = [tx[p] EXCEPT !.pc = "event", !.held = @ \cup {row}]]
    /\ UNCHANGED stored

\* uq_agent_run_idempotency and uq_agent_runs_owner_active: the insert waits for
\* an open transaction that wrote a run it conflicts with.
IndexHeldBy(p) ==
    {q \in Others(p) :
        LET o == tx[q].op IN
        /\ Written(q) /\ o.kind \notin {"append", "start", "finishTool"}
        /\ OwnerOf[o.r] = OwnerOf[tx[p].op.r]
        /\ o.kind = "create" \/ Live(o.r) \/ KeyOf[o.r] = KeyOf[tx[p].op.r]}

\* A conflict is an IntegrityError: create_run rolls back and answers from a
\* second read, with the existing run or AGENT_RUN_CONCURRENCY_LIMIT.
InsertRun(p) ==
    LET o == tx[p].op IN
    /\ tx[p].pc = "check" /\ o.kind = "create" /\ IndexHeldBy(p) = {}
    /\ tx' = [tx EXCEPT ![p] = IF Taken(o.r) THEN Idle
                               ELSE [@ EXCEPT !.new = Write(o), !.pc = "event"]]
    /\ UNCHANGED stored

\* _add_event: the foreign key to agent_threads takes a share lock, the id is
\* the next of the sequence.
NextId == 1 + Cardinality({p \in Client : tx[p].id > 0})

AddEvent(p) ==
    LET row == ThreadShare(tx[p].op.r) IN
    /\ tx[p].pc = "event" /\ HeldBy(row, p) = {}
    /\ tx' = [tx EXCEPT ![p] = [tx[p] EXCEPT !.pc = "commit", !.held = @ \cup {row},
                                             !.id = NextId]]
    /\ UNCHANGED stored

Renumbered(p, q) == IF tx[q].id > tx[p].id /\ tx[p].id > 0 THEN tx[q].id - 1 ELSE tx[q].id

\* q inserted its event before p did, and p's is visible first.
Overtakes(p, q) ==
    /\ tx[p].id > 0 /\ tx[q].id > 0 /\ tx[q].id < tx[p].id /\ tx[q].op.r = tx[p].op.r

Ends(p, committed) ==
    tx' = [q \in Client |->
              IF q = p THEN Idle
              ELSE [tx[q] EXCEPT !.id = Renumbered(p, q),
                                 !.overtaken = @ \/ (committed /\ Overtakes(p, q))]]

Commit(p) ==
    LET o == tx[p].op  new == tx[p].new IN
    /\ tx[p].pc = "commit"
    /\ run' = [run EXCEPT ![o.r] =
           [run[o.r] EXCEPT !.status = new.status, !.executor = new.executor,
                            !.leased = CASE new.lease = "set"   -> TRUE
                                         [] new.lease = "clear" -> FALSE
                                         [] OTHER               -> @]]
    /\ call' = [c \in Call |-> IF c = o.c /\ new.call # "none" THEN new.call ELSE call[c]]
    /\ approval' = [c \in Call |-> IF c = o.c /\ new.approval # "none"
                                     THEN [status |-> new.approval, due |-> FALSE]
                                     ELSE approval[c]]
    /\ Ends(p, TRUE)

\* The client is cancelled or dies, or the server ends a deadlock.
Rollback(p) ==
    /\ Open(p)
    /\ Ends(p, FALSE)
    /\ UNCHANGED stored

\* Only a transaction that locks the row acts on a lapsed lease or approval, so one
\* that lapses between the check and the commit of another lapses after it.
Decided(p) == tx[p].pc \in {"thread", "event", "commit"}

Time ==
    /\ \/ \E r \in Run : /\ LeaseLapses(r)
                          /\ \A p \in Client : Decided(p) => tx[p].op.r # r
       \/ \E c \in Call : /\ ApprovalFallsDue(c)
                           /\ \A p \in Client : Decided(p) => tx[p].op.c # c
    /\ UNCHANGED tx

SqlNext ==
    \/ \E p \in Client : \/ \E o \in Operations : Begin(p, o)
                         \/ ReadFirst(p) \/ Lock(p) \/ Check(p) \/ LockThread(p)
                         \/ InsertRun(p) \/ AddEvent(p) \/ Commit(p) \/ Rollback(p)
    \/ Time

SqlSpec == SqlInit /\ [][SqlNext]_sqlVars

-----------------------------------------------------------------------------
SqlTypeOK ==
    /\ StoredTypeOK
    /\ \A p \in Client :
         /\ tx[p].pc \in {"idle", "read", "lock", "check", "thread", "event", "commit"}
         /\ Open(p) => tx[p].op \in Operations
         /\ tx[p].id \in 0..Cardinality(Client) /\ tx[p].overtaken \in BOOLEAN

\* The rows, as transactions commit them, take only the indivisible steps the
\* in-memory repository takes, whichever rows are locked in which order.
ImplementsRepository == RepositorySpec

\* A run's events become visible in the order of their ids, so a stream that
\* resumes after the last id it saw (list_events, Last-Event-ID) misses none.
EventsCommitInOrder == \A p \in Client : ~tx[p].overtaken

\* Whom a transaction waits for.
WaitsFor(p) ==
    LET o == tx[p].op IN
    CASE tx[p].pc = "lock"   -> HeldBy(Head(tx[p].plan), p)
      [] tx[p].pc = "check" /\ o.kind = "create" -> IndexHeldBy(p)
      [] tx[p].pc = "thread" -> HeldBy(ThreadRow(o.r), p)
      [] tx[p].pc = "event"  -> HeldBy(ThreadShare(o.r), p)
      [] OTHER               -> {}

\* No transactions wait for each other in a circle.  A creation may: it waits in the
\* unique index while it holds its thread (see README).
NoDeadlock ==
    \A S \in SUBSET {p \in Client : tx[p].op.kind # "create"} :
        S # {} => \E p \in S : WaitsFor(p) \cap S = {}
=============================================================================
