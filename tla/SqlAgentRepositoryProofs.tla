---------------------- MODULE SqlAgentRepositoryProofs ----------------------
(***************************************************************************)
(* The PostgreSQL form of the repository, proved for any finite number of  *)
(* clients and any runs, calls, executors and threads.                     *)
(*                                                                         *)
(* The argument: an operation decides after it has locked the row of its   *)
(* run, and the operations on a call or an approval lock the run as well.  *)
(* So of the transactions that have decided at most one is about a run,    *)
(* and what it decided still holds when it commits; its commit is then one *)
(* step of AgentRepository.  A creation locks no run: the unique indexes   *)
(* take the place of the lock.                                             *)
(***************************************************************************)
EXTENDS SqlAgentRepository, AgentRepositoryProofs, FiniteSetTheorems

Pc == {"idle", "read", "lock", "check", "thread", "event", "commit"}
Deciding == {"thread", "event", "commit"}
OnCall == {"propose", "start", "finishTool", "decide", "expire"}

(***************************************************************************)
(* The inductive invariant.                                                *)
(***************************************************************************)
TransactionOK(t) ==
    /\ DOMAIN t = {"pc", "op", "held", "plan", "new", "id", "overtaken"}
    /\ t.pc \in Pc
    /\ t.pc # "idle" => t.op \in Operations
    /\ t.id \in 0..Cardinality(Client)
    /\ t.overtaken = FALSE

\* The rows an operation has locked once its plan is empty.
Locked(o) ==
    CASE o.kind = "create" -> {ThreadRow(o.r)}
      [] o.kind \in {"start", "finishTool"} -> {CallRow(o.c), RunRow(o.r)}
      [] o.kind \in {"decide", "expire"} -> {ApprovalRow(o.c), CallRow(o.c), RunRow(o.r)}
      [] OTHER -> {RunRow(o.r)}

\* How far the plan of an operation has come.
Waiting(o, held, plan) ==
    \/ o.kind = "create" /\ plan = <<ThreadRow(o.r)>> /\ held = {}
    \/ o.kind # "create" /\ plan = <<RunRow(o.r)>> /\ held = Locked(o) \ {RunRow(o.r)}
    \/ /\ o.kind \in {"start", "finishTool", "decide", "expire"}
       /\ plan = <<CallRow(o.c), RunRow(o.r)>>
       /\ held = Locked(o) \ {CallRow(o.c), RunRow(o.r)}
    \/ /\ o.kind \in {"decide", "expire"}
       /\ plan = <<ApprovalRow(o.c), CallRow(o.c), RunRow(o.r)>> /\ held = {}

\* finish_run also holds its thread, when it has added its answer.
Held(o) == Locked(o) \cup (IF o.kind = "finish" THEN {ThreadRow(o.r)} ELSE {})

\* What a transaction holds in each phase; it has an event id only when all that is
\* left to it is the commit.
Phase(t) ==
    /\ t.pc = "idle"   => t.held = {}
    /\ t.pc = "read"   => t.op.kind = "create" /\ t.held = {} /\ t.plan = <<ThreadRow(t.op.r)>>
    /\ t.pc = "lock"   => Waiting(t.op, t.held, t.plan)
    /\ t.pc = "check"  => t.held = Locked(t.op)
    /\ t.pc = "thread" => t.held = Locked(t.op) /\ t.op.kind = "finish"
    /\ t.pc = "event"  => t.held = Held(t.op)
    /\ t.pc = "commit" => t.held \in {Held(t.op), Held(t.op) \cup {ThreadShare(t.op.r)}}
    /\ t.id > 0 => t.pc = "commit"

\* What a transaction has decided is still what it would decide.
Decision(o, new) ==
    /\ new = Write(o)
    /\ IF o.kind = "create" THEN ~Taken(o.r) ELSE Accepts(o)

Justified(t) ==
    \A o \in Operations : t.pc # "idle" /\ t.op = o =>
        /\ o.kind # "create" => run[o.r].status # "none"
        /\ t.pc \in Deciding => Decision(o, t.new)

Creates(t) == t.pc \in Deciding /\ t.op.kind = "create"

\* Two transactions hold no lock together but a share, and no two create runs of one
\* owner.
Apart(t, u) ==
    /\ \A row \in t.held \cap u.held : row[1] = "share"
    /\ Creates(t) /\ Creates(u) => OwnerOf[t.op.r] # OwnerOf[u.op.r]

RowsOK ==
    /\ StoredTypeOK /\ ConsentBeforeCost
    /\ \A r \in Run : run[r].requests = 0
    /\ \A c \in Call : approval[c].due => approval[c].status = "pending"

TransactionsOK ==
    /\ DOMAIN tx = Client
    /\ \A p \in Client : TransactionOK(tx[p]) /\ Phase(tx[p]) /\ Justified(tx[p])
    /\ \A p, q \in Client : p # q => Apart(tx[p], tx[q])

SqlInv == RowsOK /\ TransactionsOK

(***************************************************************************)
(* Operations, plans and rows.                                             *)
(***************************************************************************)
LEMMA OperationFacts ==
    ASSUME NEW o \in Operations
    PROVE  /\ o.r \in Run
           /\ o.kind \in OnCall => o.c \in Call /\ RunOf[o.c] = o.r
           /\ o.kind \in {"create", "claim", "release", "renew", "append", "finish", "propose",
                          "start", "decide"} => o.e \in Executor
           /\ o.e \in Executor \cup {Nobody}
           /\ o.kind = "transition" =>
                  /\ o.from \in DOMAIN Allowed /\ o.to \in Allowed[o.from]
                  /\ o.to \in {"streaming", "cancelling", "cancelled", "failed"}
           /\ o.kind = "finishTool" => o.to \in {"succeeded", "failed"}
           /\ o.kind = "decide" => o.to \in {"approved", "rejected"}
           /\ o.kind \in OnCall \cup {"create", "claim", "release", "renew", "append", "finish",
                                      "transition"}
<1>1. CASE \E r \in Run : o \in RunOps(r)
  <2> PICK r \in Run : o \in RunOps(r)
    BY <1>1
  <2>1. o.kind = "transition" => o.from \in DOMAIN Allowed /\ o.to \in Allowed[o.from]
    BY DEF RunOps, Op, Operations
  <2> QED
    BY <2>1 DEF RunOps, Op, OnCall
<1>2. CASE \E c \in Call : o \in CallOps(c)
  BY <1>2, AgentAssumption DEF CallOps, Op, OnCall
<1>3. (\E r \in Run : o \in RunOps(r)) \/ (\E c \in Call : o \in CallOps(c))
  BY DEF Operations
<1> QED
  BY <1>1, <1>2, <1>3

LEMMA Local ==
    ASSUME NEW o \in Operations, run'[o.r] = run[o.r],
           o.kind \in OnCall => call'[o.c] = call[o.c] /\ approval'[o.c] = approval[o.c]
    PROVE  /\ o.kind # "create" => (Accepts(o)' <=> Accepts(o))
           /\ Write(o)' = Write(o)
<1> USE OperationFacts DEF OnCall
<1>1. o.kind \in {"decide", "expire"} => (Expiring(o)' <=> Expiring(o))
  BY DEF Expiring, Ended
<1>2. o.kind \notin {"decide", "expire"} => ~Expiring(o) /\ ~Expiring(o)'
  BY DEF Expiring
<1>3. o.kind # "create" => (Accepts(o)' <=> Accepts(o))
  BY DEF Accepts, Claimable, Owned, Authorised, Finishable, Ended
<1>4. NewStatus(o)' = NewStatus(o)
  BY <1>1, <1>2 DEF NewStatus
<1>5. NewOwner(o)' = NewOwner(o)
  BY <1>1, <1>2 DEF NewOwner
<1>6. NewLease(o)' = NewLease(o)
  BY <1>1, <1>2 DEF NewLease
<1>7. NewCall(o)' = NewCall(o)
  BY <1>1, <1>2 DEF NewCall
<1>8. NewApproval(o)' = NewApproval(o)
  BY <1>1, <1>2 DEF NewApproval
<1> QED
  BY <1>3, <1>4, <1>5, <1>6, <1>7, <1>8 DEF Write

LEMMA PlanFacts ==
    ASSUME NEW a, NEW b, NEW c
    PROVE  /\ Head(<<a>>) = a /\ Len(<<a>>) = 1
           /\ Head(<<a, b>>) = a /\ Tail(<<a, b>>) = <<b>> /\ Len(<<a, b>>) = 2
           /\ Head(<<a, b, c>>) = a /\ Tail(<<a, b, c>>) = <<b, c>> /\ Len(<<a, b, c>>) = 3
OBVIOUS

LEMMA RowFacts ==
    /\ \A r, s : /\ RunRow(r) = RunRow(s) <=> r = s
                 /\ CallRow(r) = CallRow(s) <=> r = s
                 /\ ApprovalRow(r) = ApprovalRow(s) <=> r = s
                 /\ CallRow(r) # RunRow(s) /\ ApprovalRow(r) # RunRow(s)
                 /\ ApprovalRow(r) # CallRow(s)
                 /\ ThreadRow(r) \notin {RunRow(s), CallRow(s), ApprovalRow(s), ThreadShare(s)}
                 /\ ThreadShare(r) \notin {RunRow(s), CallRow(s), ApprovalRow(s)}
    /\ \A r : /\ RunRow(r)[1] = "run" /\ CallRow(r)[1] = "call" /\ ApprovalRow(r)[1] = "approval"
              /\ ThreadRow(r)[1] = "thread" /\ ThreadShare(r)[1] = "share"
BY DEF RunRow, CallRow, ApprovalRow, ThreadRow, ThreadShare
LEMMA IdleFacts ==
    /\ TransactionOK(Idle) /\ Phase(Idle) /\ Idle.pc = "idle" /\ Idle.held = {} /\ Idle.id = 0
    /\ Idle.overtaken = FALSE
    /\ DOMAIN Idle = {"pc", "op", "held", "plan", "new", "id", "overtaken"}
<1>1. Cardinality(Client) \in Nat
  BY SqlAssumption, FS_CardinalityType
<1> QED
  BY <1>1 DEF Idle, TransactionOK, Phase, Pc

(***************************************************************************)
(* One client acts and the rows stay: what has to be shown is about its    *)
(* transaction alone.                                                      *)
(***************************************************************************)
LEMMA OneActs ==
    ASSUME SqlInv, UNCHANGED stored, NEW p \in Client, NEW t, tx' = [tx EXCEPT ![p] = t],
           TransactionOK(t), Phase(t), Justified(t),
           \A q \in Client \ {p} : Apart(t, tx[q])
    PROVE  SqlInv'
<1>1. /\ DOMAIN tx' = Client /\ tx'[p] = t
      /\ \A q \in Client \ {p} : tx'[q] = tx[q]
  BY DEF SqlInv, TransactionsOK
<1>2. RowsOK'
  BY DEF SqlInv, RowsOK, StoredTypeOK, ConsentBeforeCost, stored
<1>3. ASSUME NEW q \in Client, Justified(tx'[q]) PROVE Justified(tx[q])'
  <2>1. \A o \in Operations : /\ o.kind # "create" => (Accepts(o)' <=> Accepts(o))
                              /\ Write(o)' = Write(o) /\ (Taken(o.r)' <=> Taken(o.r))
    BY Local DEF stored, Taken, Live
  <2> QED
    BY <1>3, <2>1 DEF Justified, Decision, stored
<1>4. \A q \in Client : TransactionOK(tx'[q]) /\ Phase(tx'[q]) /\ Justified(tx[q])'
  BY <1>1, <1>3 DEF SqlInv, TransactionsOK
<1>5. \A q, s \in Client : q # s => Apart(tx'[q], tx'[s])
  <2>1. \A q \in Client \ {p} : Apart(tx[q], t)
    BY DEF Apart
  <2> QED
    BY <1>1, <2>1 DEF SqlInv, TransactionsOK
<1> QED
  BY <1>1, <1>2, <1>4, <1>5 DEF SqlInv, TransactionsOK

(***************************************************************************)
(* The steps before the commit.                                            *)
(***************************************************************************)
LEMMA BeginStep ==
    ASSUME SqlInv, NEW p \in Client, NEW o \in Operations, Begin(p, o)
    PROVE  SqlInv'
<1> DEFINE t == [Idle EXCEPT !.op = o, !.plan = Plan(o),
                             !.pc = IF o.kind = "create" THEN "read" ELSE "lock"]
<1>1. /\ UNCHANGED stored /\ tx' = [tx EXCEPT ![p] = t]
      /\ o.kind # "create" => run[o.r].status # "none"
  BY DEF Begin
<1>2. /\ DOMAIN t = {"pc", "op", "held", "plan", "new", "id", "overtaken"}
      /\ t.op = o /\ t.plan = Plan(o) /\ t.held = {} /\ t.id = 0 /\ t.overtaken = FALSE
      /\ t.pc = IF o.kind = "create" THEN "read" ELSE "lock"
  BY IdleFacts
<1> HIDE DEF t
<1>3. TransactionOK(t)
  BY <1>2, IdleFacts DEF TransactionOK, Pc
<1>4. Phase(t)
  <2>1. CASE o.kind = "create"
    BY <1>2, <2>1 DEF Phase, Plan
  <2>2. CASE o.kind \in {"start", "finishTool"}
    BY <1>2, <2>2 DEF Phase, Plan, Waiting, Locked
  <2>3. CASE o.kind \in {"decide", "expire"}
    BY <1>2, <2>3 DEF Phase, Plan, Waiting
  <2>4. CASE o.kind \notin {"create", "start", "finishTool", "decide", "expire"}
    BY <1>2, <2>4 DEF Phase, Plan, Waiting, Locked
  <2> QED
    BY <2>1, <2>2, <2>3, <2>4
<1>5. Justified(t)
  BY <1>1, <1>2 DEF Justified, Deciding
<1>6. \A q \in Client \ {p} : Apart(t, tx[q])
  BY <1>2 DEF Apart, Creates, Deciding
<1> QED
  BY <1>1, <1>3, <1>4, <1>5, <1>6, OneActs

\* A transaction that ends without a commit, and only its own record changes.
LEMMA GiveUp ==
    ASSUME SqlInv, UNCHANGED stored, NEW p \in Client, tx' = [tx EXCEPT ![p] = Idle]
    PROVE  SqlInv'
<1>1. Justified(Idle) /\ \A q \in Client \ {p} : Apart(Idle, tx[q])
  BY IdleFacts DEF Justified, Apart, Creates, Deciding
<1> QED
  BY <1>1, IdleFacts, OneActs

LEMMA ReadFirstStep ==
    ASSUME SqlInv, NEW p \in Client, ReadFirst(p)
    PROVE  SqlInv'
<1>1. CASE Taken(tx[p].op.r)
  BY <1>1, GiveUp DEF ReadFirst
<1>2. CASE ~Taken(tx[p].op.r)
  <2> DEFINE t == [tx[p] EXCEPT !.pc = "lock"]
  <2>1. /\ UNCHANGED stored /\ tx' = [tx EXCEPT ![p] = t] /\ tx[p].pc = "read"
    BY <1>2 DEF ReadFirst
  <2>2. TransactionOK(tx[p]) /\ Phase(tx[p])
    BY DEF SqlInv, TransactionsOK
  <2>3. /\ DOMAIN t = DOMAIN tx[p] /\ t.op = tx[p].op /\ t.plan = tx[p].plan
        /\ t.held = tx[p].held /\ t.id = tx[p].id /\ t.overtaken = tx[p].overtaken /\ t.pc = "lock"
    BY <2>2 DEF TransactionOK
  <2> HIDE DEF t
  <2>4. TransactionOK(t)
    BY <2>1, <2>2, <2>3 DEF TransactionOK, Pc
  <2>5. Phase(t)
    BY <2>1, <2>2, <2>3 DEF Phase, Waiting, TransactionOK
  <2>6. Justified(t)
    BY <2>1, <2>2, <2>3 DEF Justified, Deciding, Phase
  <2>7. \A q \in Client \ {p} : Apart(t, tx[q])
    BY <2>1, <2>2, <2>3 DEF Apart, Creates, Deciding, Phase
  <2> QED
    BY <2>1, <2>4, <2>5, <2>6, <2>7, OneActs
<1> QED
  BY <1>1, <1>2

\* A lock that nobody excludes is held by nobody.
LEMMA NobodyHolds ==
    ASSUME SqlInv, NEW p \in Client, NEW row, row[1] # "share", HeldBy(row, p) = {},
           NEW q \in Client \ {p}
    PROVE  row \notin tx[q].held
<1>1. CASE Open(q)
  BY <1>1 DEF HeldBy, Others, Excludes
<1>2. CASE ~Open(q)
  BY <1>2 DEF SqlInv, TransactionsOK, Phase, Open
<1> QED
  BY <1>1, <1>2

LEMMA LockStep ==
    ASSUME SqlInv, NEW p \in Client, Lock(p)
    PROVE  SqlInv'
<1> DEFINE row == Head(tx[p].plan)
           t == [tx[p] EXCEPT !.held = @ \cup {row}, !.plan = Tail(@),
                              !.pc = IF Len(tx[p].plan) = 1 THEN "check" ELSE "lock"]
<1>1. /\ UNCHANGED stored /\ tx' = [tx EXCEPT ![p] = t]
      /\ tx[p].pc = "lock" /\ HeldBy(row, p) = {}
  BY DEF Lock
<1>2. /\ TransactionOK(tx[p]) /\ Phase(tx[p]) /\ Justified(tx[p])
      /\ \A q \in Client \ {p} : Apart(tx[p], tx[q])
  BY DEF SqlInv, TransactionsOK
<1>3. /\ DOMAIN t = DOMAIN tx[p] /\ t.op = tx[p].op /\ t.plan = Tail(tx[p].plan)
      /\ t.held = tx[p].held \cup {row} /\ t.id = tx[p].id /\ t.overtaken = tx[p].overtaken
      /\ t.pc = IF Len(tx[p].plan) = 1 THEN "check" ELSE "lock"
  BY <1>2 DEF TransactionOK
<1> DEFINE o == tx[p].op
<1>4. Waiting(o, tx[p].held, tx[p].plan) /\ o \in Operations /\ tx[p].id = 0
  BY <1>1, <1>2 DEF Phase, TransactionOK
<1> HIDE DEF t, o
<1>5. row[1] # "share" /\ Phase(t)
  <2>1. CASE o.kind = "create" /\ tx[p].plan = <<ThreadRow(o.r)>> /\ tx[p].held = {}
    BY <1>3, <1>4, <2>1, PlanFacts, RowFacts DEF Phase, Locked, o
  <2>2. CASE /\ o.kind # "create" /\ tx[p].plan = <<RunRow(o.r)>>
             /\ tx[p].held = Locked(o) \ {RunRow(o.r)}
    <3>1. row = RunRow(o.r) /\ t.pc = "check" /\ t.op = o
      BY <1>3, <2>2, PlanFacts DEF o
    <3>2. RunRow(o.r) \in Locked(o)
      BY <1>4, <2>2, OperationFacts DEF Locked, OnCall
    <3>3. t.held = Locked(o)
      BY <1>3, <2>2, <3>1, <3>2
    <3> QED
      BY <1>3, <1>4, <3>1, <3>3, RowFacts DEF Phase
  <2>3. CASE /\ o.kind \in {"start", "finishTool", "decide", "expire"}
             /\ tx[p].plan = <<CallRow(o.c), RunRow(o.r)>>
             /\ tx[p].held = Locked(o) \ {CallRow(o.c), RunRow(o.r)}
    <3>1. row = CallRow(o.c) /\ t.pc = "lock" /\ t.op = o /\ t.plan = <<RunRow(o.r)>>
      BY <1>3, <2>3, PlanFacts DEF o
    <3>2. CallRow(o.c) \in Locked(o) \ {RunRow(o.r)}
      BY <2>3, RowFacts DEF Locked
    <3>3. t.held = Locked(o) \ {RunRow(o.r)}
      BY <1>3, <2>3, <3>1, <3>2
    <3> QED
      BY <1>3, <1>4, <2>3, <3>1, <3>3, RowFacts DEF Phase, Waiting
  <2>4. CASE /\ o.kind \in {"decide", "expire"}
             /\ tx[p].plan = <<ApprovalRow(o.c), CallRow(o.c), RunRow(o.r)>> /\ tx[p].held = {}
    <3>1. /\ row = ApprovalRow(o.c) /\ t.pc = "lock" /\ t.op = o
          /\ t.plan = <<CallRow(o.c), RunRow(o.r)>>
      BY <1>3, <2>4, PlanFacts DEF o
    <3>2. t.held = Locked(o) \ {CallRow(o.c), RunRow(o.r)}
      BY <1>3, <2>4, <3>1, RowFacts DEF Locked
    <3> QED
      BY <1>3, <1>4, <2>4, <3>1, <3>2, RowFacts DEF Phase, Waiting
  <2> QED
    BY <1>4, <2>1, <2>2, <2>3, <2>4 DEF Waiting
<1>6. TransactionOK(t)
  BY <1>1, <1>2, <1>3 DEF TransactionOK, Pc
<1>7. Justified(t)
  BY <1>1, <1>2, <1>3 DEF Justified, Deciding
<1>8. \A q \in Client \ {p} : Apart(t, tx[q])
  <2>1. \A q \in Client \ {p} : row \notin tx[q].held
    BY <1>1, <1>5, NobodyHolds
  <2> QED
    BY <1>2, <1>3, <2>1 DEF Apart, Creates, Deciding
<1> HIDE DEF row
<1> QED
  BY <1>1, <1>5, <1>6, <1>7, <1>8, OneActs

\* A decision that is accepted is justified when it is made.
LEMMA CheckStep ==
    ASSUME SqlInv, NEW p \in Client, Check(p)
    PROVE  SqlInv'
<1>1. CASE ~Accepts(tx[p].op)
  BY <1>1, GiveUp DEF Check
<1>2. CASE Accepts(tx[p].op)
  <2> DEFINE o == tx[p].op
             t == [tx[p] EXCEPT !.new = Write(o), !.pc = After(o)]
  <2>1. /\ UNCHANGED stored /\ tx' = [tx EXCEPT ![p] = t] /\ tx[p].pc = "check"
        /\ o.kind # "create"
    BY <1>2 DEF Check
  <2>2. /\ TransactionOK(tx[p]) /\ Phase(tx[p]) /\ Justified(tx[p]) /\ o \in Operations
        /\ \A q \in Client \ {p} : Apart(tx[p], tx[q])
    BY <2>1 DEF SqlInv, TransactionsOK, TransactionOK
  <2>3. /\ DOMAIN t = DOMAIN tx[p] /\ t.op = o /\ t.held = tx[p].held /\ t.id = tx[p].id
        /\ t.overtaken = tx[p].overtaken /\ t.pc = After(o) /\ t.new = Write(o)
    BY <2>2 DEF TransactionOK
  <2>4. Accepts(o)
    BY <1>2
  <2> HIDE DEF t, o
  <2>5. After(o) \in Deciding /\ (After(o) = "thread" <=> o.kind = "finish")
    BY DEF After, Deciding
  <2>6. TransactionOK(t)
    BY <2>2, <2>3, <2>5 DEF TransactionOK, Pc, Deciding, o
  <2>7. Phase(t)
    BY <2>1, <2>2, <2>3, <2>5 DEF Phase, Deciding, Held, TransactionOK, o
  <2>8. Justified(t)
    BY <2>1, <2>2, <2>3, <2>4 DEF Justified, Decision, o
  <2>9. \A q \in Client \ {p} : Apart(t, tx[q])
    BY <2>1, <2>2, <2>3 DEF Apart, Creates, o
  <2> QED
    BY <2>1, <2>6, <2>7, <2>8, <2>9, OneActs
<1> QED
  BY <1>1, <1>2

LEMMA LockThreadStep ==
    ASSUME SqlInv, NEW p \in Client, LockThread(p)
    PROVE  SqlInv'
<1> DEFINE o == tx[p].op
           row == ThreadRow(o.r)
           t == [tx[p] EXCEPT !.pc = "event", !.held = @ \cup {row}]
<1>1. /\ UNCHANGED stored /\ tx' = [tx EXCEPT ![p] = t] /\ tx[p].pc = "thread"
      /\ HeldBy(row, p) = {}
  BY DEF LockThread
<1>2. /\ TransactionOK(tx[p]) /\ Phase(tx[p]) /\ Justified(tx[p])
      /\ \A q \in Client \ {p} : Apart(tx[p], tx[q])
  BY <1>1 DEF SqlInv, TransactionsOK
<1>3. /\ DOMAIN t = DOMAIN tx[p] /\ t.op = o /\ t.held = tx[p].held \cup {row} /\ t.id = tx[p].id
      /\ t.overtaken = tx[p].overtaken /\ t.pc = "event" /\ t.new = tx[p].new
  BY <1>2 DEF TransactionOK
<1> HIDE DEF t, o
<1>4. TransactionOK(t)
  BY <1>1, <1>2, <1>3 DEF TransactionOK, Pc, o
<1>5. Phase(t)
  BY <1>1, <1>2, <1>3 DEF Phase, Held, o
<1>6. Justified(t)
  BY <1>1, <1>2, <1>3 DEF Justified, Deciding, o
<1>7. \A q \in Client \ {p} : Apart(t, tx[q])
  <2>1. \A q \in Client \ {p} : row \notin tx[q].held
    BY <1>1, NobodyHolds, RowFacts
  <2> QED
    BY <1>1, <1>2, <1>3, <2>1 DEF Apart, Creates, Deciding, o
<1> HIDE DEF row
<1> QED
  BY <1>1, <1>4, <1>5, <1>6, <1>7, OneActs

\* The unique indexes let one creation of an owner in: a conflicting one waits, or is
\* refused.
LEMMA InsertRunStep ==
    ASSUME SqlInv, NEW p \in Client, InsertRun(p)
    PROVE  SqlInv'
<1>1. CASE Taken(tx[p].op.r)
  BY <1>1, GiveUp DEF InsertRun
<1>2. CASE ~Taken(tx[p].op.r)
  <2> DEFINE o == tx[p].op
             t == [tx[p] EXCEPT !.new = Write(o), !.pc = "event"]
  <2>1. /\ UNCHANGED stored /\ tx' = [tx EXCEPT ![p] = t] /\ tx[p].pc = "check"
        /\ o.kind = "create" /\ IndexHeldBy(p) = {}
    BY <1>2 DEF InsertRun
  <2>2. /\ TransactionOK(tx[p]) /\ Phase(tx[p])
        /\ \A q \in Client \ {p} : Apart(tx[p], tx[q]) /\ Phase(tx[q])
    BY DEF SqlInv, TransactionsOK
  <2>3. /\ DOMAIN t = DOMAIN tx[p] /\ t.op = o /\ t.held = tx[p].held /\ t.id = tx[p].id
        /\ t.overtaken = tx[p].overtaken /\ t.pc = "event" /\ t.new = Write(o)
    BY <2>2 DEF TransactionOK
  <2>4. ASSUME NEW q \in Client \ {p}, Creates(tx[q])
        PROVE  OwnerOf[tx[q].op.r] # OwnerOf[o.r]
    <3>1. tx[q].pc # "thread"
      BY <2>2, <2>4 DEF Creates, Phase
    <3>2. Open(q) /\ Written(q)
      BY <2>4, <3>1 DEF Creates, Deciding, Open, Written
    <3> QED
      BY <2>1, <2>4, <3>2 DEF IndexHeldBy, Others, Creates
  <2>5. ~Taken(o.r)
    BY <1>2
  <2> HIDE DEF t, o
  <2>6. TransactionOK(t)
    BY <2>1, <2>2, <2>3 DEF TransactionOK, Pc, o
  <2>7. Phase(t)
    BY <2>1, <2>2, <2>3 DEF Phase, Held, TransactionOK, o
  <2>8. Justified(t)
    BY <2>1, <2>3, <2>5 DEF Justified, Decision
  <2>9. \A q \in Client \ {p} : Apart(t, tx[q])
    BY <2>2, <2>3, <2>4 DEF Apart, Creates
  <2> QED
    BY <2>1, <2>6, <2>7, <2>8, <2>9, OneActs
<1> QED
  BY <1>1, <1>2

\* The transactions that have an event id are fewer than the clients when one that has
\* none takes the next.
LEMMA NextIdInRange ==
    ASSUME NEW p \in Client, ~(tx[p].id > 0)
    PROVE  NextId \in 1..Cardinality(Client)
<1> DEFINE S == {q \in Client : tx[q].id > 0}
<1>1. IsFiniteSet(Client) /\ Cardinality(Client) \in Nat
  BY SqlAssumption, FS_CardinalityType
<1>2. IsFiniteSet(Client \ {p}) /\ Cardinality(Client \ {p}) = Cardinality(Client) - 1
  BY <1>1, FS_RemoveElement
<1>3. S \in SUBSET (Client \ {p})
  OBVIOUS
<1> HIDE DEF S
<1>4. IsFiniteSet(S) /\ Cardinality(S) <= Cardinality(Client \ {p})
  BY <1>2, <1>3, FS_Subset
<1>5. Cardinality(S) \in Nat
  BY <1>4, FS_CardinalityType
<1> QED
  BY <1>1, <1>2, <1>4, <1>5 DEF NextId, S

LEMMA AddEventStep ==
    ASSUME SqlInv, NEW p \in Client, AddEvent(p)
    PROVE  SqlInv'
<1> DEFINE o == tx[p].op
           row == ThreadShare(o.r)
           t == [tx[p] EXCEPT !.pc = "commit", !.held = @ \cup {row}, !.id = NextId]
<1>1. /\ UNCHANGED stored /\ tx' = [tx EXCEPT ![p] = t] /\ tx[p].pc = "event"
  BY DEF AddEvent
<1>2. /\ TransactionOK(tx[p]) /\ Phase(tx[p]) /\ Justified(tx[p])
      /\ \A q \in Client \ {p} : Apart(tx[p], tx[q])
  BY <1>1 DEF SqlInv, TransactionsOK
<1>3. /\ DOMAIN t = DOMAIN tx[p] /\ t.op = o /\ t.held = tx[p].held \cup {row} /\ t.id = NextId
      /\ t.overtaken = tx[p].overtaken /\ t.pc = "commit" /\ t.new = tx[p].new
  BY <1>2 DEF TransactionOK
<1>4. NextId \in 0..Cardinality(Client)
  <2>1. ~(tx[p].id > 0)
    BY <1>1, <1>2 DEF Phase
  <2>2. NextId \in 1..Cardinality(Client) /\ Cardinality(Client) \in Nat
    BY <2>1, NextIdInRange, SqlAssumption, FS_CardinalityType
  <2> QED
    BY <2>2
<1> HIDE DEF t, o
<1>5. TransactionOK(t)
  BY <1>1, <1>2, <1>3, <1>4 DEF TransactionOK, Pc, o
<1>6. Phase(t)
  BY <1>1, <1>2, <1>3 DEF Phase, o
<1>7. Justified(t)
  BY <1>1, <1>2, <1>3 DEF Justified, Deciding, o
<1>8. \A q \in Client \ {p} : Apart(t, tx[q])
  BY <1>1, <1>2, <1>3, RowFacts DEF Apart, Creates, Deciding, o
<1> HIDE DEF row
<1> QED
  BY <1>1, <1>5, <1>6, <1>7, <1>8, OneActs

(***************************************************************************)
(* The end of a transaction.                                               *)
(***************************************************************************)

\* Of the transactions that have decided, one is about a run: all but a creation hold
\* its row, and a creation is the only one of its owner, on a run that does not exist.
LEMMA OneDecides ==
    ASSUME SqlInv, NEW p \in Client, NEW q \in Client, Decided(p), Decided(q),
           tx[p].op.r = tx[q].op.r
    PROVE  p = q
<1> DEFINE r == tx[p].op.r
<1>1. \A u \in {p, q} : /\ tx[u].op \in Operations /\ tx[u].pc \in Deciding /\ tx[u].pc # "idle"
                        /\ Phase(tx[u]) /\ Justified(tx[u]) /\ tx[u].op.r = r /\ r \in Run
  BY OperationFacts DEF SqlInv, TransactionsOK, TransactionOK, Decided, Deciding
<1>2. p # q => Apart(tx[p], tx[q])
  BY DEF SqlInv, TransactionsOK
<1> HIDE DEF r
<1>3. \A u \in {p, q} : tx[u].op.kind = "create" => run[r].status = "none"
  <2> SUFFICES ASSUME NEW u \in {p, q}, tx[u].op.kind = "create" PROVE run[r].status = "none"
    OBVIOUS
  <2>1. ~Taken(r)
    BY <1>1 DEF Justified, Decision
  <2> QED
    BY <1>1, <2>1 DEF Taken
<1>4. \A u \in {p, q} : tx[u].op.kind # "create" =>
          RunRow(r) \in tx[u].held /\ run[r].status # "none"
  <2> SUFFICES ASSUME NEW u \in {p, q}, tx[u].op.kind # "create"
               PROVE  RunRow(r) \in tx[u].held /\ run[r].status # "none"
    OBVIOUS
  <2>1. RunRow(r) \in Locked(tx[u].op)
    BY <1>1 DEF Locked
  <2> QED
    BY <1>1, <2>1 DEF Phase, Held, Justified, Deciding
<1>5. CASE tx[p].op.kind = "create" /\ tx[q].op.kind = "create"
  BY <1>1, <1>2, <1>5 DEF Apart, Creates
<1>6. CASE tx[p].op.kind # "create" /\ tx[q].op.kind # "create"
  BY <1>2, <1>4, <1>6, RowFacts DEF Apart
<1> QED
  BY <1>3, <1>4, <1>5, <1>6

\* The transactions that go on keep everything but the number of their event, and none
\* of them is overtaken.
LEMMA Survivors ==
    ASSUME SqlInv, NEW p \in Client, NEW committed \in BOOLEAN, Ends(p, committed)
    PROVE  /\ DOMAIN tx' = Client /\ tx'[p] = Idle
           /\ \A q \in Client \ {p} :
                  /\ TransactionOK(tx'[q]) /\ Phase(tx'[q])
                  /\ tx'[q].pc = tx[q].pc /\ tx'[q].op = tx[q].op /\ tx'[q].held = tx[q].held
                  /\ tx'[q].plan = tx[q].plan /\ tx'[q].new = tx[q].new
<1>1. /\ DOMAIN tx' = Client /\ tx'[p] = Idle
      /\ \A q \in Client \ {p} :
             tx'[q] = [tx[q] EXCEPT !.id = Renumbered(p, q),
                                    !.overtaken = @ \/ (committed /\ Overtakes(p, q))]
  BY DEF Ends
<1> SUFFICES ASSUME NEW q \in Client \ {p}
             PROVE  /\ TransactionOK(tx'[q]) /\ Phase(tx'[q])
                    /\ tx'[q].pc = tx[q].pc /\ tx'[q].op = tx[q].op /\ tx'[q].held = tx[q].held
                    /\ tx'[q].plan = tx[q].plan /\ tx'[q].new = tx[q].new
  BY <1>1
<1>2. /\ TransactionOK(tx[p]) /\ Phase(tx[p])
      /\ TransactionOK(tx[q]) /\ Phase(tx[q]) /\ Cardinality(Client) \in Nat
  BY SqlAssumption, FS_CardinalityType DEF SqlInv, TransactionsOK
<1>3. /\ DOMAIN tx'[q] = DOMAIN tx[q]
      /\ tx'[q].pc = tx[q].pc /\ tx'[q].op = tx[q].op /\ tx'[q].held = tx[q].held
      /\ tx'[q].plan = tx[q].plan /\ tx'[q].new = tx[q].new
      /\ tx'[q].id = Renumbered(p, q)
      /\ tx'[q].overtaken = (tx[q].overtaken \/ (committed /\ Overtakes(p, q)))
  BY <1>1, <1>2 DEF TransactionOK
<1>4. ~Overtakes(p, q)
  <2> SUFFICES ASSUME Overtakes(p, q) PROVE FALSE
    OBVIOUS
  <2>1. Decided(p) /\ Decided(q) /\ tx[p].op.r = tx[q].op.r
    BY <1>2 DEF Overtakes, Phase, Decided
  <2> QED
    BY <2>1, OneDecides
<1>5. /\ Renumbered(p, q) \in 0..Cardinality(Client)
      /\ Renumbered(p, q) > 0 => tx[q].id > 0
  BY <1>2 DEF Renumbered, TransactionOK
<1>6. TransactionOK(tx'[q])
  <2>1. tx'[q].overtaken = FALSE
    BY <1>2, <1>3, <1>4 DEF TransactionOK
  <2> QED
    BY <1>2, <1>3, <1>5, <2>1 DEF TransactionOK
<1>7. Phase(tx'[q])
  BY <1>2, <1>3, <1>5 DEF Phase
<1> QED
  BY <1>3, <1>6, <1>7

\* What is left to show of a transaction's end.
LEMMA EndsStep ==
    ASSUME SqlInv, NEW p \in Client, NEW committed \in BOOLEAN, Ends(p, committed), RowsOK',
           \A q \in Client \ {p} : Justified(tx[q])'
    PROVE  SqlInv'
<1>1. Justified(tx[p])'
  BY Survivors, IdleFacts DEF Justified
<1>2. \A q \in Client : TransactionOK(tx'[q]) /\ Phase(tx'[q]) /\ Justified(tx[q])'
  BY <1>1, Survivors, IdleFacts
<1>3. \A q, s \in Client : q # s => Apart(tx'[q], tx'[s])
  <2>1. \A q, s \in Client : q # s => Apart(tx[q], tx[s])
    BY DEF SqlInv, TransactionsOK
  <2> QED
    BY <2>1, Survivors, IdleFacts DEF Apart, Creates, Deciding
<1> QED
  BY <1>2, <1>3, Survivors DEF SqlInv, TransactionsOK

LEMMA RollbackStep ==
    ASSUME SqlInv, NEW p \in Client, Rollback(p)
    PROVE  SqlInv'
<1>1. UNCHANGED stored /\ Ends(p, FALSE)
  BY DEF Rollback
<1>2. RowsOK'
  BY <1>1 DEF SqlInv, RowsOK, StoredTypeOK, ConsentBeforeCost, stored
<1>3. ASSUME NEW q \in Client \ {p} PROVE Justified(tx[q])'
  <2>1. \A o \in Operations : /\ o.kind # "create" => (Accepts(o)' <=> Accepts(o))
                              /\ Write(o)' = Write(o) /\ (Taken(o.r)' <=> Taken(o.r))
    BY <1>1, Local DEF stored, Taken, Live
  <2>2. Justified(tx[q])
    BY DEF SqlInv, TransactionsOK
  <2>3. tx'[q].pc = tx[q].pc /\ tx'[q].op = tx[q].op /\ tx'[q].new = tx[q].new
    BY <1>1, Survivors
  <2> QED
    BY <1>1, <2>1, <2>2, <2>3 DEF Justified, Decision, stored
<1> QED
  BY <1>1, <1>2, <1>3, EndsStep

\* The database's clock moves no row that a transaction has decided on.
LEMMA TimeStep ==
    ASSUME SqlInv, Time
    PROVE  SqlInv' /\ [RepositoryNext]_stored
<1>1. [RepositoryNext]_stored
  BY DEF Time, RepositoryNext, OwnershipNext
<1>2. /\ \A r \in Run : run'[r].status = run[r].status /\ run'[r].requests = run[r].requests
      /\ \A c \in Call : approval'[c].due => approval'[c].status = "pending"
  <2>1. CASE \E r \in Run : LeaseLapses(r)
    BY <2>1 DEF LeaseLapses, SqlInv, RowsOK, StoredTypeOK
  <2>2. CASE \E c \in Call : ApprovalFallsDue(c)
    BY <2>2 DEF ApprovalFallsDue, SqlInv, RowsOK, StoredTypeOK
  <2> QED
    BY <2>1, <2>2 DEF Time
<1>3. RowsOK'
  BY <1>1, <1>2, TypeStep, ConsentStep DEF SqlInv, RowsOK
<1>4. tx' = tx
  BY DEF Time
<1>5. ASSUME NEW q \in Client PROVE Justified(tx[q])'
  <2>1. Justified(tx[q]) /\ (tx[q].pc # "idle" => tx[q].op \in Operations)
    BY DEF SqlInv, TransactionsOK, TransactionOK
  <2>2. ASSUME NEW o \in Operations, Decided(q), tx[q].op = o
        PROVE  /\ run'[o.r] = run[o.r]
               /\ o.kind \in OnCall => call'[o.c] = call[o.c] /\ approval'[o.c] = approval[o.c]
    <3>1. CASE \E r \in Run : LeaseLapses(r) /\ o.r # r
      BY <3>1, OperationFacts DEF LeaseLapses, SqlInv, RowsOK, StoredTypeOK
    <3>2. CASE \E c \in Call : ApprovalFallsDue(c) /\ o.c # c
      BY <3>2, OperationFacts DEF ApprovalFallsDue, SqlInv, RowsOK, StoredTypeOK
    <3> QED
      BY <2>2, <3>1, <3>2 DEF Time
  <2>3. \A r \in Run : Taken(r)' <=> Taken(r)
    BY <1>2 DEF Taken, Live
  <2>4. ASSUME NEW o \in Operations, tx[q].op = o, tx[q].pc \in Deciding, Decision(o, tx[q].new)
        PROVE  Decision(o, tx[q].new)'
    <3>1. Decided(q)
      BY <2>4 DEF Decided, Deciding
    <3>2. Write(o)' = Write(o) /\ (o.kind # "create" => (Accepts(o)' <=> Accepts(o)))
      BY <2>2, <2>4, <3>1, Local
    <3> QED
      BY <1>4, <2>3, <2>4, <3>2, OperationFacts DEF Decision
  <2> QED
    BY <1>2, <1>4, <2>1, <2>4, OperationFacts DEF Justified
<1>6. SqlInv'
  BY <1>3, <1>4, <1>5 DEF SqlInv, TransactionsOK
<1> QED
  BY <1>1, <1>6

(***************************************************************************)
(* A commit is one step of the repository.                                 *)
(***************************************************************************)

\* The row a transaction leaves in the run's place.
Columns(st, e, leased, n) == [status |-> st, executor |-> e, leased |-> leased, requests |-> n]
Leased(o) ==
    CASE NewLease(o) = "set" -> TRUE [] NewLease(o) = "clear" -> FALSE
      [] OTHER -> run[o.r].leased
NewRun(o) == Columns(NewStatus(o), NewOwner(o), Leased(o), run[o.r].requests)

LEMMA ColumnsWritten ==
    ASSUME NEW w \in RunRecord
    PROVE  /\ w = Columns(w.status, w.executor, w.leased, w.requests)
           /\ \A st \in RunStatus : [w EXCEPT !.status = st]
                  = Columns(st, w.executor, w.leased, w.requests)
           /\ \A n \in 0..MaxTurns : [w EXCEPT !.requests = n]
                  = Columns(w.status, w.executor, w.leased, n)
           /\ \A st \in RunStatus, n \in 0..MaxTurns : [w EXCEPT !.status = st, !.requests = n]
                  = Columns(st, w.executor, w.leased, n)
           /\ \A e \in Executor \cup {Nobody}, b \in BOOLEAN :
                  [w EXCEPT !.executor = e, !.leased = b]
                  = Columns(w.status, e, b, w.requests)
           /\ \A st \in RunStatus, e \in Executor \cup {Nobody}, b \in BOOLEAN :
                  [w EXCEPT !.status = st, !.executor = e, !.leased = b]
                  = Columns(st, e, b, w.requests)
<1>1. ASSUME NEW v \in RunRecord
      PROVE  v = Columns(v.status, v.executor, v.leased, v.requests)
  BY DEF RunRecord, Columns
<1>2. ASSUME NEW st \in RunStatus
      PROVE  [w EXCEPT !.status = st] = Columns(st, w.executor, w.leased, w.requests)
  <2> DEFINE v == [w EXCEPT !.status = st]
  <2>1. v \in RunRecord /\ v.status = st /\ v.executor = w.executor /\ v.leased = w.leased
        /\ v.requests = w.requests
    BY DEF RunRecord
  <2> HIDE DEF v
  <2>2. v = Columns(st, w.executor, w.leased, w.requests)
    BY <1>1, <2>1
  <2> QED
    BY <2>2 DEF v
<1>3. ASSUME NEW n \in 0..MaxTurns
      PROVE  [w EXCEPT !.requests = n] = Columns(w.status, w.executor, w.leased, n)
  <2> DEFINE v == [w EXCEPT !.requests = n]
  <2>1. v \in RunRecord /\ v.status = w.status /\ v.executor = w.executor /\ v.leased = w.leased
        /\ v.requests = n
    BY DEF RunRecord
  <2> HIDE DEF v
  <2>2. v = Columns(w.status, w.executor, w.leased, n)
    BY <1>1, <2>1
  <2> QED
    BY <2>2 DEF v
<1>4. ASSUME NEW st \in RunStatus, NEW n \in 0..MaxTurns
      PROVE  [w EXCEPT !.status = st, !.requests = n] = Columns(st, w.executor, w.leased, n)
  <2> DEFINE v == [w EXCEPT !.status = st, !.requests = n]
  <2>1. v \in RunRecord /\ v.status = st /\ v.executor = w.executor /\ v.leased = w.leased
        /\ v.requests = n
    BY DEF RunRecord
  <2> HIDE DEF v
  <2>2. v = Columns(st, w.executor, w.leased, n)
    BY <1>1, <2>1
  <2> QED
    BY <2>2 DEF v
<1>5. ASSUME NEW e \in Executor \cup {Nobody}, NEW b \in BOOLEAN
      PROVE  [w EXCEPT !.executor = e, !.leased = b] = Columns(w.status, e, b, w.requests)
  <2> DEFINE v == [w EXCEPT !.executor = e, !.leased = b]
  <2>1. v \in RunRecord /\ v.status = w.status /\ v.executor = e /\ v.leased = b
        /\ v.requests = w.requests
    BY DEF RunRecord
  <2> HIDE DEF v
  <2>2. v = Columns(w.status, e, b, w.requests)
    BY <1>1, <2>1
  <2> QED
    BY <2>2 DEF v
<1>6. ASSUME NEW st \in RunStatus, NEW e \in Executor \cup {Nobody}, NEW b \in BOOLEAN
      PROVE  [w EXCEPT !.status = st, !.executor = e, !.leased = b] = Columns(st, e, b, w.requests)
  <2> DEFINE v == [w EXCEPT !.status = st, !.executor = e, !.leased = b]
  <2>1. v \in RunRecord /\ v.status = st /\ v.executor = e /\ v.leased = b
        /\ v.requests = w.requests
    BY DEF RunRecord
  <2> HIDE DEF v
  <2>2. v = Columns(st, e, b, w.requests)
    BY <1>1, <2>1
  <2> QED
    BY <2>2 DEF v
<1> QED
  BY <1>1, <1>2, <1>3, <1>4, <1>5, <1>6

LEMMA WriteTypes ==
    ASSUME StoredTypeOK, NEW o \in Operations
    PROVE  /\ NewStatus(o) \in RunStatus /\ NewOwner(o) \in Executor \cup {Nobody}
           /\ Leased(o) \in BOOLEAN
           /\ o.kind = "create" \/ run[o.r].status # "none" => NewStatus(o) # "none"
<1>1. run[o.r].status \in RunStatus /\ run[o.r].executor \in Executor \cup {Nobody}
      /\ run[o.r].leased \in BOOLEAN
  BY OperationFacts DEF StoredTypeOK
<1>2. NewStatus(o) \in RunStatus
      /\ (o.kind = "create" \/ run[o.r].status # "none" => NewStatus(o) # "none")
  BY <1>1, RunStatuses, StatusFacts, OperationFacts DEF NewStatus
<1>3. NewOwner(o) \in Executor \cup {Nobody}
  BY <1>1, OperationFacts DEF NewOwner
<1>4. Leased(o) \in BOOLEAN
  BY <1>1 DEF Leased
<1> QED
  BY <1>2, <1>3, <1>4

LEMMA CommitWrites ==
    ASSUME SqlInv, NEW p \in Client, NEW o \in Operations, tx[p].op = o, Commit(p)
    PROVE  /\ Decision(o, tx[p].new) /\ (o.kind # "create" => run[o.r].status # "none")
           /\ run \in [Run -> RunRecord] /\ run[o.r] \in RunRecord
           /\ call \in [Call -> CallStatus] /\ approval \in [Call -> ApprovalRecord]
           /\ run' = [run EXCEPT ![o.r] = NewRun(o)]
           /\ NewCall(o) = "none" => call' = call
           /\ NewCall(o) # "none" => call' = [call EXCEPT ![o.c] = NewCall(o)]
           /\ NewApproval(o) = "none" => approval' = approval
           /\ NewApproval(o) # "none" =>
                  approval' = [approval EXCEPT ![o.c] = [status |-> NewApproval(o), due |-> FALSE]]
<1>1. Decision(o, tx[p].new) /\ (o.kind # "create" => run[o.r].status # "none")
  BY DEF SqlInv, TransactionsOK, Justified, Commit, Deciding
<1>2. /\ run \in [Run -> RunRecord] /\ call \in [Call -> CallStatus]
      /\ approval \in [Call -> ApprovalRecord]
  BY Types DEF SqlInv, RowsOK
<1>3. run[o.r] \in RunRecord
  BY <1>2, OperationFacts
<1> DEFINE new == tx[p].new
<1>4. /\ new.status = NewStatus(o) /\ new.executor = NewOwner(o) /\ new.lease = NewLease(o)
      /\ new.call = NewCall(o) /\ new.approval = NewApproval(o)
  BY <1>1 DEF Decision, Write
<1>5. run' = [run EXCEPT ![o.r] = NewRun(o)]
  <2> DEFINE w == run[o.r]
             st == new.status
             e == new.executor
             b == CASE new.lease = "set" -> TRUE [] new.lease = "clear" -> FALSE
                    [] OTHER -> w.leased
  <2>1. run' = [run EXCEPT ![o.r] = [w EXCEPT !.status = st, !.executor = e, !.leased = b]]
    BY DEF Commit
  <2> HIDE DEF new
  <2>2. st = NewStatus(o) /\ e = NewOwner(o) /\ b = Leased(o)
    BY <1>4 DEF Leased
  <2>3. w \in RunRecord /\ st \in RunStatus /\ e \in Executor \cup {Nobody} /\ b \in BOOLEAN
    BY <1>3, <2>2, WriteTypes DEF SqlInv, RowsOK
  <2>4. NewRun(o) = Columns(st, e, b, w.requests)
    BY <2>2 DEF NewRun
  <2> HIDE DEF w, st, e, b
  <2>5. [w EXCEPT !.status = st, !.executor = e, !.leased = b] = Columns(st, e, b, w.requests)
    <3>1. \A x \in RunStatus, f \in Executor \cup {Nobody}, c \in BOOLEAN :
              [w EXCEPT !.status = x, !.executor = f, !.leased = c] = Columns(x, f, c, w.requests)
      BY <2>3, ColumnsWritten
    <3> QED
      BY <2>3, <3>1
  <2> QED
    BY <2>1, <2>4, <2>5
<1>6. /\ call' = [c \in Call |-> IF c = o.c /\ new.call # "none" THEN new.call ELSE call[c]]
      /\ approval' = [c \in Call |-> IF c = o.c /\ new.approval # "none"
                                     THEN [status |-> new.approval, due |-> FALSE]
                                     ELSE approval[c]]
  BY DEF Commit
<1> HIDE DEF new
<1>7. /\ NewCall(o) = "none" => call' = call
      /\ NewCall(o) # "none" => call' = [call EXCEPT ![o.c] = NewCall(o)]
  BY <1>2, <1>4, <1>6
<1>8. NewApproval(o) = "none" => approval' = approval
  BY <1>2, <1>4, <1>6
<1>9. NewApproval(o) # "none" =>
                  approval' = [approval EXCEPT ![o.c] = [status |-> NewApproval(o), due |-> FALSE]]
  BY <1>2, <1>4, <1>6
<1> QED
  BY <1>1, <1>2, <1>3, <1>5, <1>7, <1>8, <1>9

LEMMA CommitIsOperation ==
    ASSUME SqlInv, NEW p \in Client, NEW o \in Operations, tx[p].op = o, Commit(p)
    PROVE  RepositoryNext \/ UNCHANGED stored
<1> DEFINE r == o.r
           c == o.c
           w == run[r]
<1>1. /\ Decision(o, tx[p].new) /\ (o.kind # "create" => w.status # "none")
      /\ run \in [Run -> RunRecord] /\ w \in RunRecord
      /\ run' = [run EXCEPT ![r] = NewRun(o)]
  BY CommitWrites
<1>2. /\ NewCall(o) = "none" => call' = call
      /\ NewCall(o) # "none" => call' = [call EXCEPT ![c] = NewCall(o)]
      /\ NewApproval(o) = "none" => approval' = approval
      /\ NewApproval(o) # "none" =>
             approval' = [approval EXCEPT ![c] = [status |-> NewApproval(o), due |-> FALSE]]
      /\ call \in [Call -> CallStatus] /\ approval \in [Call -> ApprovalRecord]
  BY CommitWrites
<1>3. /\ w.status \in RunStatus /\ w.executor \in Executor \cup {Nobody}
      /\ w.leased \in BOOLEAN /\ w.requests \in 0..MaxTurns
  BY <1>1 DEF RunRecord
<1>4. r \in Run /\ o.e \in Executor \cup {Nobody}
  BY OperationFacts
<1>5. o.kind # "create" => Accepts(o)
  BY <1>1 DEF Decision
<1>6. w = Columns(w.status, w.executor, w.leased, w.requests)
  BY <1>1, ColumnsWritten
<1>7. o.kind \notin OnCall => NewCall(o) = "none" /\ NewApproval(o) = "none"
  BY DEF OnCall, NewCall, NewApproval
<1>8. NewRun(o) = w => run' = run
  BY <1>1
<1>9. /\ \A st \in RunStatus, n \in 0..MaxTurns :
             [w EXCEPT !.status = st, !.requests = n] = Columns(st, w.executor, w.leased, n)
      /\ \A st \in RunStatus, e \in Executor \cup {Nobody}, b \in BOOLEAN :
             [w EXCEPT !.status = st, !.executor = e, !.leased = b] = Columns(st, e, b, w.requests)
  BY <1>1, ColumnsWritten
<1> HIDE DEF w
<1>10. CASE o.kind = "create"
  <2>1. NewRun(o) = [status |-> "queued", executor |-> o.e, leased |-> TRUE, requests |-> 0]
    BY <1>4, <1>10 DEF NewRun, Columns, NewStatus, NewOwner, Leased, NewLease, SqlInv, RowsOK
  <2>2. \A q \in Run : OwnerOf[q] = OwnerOf[r] =>
            ~Live(q) /\ (run[q].status # "none" => KeyOf[q] # KeyOf[r])
    BY <1>1, <1>10 DEF Decision, Taken, Live
  <2>3. o.e \in Executor
    BY <1>10, OperationFacts
  <2>4. CreateRun(r, o.e)
    <3>1. run[r].status = "none"
      BY <1>4, <2>2
    <3> QED
      BY <1>1, <1>2, <1>7, <1>10, <2>1, <2>2, <3>1 DEF CreateRun, OnCall
  <2> QED
    BY <1>4, <2>3, <2>4 DEF RepositoryNext, OwnershipNext
<1>11. CASE o.kind = "claim"
  <2>1. NewRun(o) = Columns(w.status, o.e, TRUE, w.requests)
    BY <1>11 DEF NewRun, NewStatus, NewOwner, Leased, NewLease, w
  <2>2. o.e \in Executor /\ Claimable(r, o.e)
    BY <1>5, <1>11, OperationFacts DEF Accepts
  <2>3. NewRun(o) = [w EXCEPT !.executor = o.e, !.leased = TRUE]
    BY <1>1, <1>4, <2>1, ColumnsWritten
  <2>4. [run EXCEPT ![r].executor = o.e, ![r].leased = TRUE] = [run EXCEPT ![r] = NewRun(o)]
    BY <1>1, <1>4, <2>3 DEF w, RunRecord
  <2>5. ClaimRunExecution(r, o.e)
    BY <1>1, <1>2, <1>7, <1>11, <2>2, <2>4 DEF ClaimRunExecution, OnCall, w
  <2> QED
    BY <1>4, <2>2, <2>5 DEF RepositoryNext, OwnershipNext
<1>12. CASE o.kind = "renew"
  <2>1. w.leased = TRUE
    BY <1>3, <1>5, <1>12 DEF Accepts, Owned, w
  <2>2. NewRun(o) = Columns(w.status, w.executor, TRUE, w.requests)
    BY <1>12 DEF NewRun, NewStatus, NewOwner, Leased, NewLease, w
  <2> QED
    BY <1>2, <1>6, <1>7, <1>8, <1>12, <2>1, <2>2 DEF stored, OnCall
<1>13. CASE o.kind = "append"
  <2>1. NewRun(o) = Columns(w.status, w.executor, w.leased, w.requests)
    BY <1>13 DEF NewRun, NewStatus, NewOwner, Leased, NewLease, w
  <2> QED
    BY <1>2, <1>6, <1>7, <1>8, <1>13, <2>1 DEF stored, OnCall
<1>14. CASE o.kind = "release"
  <2>1. NewRun(o) = Columns(w.status, Nobody, FALSE, w.requests)
    BY <1>14 DEF NewRun, NewStatus, NewOwner, Leased, NewLease, w
  <2>2. o.e \in Executor /\ w.executor = o.e
    BY <1>5, <1>14, OperationFacts DEF Accepts, w
  <2>3. NewRun(o) = [w EXCEPT !.executor = Nobody, !.leased = FALSE]
    BY <1>1, <2>1, ColumnsWritten
  <2>4. ReleaseRunExecution(r, o.e)
    BY <1>1, <1>2, <1>7, <1>14, <2>2, <2>3 DEF ReleaseRunExecution, OnCall, w
  <2> QED
    BY <1>4, <2>2, <2>4 DEF RepositoryNext, OwnershipNext
<1>15. CASE o.kind = "transition"
  <2>1. NewRun(o) = Columns(o.to, w.executor, w.leased, w.requests)
    BY <1>15 DEF NewRun, NewStatus, NewOwner, Leased, NewLease, w
  <2>2. /\ o.from \in DOMAIN Allowed /\ o.to \in Allowed[o.from] \ {"waiting_approval", "expired"}
        /\ o.from \in RunStatus /\ o.to \in RunStatus
    BY <1>15, OperationFacts, StatusFacts
  <2>3. Authorised(r, o.e) /\ w.status = o.from
    BY <1>5, <1>15 DEF Accepts, w
  <2>4. NewRun(o) = [w EXCEPT !.status = o.to, !.requests = w.requests]
    BY <1>3, <1>9, <2>1, <2>2
  <2>5. [run EXCEPT ![r].status = o.to, ![r].requests = w.requests] = [run EXCEPT ![r] = NewRun(o)]
    BY <1>1, <1>4, <2>4 DEF w, RunRecord
  <2>6. TransitionRun(r, [status |-> o.from, requests |-> w.requests], o.to, o.e)
    BY <1>1, <1>2, <1>7, <1>15, <2>2, <2>3, <2>5 DEF TransitionRun, OnCall, w
  <2> QED
    BY <1>3, <1>4, <2>2, <2>6 DEF RepositoryNext, RunNext
<1>16. CASE o.kind = "finish"
  <2>1. NewRun(o) = Columns("completed", w.executor, w.leased, w.requests)
    BY <1>16 DEF NewRun, NewStatus, NewOwner, Leased, NewLease, w
  <2>2. Authorised(r, o.e) /\ w.status = "streaming"
    BY <1>5, <1>16 DEF Accepts, w
  <2>3. NewRun(o) = [w EXCEPT !.status = "completed", !.requests = w.requests]
    BY <1>3, <1>9, <2>1, RunStatuses
  <2>4. [run EXCEPT ![r].status = "completed", ![r].requests = w.requests]
          = [run EXCEPT ![r] = NewRun(o)]
    BY <1>1, <1>4, <2>3 DEF w, RunRecord
  <2>5. FinishRun(r, w.requests, o.e)
    BY <1>1, <1>2, <1>7, <1>16, <2>2, <2>4 DEF FinishRun, OnCall, w
  <2> QED
    BY <1>3, <1>4, <2>5 DEF RepositoryNext, RunNext
<1>17. CASE o.kind = "propose"
  <2>1. c \in Call /\ RunOf[c] = r /\ Authorised(r, o.e) /\ w.status = "streaming"
    BY <1>5, <1>17, OperationFacts DEF Accepts, w, OnCall
  <2>2. NewOwner(o) = w.executor /\ Leased(o) = w.leased
    BY <1>17 DEF NewOwner, Leased, NewLease, w
  <2>3. CASE call[c] # "none"
    <3>1. NewRun(o) = Columns(w.status, w.executor, w.leased, w.requests)
      BY <1>17, <2>2, <2>3 DEF NewRun, NewStatus, w
    <3>2. NewCall(o) = "none" /\ NewApproval(o) = "none"
      BY <1>17, <2>3 DEF NewCall, NewApproval
    <3> QED
      BY <1>2, <1>6, <1>8, <3>1, <3>2 DEF stored
  <2>4. CASE call[c] = "none" /\ c \in Costly
    <3>1. NewRun(o) = Columns("waiting_approval", w.executor, w.leased, w.requests)
      BY <1>17, <2>2, <2>4 DEF NewRun, NewStatus, w
    <3>2. NewRun(o) = [w EXCEPT !.status = "waiting_approval", !.requests = w.requests]
      BY <1>3, <1>9, <3>1, RunStatuses
    <3>3. [run EXCEPT ![r].requests = w.requests, ![r].status = "waiting_approval"]
            = [run EXCEPT ![r] = NewRun(o)]
      BY <1>1, <1>4, <3>2 DEF w, RunRecord
    <3>4. call' = [call EXCEPT ![c] = "waiting_approval"]
      BY <1>2, <1>17, <2>4 DEF NewCall
    <3>5. approval' = [approval EXCEPT ![c].status = "pending"]
      <4>1. approval[c].due = FALSE
        BY <1>2, <2>1, <2>4 DEF SqlInv, RowsOK, ConsentBeforeCost, ApprovalRecord
      <4> DEFINE v == [approval[c] EXCEPT !.status = "pending"]
      <4>2. v = [status |-> "pending", due |-> FALSE]
        <5>1. v \in ApprovalRecord /\ v.status = "pending" /\ v.due = FALSE
          BY <1>2, <2>1, <4>1, ApprovalStatuses DEF ApprovalRecord
        <5> HIDE DEF v
        <5> QED
          BY <5>1 DEF ApprovalRecord
      <4>3. NewApproval(o) = "pending"
        BY <1>17, <2>4 DEF NewApproval
      <4> QED
        BY <1>2, <4>2, <4>3
    <3>6. ProposeToolCall(c, w.requests, o.e)
      BY <1>1, <2>1, <2>4, <3>3, <3>4, <3>5 DEF ProposeToolCall, w
    <3> QED
      BY <1>3, <1>4, <2>1, <3>6 DEF RepositoryNext, CallNext
  <2>5. CASE call[c] = "none" /\ c \notin Costly
    <3>1. NewRun(o) = w
      BY <1>6, <1>17, <2>2, <2>5 DEF NewRun, NewStatus, w
    <3>2. [run EXCEPT ![r].requests = w.requests] = run
      BY <1>1, <1>4 DEF w, RunRecord
    <3>3. call' = [call EXCEPT ![c] = "proposed"] /\ approval' = approval
      BY <1>2, <1>17, <2>5 DEF NewCall, NewApproval
    <3>4. ProposeToolCall(c, w.requests, o.e)
      BY <1>8, <2>1, <2>5, <3>1, <3>2, <3>3 DEF ProposeToolCall, w
    <3> QED
      BY <1>3, <1>4, <2>1, <3>4 DEF RepositoryNext, CallNext
  <2> QED
    BY <2>3, <2>4, <2>5
<1>18. CASE o.kind \in {"start", "finishTool"}
  <2>1. /\ c \in Call /\ RunOf[c] = r /\ Authorised(r, o.e)
        /\ o.kind = "finishTool" => o.to \in {"succeeded", "failed"} /\ Finishable(c, o.to)
        /\ o.kind = "start" => IF c \in Costly
                                 THEN w.status = "executing_tool" /\ call[c] = "approved"
                                 ELSE w.status = "streaming" /\ call[c] = "proposed"
    BY <1>5, <1>18, OperationFacts DEF Accepts, w, OnCall
  <2>2. NewRun(o) = w
    BY <1>6, <1>18 DEF NewRun, NewStatus, NewOwner, Leased, NewLease, w
  <2>3. UNCHANGED <<run, approval>>
    BY <1>2, <1>8, <1>18, <2>2 DEF NewApproval
  <2>4. CASE o.kind = "start"
    <3>1. StartTool(c, o.e)
      BY <1>2, <2>1, <2>3, <2>4 DEF StartTool, StartToolAs, NewCall, w
    <3> QED
      BY <1>4, <2>1, <3>1 DEF RepositoryNext, CallNext
  <2>5. CASE o.kind = "finishTool"
    <3>1. FinishTool(c, o.to, o.e) /\ o.to \in CallStatus
      BY <1>2, <2>1, <2>3, <2>5, CallStatuses DEF FinishTool, NewCall
    <3> QED
      BY <1>4, <2>1, <3>1 DEF RepositoryNext, CallNext
  <2> QED
    BY <1>18, <2>4, <2>5
<1>19. CASE o.kind \in {"decide", "expire"} /\ Expiring(o)
  <2>1. c \in Call /\ RunOf[c] = r /\ approval[c].status = "pending"
    BY <1>5, <1>19, OperationFacts DEF Accepts, OnCall
  <2> DEFINE st == IF w.status = "waiting_approval" THEN "expired" ELSE w.status
  <2>2. NewRun(o) = Columns(st, w.executor, w.leased, w.requests)
    BY <1>19 DEF NewRun, NewStatus, NewOwner, Leased, NewLease, w
  <2>3. st \in RunStatus
    BY <1>3, RunStatuses
  <2> HIDE DEF st
  <2>4. NewRun(o) = [w EXCEPT !.status = st]
    BY <1>1, <2>2, <2>3, ColumnsWritten
  <2>5. run' = [run EXCEPT ![r].status = st]
    BY <1>1, <1>4, <2>4 DEF w, RunRecord
  <2>6. NewCall(o) = "expired" /\ NewApproval(o) = "expired"
    BY <1>19 DEF NewCall, NewApproval
  <2>7. ExpireApproval(c)
    BY <1>1, <1>2, <1>4, <2>1, <2>5, <2>6 DEF ExpireApproval, st, w
  <2> QED
    BY <2>1, <2>7 DEF RepositoryNext
<1>20. CASE o.kind \in {"decide", "expire"} /\ ~Expiring(o)
  <2>1. /\ c \in Call /\ RunOf[c] = r /\ o.kind = "decide" /\ o.to \in {"approved", "rejected"}
        /\ o.e \in Executor
    BY <1>20, OperationFacts DEF OnCall, Expiring
  <2>2. Decidable(c)
    BY <1>2, <1>5, <1>20, <2>1 DEF Accepts, Expiring, Decidable, ApprovalRecord
  <2>3. NewRun(o) = Columns("executing_tool", o.e, TRUE, w.requests)
    BY <1>20, <2>1 DEF NewRun, NewStatus, NewOwner, Leased, NewLease, w
  <2>4. NewRun(o) = [w EXCEPT !.status = "executing_tool", !.executor = o.e, !.leased = TRUE]
    BY <1>4, <1>9, <2>3, RunStatuses
  <2>5. run' = [run EXCEPT ![r] = [w EXCEPT !.status = "executing_tool", !.executor = o.e,
                                            !.leased = TRUE]]
    BY <1>1, <2>4
  <2>6. /\ NewCall(o) = o.to
        /\ NewApproval(o) = IF o.to = "approved" THEN "consumed" ELSE "rejected"
    BY <1>20, <2>1 DEF NewCall, NewApproval
  <2>7. DecideApproval(c, o.to = "approved", o.e)
    BY <1>2, <2>1, <2>2, <2>5, <2>6 DEF DecideApproval, w
  <2>8. o.e # Nobody /\ (o.to = "approved") \in BOOLEAN
    BY <2>1, AgentAssumption
  <2> QED
    BY <1>4, <2>1, <2>7, <2>8 DEF RepositoryNext, CallNext
<1> QED
  BY <1>10, <1>11, <1>12, <1>13, <1>14, <1>15, <1>16, <1>17, <1>18, <1>19, <1>20, OperationFacts
     DEF OnCall

(***************************************************************************)
(* A commit leaves what the others have decided as it is.                  *)
(***************************************************************************)

\* Only a creation brings a run to life.
LEMMA NewStatusLives ==
    ASSUME SqlInv, NEW o \in Operations, o.kind # "create", Accepts(o), ~Live(o.r)
    PROVE  NewStatus(o) = run[o.r].status
<1>1. run[o.r].status \in Terminal \cup {"none"}
  BY DEF Live
<1>2. CASE o.kind = "transition"
  BY <1>1, <1>2, OperationFacts, StatusFacts DEF Accepts
<1>3. CASE o.kind \in {"finish", "propose"}
  BY <1>1, <1>3 DEF Accepts, Terminal
<1>4. CASE o.kind \in {"decide", "expire"}
  BY <1>1, <1>4 DEF Accepts, NewStatus, Expiring, Ended, Terminal
<1>5. CASE o.kind \notin {"create", "transition", "finish", "propose", "decide", "expire"}
  BY <1>5 DEF NewStatus
<1> QED
  BY <1>2, <1>3, <1>4, <1>5

LEMMA CommitStep ==
    ASSUME SqlInv, NEW p \in Client, Commit(p)
    PROVE  SqlInv' /\ [RepositoryNext]_stored
<1> PICK o : o = tx[p].op
  OBVIOUS
<1>1. /\ o \in Operations /\ Decided(p) /\ tx[p].pc \in Deciding /\ Ends(p, TRUE)
  BY DEF SqlInv, TransactionsOK, TransactionOK, Commit, Decided, Deciding
<1>2. [RepositoryNext]_stored
  BY <1>1, CommitIsOperation
<1>3. /\ Decision(o, tx[p].new) /\ (o.kind # "create" => run[o.r].status # "none")
      /\ run \in [Run -> RunRecord] /\ run' = [run EXCEPT ![o.r] = NewRun(o)]
      /\ NewCall(o) = "none" => call' = call
      /\ NewCall(o) # "none" => call' = [call EXCEPT ![o.c] = NewCall(o)]
      /\ NewApproval(o) = "none" => approval' = approval
      /\ NewApproval(o) # "none" =>
             approval' = [approval EXCEPT ![o.c] = [status |-> NewApproval(o), due |-> FALSE]]
      /\ call \in [Call -> CallStatus] /\ approval \in [Call -> ApprovalRecord]
  BY <1>1, CommitWrites
<1>4. o.r \in Run /\ (o.kind \in OnCall => o.c \in Call /\ RunOf[o.c] = o.r)
  BY <1>1, OperationFacts
<1>5. /\ \A r \in Run \ {o.r} : run'[r] = run[r]
      /\ run'[o.r].status = NewStatus(o) /\ run'[o.r].requests = run[o.r].requests
  BY <1>3, <1>4 DEF NewRun, Columns
<1>6. RowsOK'
  <2>1. \A r \in Run : run'[r].requests = 0
    BY <1>4, <1>5 DEF SqlInv, RowsOK
  <2>2. \A c \in Call : approval'[c].due => approval'[c].status = "pending"
    BY <1>3 DEF SqlInv, RowsOK, ApprovalRecord
  <2> QED
    BY <1>2, <2>1, <2>2, TypeStep, ConsentStep DEF SqlInv, RowsOK
<1>7. \A r \in Run : run[r].status # "none" => run'[r].status # "none"
  BY <1>1, <1>4, <1>5, WriteTypes DEF SqlInv, RowsOK
<1>8. ASSUME NEW q \in Client \ {p} PROVE Justified(tx[q])'
  <2>1. /\ tx'[q].pc = tx[q].pc /\ tx'[q].op = tx[q].op /\ tx'[q].new = tx[q].new
    BY <1>1, Survivors
  <2>2. Justified(tx[q]) /\ Apart(tx[p], tx[q])
    BY DEF SqlInv, TransactionsOK
  <2>3. ASSUME NEW u \in Operations, tx[q].op = u, tx[q].pc \in Deciding, Decision(u, tx[q].new)
        PROVE  Decision(u, tx[q].new)'
    <3>1. u.r \in Run \ {o.r} /\ (u.kind \in OnCall => u.c \in Call /\ RunOf[u.c] = u.r)
      <4>1. Decided(q)
        BY <2>3 DEF Decided, Deciding
      <4> QED
        BY <1>1, <2>3, <4>1, OneDecides, OperationFacts
    <3>2. u.kind \in OnCall => call'[u.c] = call[u.c] /\ approval'[u.c] = approval[u.c]
      <4>1. o.kind \notin OnCall => NewCall(o) = "none" /\ NewApproval(o) = "none"
        BY DEF OnCall, NewCall, NewApproval
      <4>2. u.kind \in OnCall /\ o.kind \in OnCall => u.c # o.c
        BY <1>4, <3>1
      <4> QED
        BY <1>3, <3>1, <4>1, <4>2
    <3>3. Write(u)' = Write(u) /\ (u.kind # "create" => (Accepts(u)' <=> Accepts(u)))
      BY <1>5, <3>1, <3>2, Local
    <3>4. ASSUME u.kind = "create", ~Taken(u.r) PROVE ~Taken(u.r)'
      <4>1. CASE OwnerOf[o.r] = OwnerOf[u.r]
        <5>1. o.kind # "create"
          BY <1>1, <2>2, <2>3, <3>4, <4>1 DEF Apart, Creates
        <5>2. ~Live(o.r) /\ Accepts(o)
          BY <1>3, <1>4, <3>4, <4>1, <5>1 DEF Taken, Decision
        <5>3. run'[o.r].status = run[o.r].status
          BY <1>1, <1>5, <5>1, <5>2, NewStatusLives
        <5>4. \A r \in Run : run'[r].status = run[r].status
          BY <1>5, <5>3
        <5> QED
          BY <3>4, <5>4 DEF Taken, Live
      <4>2. CASE OwnerOf[o.r] # OwnerOf[u.r]
        BY <1>5, <3>4, <4>2 DEF Taken, Live
      <4> QED
        BY <4>1, <4>2
    <3> QED
      BY <2>1, <2>3, <3>3, <3>4 DEF Decision
  <2> QED
    BY <1>7, <2>1, <2>2, <2>3, OperationFacts DEF Justified
<1> QED
  BY <1>1, <1>2, <1>6, <1>8, EndsStep

(***************************************************************************)
(* The theorems.                                                           *)
(***************************************************************************)
LEMMA SqlInvInit == SqlInit => SqlInv
<1> SUFFICES ASSUME SqlInit PROVE SqlInv
  OBVIOUS
<1>1. RowsOK
  BY TypeInit, ConsentInit DEF SqlInit, StoredInit, RowsOK
<1>2. \A p \in Client : tx[p] = Idle
  BY DEF SqlInit
<1>3. Justified(Idle) /\ Apart(Idle, Idle)
  BY IdleFacts DEF Justified, Apart, Creates, Deciding
<1>4. \A p \in Client : TransactionOK(tx[p]) /\ Phase(tx[p]) /\ Justified(tx[p])
  BY <1>2, <1>3, IdleFacts
<1>5. \A p, q \in Client : Apart(tx[p], tx[q])
  BY <1>2, <1>3
<1> QED
  BY <1>1, <1>4, <1>5 DEF SqlInit, SqlInv, TransactionsOK

LEMMA SqlInvStep == SqlInv /\ [SqlNext]_sqlVars => SqlInv' /\ [RepositoryNext]_stored
<1> SUFFICES ASSUME SqlInv, [SqlNext]_sqlVars PROVE SqlInv' /\ [RepositoryNext]_stored
  OBVIOUS
<1>1. CASE UNCHANGED sqlVars
  <2>1. UNCHANGED stored /\ tx' = tx
    BY <1>1 DEF sqlVars
  <2>2. RowsOK'
    BY <2>1 DEF SqlInv, RowsOK, StoredTypeOK, ConsentBeforeCost, stored
  <2>3. ASSUME NEW q \in Client PROVE Justified(tx[q])'
    <3>1. \A o \in Operations : /\ o.kind # "create" => (Accepts(o)' <=> Accepts(o))
                                /\ Write(o)' = Write(o) /\ (Taken(o.r)' <=> Taken(o.r))
      BY <2>1, Local DEF stored, Taken, Live
    <3>2. Justified(tx[q])
      BY DEF SqlInv, TransactionsOK
    <3> QED
      BY <2>1, <3>1, <3>2 DEF Justified, Decision, stored
  <2> QED
    BY <2>1, <2>2, <2>3 DEF SqlInv, TransactionsOK
<1>2. CASE \E p \in Client, o \in Operations : Begin(p, o)
  BY <1>2, BeginStep DEF Begin
<1>3. CASE \E p \in Client : ReadFirst(p)
  BY <1>3, ReadFirstStep DEF ReadFirst
<1>4. CASE \E p \in Client : Lock(p)
  BY <1>4, LockStep DEF Lock
<1>5. CASE \E p \in Client : Check(p)
  BY <1>5, CheckStep DEF Check
<1>6. CASE \E p \in Client : LockThread(p)
  BY <1>6, LockThreadStep DEF LockThread
<1>7. CASE \E p \in Client : InsertRun(p)
  BY <1>7, InsertRunStep DEF InsertRun
<1>8. CASE \E p \in Client : AddEvent(p)
  BY <1>8, AddEventStep DEF AddEvent
<1>9. CASE \E p \in Client : Commit(p)
  BY <1>9, CommitStep
<1>10. CASE \E p \in Client : Rollback(p)
  BY <1>10, RollbackStep DEF Rollback
<1>11. CASE Time
  BY <1>11, TimeStep
<1> QED
  BY <1>1, <1>2, <1>3, <1>4, <1>5, <1>6, <1>7, <1>8, <1>9, <1>10, <1>11 DEF SqlNext

\* Every commit and every tick of the database's clock is one step of the in-memory
\* repository: the locks, the second reads and the unique indexes make the transactions
\* of sql_agent.py indivisible.
THEOREM SqlImplementsRepository == SqlSpec => ImplementsRepository
<1>1. SqlInit => StoredInit
  BY DEF SqlInit
<1> QED
  BY <1>1, SqlInvInit, SqlInvStep, PTL DEF SqlSpec, ImplementsRepository, RepositorySpec

\* The invariant behind it: committed rows agree with each other, and every transaction has
\* locked, in the order of its plan, the rows that its checks and writes rely on.
THEOREM SqlInvariant == SqlSpec => []SqlInv
BY SqlInvInit, SqlInvStep, PTL DEF SqlSpec

\* The rows, the phases and the event numbers keep their types, for any finite number of
\* clients: an id never exceeds their number.
THEOREM SqlTypeCorrect == SqlSpec => []SqlTypeOK
<1>1. SqlInv => SqlTypeOK
  BY DEF SqlInv, RowsOK, TransactionsOK, TransactionOK, SqlTypeOK, Open, Pc
<1> QED
  BY <1>1, SqlInvariant, PTL

\* Of two transactions that have added an event to one run, none commits before the other:
\* there are no two, since _add_event comes after the lock on the run's row.
THEOREM SqlEventsInOrder == SqlSpec => []EventsCommitInOrder
<1>1. SqlInv => EventsCommitInOrder
  BY DEF SqlInv, TransactionsOK, TransactionOK, EventsCommitInOrder
<1> QED
  BY <1>1, SqlInvariant, PTL

\* The Gateways share one database and still an owner has one active run: create_run's
\* conflict on uq_agent_runs_owner_active refuses the second.
THEOREM SqlOneActiveRun == SqlSpec => []OneActiveRun
BY SqlImplementsRepository, RepositoryOneActiveRun, PTL DEF ImplementsRepository

\* What else the repository promises holds of the committed rows: consent before cost,
\* and nothing after the end of a run.
THEOREM SqlKeepsPromises == SqlSpec => []ConsentBeforeCost /\ NothingAfterTheEnd
BY SqlImplementsRepository, RepositoryConsent, RepositoryEnds, PTL DEF ImplementsRepository

(***************************************************************************)
(* The order of the locks.                                                 *)
(***************************************************************************)

\* Who may hold a row.  Only what is past its own plan holds the row of a run, only
\* what waits for a run, or is past it, the row of a call; and a thread or a share of it
\* is held, creations apart, only by a finish or by what commits.
LEMMA Holders ==
    ASSUME SqlInv, NEW q \in Client, tx[q].op.kind # "create", tx[q].pc # "idle",
           NEW row \in tx[q].held
    PROVE  /\ row[1] = "run" => tx[q].pc \in {"check", "thread", "event", "commit"}
           /\ row[1] = "call" /\ tx[q].pc = "lock" => Head(tx[q].plan)[1] = "run"
           /\ row[1] = "approval" /\ tx[q].pc = "lock" => Head(tx[q].plan)[1] \in {"run", "call"}
           /\ row[1] = "thread" => tx[q].pc \in {"event", "commit"} /\ row = ThreadRow(tx[q].op.r)
           /\ row[1] = "share" => tx[q].pc = "commit"
<1> DEFINE t == tx[q]  o == t.op
<1>1. Phase(t) /\ t.pc \in Pc /\ o.kind # "create" /\ t.pc # "idle" /\ row \in t.held
  BY DEF SqlInv, TransactionsOK, TransactionOK
<1> HIDE DEF t, o
<1>2. ASSUME NEW x \in Locked(o) PROVE x \in {RunRow(o.r), CallRow(o.c), ApprovalRow(o.c)}
  BY <1>1, <1>2 DEF Locked
<1>3. CASE t.pc = "lock"
  <2>1. Waiting(o, t.held, t.plan)
    BY <1>1, <1>3 DEF Phase, o
  <2>2. CASE t.plan = <<RunRow(o.r)>> /\ t.held = Locked(o) \ {RunRow(o.r)}
    <3>1. Head(t.plan)[1] = "run" /\ row \in {CallRow(o.c), ApprovalRow(o.c)}
      BY <1>1, <1>2, <2>2, PlanFacts, RowFacts
    <3> QED
      BY <1>3, <3>1, RowFacts DEF t
  <2>3. CASE /\ t.plan = <<CallRow(o.c), RunRow(o.r)>>
             /\ t.held = Locked(o) \ {CallRow(o.c), RunRow(o.r)}
    <3>1. Head(t.plan)[1] = "call" /\ row = ApprovalRow(o.c)
      BY <1>1, <1>2, <2>3, PlanFacts, RowFacts
    <3> QED
      BY <1>3, <3>1, RowFacts DEF t
  <2> QED
    BY <1>1, <2>1, <2>2, <2>3 DEF Waiting
<1>4. CASE t.pc # "lock"
  <2>1. t.pc \in {"check", "thread", "event", "commit"}
    BY <1>1, <1>4 DEF Phase, Pc, o
  <2>2. \/ row \in {RunRow(o.r), CallRow(o.c), ApprovalRow(o.c)}
        \/ row = ThreadRow(o.r) /\ t.pc \in {"event", "commit"}
        \/ row = ThreadShare(o.r) /\ t.pc = "commit"
    BY <1>1, <1>2, <2>1 DEF Phase, Held, o
  <2> QED
    BY <1>4, <2>1, <2>2, RowFacts DEF t, o
<1> QED
  BY <1>3, <1>4

\* Every waiting transaction waits for one that has come further in the order approval,
\* call, run, thread; creations are left out, which hold a thread while they wait for an
\* index.
LEMMA NobodyWaitsInACircle == SqlInv => NoDeadlock
<1> SUFFICES ASSUME SqlInv, NEW S \in SUBSET {p \in Client : tx[p].op.kind # "create"}, S # {}
             PROVE  \E p \in S : WaitsFor(p) \cap S = {}
  BY DEF NoDeadlock
<1> SUFFICES ASSUME \A p \in S : WaitsFor(p) \cap S # {} PROVE FALSE
  OBVIOUS
<1>1. ASSUME NEW p \in S
      PROVE  /\ tx[p].pc \in {"lock", "thread", "event"}
             /\ p \in Client /\ tx[p].op.kind # "create" /\ Phase(tx[p])
  <2>1. WaitsFor(p) # {}
    OBVIOUS
  <2> QED
    BY <2>1 DEF WaitsFor, SqlInv, TransactionsOK
\* Whom p waits for holds the row p asks for.
<1>2. ASSUME NEW p \in S, NEW row, WaitsFor(p) = HeldBy(row, p)
      PROVE  \E q \in S \ {p} : Excludes(row, tx[q].held)
  <2>1. PICK q \in WaitsFor(p) : q \in S
    OBVIOUS
  <2> QED
    BY <1>2, <2>1 DEF HeldBy, Others
<1>3. ASSUME NEW p \in S, tx[p].pc = "event" PROVE FALSE
  <2> DEFINE thread == ThreadRow(tx[p].op.r)
  <2>1. PICK q \in S \ {p} : thread \in tx[q].held
    <3>1. WaitsFor(p) = HeldBy(ThreadShare(tx[p].op.r), p)
      BY <1>3 DEF WaitsFor
    <3>2. PICK q \in S \ {p} : Excludes(ThreadShare(tx[p].op.r), tx[q].held)
      BY <1>2, <3>1
    <3> QED
      BY <3>2 DEF Excludes, ThreadShare, ThreadRow
  <2>2. thread[1] = "thread"
    BY RowFacts
  <2> HIDE DEF thread
  <2>3. tx[q].pc = "event" /\ thread = ThreadRow(tx[q].op.r)
    BY <1>1, <2>1, <2>2, Holders
  <2>4. PICK s \in S \ {q} : thread \in tx[s].held
    <3>1. WaitsFor(q) = HeldBy(ThreadShare(tx[q].op.r), q)
      BY <2>3 DEF WaitsFor
    <3>2. PICK s \in S \ {q} : Excludes(ThreadShare(tx[q].op.r), tx[s].held)
      BY <1>2, <3>1
    <3> QED
      BY <2>3, <3>2 DEF Excludes, ThreadShare, ThreadRow
  <2> QED
    BY <1>1, <2>1, <2>2, <2>4 DEF SqlInv, TransactionsOK, Apart
<1>4. ASSUME NEW p \in S, tx[p].pc = "thread" PROVE FALSE
  <2>1. WaitsFor(p) = HeldBy(ThreadRow(tx[p].op.r), p)
    BY <1>4 DEF WaitsFor
  <2>2. PICK q \in S \ {p} : Excludes(ThreadRow(tx[p].op.r), tx[q].held)
    BY <1>2, <2>1
  <2>3. PICK row \in tx[q].held : row[1] \in {"thread", "share"}
    BY <2>2 DEF Excludes, ThreadRow
  <2>4. tx[q].pc \in {"event", "commit"}
    BY <1>1, <2>3, Holders
  <2> QED
    BY <1>1, <1>3, <2>4
<1>5. \A p \in S : tx[p].pc = "lock" /\ Waiting(tx[p].op, tx[p].held, tx[p].plan)
  BY <1>1, <1>3, <1>4 DEF Phase
<1>6. ASSUME NEW p \in S
      PROVE  \E q \in S : /\ Head(tx[p].plan) \in tx[q].held
                          /\ Head(tx[p].plan)[1] \in {"run", "call", "approval"}
  <2>1. Head(tx[p].plan)[1] \in {"run", "call", "approval"}
    BY <1>1, <1>5, PlanFacts, RowFacts DEF Waiting
  <2>2. WaitsFor(p) = HeldBy(Head(tx[p].plan), p)
    BY <1>5 DEF WaitsFor
  <2>3. PICK q \in S \ {p} : Excludes(Head(tx[p].plan), tx[q].held)
    BY <1>2, <2>2
  <2> QED
    BY <2>1, <2>3 DEF Excludes
<1>7. ASSUME NEW p \in S, Head(tx[p].plan)[1] = "run" PROVE FALSE
  <2>1. PICK q \in S : Head(tx[p].plan) \in tx[q].held
    BY <1>6
  <2>2. q \in Client /\ tx[q].pc = "lock" /\ tx[q].op.kind # "create"
    BY <1>1, <1>5
  <2>3. tx[q].pc # "lock"
    BY <1>1, <1>7, <2>1, <2>2, Holders
  <2> QED
    BY <1>5, <2>3
<1>8. ASSUME NEW p \in S, Head(tx[p].plan)[1] = "call" PROVE FALSE
  <2>1. PICK q \in S : Head(tx[p].plan) \in tx[q].held
    BY <1>6
  <2>2. q \in Client /\ tx[q].pc = "lock" /\ tx[q].op.kind # "create"
    BY <1>1, <1>5
  <2>3. Head(tx[q].plan)[1] = "run"
    BY <1>1, <1>5, <1>8, <2>1, <2>2, Holders
  <2> QED
    BY <1>7, <2>3
<1>9. ASSUME NEW p \in S, Head(tx[p].plan)[1] = "approval" PROVE FALSE
  <2>1. PICK q \in S : Head(tx[p].plan) \in tx[q].held
    BY <1>6
  <2>2. q \in Client /\ tx[q].pc = "lock" /\ tx[q].op.kind # "create"
    BY <1>1, <1>5
  <2>3. Head(tx[q].plan)[1] \in {"run", "call"}
    BY <1>1, <1>5, <1>9, <2>1, <2>2, Holders
  <2> QED
    BY <1>7, <1>8, <2>3
<1> QED
  BY <1>6, <1>7, <1>8, <1>9

\* No circle of transactions other than creations wait for each other's rows, for any
\* number of clients: every operation locks in one order.
THEOREM SqlNoDeadlock == SqlSpec => []NoDeadlock
BY SqlInvariant, NobodyWaitsInACircle, PTL
=============================================================================
