--------------------------- MODULE ComputeSession ---------------------------
(***************************************************************************)
(* ComputeSessionService (services/compute_sessions.py): the coroutines of *)
(* the Gateway that create, renew, release, reconcile and restore compute  *)
(* sessions over the lease store of GpuLease and the PostgreSQL snapshots  *)
(* of repositories/compute.py.                                             *)
(*                                                                         *)
(* The Gateway is one asyncio loop: code between two awaits is one action. *)
(* An assignment and the _emit that follows it (save the snapshot, publish *)
(* the event) are one action, because save reads the session as it is when *)
(* it runs.  create, each release, the renewal loop and the heartbeat      *)
(* monitor keep a program counter for the await they are suspended at.     *)
(***************************************************************************)
EXTENDS GpuLease, Integers, FiniteSets

CONSTANTS
    Want,           \* requestedGpuCount of each create call
    Partial,        \* the create calls with allowPartial
    Persistent,     \* is a state repository configured?
    LateRenewal,    \* may a lease lapse while its renewal loop is running?
    Disturbance,    \* what the environment does in this instance
    Budget          \* and how often altogether, see Spend

Caller == {"user", "idle"}      \* who runs release: the route or the renewal loop

ASSUME ComputeAssumption ==
    /\ Gpu \subseteq Nat        \* slots are listed in this order
    /\ Want \in [Session -> Nat \ {0}]
    /\ Partial \subseteq Session
    /\ Persistent \in BOOLEAN
    /\ LateRenewal \in BOOLEAN
    /\ Disturbance \subseteq {"crash", "release", "idle", "silence", "renewError"}
    /\ Budget \in Nat

VARIABLES
    gateway,    \* "up", "down", or "boot" (restore has read the leases)
    state,      \* session.state of every session in self.sessions, else "none"
    error,      \* session.error_code
    slot,       \* slot[s][g].state; an ERROR state carries its last_error
    token,      \* GPUs whose slot has an entry in _fencing_tokens
    create,     \* where create(s) is suspended
    left,       \* slots create(s) has still to load
    failures,   \* did a load fail in create(s)?
    release,    \* release[s][c]: where the call is suspended
    renew,      \* where _renew_lease_loop(s) is suspended; "none": no task
    asked,      \* its local set: expected, then what is missing of it
    monitor,    \* RunnerHeartbeatMonitor.run and reconcile_stale_gpus
    silent,     \* GPUs whose Runner no longer sends heartbeats
    dbState, dbError, dbSlot,   \* compute_sessions rows; gpu_slots row per GPU
    snapshot,   \* leases.active() as read by restore
    spent       \* how many disturbances there were

session  == <<state, error, slot, token>>
creation == <<create, left, failures>>
renewal  == <<renew, asked>>
db       == <<dbState, dbError, dbSlot>>
outside  == <<gateway, silent, snapshot>>
vars     == <<lease, session, creation, release, renewal, monitor, db, outside, spent>>

SessionState == {"none", "allocating", "loading", "ready", "degraded", "failed",
                 "draining", "releasing", "released"}
ErrorCode == {"none", "PARTIAL_ALLOCATION", "MODEL_LOAD_FAILED", "GPU_LEASE_LOST",
              "GPU_MEMORY_NOT_RELEASED", "REDIS_LEASE_RENEWAL_FAILED",
              "RUNNER_HEARTBEAT_LOST"}
ErrorSlot == {"load_error", "lease_error", "memory_error", "heartbeat_error"}
SlotState == {"absent", "reserved", "loading", "ready", "unloading", "empty"} \cup ErrorSlot

Slots(s)      == {g \in Gpu : slot[s][g] # "absent"}
Registered    == {s \in Session : state[s] # "none"}
Active(s)     == {g \in Slots(s) : slot[s][g] \notin ErrorSlot \cup {"empty"}}
ReadySlots(s) == {g \in Slots(s) : slot[s][g] = "ready"}
First(S)      == CHOOSE g \in S : \A h \in S : g <= h

NoCall == [pc |-> "none", todo |-> {}, ok |-> TRUE]
NoRow  == [of |-> Nobody, st |-> "absent"]
NoScan == [pc |-> "idle", stale |-> {}, seen |-> {}, todo |-> {}, at |-> Nobody, slots |-> {}]

TypeSession ==
    /\ state \in [Session -> SessionState]
    /\ error \in [Session -> ErrorCode]
    /\ slot \in [Session -> [Gpu -> SlotState]]
    /\ token \in [Session -> SUBSET Gpu]

ReleaseCall == [pc : {"none", "drain", "unload", "next", "stop"}, todo : SUBSET Gpu, ok : BOOLEAN]

TypeCalls ==
    /\ create \in [Session -> {"new", "register", "registered", "loading", "calling",
                               "unlease", "unleased", "next", "failing", "failed", "end"}]
    /\ left \in [Session -> SUBSET Gpu]
    /\ failures \in [Session -> BOOLEAN]
    /\ release \in [Session -> [Caller -> ReleaseCall]]
    /\ renew \in [Session -> {"none", "first", "sleep", "ask", "told", "lost", "idle"}]
    /\ asked \in [Session -> SUBSET Gpu]

MonitorPc == {"idle", "free", "drop", "slot", "session", "dead"}

TypeMonitor ==
    /\ monitor \in [pc : MonitorPc, stale : SUBSET Gpu,
                    seen : SUBSET Session, todo : SUBSET Session,
                    at : Session \cup {Nobody}, slots : SUBSET Gpu]
    /\ monitor.pc \in {"free", "drop", "slot", "session"} => monitor.at \in Session

TypeDb ==
    /\ dbState \in [Session -> SessionState]
    /\ dbError \in [Session -> ErrorCode]
    /\ dbSlot \in [Gpu -> [of : Session \cup {Nobody}, st : SlotState]]

TypeOutside ==
    /\ gateway \in {"up", "down", "boot"}
    /\ silent \in SUBSET Gpu
    /\ snapshot \in [Gpu -> Session \cup {Nobody}]
    /\ spent \in 0..Budget

TypeOK ==
    LeaseTypeOK /\ TypeSession /\ TypeCalls /\ TypeMonitor /\ TypeDb /\ TypeOutside

Init ==
    /\ LeaseInit
    /\ gateway = "up"
    /\ state = [s \in Session |-> "none"]
    /\ error = [s \in Session |-> "none"]
    /\ slot = [s \in Session |-> [g \in Gpu |-> "absent"]]
    /\ token = [s \in Session |-> {}]
    /\ create = [s \in Session |-> "new"]
    /\ left = [s \in Session |-> {}]
    /\ failures = [s \in Session |-> FALSE]
    /\ release = [s \in Session |-> [c \in Caller |-> NoCall]]
    /\ renew = [s \in Session |-> "none"]
    /\ asked = [s \in Session |-> {}]
    /\ monitor = NoScan
    /\ silent = {}
    /\ dbState = [s \in Session |-> "none"]
    /\ dbError = [s \in Session |-> "none"]
    /\ dbSlot = [g \in Gpu |-> NoRow]
    /\ snapshot = [g \in Gpu |-> Nobody]
    /\ spent = 0

\* The environment disturbs the system at most Budget times.
Spend(k) ==
    /\ k \in Disturbance /\ spent < Budget
    /\ spent' = spent + 1

(***************************************************************************)
(* SqlComputeStateRepository.save: the session row, and one gpu_slots row  *)
(* per GPU, which replaces the row of any other session on that GPU.       *)
(***************************************************************************)
Save(s) ==
    IF Persistent
    THEN /\ dbState' = [dbState EXCEPT ![s] = state'[s]]
         /\ dbError' = [dbError EXCEPT ![s] = error'[s]]
         /\ dbSlot' = [g \in Gpu |-> IF slot'[s][g] # "absent"
                                     THEN [of |-> s, st |-> slot'[s][g]] ELSE dbSlot[g]]
    ELSE UNCHANGED db

SetSession(s, st, err) ==
    /\ state' = [state EXCEPT ![s] = st]
    /\ error' = [error EXCEPT ![s] = err]
SetSlot(s, g, st) == slot' = [slot EXCEPT ![s][g] = st]

-----------------------------------------------------------------------------
(* create *)

\* An idempotent replay, or too few eligible or free GPUs: no session is made.
Refuse(s) ==
    /\ gateway = "up" /\ create[s] = "new"
    /\ create' = [create EXCEPT ![s] = "end"]
    /\ UNCHANGED <<lease, session, left, failures, release, renewal, monitor, db, outside, spent>>

\* leases.acquire over some eligible pool: up to Want[s] free GPUs in one step.
Acquire(s) ==
    /\ gateway = "up" /\ create[s] = "new"
    /\ \E got \in SUBSET Gpu :
           /\ Cardinality(got) = Want[s] \/ (s \in Partial /\ Cardinality(got) < Want[s])
           /\ Grant(s, got)
           /\ left' = [left EXCEPT ![s] = got]
    /\ create' = [create EXCEPT ![s] = "register"]
    /\ UNCHANGED <<session, failures, release, renewal, monitor, db, outside, spent>>

\* The snapshot enters self.sessions with a slot and a fencing token per lease.
Register(s) ==
    /\ gateway = "up" /\ create[s] = "register"
    /\ SetSession(s, "allocating", "none")
    /\ slot' = [slot EXCEPT ![s] = [g \in Gpu |-> IF g \in left[s] THEN "reserved" ELSE "absent"]]
    /\ token' = [token EXCEPT ![s] = left[s]]
    /\ create' = [create EXCEPT ![s] = "registered"]
    /\ Save(s)
    /\ UNCHANGED <<lease, left, failures, release, renewal, monitor, outside, spent>>

\* The next turn of the load loop; the first one also starts the renewal task.
LoadSlot(s) ==
    /\ gateway = "up" /\ create[s] \in {"registered", "next"} /\ left[s] # {}
    /\ SetSlot(s, First(left[s]), "loading")
    /\ IF create[s] = "registered"
       THEN /\ state' = [state EXCEPT ![s] = "loading"]
            /\ renew' = [renew EXCEPT ![s] = "sleep"]
       ELSE UNCHANGED <<state, renew>>
    /\ create' = [create EXCEPT ![s] = "loading"]
    /\ UNCHANGED error
    /\ Save(s)
    /\ UNCHANGED <<lease, token, left, failures, release, asked, monitor, outside, spent>>

\* backend.load_slot is called with the slot's token.
CallLoad(s) ==
    /\ gateway = "up" /\ create[s] = "loading" /\ First(left[s]) \in token[s]
    /\ create' = [create EXCEPT ![s] = "calling"]
    /\ UNCHANGED <<lease, session, left, failures, release, renewal, monitor, db, outside, spent>>

LoadReturns(s) ==
    /\ gateway = "up" /\ create[s] = "calling"
    /\ SetSlot(s, First(left[s]), "ready")
    /\ left' = [left EXCEPT ![s] = @ \ {First(left[s])}]
    /\ create' = [create EXCEPT ![s] = "next"]
    /\ UNCHANGED <<state, error>>
    /\ Save(s)
    /\ UNCHANGED <<lease, token, failures, release, renewal, monitor, outside, spent>>

\* load_slot raised, or the token is gone (KeyError); then release_gpu is awaited.
LoadRaises(s) ==
    /\ gateway = "up"
    /\ \/ create[s] = "calling"
       \/ create[s] = "loading" /\ First(left[s]) \notin token[s]
    /\ SetSlot(s, First(left[s]), "load_error")
    /\ failures' = [failures EXCEPT ![s] = TRUE]
    /\ create' = [create EXCEPT ![s] = "unlease"]
    /\ UNCHANGED <<lease, state, error, token, left, release, renewal, monitor, db, outside, spent>>

\* release_gpu deletes the lease of the slot ...
Unlease(s) ==
    /\ gateway = "up" /\ create[s] = "unlease"
    /\ Drop(s, {First(left[s])})
    /\ create' = [create EXCEPT ![s] = "unleased"]
    /\ UNCHANGED <<session, left, failures, release, renewal, monitor, db, outside, spent>>

\* ... and once it has returned the token goes and the slot is saved.
LoadUnleased(s) ==
    /\ gateway = "up" /\ create[s] = "unleased"
    /\ token' = [token EXCEPT ![s] = @ \ {First(left[s])}]
    /\ left' = [left EXCEPT ![s] = @ \ {First(left[s])}]
    /\ create' = [create EXCEPT ![s] = "next"]
    /\ UNCHANGED <<state, error, slot>>
    /\ Save(s)
    /\ UNCHANGED <<lease, failures, release, renewal, monitor, outside, spent>>

\* All slots were tried: whatever the session is now, it becomes READY or
\* DEGRADED.  READY leaves error_code as it is.
Settle(s) ==
    /\ gateway = "up" /\ create[s] = "next" /\ left[s] = {} /\ ReadySlots(s) # {}
    /\ IF ReadySlots(s) = Slots(s) /\ Cardinality(Slots(s)) = Want[s]
       THEN SetSession(s, "ready", error[s])
       ELSE SetSession(s, "degraded",
                IF failures[s] THEN "MODEL_LOAD_FAILED" ELSE "PARTIAL_ALLOCATION")
    /\ create' = [create EXCEPT ![s] = "end"]
    /\ UNCHANGED slot
    /\ Save(s)
    /\ UNCHANGED <<lease, token, left, failures, release, renewal, monitor, outside, spent>>

\* No slot is ready: FAILED; release_session is awaited before it is saved.
Fail(s) ==
    /\ gateway = "up" /\ create[s] = "next" /\ left[s] = {} /\ ReadySlots(s) = {}
    /\ SetSession(s, "failed", "MODEL_LOAD_FAILED")
    /\ create' = [create EXCEPT ![s] = "failing"]
    /\ UNCHANGED <<lease, slot, token, left, failures, release, renewal, monitor, db, outside, spent>>

\* _stop_lease_renewal: the task is cancelled with the idle release it may be running.
StopRenewal(s) ==
    /\ renew' = [renew EXCEPT ![s] = "none"]
    /\ asked' = [asked EXCEPT ![s] = {}]

FailReleases(s) ==
    /\ gateway = "up" /\ create[s] = "failing"
    /\ Drop(s, Gpu)
    /\ create' = [create EXCEPT ![s] = "failed"]
    /\ UNCHANGED <<session, left, failures, release, renewal, monitor, db, outside, spent>>

Failed(s) ==
    /\ gateway = "up" /\ create[s] = "failed"
    /\ StopRenewal(s)
    /\ release' = [release EXCEPT ![s]["idle"] = NoCall]
    /\ create' = [create EXCEPT ![s] = "end"]
    /\ UNCHANGED <<state, error, slot>>
    /\ Save(s)
    /\ UNCHANGED <<lease, token, left, failures, monitor, outside, spent>>

-----------------------------------------------------------------------------
(* release, by the route or by the renewal loop *)

Begin(s, c) ==
    /\ release[s][c] = NoCall
    /\ SetSession(s, "draining", error[s])
    /\ release' = [release EXCEPT ![s][c] = [pc |-> "drain", todo |-> Slots(s), ok |-> TRUE]]
    /\ UNCHANGED slot
    /\ Save(s)
    /\ UNCHANGED <<lease, token, creation, asked, monitor, outside>>

UserRelease(s) ==
    /\ gateway = "up" /\ s \in Registered /\ state[s] # "released"
    /\ Spend("release")
    /\ Begin(s, "user")
    /\ UNCHANGED renew

\* The renewal loop finds the session idle past idle_ttl_seconds.
IdleRelease(s) ==
    /\ gateway = "up" /\ renew[s] \in {"first", "sleep"} /\ state[s] \in {"ready", "degraded"}
    /\ Spend("idle")
    /\ Begin(s, "idle")
    /\ renew' = [renew EXCEPT ![s] = "idle"]

\* Mutant: the session is given the slot's state.
ReleasingAsSlot(s, c) ==
    /\ state' = [state EXCEPT ![s] = IF release[s][c].pc = "drain" THEN "unloading" ELSE @]
    /\ UNCHANGED error

\* The first turn of the slot loop follows the assignment of RELEASING.
Releasing(s, c) ==
    /\ state' = [state EXCEPT ![s] = IF release[s][c].pc = "drain" THEN "releasing" ELSE @]
    /\ UNCHANGED error

Unload(s, c) ==
    LET call == release[s][c] IN
    /\ gateway = "up" /\ call.pc \in {"drain", "next"} /\ call.todo # {}
    /\ Releasing(s, c)
    /\ SetSlot(s, First(call.todo), "unloading")
    /\ release' = [release EXCEPT ![s][c].pc = "unload"]
    /\ Save(s)
    /\ UNCHANGED <<lease, token, creation, renewal, monitor, outside, spent>>

\* backend.release_slot returned whether the GPU memory was given back.
Unloaded(s, c, released) ==
    LET call == release[s][c] IN
    /\ gateway = "up" /\ call.pc = "unload"
    /\ SetSlot(s, First(call.todo), IF released THEN "empty" ELSE "memory_error")
    /\ release' = [release EXCEPT ![s][c] = [pc |-> "next", ok |-> call.ok /\ released,
                                             todo |-> call.todo \ {First(call.todo)}]]
    /\ UNCHANGED <<state, error>>
    /\ Save(s)
    /\ UNCHANGED <<lease, token, creation, renewal, monitor, outside, spent>>

\* The call is over; the renewal loop returns after the release it ran.
Returned(s, c) ==
    /\ release' = [release EXCEPT ![s][c] = NoCall]
    /\ renew' = [renew EXCEPT ![s] = IF c = "idle" THEN "none" ELSE @]
    /\ UNCHANGED asked

\* backend.release_slot raised TimeoutError, which nobody catches.
UnloadRaises(s, c) ==
    /\ gateway = "up" /\ release[s][c].pc = "unload"
    /\ Returned(s, c)
    /\ UNCHANGED <<lease, session, creation, monitor, db, outside, spent>>

\* Mutant: release_session is not called.
FreeNothing(s, c) ==
    LET call == release[s][c] IN
    /\ gateway = "up" /\ call.pc \in {"drain", "next"} /\ call.todo = {} /\ call.ok
    /\ Releasing(s, c)
    /\ release' = [release EXCEPT ![s][c].pc = "stop"]
    /\ UNCHANGED <<lease, slot, token, creation, renewal, monitor, db, outside, spent>>

\* Every slot was released: leases.release_session is awaited.
FreeLeases(s, c) ==
    LET call == release[s][c] IN
    /\ gateway = "up" /\ call.pc \in {"drain", "next"} /\ call.todo = {} /\ call.ok
    /\ Releasing(s, c)
    /\ Drop(s, Gpu)
    /\ release' = [release EXCEPT ![s][c].pc = "stop"]
    /\ UNCHANGED <<slot, token, creation, renewal, monitor, db, outside, spent>>

Released(s, c) ==
    /\ gateway = "up" /\ release[s][c].pc = "stop"
    /\ token' = [token EXCEPT ![s] = {}]
    /\ StopRenewal(s)
    /\ release' = [release EXCEPT ![s] = [@ EXCEPT !["idle"] = NoCall, ![c] = NoCall]]
    /\ SetSession(s, "released", error[s])
    /\ UNCHANGED slot
    /\ Save(s)
    /\ UNCHANGED <<lease, creation, monitor, outside, spent>>

ReleaseFails(s, c) ==
    LET call == release[s][c] IN
    /\ gateway = "up" /\ call.pc \in {"drain", "next"} /\ call.todo = {} /\ ~call.ok
    /\ SetSession(s, "failed", "GPU_MEMORY_NOT_RELEASED")
    /\ Returned(s, c)
    /\ UNCHANGED slot
    /\ Save(s)
    /\ UNCHANGED <<lease, token, creation, monitor, outside, spent>>

-----------------------------------------------------------------------------
(* _renew_lease_loop *)

\* Mutant: EMPTY slots are renewed too.
ExpectedWithEmpty(s) == {g \in Slots(s) : slot[s][g] \notin ErrorSlot \ {"memory_error"}}

\* Slots whose lease the loop wants renewed.
Expected(s) == {g \in Slots(s) : slot[s][g] \notin {"empty"} \cup (ErrorSlot \ {"memory_error"})}

RenewWakes(s) ==
    /\ gateway = "up" /\ renew[s] \in {"first", "sleep"}
    /\ asked' = [asked EXCEPT ![s] = Expected(s)]
    /\ renew' = [renew EXCEPT ![s] = IF Expected(s) = {} THEN "none" ELSE "ask"]
    /\ UNCHANGED <<lease, session, creation, release, monitor, db, outside, spent>>

\* Mutant: the store renews whatever key it finds.
StoreRenewsAnyKey(s) ==
    /\ renew[s] = "ask"
    /\ asked' = [asked EXCEPT ![s] = @ \cap Free]
    /\ renew' = [renew EXCEPT ![s] = "told"]
    /\ UNCHANGED <<lease, session, creation, release, monitor, db, outside, spent>>

\* The store renews every lease of the session and answers with their GPUs.
StoreRenews(s) ==
    /\ renew[s] = "ask"
    /\ asked' = [asked EXCEPT ![s] = @ \ HeldBy(s)]
    /\ renew' = [renew EXCEPT ![s] = "told"]
    /\ UNCHANGED <<lease, session, creation, release, monitor, db, outside, spent>>

\* renew_session raised.
RenewRaises(s) ==
    /\ gateway = "up" /\ renew[s] \in {"ask", "told"}
    /\ Spend("renewError")
    /\ SetSession(s, "failed", "REDIS_LEASE_RENEWAL_FAILED")
    /\ StopRenewal(s)
    /\ UNCHANGED slot
    /\ Save(s)
    /\ UNCHANGED <<lease, token, creation, release, monitor, outside>>

\* Nothing is missing: the loop tests its condition and sleeps again.
RenewedAll(s) ==
    /\ gateway = "up" /\ renew[s] = "told" /\ asked[s] = {}
    /\ renew' = [renew EXCEPT ![s] = IF state[s] = "released" THEN "none" ELSE "sleep"]
    /\ UNCHANGED <<lease, session, creation, release, asked, monitor, db, outside, spent>>

\* One slot whose lease was not renewed.
LoseSlot(s) ==
    /\ gateway = "up" /\ renew[s] \in {"told", "lost"} /\ asked[s] # {}
    /\ SetSlot(s, First(asked[s]), "lease_error")
    /\ asked' = [asked EXCEPT ![s] = @ \ {First(asked[s])}]
    /\ renew' = [renew EXCEPT ![s] = "lost"]
    /\ UNCHANGED <<state, error>>
    /\ Save(s)
    /\ UNCHANGED <<lease, token, creation, release, monitor, outside, spent>>

LoseSession(s) ==
    /\ gateway = "up" /\ renew[s] = "lost" /\ asked[s] = {}
    /\ SetSession(s, "failed", "GPU_LEASE_LOST")
    /\ StopRenewal(s)
    /\ UNCHANGED slot
    /\ Save(s)
    /\ UNCHANGED <<lease, token, creation, release, monitor, outside, spent>>

-----------------------------------------------------------------------------
(* RunnerHeartbeatMonitor.run and reconcile_stale_gpus *)

\* Mutant: only READY slots are reconciled.
StaleReadySlots(s, stale) == ReadySlots(s) \cap stale

StaleSlots(s, stale) == Active(s) \cap stale

\* A stale slot is marked ERROR; release_gpu is awaited.
MarkStale(s, g, scan) ==
    /\ SetSlot(s, g, "heartbeat_error")
    /\ monitor' = [scan EXCEPT !.pc = "free", !.at = s, !.todo = @ \ {s},
                               !.slots = {h \in Slots(s) : g <= h}]
    /\ UNCHANGED <<state, error, token, db>>

\* A scan starts and runs to its first stale slot.
Detect ==
    LET stale == silent \cap UNION {Active(s) : s \in Registered}
        scan  == [NoScan EXCEPT !.stale = stale, !.seen = Registered, !.todo = Registered]
    IN
    /\ gateway = "up" /\ monitor.pc = "idle"
    /\ \E s \in Registered :
           /\ StaleSlots(s, stale) # {}
           /\ MarkStale(s, First(StaleSlots(s, stale)), scan)
    /\ UNCHANGED <<lease, creation, release, renewal, outside, spent>>

\* release_gpu deletes the lease; create may set the slot READY before it returns.
StaleFreed ==
    /\ gateway = "up" /\ monitor.pc = "free"
    /\ Drop(monitor.at, {First(monitor.slots)})
    /\ monitor' = [monitor EXCEPT !.pc = "drop"]
    /\ UNCHANGED <<session, creation, release, renewal, db, outside, spent>>

\* Mutant: the token of the slot is kept.
StaleDroppedKeepsToken ==
    /\ gateway = "up" /\ monitor.pc = "drop"
    /\ monitor' = [monitor EXCEPT !.pc = "slot", !.slots = @ \ {First(monitor.slots)}]
    /\ UNCHANGED session
    /\ Save(monitor.at)
    /\ UNCHANGED <<lease, creation, release, renewal, outside, spent>>

\* The token goes and the slot is saved.
StaleDropped ==
    LET s == monitor.at
        g == First(monitor.slots)
    IN
    /\ gateway = "up" /\ monitor.pc = "drop"
    /\ token' = [token EXCEPT ![s] = @ \ {g}]
    /\ monitor' = [monitor EXCEPT !.pc = "slot", !.slots = @ \ {g}]
    /\ UNCHANGED <<state, error, slot>>
    /\ Save(s)
    /\ UNCHANGED <<lease, creation, release, renewal, outside, spent>>

\* The next stale slot of this session, or the session's new state.
NextStaleSlot ==
    LET s    == monitor.at
        more == StaleSlots(s, monitor.stale) \cap monitor.slots
    IN
    /\ gateway = "up" /\ monitor.pc = "slot"
    /\ IF more # {}
       THEN MarkStale(s, First(more), monitor)
       ELSE /\ SetSession(s, IF ReadySlots(s) # {} THEN "degraded" ELSE "failed",
                          "RUNNER_HEARTBEAT_LOST")
            /\ monitor' = [monitor EXCEPT !.pc = "session"]
            /\ UNCHANGED <<slot, token>>
            /\ Save(s)
    /\ UNCHANGED <<lease, creation, release, renewal, outside, spent>>

(***************************************************************************)
(* The next session of the iteration over self.sessions.  A session that   *)
(* was registered meanwhile makes the dictionary iterator raise            *)
(* RuntimeError, which ends the monitor task.                              *)
(***************************************************************************)
NextStaleSession ==
    LET more == {s \in monitor.todo : StaleSlots(s, monitor.stale) # {}} IN
    /\ gateway = "up" /\ monitor.pc = "session"
    /\ IF Registered # monitor.seen
       THEN monitor' = [NoScan EXCEPT !.pc = "dead"] /\ UNCHANGED <<session, db>>
       ELSE \/ \E s \in more : MarkStale(s, First(StaleSlots(s, monitor.stale)), monitor)
            \/ more = {} /\ monitor' = NoScan /\ UNCHANGED <<session, db>>
    /\ UNCHANGED <<lease, creation, release, renewal, outside, spent>>

-----------------------------------------------------------------------------
(* The environment, a crash of the Gateway and restore *)

\* A Runner falls silent.
RunnerSilent(g) ==
    /\ g \notin silent
    /\ Spend("silence")
    /\ silent' = silent \cup {g}
    /\ UNCHANGED <<lease, session, creation, release, renewal, monitor, db, gateway, snapshot>>

(***************************************************************************)
(* The time-to-live of a lease runs out.  A renewal loop in its rhythm (a  *)
(* third of the TTL) and a create that has just acquired prevent that, but *)
(* not the first renewal after restore, whose lease may be almost over.    *)
(***************************************************************************)
Kept(s) ==
    /\ gateway = "up" /\ ~LateRenewal
    /\ renew[s] \in {"sleep", "ask", "told"} \/ create[s] \in {"register", "registered"}

Expire(g) ==
    /\ lease[g] # Nobody /\ ~Kept(lease[g])
    /\ Lapse({g})
    /\ UNCHANGED <<session, creation, release, renewal, monitor, db, outside, spent>>

\* The process ends: its memory and every coroutine are gone.
Crash ==
    /\ gateway = "up"
    /\ Spend("crash")
    /\ gateway' = "down"
    /\ state' = [s \in Session |-> "none"]
    /\ error' = [s \in Session |-> "none"]
    /\ slot' = [s \in Session |-> [g \in Gpu |-> "absent"]]
    /\ token' = [s \in Session |-> {}]
    /\ create' = [s \in Session |-> IF create[s] = "new" THEN "new" ELSE "end"]
    /\ left' = [s \in Session |-> {}]
    /\ failures' = [s \in Session |-> FALSE]
    /\ release' = [s \in Session |-> [c \in Caller |-> NoCall]]
    /\ renew' = [s \in Session |-> "none"]
    /\ asked' = [s \in Session |-> {}]
    /\ monitor' = NoScan
    /\ UNCHANGED <<lease, db, silent, snapshot>>

\* restore reads the live leases first.
ReadLeases ==
    /\ gateway = "down"
    /\ gateway' = "boot"
    /\ snapshot' = lease
    /\ UNCHANGED <<lease, session, creation, release, renewal, monitor, db, silent, spent>>

\* load_active: the rows that are not RELEASED.
Restorable == {s \in Session : dbState[s] \notin {"none", "released"}}
Rows(s)    == {g \in Gpu : dbSlot[g].of = s}
Owned(s)   == {g \in Rows(s) : snapshot[g] = s}
LostRows(s) == {g \in Rows(s) \ Owned(s) : dbSlot[g].st \notin ErrorSlot \cup {"empty"}}

(***************************************************************************)
(* Every session that is not RELEASED comes back with its tokens; a slot   *)
(* in use whose lease is gone is fenced off and fails its session.         *)
(***************************************************************************)
Restore ==
    /\ gateway = "boot"
    /\ gateway' = "up"
    /\ state' = [s \in Session |-> IF s \notin Restorable THEN "none"
                                   ELSE IF LostRows(s) # {} THEN "failed" ELSE dbState[s]]
    /\ error' = [s \in Session |-> IF s \notin Restorable THEN "none"
                                   ELSE IF LostRows(s) # {} THEN "GPU_LEASE_LOST" ELSE dbError[s]]
    /\ slot' = [s \in Session |-> [g \in Gpu |->
                   IF s \notin Restorable \/ g \notin Rows(s) THEN "absent"
                   ELSE IF g \in LostRows(s) THEN "lease_error" ELSE dbSlot[g].st]]
    /\ token' = [s \in Session |-> IF s \in Restorable THEN Owned(s) ELSE {}]
    /\ renew' = [s \in Session |-> IF s \in Restorable /\ Owned(s) # {} THEN "first" ELSE "none"]
    /\ dbState' = [s \in Session |-> IF s \in Restorable THEN state'[s] ELSE dbState[s]]
    /\ dbError' = [s \in Session |-> IF s \in Restorable THEN error'[s] ELSE dbError[s]]
    /\ dbSlot' = [g \in Gpu |-> IF dbSlot[g].of \in Restorable
                                THEN [dbSlot[g] EXCEPT !.st = slot'[dbSlot[g].of][g]] ELSE dbSlot[g]]
    /\ UNCHANGED <<lease, creation, release, asked, monitor, silent, snapshot, spent>>

-----------------------------------------------------------------------------
Creates(s) ==
    \/ Register(s) \/ LoadSlot(s) \/ CallLoad(s) \/ LoadReturns(s) \/ LoadRaises(s)
    \/ Unlease(s) \/ LoadUnleased(s) \/ Settle(s) \/ Fail(s) \/ FailReleases(s) \/ Failed(s)

Releases(s, c) ==
    \/ Unload(s, c) \/ (\E released \in BOOLEAN : Unloaded(s, c, released))
    \/ UnloadRaises(s, c) \/ FreeLeases(s, c) \/ Released(s, c) \/ ReleaseFails(s, c)

Renews(s) ==
    \/ RenewWakes(s) \/ StoreRenews(s) \/ RenewedAll(s) \/ LoseSlot(s) \/ LoseSession(s)

Monitors == Detect \/ StaleFreed \/ StaleDropped \/ NextStaleSlot \/ NextStaleSession

Boots == ReadLeases \/ Restore

Next ==
    \/ \E s \in Session :
           \/ Refuse(s) \/ Acquire(s) \/ Creates(s)
           \/ UserRelease(s) \/ IdleRelease(s) \/ (\E c \in Caller : Releases(s, c))
           \/ Renews(s) \/ RenewRaises(s)
    \/ Monitors
    \/ \E g \in Gpu : RunnerSilent(g) \/ Expire(g)
    \/ Crash \/ Boots

Spec == Init /\ [][Next]_vars

(***************************************************************************)
(* The event loop runs every coroutine that can run, a backend call returns*)
(* or times out (wait_command_result), Redis answers or raises, TTLs run   *)
(* out and supervisord restarts the Gateway.  Nothing makes a user release,*)
(* a session idle, a Runner silent or the Gateway crash.                   *)
(***************************************************************************)
FairSpec ==
    /\ Spec
    /\ \A s \in Session :
           /\ WF_vars(Creates(s))
           /\ \A c \in Caller : WF_vars(Releases(s, c))
           /\ WF_vars(Renews(s))
    /\ WF_vars(Monitors)
    /\ \A g \in Gpu : WF_vars(Expire(g))
    /\ WF_vars(Boots)

-----------------------------------------------------------------------------
(* Properties *)

(***************************************************************************)
(* A session that reports RELEASED holds no lease, whatever create, the    *)
(* renewal loop and the monitor were doing meanwhile: release deletes the  *)
(* leases before it says so, and nothing acquires for a session again.     *)
(***************************************************************************)
ReleasedHoldsNoLease ==
    \A s \in Session : state[s] = "released" => HeldBy(s) = {}

(***************************************************************************)
(* Why: nobody acts for a session before its create has registered it, and *)
(* the leases are gone from the await that follows release_session on.     *)
(***************************************************************************)
Unborn(s) ==
    create[s] \in {"new", "register"} =>
        /\ state[s] = "none" /\ dbState[s] = "none" /\ renew[s] = "none"
        /\ \A c \in Caller : release[s][c].pc = "none"
        /\ Slots(s) = {} /\ monitor.at # s

Freed(s) ==
    (state[s] = "released" \/ \E c \in Caller : release[s][c].pc = "stop") => HeldBy(s) = {}

ReleaseInv == \A s \in Session : Unborn(s) /\ Freed(s)

(***************************************************************************)
(* The token of a READY slot of a session whose renewal loop has confirmed *)
(* its leases names the live lease of the GPU, so no other session can be  *)
(* given that GPU: scheduling a job with a dead token is what a second     *)
(* allocation of the GPU would need.  Release, create and the monitor all  *)
(* delete the lease before they take the token away, and await the store   *)
(* in between: only in that await may the token outlive the lease.  (The   *)
(* slot create gives up there is in error; but the slot the monitor gives  *)
(* up may be set READY in it, by the load that was under way.)             *)
(***************************************************************************)
GivenUp(s, g) ==
    \/ \E c \in Caller : release[s][c].pc = "stop"
    \/ create[s] = "unleased" /\ g = First(left[s])
    \/ monitor.pc = "drop" /\ monitor.at = s /\ g = First(monitor.slots)

ConfirmedTokenIsLive ==
    \A s \in Session, g \in Gpu :
        renew[s] = "sleep" /\ g \in token[s] \cap ReadySlots(s)
        => lease[g] = s \/ GivenUp(s, g)

(***************************************************************************)
(* A step taken for one session never ends a lease of another one, even if *)
(* the GPU was re-granted while a late release_gpu of the old session was  *)
(* under way (release is compare-and-delete).                              *)
(***************************************************************************)
Local(s) == <<state[s], error[s], slot[s], token[s], create[s], left[s], failures[s],
              release[s], renew[s], asked[s]>>

OnlyOwnerFrees ==
    [][\A s, t \in Session : s # t /\ Local(t)' # Local(t) => HeldBy(s) \subseteq HeldBy(s)']_vars

(***************************************************************************)
(* A session that needs none of its GPUs any more (every slot is EMPTY or  *)
(* in an error that gave the GPU up, no create or release is at work on    *)
(* it) loses its leases in the end: the renewal loop notices and stops.    *)
(***************************************************************************)
Unused(s) ==
    /\ create[s] = "end"
    /\ \A g \in Slots(s) : slot[s][g] \in {"empty", "load_error", "lease_error", "heartbeat_error"}
    /\ \A c \in Caller : release[s][c].pc = "none"

UnusedLeasesEnd ==
    \A s \in Session : Unused(s) ~> (HeldBy(s) = {} \/ ~Unused(s))

(***************************************************************************)
(* A GPU whose Runner is silent does not keep an active slot: the monitor  *)
(* marks it, or its session gives it up (runner_heartbeats.py).            *)
(***************************************************************************)
SilentSlotFails ==
    \A s \in Session, g \in Gpu : (g \in silent /\ g \in Active(s)) ~> g \notin Active(s)
=============================================================================
