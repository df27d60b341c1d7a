------------------------- MODULE InMemoryLeaseStore -------------------------
(***************************************************************************)
(* InMemoryLeaseStore (redis/leases.py).  Every method runs under one lock *)
(* and awaits nothing inside it, so a call is one action.  Time-to-lives   *)
(* are compared with a clock; an entry past its expiry stays in _leases    *)
(* until a method that begins with _remove_expired drops it.               *)
(***************************************************************************)
EXTENDS Integers, FiniteSets

CONSTANTS
    Gpu, Session, Nobody,
    Ttl,        \* ttl_seconds, the same for every call
    Horizon     \* bound: the clock of an instance stops here

ASSUME StoreAssumption ==
    /\ Nobody \notin Session
    /\ Ttl \in Nat \ {0}
    /\ Horizon \in Nat

VARIABLES
    now,        \* time.monotonic()
    holder,     \* holder[g]: session_id of _leases[g], or Nobody
    expires,    \* expires[g]: its expires_at_monotonic
    fresh       \* session ids not drawn yet; create draws one per acquire

vars == <<now, holder, expires, fresh>>

TypeOK ==
    /\ now \in Nat
    /\ holder \in [Gpu -> Session \cup {Nobody}]
    /\ expires \in [Gpu -> Nat]
    /\ fresh \subseteq Session

Init ==
    /\ now = 0
    /\ holder = [g \in Gpu |-> Nobody]
    /\ expires = [g \in Gpu |-> 0]
    /\ fresh = Session

Expired == {g \in Gpu : expires[g] <= now}

\* Mutants: _remove_expired does nothing; its comparison is the wrong way round.
KeepExpired     == holder
RemoveUnexpired == [g \in Gpu |-> IF g \in Expired THEN holder[g] ELSE Nobody]

\* _leases after _remove_expired.
RemoveExpired == [g \in Gpu |-> IF g \in Expired THEN Nobody ELSE holder[g]]

\* Up to requested of the candidates without an entry, all of them or, unless
\* allow_partial, none.  The caller's order decides which: any of them here.
Acquire(s, candidates, requested, partial) ==
    LET free == {g \in candidates : RemoveExpired[g] = Nobody} IN
    /\ s \in fresh
    /\ fresh' = fresh \ {s}
    /\ \E got \in SUBSET free :
           /\ IF Cardinality(free) >= requested THEN Cardinality(got) = requested
              ELSE got = IF partial THEN free ELSE {}
           /\ holder' = [g \in Gpu |-> IF g \in got THEN s ELSE RemoveExpired[g]]
           /\ expires' = [g \in Gpu |-> IF g \in got THEN now + Ttl ELSE expires[g]]
    /\ UNCHANGED now

\* Mutant: the time-to-live is taken from the clock instead of added to it.
RenewSubtracts(s) ==
    /\ holder' = RemoveExpired
    /\ expires' = [g \in Gpu |-> IF RemoveExpired[g] = s THEN now - Ttl ELSE expires[g]]
    /\ UNCHANGED <<now, fresh>>

RenewSession(s) ==
    /\ holder' = RemoveExpired
    /\ expires' = [g \in Gpu |-> IF RemoveExpired[g] = s THEN now + Ttl ELSE expires[g]]
    /\ UNCHANGED <<now, fresh>>

\* The entry may have expired meanwhile: it is compared all the same.
ReleaseGpu(g, s) ==
    /\ holder[g] = s
    /\ holder' = [holder EXCEPT ![g] = Nobody]
    /\ UNCHANGED <<now, expires, fresh>>

ReleaseSession(s) ==
    /\ holder' = [g \in Gpu |-> IF holder[g] = s THEN Nobody ELSE holder[g]]
    /\ UNCHANGED <<now, expires, fresh>>

\* active: what restore reads.
ActiveLeases ==
    /\ holder' = RemoveExpired
    /\ UNCHANGED <<now, expires, fresh>>

Tick ==
    /\ now < Horizon
    /\ now' = now + 1
    /\ UNCHANGED <<holder, expires, fresh>>

Next ==
    \/ \E s \in Session :
           \/ \E candidates \in SUBSET Gpu, requested \in 1..Cardinality(Gpu),
                 partial \in BOOLEAN : Acquire(s, candidates, requested, partial)
           \/ RenewSession(s)
           \/ \E g \in Gpu : ReleaseGpu(g, s)
           \/ ReleaseSession(s)
    \/ ActiveLeases
    \/ Tick

Spec == Init /\ [][Next]_vars

-----------------------------------------------------------------------------
\* The holder of a GPU as the store's callers see it.
LiveLease == [g \in Gpu |-> IF g \in Expired THEN Nobody ELSE holder[g]]

L == INSTANCE GpuLease WITH lease <- LiveLease

(***************************************************************************)
(* The store keeps the promise of GpuLease: a grant takes only GPUs whose  *)
(* lease is absent or past its expiry, and a release, a renewal, a lazy    *)
(* removal or the clock never hands a GPU over.                            *)
(***************************************************************************)
ImplementsGpuLease == L!LeaseSpec

(***************************************************************************)
(* A lease that has lapsed is never revived: a GPU gets a holder only by   *)
(* the one acquire of that session.  A renewal that arrives too late must  *)
(* find nothing to renew, or the loop would not notice the loss.           *)
(***************************************************************************)
NotRevived ==
    [][\A g \in Gpu : LiveLease[g] = Nobody /\ LiveLease'[g] # Nobody
                          => LiveLease'[g] \in fresh]_vars
=============================================================================
