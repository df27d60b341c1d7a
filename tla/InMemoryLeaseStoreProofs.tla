---------------------- MODULE InMemoryLeaseStoreProofs ----------------------
(* InMemoryLeaseStore keeps its types, implements GpuLease and revives no lease. *)
EXTENDS InMemoryLeaseStore, TLAPS

(***************************************************************************)
(* Every call keeps the entries of _leases well formed.                    *)
(***************************************************************************)
LEMMA TypeStep == TypeOK /\ [Next]_vars => TypeOK'
<1> SUFFICES ASSUME TypeOK, [Next]_vars PROVE TypeOK'
    OBVIOUS
<1> USE StoreAssumption DEF TypeOK, RemoveExpired, Expired
<1>1. ASSUME NEW s \in Session, NEW candidates \in SUBSET Gpu,
             NEW requested \in 1..Cardinality(Gpu), NEW partial \in BOOLEAN,
             Acquire(s, candidates, requested, partial)
      PROVE TypeOK'
  BY <1>1 DEF Acquire
<1>2. ASSUME NEW s \in Session, RenewSession(s) PROVE TypeOK'
  BY <1>2 DEF RenewSession
<1>3. ASSUME NEW s \in Session, NEW g \in Gpu, ReleaseGpu(g, s) PROVE TypeOK'
  BY <1>3 DEF ReleaseGpu
<1>4. ASSUME NEW s \in Session, ReleaseSession(s) PROVE TypeOK'
  BY <1>4 DEF ReleaseSession
<1>5. CASE ActiveLeases
  BY <1>5 DEF ActiveLeases
<1>6. CASE Tick
  BY <1>6 DEF Tick
<1>7. CASE UNCHANGED vars
  BY <1>7 DEF vars
<1> QED
  BY <1>1, <1>2, <1>3, <1>4, <1>5, <1>6, <1>7 DEF Next

(***************************************************************************)
(* The store's variables keep their types.                                 *)
(***************************************************************************)
THEOREM TypeCorrect == Spec => []TypeOK
<1>1. Init => TypeOK
  BY DEF Init, TypeOK
<1> QED
  BY <1>1, TypeStep, PTL DEF Spec

-----------------------------------------------------------------------------
(***************************************************************************)
(* What a call may do to the leases its clients see: acquire grants free   *)
(* GPUs to a fresh session id; everything else only ends leases.           *)
(***************************************************************************)
Ends == \E gpus \in SUBSET Gpu : L!Lapse(gpus)

LEMMA AcquireGrants ==
    ASSUME TypeOK, NEW s \in Session, NEW candidates \in SUBSET Gpu,
           NEW requested \in 1..Cardinality(Gpu), NEW partial \in BOOLEAN,
           Acquire(s, candidates, requested, partial)
    PROVE  s \in fresh /\ (UNCHANGED LiveLease \/ \E got \in SUBSET Gpu : L!Grant(s, got))
<1> USE StoreAssumption DEF TypeOK, RemoveExpired, LiveLease, Expired
<1>1. PICK got \in SUBSET {g \in candidates : RemoveExpired[g] = Nobody} :
          /\ holder' = [g \in Gpu |-> IF g \in got THEN s ELSE RemoveExpired[g]]
          /\ expires' = [g \in Gpu |-> IF g \in got THEN now + Ttl ELSE expires[g]]
  BY DEF Acquire
<1>2. now' = now /\ s \in fresh
  BY DEF Acquire
<1>3. LiveLease' = [g \in Gpu |-> IF g \in got THEN s ELSE LiveLease[g]]
  BY <1>1, <1>2
<1>4. got \subseteq L!Free
  BY <1>1 DEF L!Free
<1>5. CASE got = {}
  BY <1>3, <1>5, <1>2
<1>6. CASE got # {}
  <2>1. got \in SUBSET Gpu
    BY <1>4 DEF L!Free
  <2>2. L!Grant(s, got)
    BY <1>3, <1>4, <1>6 DEF L!Grant
  <2> QED
    BY <2>1, <2>2, <1>2
<1> QED
  BY <1>5, <1>6

LEMMA OthersEnd ==
    ASSUME TypeOK,
           \/ \E s \in Session : RenewSession(s) \/ ReleaseSession(s)
                                 \/ \E g \in Gpu : ReleaseGpu(g, s)
           \/ ActiveLeases \/ Tick
    PROVE  Ends
<1> USE StoreAssumption DEF TypeOK, RemoveExpired, LiveLease, Expired, L!Lapse, Ends
<1>1. ASSUME NEW s \in Session, RenewSession(s) PROVE Ends
  <2>1. LiveLease' = [g \in Gpu |-> IF g \in {} THEN Nobody ELSE LiveLease[g]]
    BY <1>1 DEF RenewSession
  <2> QED
    BY <2>1
<1>2. ASSUME NEW s \in Session, ReleaseSession(s) PROVE Ends
  <2> DEFINE gpus == {g \in Gpu : holder[g] = s}
  <2>1. LiveLease' = [g \in Gpu |-> IF g \in gpus THEN Nobody ELSE LiveLease[g]]
    BY <1>2 DEF ReleaseSession
  <2> QED
    BY <2>1
<1>3. ASSUME NEW s \in Session, NEW h \in Gpu, ReleaseGpu(h, s) PROVE Ends
  <2>1. LiveLease' = [g \in Gpu |-> IF g \in {h} THEN Nobody ELSE LiveLease[g]]
    BY <1>3 DEF ReleaseGpu
  <2> QED
    BY <2>1
<1>4. CASE ActiveLeases
  <2>1. LiveLease' = [g \in Gpu |-> IF g \in {} THEN Nobody ELSE LiveLease[g]]
    BY <1>4 DEF ActiveLeases
  <2> QED
    BY <2>1
<1>5. CASE Tick
  <2> DEFINE gpus == {g \in Gpu : expires[g] <= now + 1}
  <2>1. LiveLease' = [g \in Gpu |-> IF g \in gpus THEN Nobody ELSE LiveLease[g]]
    BY <1>5 DEF Tick
  <2> QED
    BY <2>1
<1> QED
  BY <1>1, <1>2, <1>3, <1>4, <1>5

LEMMA LeaseStep == TypeOK /\ [Next]_vars => [L!LeaseNext]_LiveLease
<1> SUFFICES ASSUME TypeOK, [Next]_vars PROVE [L!LeaseNext]_LiveLease
    OBVIOUS
<1>1. ASSUME NEW s \in Session, NEW candidates \in SUBSET Gpu,
             NEW requested \in 1..Cardinality(Gpu), NEW partial \in BOOLEAN,
             Acquire(s, candidates, requested, partial)
      PROVE  [L!LeaseNext]_LiveLease
  BY <1>1, AcquireGrants DEF L!LeaseNext
<1>2. CASE UNCHANGED vars
  BY <1>2 DEF vars, LiveLease, Expired
<1>3. Ends => L!LeaseNext
  BY DEF Ends, L!LeaseNext
<1> QED
  BY <1>1, <1>2, <1>3, OthersEnd DEF Next

(***************************************************************************)
(* The in-memory store implements the abstract one: under LiveLease every  *)
(* behaviour of its entries and its clock is a behaviour of GpuLease, for  *)
(* any set of GPUs and sessions and any time-to-live.                      *)
(***************************************************************************)
THEOREM StoreImplementsGpuLease == Spec => ImplementsGpuLease
<1>1. Init => L!LeaseInit
  BY DEF Init, L!LeaseInit, LiveLease
<1> QED
  BY <1>1, LeaseStep, TypeCorrect, PTL DEF Spec, ImplementsGpuLease, L!LeaseSpec

(***************************************************************************)
(* A lease that has lapsed comes back only as the grant of a session id    *)
(* that was never used before.                                             *)
(***************************************************************************)
THEOREM LapsedStaysLapsed == Spec => NotRevived
<1> DEFINE Kept == \A g \in Gpu : LiveLease[g] = Nobody /\ LiveLease'[g] # Nobody
                                    => LiveLease'[g] \in fresh
<1>1. ASSUME TypeOK, [Next]_vars PROVE Kept
  <2>1. ASSUME NEW s \in Session, NEW candidates \in SUBSET Gpu,
               NEW requested \in 1..Cardinality(Gpu), NEW partial \in BOOLEAN,
               Acquire(s, candidates, requested, partial)
        PROVE  Kept
    BY <1>1, <2>1, AcquireGrants DEF L!Grant, L!Free
  <2>2. Ends => Kept
    BY DEF Ends, L!Lapse
  <2>3. UNCHANGED vars => Kept
    BY DEF vars, LiveLease, Expired
  <2> QED
    BY <1>1, <2>1, <2>2, <2>3, OthersEnd DEF Next
<1> QED
  BY <1>1, TypeCorrect, PTL DEF Spec, NotRevived
=============================================================================
