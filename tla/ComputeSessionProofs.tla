------------------------ MODULE ComputeSessionProofs ------------------------
(***************************************************************************)
(* ComputeSession, proved for any GPUs, sessions, requests, disturbances   *)
(* and budget: its types; that a released session holds no lease; that no  *)
(* session's step ends the lease of another; and that a confirmed token    *)
(* names a live lease but in the await that ends the lease.                *)
(***************************************************************************)
EXTENDS ComputeSession, TLAPS

\* A snapshot of a well-typed session is well typed.
LEMMA SaveTypes ==
    ASSUME TypeDb, TypeSession', NEW s \in Session, Save(s)
    PROVE  TypeDb'
<1> USE DEF TypeDb, TypeSession, Save, db, SlotState, ErrorSlot
<1>1. CASE Persistent
  <2>1. state'[s] \in SessionState /\ error'[s] \in ErrorCode
    OBVIOUS
  <2>2. ASSUME NEW g \in Gpu PROVE slot'[s][g] \in SlotState
    OBVIOUS
  <2>3. dbState' \in [Session -> SessionState] /\ dbError' \in [Session -> ErrorCode]
    BY <1>1, <2>1
  <2>4. dbSlot' \in [Gpu -> [of : Session \cup {Nobody}, st : SlotState]]
    BY <1>1, <2>2
  <2> QED
    BY <2>3, <2>4
<1>2. CASE ~Persistent
  BY <1>2
<1> QED
  BY <1>1, <1>2

\* A slot marked by the monitor.
LEMMA MarkTypes ==
    ASSUME TypeSession, NEW s \in Session, NEW g, NEW scan, MarkStale(s, g, scan),
           scan \in [pc : MonitorPc, stale : SUBSET Gpu,
                     seen : SUBSET Session, todo : SUBSET Session,
                     at : Session \cup {Nobody}, slots : SUBSET Gpu]
    PROVE  TypeSession' /\ TypeMonitor' /\ UNCHANGED db
<1>1. TypeSession' /\ UNCHANGED db
  BY DEF TypeSession, MarkStale, SetSlot, SlotState, ErrorSlot, db
<1>2. {h \in Slots(s) : g <= h} \in SUBSET Gpu
  BY DEF Slots
<1>3. TypeMonitor'
  BY <1>2 DEF TypeMonitor, MonitorPc, MarkStale
<1> QED
  BY <1>1, <1>3

(***************************************************************************)
(* Every step of the Gateway, the lease store and the environment keeps    *)
(* the types.                                                              *)
(***************************************************************************)
LEMMA TypeStep == TypeOK /\ [Next]_vars => TypeOK'
<1> SUFFICES ASSUME TypeOK, [Next]_vars PROVE TypeOK'
    OBVIOUS
<1> USE NobodyAssumption, ComputeAssumption
    DEF TypeOK, LeaseTypeOK, TypeSession, TypeCalls, TypeMonitor, MonitorPc, TypeOutside, TypeDb,
        SessionState, ErrorCode, SlotState, ErrorSlot, Caller, ReleaseCall,
        session, creation, renewal, db, outside, SetSession, SetSlot, Slots
<1>1. ASSUME NEW s \in Session, Refuse(s)
      PROVE  TypeOK'
  BY <1>1 DEF Refuse
<1>2. ASSUME NEW s \in Session, Acquire(s)
      PROVE  TypeOK'
  BY <1>2 DEF Acquire, Grant, HeldBy, Free
<1>3. ASSUME NEW s \in Session, Register(s)
      PROVE  TypeOK'
  <2>1. LeaseTypeOK' /\ TypeSession' /\ TypeCalls' /\ TypeMonitor' /\ TypeOutside'
    BY <1>3 DEF Register
  <2>2. s \in Session /\ Save(s)
    BY <1>3 DEF Register
  <2> QED
    BY <2>1, <2>2, SaveTypes DEF TypeSession
<1>4. ASSUME NEW s \in Session, LoadSlot(s)
      PROVE  TypeOK'
  <2>1. LeaseTypeOK' /\ TypeSession' /\ TypeCalls' /\ TypeMonitor' /\ TypeOutside'
    <3>1. TypeSession'
      <4>1. slot' \in [Session -> [Gpu -> SlotState]] /\ UNCHANGED <<error, token>>
        BY <1>4 DEF LoadSlot
      <4>2. state' = state \/ state' = [state EXCEPT ![s] = "loading"]
        BY <1>4 DEF LoadSlot
      <4>3. state' \in [Session -> SessionState]
        <5>1. ASSUME state' = [state EXCEPT ![s] = "loading"] PROVE state' \in [Session -> SessionState]
          BY <5>1
        <5> QED
          BY <4>2, <5>1
      <4> QED
        BY <4>1, <4>3
    <3>2. TypeCalls'
      <4>1. renew' = renew \/ renew' = [renew EXCEPT ![s] = "sleep"]
        BY <1>4 DEF LoadSlot
      <4>2. renew' \in [Session -> {"none", "first", "sleep", "ask", "told", "lost", "idle"}]
        <5>1. CASE renew' = renew
          BY <5>1
        <5>2. CASE renew' = [renew EXCEPT ![s] = "sleep"]
          BY <5>2
        <5> QED
          BY <4>1, <5>1, <5>2
      <4> QED
        BY <1>4, <4>2 DEF LoadSlot
    <3>3. LeaseTypeOK' /\ TypeMonitor' /\ TypeOutside'
      BY <1>4 DEF LoadSlot
    <3> QED
      BY <3>1, <3>2, <3>3
  <2>2. s \in Session /\ Save(s)
    BY <1>4 DEF LoadSlot
  <2> QED
    BY <2>1, <2>2, SaveTypes DEF TypeSession
<1>5. ASSUME NEW s \in Session, CallLoad(s)
      PROVE  TypeOK'
  BY <1>5 DEF CallLoad
<1>6. ASSUME NEW s \in Session, LoadReturns(s)
      PROVE  TypeOK'
  <2>1. LeaseTypeOK' /\ TypeSession' /\ TypeCalls' /\ TypeMonitor' /\ TypeOutside'
    BY <1>6 DEF LoadReturns
  <2>2. s \in Session /\ Save(s)
    BY <1>6 DEF LoadReturns
  <2> QED
    BY <2>1, <2>2, SaveTypes DEF TypeSession
<1>7. ASSUME NEW s \in Session, LoadRaises(s)
      PROVE  TypeOK'
  BY <1>7 DEF LoadRaises
<1>8a. ASSUME NEW s \in Session, Unlease(s)
       PROVE  TypeOK'
  BY <1>8a DEF Unlease, Drop
<1>8. ASSUME NEW s \in Session, LoadUnleased(s)
      PROVE  TypeOK'
  <2>1. LeaseTypeOK' /\ TypeSession' /\ TypeCalls' /\ TypeMonitor' /\ TypeOutside'
    BY <1>8 DEF LoadUnleased
  <2>2. s \in Session /\ Save(s)
    BY <1>8 DEF LoadUnleased
  <2> QED
    BY <2>1, <2>2, SaveTypes DEF TypeSession
<1>9. ASSUME NEW s \in Session, Settle(s)
      PROVE  TypeOK'
  <2>1. LeaseTypeOK' /\ TypeSession' /\ TypeCalls' /\ TypeMonitor' /\ TypeOutside'
    <3>1. TypeSession'
      <4>1. \E st \in {"ready", "degraded"}, err \in ErrorCode : SetSession(s, st, err)
        BY <1>9 DEF Settle
      <4> QED
        BY <1>9, <4>1 DEF Settle
    <3>2. TypeCalls'
      BY <1>9 DEF Settle
    <3>3. LeaseTypeOK' /\ TypeMonitor' /\ TypeOutside'
      BY <1>9 DEF Settle
    <3> QED
      BY <3>1, <3>2, <3>3
  <2>2. s \in Session /\ Save(s)
    BY <1>9 DEF Settle
  <2> QED
    BY <2>1, <2>2, SaveTypes DEF TypeSession
<1>10. ASSUME NEW s \in Session, Fail(s)
       PROVE  TypeOK'
  BY <1>10 DEF Fail
<1>11. ASSUME NEW s \in Session, FailReleases(s)
       PROVE  TypeOK'
  BY <1>11 DEF FailReleases, Drop
<1>11a. ASSUME NEW s \in Session, Failed(s)
        PROVE  TypeOK'
  <2>1. LeaseTypeOK' /\ TypeSession' /\ TypeCalls' /\ TypeMonitor' /\ TypeOutside'
    BY <1>11a DEF Failed, StopRenewal, NoCall
  <2>2. s \in Session /\ Save(s)
    BY <1>11a DEF Failed, StopRenewal, NoCall
  <2> QED
    BY <2>1, <2>2, SaveTypes DEF TypeSession
<1>12. ASSUME NEW s \in Session, UserRelease(s)
       PROVE  TypeOK'
  <2>1. LeaseTypeOK' /\ TypeSession' /\ TypeCalls' /\ TypeMonitor' /\ TypeOutside'
    BY <1>12 DEF UserRelease, Begin, Spend, NoCall
  <2>2. s \in Session /\ Save(s)
    BY <1>12 DEF UserRelease, Begin, Spend, NoCall
  <2> QED
    BY <2>1, <2>2, SaveTypes DEF TypeSession
<1>13. ASSUME NEW s \in Session, IdleRelease(s)
       PROVE  TypeOK'
  <2>1. LeaseTypeOK' /\ TypeSession' /\ TypeCalls' /\ TypeMonitor' /\ TypeOutside'
    BY <1>13 DEF IdleRelease, Begin, Spend, NoCall
  <2>2. s \in Session /\ Save(s)
    BY <1>13 DEF IdleRelease, Begin, Spend, NoCall
  <2> QED
    BY <2>1, <2>2, SaveTypes DEF TypeSession
<1>14. ASSUME NEW s \in Session, NEW c \in Caller, Unload(s, c)
       PROVE  TypeOK'
  <2>1. LeaseTypeOK' /\ TypeSession' /\ TypeCalls' /\ TypeMonitor' /\ TypeOutside'
    <3>1. TypeSession'
      <4>1. state' \in [Session -> SessionState]
        BY <1>14 DEF Unload, Releasing
      <4>2. slot' \in [Session -> [Gpu -> SlotState]]
        BY <1>14 DEF Unload
      <4> QED
        BY <1>14, <4>1, <4>2 DEF Unload, Releasing
    <3>2. TypeCalls'
      <4>1. release[s][c] \in ReleaseCall
        OBVIOUS
      <4>2. \E call \in ReleaseCall : release' = [release EXCEPT ![s][c] = call]
        <5>1. [release[s][c] EXCEPT !.pc = "unload"] \in ReleaseCall
          BY <4>1
        <5>2. release' = [release EXCEPT ![s][c] = [release[s][c] EXCEPT !.pc = "unload"]]
          BY <1>14 DEF Unload
        <5> QED
          BY <5>1, <5>2
      <4>3. release' \in [Session -> [Caller -> ReleaseCall]]
        BY <4>2
      <4> QED
        BY <1>14, <4>3 DEF Unload, Releasing
    <3>3. LeaseTypeOK' /\ TypeMonitor' /\ TypeOutside'
      BY <1>14 DEF Unload, Releasing
    <3> QED
      BY <3>1, <3>2, <3>3
  <2>2. s \in Session /\ Save(s)
    BY <1>14 DEF Unload, Releasing
  <2> QED
    BY <2>1, <2>2, SaveTypes DEF TypeSession
<1>15. ASSUME NEW s \in Session, NEW c \in Caller, NEW released \in BOOLEAN, Unloaded(s, c, released)
       PROVE  TypeOK'
  <2>1. LeaseTypeOK' /\ TypeSession' /\ TypeCalls' /\ TypeMonitor' /\ TypeOutside'
    <3>1. TypeSession'
      BY <1>15 DEF Unloaded
    <3>2. TypeCalls'
      <4>1. release[s][c] \in ReleaseCall
        OBVIOUS
      <4>2. \E call \in ReleaseCall : release' = [release EXCEPT ![s][c] = call]
        <5> DEFINE call == [pc |-> "next", ok |-> release[s][c].ok /\ released,
                        todo |-> release[s][c].todo \ {First(release[s][c].todo)}]
        <5>1. call \in ReleaseCall
          BY <4>1
        <5>2. release' = [release EXCEPT ![s][c] = call]
          BY <1>15 DEF Unloaded
        <5> QED
          BY <5>1, <5>2
      <4>3. release' \in [Session -> [Caller -> ReleaseCall]]
        BY <4>2
      <4> QED
        BY <1>15, <4>3 DEF Unloaded
    <3>3. LeaseTypeOK' /\ TypeMonitor' /\ TypeOutside'
      BY <1>15 DEF Unloaded
    <3> QED
      BY <3>1, <3>2, <3>3
  <2>2. s \in Session /\ Save(s)
    BY <1>15 DEF Unloaded
  <2> QED
    BY <2>1, <2>2, SaveTypes DEF TypeSession
<1>16. ASSUME NEW s \in Session, NEW c \in Caller, UnloadRaises(s, c)
       PROVE  TypeOK'
  BY <1>16 DEF UnloadRaises, Returned, NoCall
<1>17. ASSUME NEW s \in Session, NEW c \in Caller, FreeLeases(s, c)
       PROVE  TypeOK'
  <2>1. TypeSession'
    <3>1. state' \in [Session -> SessionState]
      BY <1>17 DEF FreeLeases, Releasing
    <3> QED
      BY <1>17, <3>1 DEF FreeLeases, Releasing
  <2>2. TypeCalls'
    <3> DEFINE call == [release[s][c] EXCEPT !.pc = "stop"]
    <3>0. release[s][c] \in ReleaseCall
      OBVIOUS
    <3>a. call \in ReleaseCall
      BY <3>0
    <3>b. release' = [release EXCEPT ![s][c] = call]
      BY <1>17 DEF FreeLeases
    <3> HIDE DEF call
    <3>1. release' \in [Session -> [Caller -> ReleaseCall]]
      BY <3>a, <3>b
    <3> QED
      BY <1>17, <3>1 DEF FreeLeases
  <2>3. LeaseTypeOK' /\ TypeMonitor' /\ TypeDb' /\ TypeOutside'
    BY <1>17 DEF FreeLeases, Drop
  <2> QED
    BY <2>1, <2>2, <2>3
<1>18. ASSUME NEW s \in Session, NEW c \in Caller, Released(s, c)
       PROVE  TypeOK'
  <2>1. LeaseTypeOK' /\ TypeSession' /\ TypeCalls' /\ TypeMonitor' /\ TypeOutside'
    BY <1>18, ZenonT(40) DEF Released, StopRenewal, NoCall
  <2>2. s \in Session /\ Save(s)
    BY <1>18 DEF Released, StopRenewal, NoCall
  <2> QED
    BY <2>1, <2>2, SaveTypes DEF TypeSession
<1>19. ASSUME NEW s \in Session, NEW c \in Caller, ReleaseFails(s, c)
       PROVE  TypeOK'
  <2>1. LeaseTypeOK' /\ TypeSession' /\ TypeCalls' /\ TypeMonitor' /\ TypeOutside'
    BY <1>19 DEF ReleaseFails, Returned, NoCall
  <2>2. s \in Session /\ Save(s)
    BY <1>19 DEF ReleaseFails, Returned, NoCall
  <2> QED
    BY <2>1, <2>2, SaveTypes DEF TypeSession
<1>20. ASSUME NEW s \in Session, RenewWakes(s)
       PROVE  TypeOK'
  BY <1>20 DEF RenewWakes, Expected
<1>21. ASSUME NEW s \in Session, StoreRenews(s)
       PROVE  TypeOK'
  BY <1>21 DEF StoreRenews
<1>22. ASSUME NEW s \in Session, RenewRaises(s)
       PROVE  TypeOK'
  <2>1. LeaseTypeOK' /\ TypeSession' /\ TypeCalls' /\ TypeMonitor' /\ TypeOutside'
    BY <1>22 DEF RenewRaises, StopRenewal, Spend
  <2>2. s \in Session /\ Save(s)
    BY <1>22 DEF RenewRaises, StopRenewal, Spend
  <2> QED
    BY <2>1, <2>2, SaveTypes DEF TypeSession
<1>23. ASSUME NEW s \in Session, RenewedAll(s)
       PROVE  TypeOK'
  BY <1>23 DEF RenewedAll
<1>24. ASSUME NEW s \in Session, LoseSlot(s)
       PROVE  TypeOK'
  <2>1. LeaseTypeOK' /\ TypeSession' /\ TypeCalls' /\ TypeMonitor' /\ TypeOutside'
    BY <1>24 DEF LoseSlot
  <2>2. s \in Session /\ Save(s)
    BY <1>24 DEF LoseSlot
  <2> QED
    BY <2>1, <2>2, SaveTypes DEF TypeSession
<1>25. ASSUME NEW s \in Session, LoseSession(s)
       PROVE  TypeOK'
  <2>1. LeaseTypeOK' /\ TypeSession' /\ TypeCalls' /\ TypeMonitor' /\ TypeOutside'
    BY <1>25 DEF LoseSession, StopRenewal
  <2>2. s \in Session /\ Save(s)
    BY <1>25 DEF LoseSession, StopRenewal
  <2> QED
    BY <2>1, <2>2, SaveTypes DEF TypeSession
<1>26. ASSUME Detect PROVE TypeOK'
  <2>1. LeaseTypeOK' /\ TypeCalls' /\ TypeOutside'
    BY <1>26 DEF Detect
  <2> DEFINE stale == silent \cap UNION {Active(s) : s \in Registered}
             scan  == [NoScan EXCEPT !.stale = stale, !.seen = Registered, !.todo = Registered]
  <2>2. PICK s \in Registered : MarkStale(s, First(StaleSlots(s, stale)), scan)
    BY <1>26 DEF Detect
  <2>3. s \in Session /\ Registered \subseteq Session
    BY DEF Registered
  <2>4. scan \in [pc : MonitorPc, stale : SUBSET Gpu,
                 seen : SUBSET Session, todo : SUBSET Session,
                 at : Session \cup {Nobody}, slots : SUBSET Gpu]
    BY <2>3 DEF NoScan
  <2>5. TypeSession' /\ TypeMonitor' /\ UNCHANGED db
    BY <2>2, <2>3, <2>4, MarkTypes
  <2> QED
    BY <2>1, <2>5
<1>27. ASSUME StaleFreed PROVE TypeOK'
  BY <1>27 DEF StaleFreed, Drop
<1>27a. ASSUME StaleDropped PROVE TypeOK'
  <2>1. LeaseTypeOK' /\ TypeSession' /\ TypeCalls' /\ TypeMonitor' /\ TypeOutside'
    BY <1>27a, ZenonT(40) DEF StaleDropped
  <2>2. monitor.at \in Session /\ Save(monitor.at)
    BY <1>27a DEF StaleDropped
  <2> QED
    BY <2>1, <2>2, SaveTypes DEF TypeSession
<1>28. ASSUME NextStaleSlot PROVE TypeOK'
  <2> DEFINE more == StaleSlots(monitor.at, monitor.stale) \cap monitor.slots
  <2>0. monitor.at \in Session /\ LeaseTypeOK' /\ TypeCalls' /\ TypeOutside'
    BY <1>28 DEF NextStaleSlot
  <2>a. ASSUME more # {} PROVE TypeSession' /\ TypeMonitor'
    BY <1>28, <2>0, <2>a, MarkTypes DEF NextStaleSlot
  <2>b. ASSUME more = {} PROVE TypeSession' /\ TypeMonitor'
    <3>1. \E st \in {"degraded", "failed"} : SetSession(monitor.at, st, "RUNNER_HEARTBEAT_LOST")
      BY <1>28, <2>b DEF NextStaleSlot
    <3>2. TypeSession'
      BY <1>28, <2>b, <3>1 DEF NextStaleSlot
    <3>a. monitor' = [monitor EXCEPT !.pc = "session"]
      BY <1>28, <2>b DEF NextStaleSlot
    <3>3. TypeMonitor'
      BY <2>0, <3>a
    <3> QED
      BY <3>2, <3>3
  <2>1. LeaseTypeOK' /\ TypeSession' /\ TypeCalls' /\ TypeMonitor' /\ TypeOutside'
    BY <2>0, <2>a, <2>b
  <2>2. UNCHANGED db \/ (monitor.at \in Session /\ Save(monitor.at))
    BY <1>28 DEF NextStaleSlot, MarkStale
  <2>3. UNCHANGED db => TypeDb'
    OBVIOUS
  <2> QED
    BY <2>1, <2>2, <2>3, SaveTypes DEF TypeSession
<1>29. ASSUME NextStaleSession PROVE TypeOK'
  <2>1. LeaseTypeOK' /\ TypeCalls' /\ TypeOutside'
    BY <1>29 DEF NextStaleSession
  <2>2. ASSUME NEW s \in monitor.todo, NEW g, MarkStale(s, g, monitor)
        PROVE  TypeSession' /\ TypeMonitor' /\ UNCHANGED db
    BY <2>2, MarkTypes
  <2>3. CASE UNCHANGED <<session, db>> /\ monitor' \in {NoScan, [NoScan EXCEPT !.pc = "dead"]}
    <3>1. TypeSession' /\ TypeDb'
      BY <2>3
    <3>2. TypeMonitor'
      <4>1. CASE monitor' = NoScan
        BY <4>1 DEF NoScan
      <4>2. CASE monitor' = [NoScan EXCEPT !.pc = "dead"]
        BY <4>2 DEF NoScan
      <4> QED
        BY <2>3, <4>1, <4>2
    <3> QED
      BY <2>1, <3>1, <3>2
  <2>4. CASE ~(UNCHANGED <<session, db>> /\ monitor' \in {NoScan, [NoScan EXCEPT !.pc = "dead"]})
    <3>1. PICK s \in monitor.todo : MarkStale(s, First(StaleSlots(s, monitor.stale)), monitor)
      BY <1>29, <2>4 DEF NextStaleSession
    <3> QED
      BY <2>1, <2>2, <3>1
  <2> QED
    BY <2>3, <2>4
<1>30. ASSUME NEW g \in Gpu, RunnerSilent(g)
       PROVE  TypeOK'
  BY <1>30 DEF RunnerSilent, Spend
<1>31. ASSUME NEW g \in Gpu, Expire(g)
       PROVE  TypeOK'
  BY <1>31 DEF Expire, Lapse
<1>32. ASSUME Crash PROVE TypeOK'
  BY <1>32 DEF Crash, Spend, NoCall, NoScan
<1>33. ASSUME ReadLeases PROVE TypeOK'
  BY <1>33 DEF ReadLeases
<1>34. ASSUME Restore PROVE TypeOK'
  <2>1. TypeSession'
    <3>1. state' \in [Session -> SessionState] /\ error' \in [Session -> ErrorCode]
      BY <1>34 DEF Restore
    <3>2. slot' \in [Session -> [Gpu -> SlotState]]
      BY <1>34 DEF Restore
    <3>3. token' \in [Session -> SUBSET Gpu]
      BY <1>34 DEF Restore, Owned, Rows
    <3> QED
      BY <3>1, <3>2, <3>3
  <2>2. TypeDb'
    <3>1. dbState' \in [Session -> SessionState] /\ dbError' \in [Session -> ErrorCode]
      BY <1>34, <2>1 DEF Restore
    <3>2. ASSUME NEW g \in Gpu, dbSlot[g].of \in Restorable
          PROVE  [dbSlot[g] EXCEPT !.st = slot'[dbSlot[g].of][g]] \in [of : Session \cup {Nobody}, st : SlotState]
      <4>1. dbSlot[g].of \in Session /\ dbSlot[g] \in [of : Session \cup {Nobody}, st : SlotState]
        BY <3>2 DEF Restorable
      <4>2. slot'[dbSlot[g].of][g] \in SlotState
        BY <2>1, <4>1
      <4> QED
        BY <4>1, <4>2
    <3>3. dbSlot' \in [Gpu -> [of : Session \cup {Nobody}, st : SlotState]]
      BY <1>34, <3>2 DEF Restore
    <3> QED
      BY <3>1, <3>3
  <2>3. LeaseTypeOK' /\ TypeCalls' /\ TypeMonitor' /\ TypeOutside'
    BY <1>34 DEF Restore
  <2> QED
    BY <2>1, <2>2, <2>3
<1>35. CASE UNCHANGED vars
  BY <1>35 DEF vars
<1> HIDE DEF TypeOK
<1> QED
  BY <1>1, <1>2, <1>3, <1>4, <1>5, <1>6, <1>7, <1>8, <1>8a, <1>9, <1>10,
     <1>11, <1>11a, <1>12, <1>13, <1>14, <1>15, <1>16, <1>17, <1>18, <1>19, <1>20, <1>21,
     <1>22, <1>23, <1>24, <1>25, <1>26, <1>27, <1>27a, <1>28, <1>29, <1>30, <1>31,
     <1>32, <1>33, <1>34, <1>35
  DEF Next, Creates, Releases, Renews, Monitors, Boots

(***************************************************************************)
(* Every variable keeps its type, for any number of GPUs and sessions.     *)
(***************************************************************************)
THEOREM TypeCorrect == Spec => []TypeOK
<1>1. Init => TypeOK
  BY NobodyAssumption, ComputeAssumption
     DEF Init, LeaseInit, TypeOK, LeaseTypeOK, TypeSession, TypeCalls, TypeMonitor, MonitorPc, TypeOutside,
         TypeDb, SessionState, ErrorCode, SlotState, ErrorSlot, Caller, ReleaseCall, NoCall, NoRow, NoScan
<1> QED
  BY <1>1, TypeStep, PTL DEF Spec

-----------------------------------------------------------------------------
(***************************************************************************)
(* Nobody acts for a session before its create has registered it.          *)
(***************************************************************************)
LEMMA UnbornStep ==
    ASSUME TypeOK, ReleaseInv, [Next]_vars, NEW t \in Session
    PROVE  Unborn(t)'
<1> USE DEF TypeOK, TypeSession, TypeCalls, TypeDb, TypeMonitor, ReleaseInv, Unborn, Slots, Registered,
            session, creation, renewal, db, outside
<1>1. ASSUME NEW s \in Session, Refuse(s)
      PROVE  Unborn(t)'
  BY <1>1 DEF Refuse, SetSession, SetSlot
<1>2. ASSUME NEW s \in Session, Acquire(s)
      PROVE  Unborn(t)'
  BY <1>2 DEF Acquire, Grant, HeldBy, Free, SetSession, SetSlot
<1>3. ASSUME NEW s \in Session, Register(s)
      PROVE  Unborn(t)'
  BY <1>3 DEF Register, Save, SetSession, SetSlot
<1>4. ASSUME NEW s \in Session, LoadSlot(s)
      PROVE  Unborn(t)'
  BY <1>4 DEF LoadSlot, Save, SetSession, SetSlot
<1>5. ASSUME NEW s \in Session, CallLoad(s)
      PROVE  Unborn(t)'
  BY <1>5 DEF CallLoad, SetSession, SetSlot
<1>6. ASSUME NEW s \in Session, LoadReturns(s)
      PROVE  Unborn(t)'
  BY <1>6 DEF LoadReturns, Save, SetSession, SetSlot
<1>7. ASSUME NEW s \in Session, LoadRaises(s)
      PROVE  Unborn(t)'
  BY <1>7 DEF LoadRaises, SetSession, SetSlot
<1>8a. ASSUME NEW s \in Session, Unlease(s)
       PROVE  Unborn(t)'
  BY <1>8a DEF Unlease, Drop
<1>8. ASSUME NEW s \in Session, LoadUnleased(s)
      PROVE  Unborn(t)'
  BY <1>8 DEF LoadUnleased, Save
<1>9. ASSUME NEW s \in Session, Settle(s)
      PROVE  Unborn(t)'
  BY <1>9 DEF Settle, Save, SetSession, SetSlot
<1>10. ASSUME NEW s \in Session, Fail(s)
       PROVE  Unborn(t)'
  BY <1>10 DEF Fail, SetSession, SetSlot
<1>11. ASSUME NEW s \in Session, FailReleases(s)
       PROVE  Unborn(t)'
  BY <1>11 DEF FailReleases, Drop
<1>11a. ASSUME NEW s \in Session, Failed(s)
        PROVE  Unborn(t)'
  BY <1>11a DEF Failed, StopRenewal, NoCall, Save
<1>12. ASSUME NEW s \in Session, UserRelease(s)
       PROVE  Unborn(t)'
  BY <1>12 DEF UserRelease, Begin, Spend, NoCall, Save, SetSession, SetSlot
<1>13. ASSUME NEW s \in Session, IdleRelease(s)
       PROVE  Unborn(t)'
  BY <1>13 DEF IdleRelease, Begin, Spend, NoCall, Save, SetSession, SetSlot
<1>14. ASSUME NEW s \in Session, NEW c \in Caller, Unload(s, c)
       PROVE  Unborn(t)'
  BY <1>14 DEF Unload, Releasing, Save, SetSession, SetSlot
<1>15. ASSUME NEW s \in Session, NEW c \in Caller, NEW released \in BOOLEAN, Unloaded(s, c, released)
       PROVE  Unborn(t)'
  BY <1>15 DEF Unloaded, Save, SetSession, SetSlot
<1>16. ASSUME NEW s \in Session, NEW c \in Caller, UnloadRaises(s, c)
       PROVE  Unborn(t)'
  BY <1>16 DEF UnloadRaises, Returned, NoCall, SetSession, SetSlot
<1>17. ASSUME NEW s \in Session, NEW c \in Caller, FreeLeases(s, c)
       PROVE  Unborn(t)'
  BY <1>17 DEF FreeLeases, Releasing, Drop, SetSession, SetSlot
<1>18. ASSUME NEW s \in Session, NEW c \in Caller, Released(s, c)
       PROVE  Unborn(t)'
  BY <1>18 DEF Released, StopRenewal, NoCall, Save, SetSession, SetSlot
<1>19. ASSUME NEW s \in Session, NEW c \in Caller, ReleaseFails(s, c)
       PROVE  Unborn(t)'
  BY <1>19 DEF ReleaseFails, Returned, NoCall, Save, SetSession, SetSlot
<1>20. ASSUME NEW s \in Session, RenewWakes(s)
       PROVE  Unborn(t)'
  BY <1>20 DEF RenewWakes, Expected, SetSession, SetSlot
<1>21. ASSUME NEW s \in Session, StoreRenews(s)
       PROVE  Unborn(t)'
  BY <1>21 DEF StoreRenews, SetSession, SetSlot
<1>22. ASSUME NEW s \in Session, RenewRaises(s)
       PROVE  Unborn(t)'
  BY <1>22 DEF RenewRaises, StopRenewal, Spend, Save, SetSession, SetSlot
<1>23. ASSUME NEW s \in Session, RenewedAll(s)
       PROVE  Unborn(t)'
  BY <1>23 DEF RenewedAll, SetSession, SetSlot
<1>24. ASSUME NEW s \in Session, LoseSlot(s)
       PROVE  Unborn(t)'
  BY <1>24 DEF LoseSlot, Save, SetSession, SetSlot
<1>25. ASSUME NEW s \in Session, LoseSession(s)
       PROVE  Unborn(t)'
  BY <1>25 DEF LoseSession, StopRenewal, Save, SetSession, SetSlot
<1>26. ASSUME Detect PROVE Unborn(t)'
  BY <1>26 DEF Detect, MarkStale, NoScan, Registered, SetSession, SetSlot
<1>27. ASSUME StaleFreed PROVE Unborn(t)'
  BY <1>27 DEF StaleFreed, Drop
<1>27a. ASSUME StaleDropped PROVE Unborn(t)'
  BY <1>27a DEF StaleDropped, Save
<1>28. ASSUME NextStaleSlot PROVE Unborn(t)'
  <2>1. monitor.at # t \/ create[t] # "new"
    OBVIOUS
  <2>2. UNCHANGED <<create, release, renew>> /\ monitor'.at = monitor.at
    <3>1. UNCHANGED <<create, release, renew>>
      BY <1>28 DEF NextStaleSlot
    <3>2. \/ monitor' = [monitor EXCEPT !.pc = "session"]
          \/ \E g : MarkStale(monitor.at, g, monitor)
      BY <1>28 DEF NextStaleSlot
    <3>3. ASSUME NEW g, MarkStale(monitor.at, g, monitor) PROVE monitor'.at = monitor.at
      BY <3>3 DEF MarkStale
    <3> QED
      BY <3>1, <3>2, <3>3
  <2>3. ASSUME monitor.at # t
        PROVE  UNCHANGED <<state[t], dbState[t], slot[t]>>
    BY <1>28, <2>3 DEF NextStaleSlot, MarkStale, Save, SetSession, SetSlot
  <2> QED
    BY <2>1, <2>2, <2>3
<1>29. ASSUME NextStaleSession PROVE Unborn(t)'
  <2>1. UNCHANGED <<create, release, renew, state, dbState>>
    BY <1>29 DEF NextStaleSession, MarkStale
  <2>2. CASE UNCHANGED slot /\ monitor'.at = Nobody
    BY <2>1, <2>2, NobodyAssumption
  <2>3. ASSUME NEW s \in monitor.todo, StaleSlots(s, monitor.stale) # {},
               MarkStale(s, First(StaleSlots(s, monitor.stale)), monitor)
        PROVE  Unborn(t)'
    <3>1. Slots(s) # {} /\ s \in Session
      BY <2>3 DEF StaleSlots, Active
    <3>2. CASE s = t
      BY <2>1, <3>1, <3>2
    <3>3. CASE s # t
      <4>1. slot'[t] = slot[t] /\ monitor'.at = s
        BY <2>3, <3>3 DEF MarkStale, SetSlot
      <4> QED
        BY <2>1, <3>3, <4>1
    <3> QED
      BY <3>2, <3>3
  <2> QED
    BY <1>29, <2>2, <2>3 DEF NextStaleSession, NoScan
<1>30. ASSUME NEW g \in Gpu, RunnerSilent(g)
       PROVE  Unborn(t)'
  BY <1>30 DEF RunnerSilent, Spend, SetSession, SetSlot
<1>31. ASSUME NEW g \in Gpu, Expire(g)
       PROVE  Unborn(t)'
  BY <1>31 DEF Expire, Lapse, SetSession, SetSlot
<1>32. ASSUME Crash PROVE Unborn(t)'
  BY <1>32, NobodyAssumption DEF Crash, NoCall, NoScan
<1>33. ASSUME ReadLeases PROVE Unborn(t)'
  BY <1>33 DEF ReadLeases, SetSession, SetSlot
<1>34. ASSUME Restore PROVE Unborn(t)'
  BY <1>34 DEF Restore, Restorable, Rows, LostRows, Owned, SetSession, SetSlot
<1> HIDE DEF TypeOK, Unborn
<1>35. CASE UNCHANGED vars
  <2>1. create' = create /\ state' = state /\ dbState' = dbState /\ renew' = renew
        /\ release' = release /\ slot' = slot /\ monitor' = monitor
    BY <1>35 DEF vars
  <2> HIDE DEF TypeOK, ReleaseInv
  <2>2. Unborn(t)
    BY DEF ReleaseInv
  <2>3. Slots(t)' = Slots(t)
    BY <2>1
  <2> HIDE DEF Slots
  <2> QED
    BY <2>1, <2>2, <2>3 DEF Unborn
<1> QED
  BY <1>1, <1>2, <1>3, <1>4, <1>5, <1>6, <1>7, <1>8, <1>8a, <1>9, <1>10,
     <1>11, <1>11a, <1>12, <1>13, <1>14, <1>15, <1>16, <1>17, <1>18, <1>19, <1>20, <1>21,
     <1>22, <1>23, <1>24, <1>25, <1>26, <1>27, <1>27a, <1>28, <1>29, <1>30, <1>31,
     <1>32, <1>33, <1>34, <1>35
  DEF Next, Creates, Releases, Renews, Monitors, Boots

(***************************************************************************)
(* The actions that touch the lease store; every other one leaves it alone.*)
(***************************************************************************)
GivesUp(s) ==
    Unlease(s) \/ FailReleases(s) \/ \E c \in Caller : FreeLeases(s, c)

LEMMA LeaseChanges ==
    ASSUME [Next]_vars
    PROVE  \/ UNCHANGED lease
           \/ \E s \in Session : Acquire(s) \/ GivesUp(s)
           \/ StaleFreed \/ \E g \in Gpu : Expire(g)
<1> DEFINE Goal == \/ UNCHANGED lease
                   \/ \E s \in Session : Acquire(s) \/ GivesUp(s)
                   \/ StaleFreed \/ \E g \in Gpu : Expire(g)
<1>1. ASSUME NEW s \in Session, Refuse(s) \/ Acquire(s) \/ Creates(s) PROVE Goal
  BY <1>1 DEF GivesUp, Refuse, Creates, Register, LoadSlot, CallLoad, LoadReturns, LoadRaises,
     LoadUnleased, Settle, Fail, Failed
<1>2. ASSUME NEW s \in Session, UserRelease(s) \/ IdleRelease(s) PROVE Goal
  BY <1>2 DEF UserRelease, IdleRelease, Begin
<1>3. ASSUME NEW s \in Session, NEW c \in Caller, Releases(s, c) PROVE Goal
  BY <1>3 DEF GivesUp, Releases, Unload, Unloaded, UnloadRaises, Released, ReleaseFails
<1>4. ASSUME NEW s \in Session, Renews(s) \/ RenewRaises(s) PROVE Goal
  BY <1>4 DEF Renews, RenewRaises, RenewWakes, StoreRenews, RenewedAll, LoseSlot, LoseSession
<1>5. ASSUME Monitors PROVE Goal
  BY <1>5 DEF Monitors, Detect, StaleDropped, NextStaleSlot, NextStaleSession
<1>6. ASSUME NEW g \in Gpu, RunnerSilent(g) \/ Expire(g) PROVE Goal
  BY <1>6 DEF RunnerSilent
<1>7. ASSUME Crash \/ Boots PROVE Goal
  BY <1>7 DEF Crash, Boots, ReadLeases, Restore
<1>8. CASE UNCHANGED vars
  BY <1>8 DEF vars
<1> QED
  BY <1>1, <1>2, <1>3, <1>4, <1>5, <1>6, <1>7, <1>8 DEF Next

(***************************************************************************)
(* Leases are only ever gained by the acquire of a session's own create.   *)
(***************************************************************************)
LEMMA LeasesShrink ==
    ASSUME [Next]_vars, NEW t \in Session
    PROVE  HeldBy(t)' \subseteq HeldBy(t) \/ create[t] = "new"
<1> USE NobodyAssumption DEF HeldBy
<1>1. ASSUME NEW s \in Session, Acquire(s)
      PROVE  HeldBy(t)' \subseteq HeldBy(t) \/ create[t] = "new"
  BY <1>1 DEF Acquire, Grant
<1>2. ASSUME NEW s \in Session, GivesUp(s)
      PROVE  HeldBy(t)' \subseteq HeldBy(t)
  BY <1>2 DEF GivesUp, Unlease, FailReleases, FreeLeases, Drop
<1>3. StaleFreed => HeldBy(t)' \subseteq HeldBy(t)
  BY DEF StaleFreed, Drop
<1>4. ASSUME NEW g \in Gpu, Expire(g) PROVE HeldBy(t)' \subseteq HeldBy(t)
  BY <1>4 DEF Expire, Lapse
<1> QED
  BY <1>1, <1>2, <1>3, <1>4, LeaseChanges

-----------------------------------------------------------------------------
(***************************************************************************)
(* A session becomes RELEASED only from the await that follows the         *)
(* deletion of its leases.                                                 *)
(***************************************************************************)
LEMMA FreedStep ==
    ASSUME TypeOK, ReleaseInv, [Next]_vars, NEW t \in Session
    PROVE  Freed(t)'
<1> DEFINE Gone == state[t] = "released" \/ \E c \in Caller : release[t][c].pc = "stop"
<1> USE DEF TypeOK, TypeSession, TypeCalls, TypeMonitor, session, creation, renewal, db, outside
<1>a. HeldBy(t)' \subseteq HeldBy(t) \/ ~Gone
  BY LeasesShrink DEF ReleaseInv, Unborn
<1> SUFFICES ASSUME Gone' PROVE Gone \/ HeldBy(t)' = {}
  BY <1>a, UnbornStep DEF ReleaseInv, Freed, Unborn
<1>1. ASSUME NEW s \in Session, Refuse(s)
      PROVE  Gone \/ HeldBy(t)' = {}
  BY <1>1 DEF Refuse, SetSession, SetSlot
<1>2. ASSUME NEW s \in Session, Acquire(s)
      PROVE  Gone \/ HeldBy(t)' = {}
  BY <1>2 DEF Acquire, Grant, HeldBy, Free, SetSession, SetSlot
<1>3. ASSUME NEW s \in Session, Register(s)
      PROVE  Gone \/ HeldBy(t)' = {}
  BY <1>3 DEF Register, Save, SetSession, SetSlot
<1>4. ASSUME NEW s \in Session, LoadSlot(s)
      PROVE  Gone \/ HeldBy(t)' = {}
  BY <1>4 DEF LoadSlot, Save, SetSession, SetSlot
<1>5. ASSUME NEW s \in Session, CallLoad(s)
      PROVE  Gone \/ HeldBy(t)' = {}
  BY <1>5 DEF CallLoad, SetSession, SetSlot
<1>6. ASSUME NEW s \in Session, LoadReturns(s)
      PROVE  Gone \/ HeldBy(t)' = {}
  BY <1>6 DEF LoadReturns, Save, SetSession, SetSlot
<1>7. ASSUME NEW s \in Session, LoadRaises(s)
      PROVE  Gone \/ HeldBy(t)' = {}
  BY <1>7 DEF LoadRaises, SetSession, SetSlot
<1>8a. ASSUME NEW s \in Session, Unlease(s)
       PROVE  Gone \/ HeldBy(t)' = {}
  BY <1>8a DEF Unlease, Drop
<1>8. ASSUME NEW s \in Session, LoadUnleased(s)
      PROVE  Gone \/ HeldBy(t)' = {}
  BY <1>8 DEF LoadUnleased, Save
<1>9. ASSUME NEW s \in Session, Settle(s)
      PROVE  Gone \/ HeldBy(t)' = {}
  BY <1>9 DEF Settle, Save, SetSession, SetSlot
<1>10. ASSUME NEW s \in Session, Fail(s)
       PROVE  Gone \/ HeldBy(t)' = {}
  BY <1>10 DEF Fail, SetSession, SetSlot
<1>11. ASSUME NEW s \in Session, FailReleases(s)
       PROVE  Gone \/ HeldBy(t)' = {}
  BY <1>11 DEF FailReleases, Drop
<1>11a. ASSUME NEW s \in Session, Failed(s)
        PROVE  Gone \/ HeldBy(t)' = {}
  BY <1>11a DEF Failed, StopRenewal, NoCall, Save
<1>12. ASSUME NEW s \in Session, UserRelease(s)
       PROVE  Gone \/ HeldBy(t)' = {}
  BY <1>12 DEF UserRelease, Begin, Spend, NoCall, Save, SetSession, SetSlot
<1>13. ASSUME NEW s \in Session, IdleRelease(s)
       PROVE  Gone \/ HeldBy(t)' = {}
  BY <1>13 DEF IdleRelease, Begin, Spend, NoCall, Save, SetSession, SetSlot
<1>14. ASSUME NEW s \in Session, NEW c \in Caller, Unload(s, c)
       PROVE  Gone \/ HeldBy(t)' = {}
  BY <1>14 DEF Unload, Releasing, Save, SetSession, SetSlot
<1>15. ASSUME NEW s \in Session, NEW c \in Caller, NEW released \in BOOLEAN, Unloaded(s, c, released)
       PROVE  Gone \/ HeldBy(t)' = {}
  BY <1>15 DEF Unloaded, Save, SetSession, SetSlot
<1>16. ASSUME NEW s \in Session, NEW c \in Caller, UnloadRaises(s, c)
       PROVE  Gone \/ HeldBy(t)' = {}
  BY <1>16 DEF UnloadRaises, Returned, NoCall, SetSession, SetSlot
<1>17. ASSUME NEW s \in Session, NEW c \in Caller, FreeLeases(s, c)
       PROVE  Gone \/ HeldBy(t)' = {}
  <2>1. CASE s = t
    BY <1>17, <2>1, NobodyAssumption DEF FreeLeases, Drop, HeldBy
  <2>2. ASSUME s # t PROVE Gone
    <3>1. state'[t] = state[t] /\ release'[t] = release[t]
      BY <1>17, <2>2 DEF FreeLeases, Releasing
    <3> QED
      BY <3>1
  <2> QED
    BY <2>1, <2>2
<1>18. ASSUME NEW s \in Session, NEW c \in Caller, Released(s, c)
       PROVE  Gone \/ HeldBy(t)' = {}
  BY <1>18 DEF Released, StopRenewal, NoCall, Save, SetSession, SetSlot
<1>19. ASSUME NEW s \in Session, NEW c \in Caller, ReleaseFails(s, c)
       PROVE  Gone \/ HeldBy(t)' = {}
  BY <1>19 DEF ReleaseFails, Returned, NoCall, Save, SetSession, SetSlot
<1>20. ASSUME NEW s \in Session, RenewWakes(s)
       PROVE  Gone \/ HeldBy(t)' = {}
  BY <1>20 DEF RenewWakes, Expected, SetSession, SetSlot
<1>21. ASSUME NEW s \in Session, StoreRenews(s)
       PROVE  Gone \/ HeldBy(t)' = {}
  BY <1>21 DEF StoreRenews, SetSession, SetSlot
<1>22. ASSUME NEW s \in Session, RenewRaises(s)
       PROVE  Gone \/ HeldBy(t)' = {}
  BY <1>22 DEF RenewRaises, StopRenewal, Spend, Save, SetSession, SetSlot
<1>23. ASSUME NEW s \in Session, RenewedAll(s)
       PROVE  Gone \/ HeldBy(t)' = {}
  BY <1>23 DEF RenewedAll, SetSession, SetSlot
<1>24. ASSUME NEW s \in Session, LoseSlot(s)
       PROVE  Gone \/ HeldBy(t)' = {}
  BY <1>24 DEF LoseSlot, Save, SetSession, SetSlot
<1>25. ASSUME NEW s \in Session, LoseSession(s)
       PROVE  Gone \/ HeldBy(t)' = {}
  BY <1>25 DEF LoseSession, StopRenewal, Save, SetSession, SetSlot
<1>26. ASSUME Detect PROVE Gone \/ HeldBy(t)' = {}
  BY <1>26 DEF Detect, MarkStale, NoScan, Registered, SetSession, SetSlot
<1>27. ASSUME StaleFreed PROVE Gone \/ HeldBy(t)' = {}
  BY <1>27 DEF StaleFreed, Drop
<1>27a. ASSUME StaleDropped PROVE Gone \/ HeldBy(t)' = {}
  BY <1>27a DEF StaleDropped, Save
<1>28. ASSUME NextStaleSlot PROVE Gone \/ HeldBy(t)' = {}
  BY <1>28 DEF NextStaleSlot, MarkStale, Save, SetSession, SetSlot
<1>29. ASSUME NextStaleSession PROVE Gone \/ HeldBy(t)' = {}
  BY <1>29 DEF NextStaleSession, MarkStale, NoScan, SetSession, SetSlot
<1>30. ASSUME NEW g \in Gpu, RunnerSilent(g)
       PROVE  Gone \/ HeldBy(t)' = {}
  BY <1>30 DEF RunnerSilent, Spend, SetSession, SetSlot
<1>31. ASSUME NEW g \in Gpu, Expire(g)
       PROVE  Gone \/ HeldBy(t)' = {}
  BY <1>31 DEF Expire, Lapse, SetSession, SetSlot
<1>32. ASSUME Crash PROVE Gone \/ HeldBy(t)' = {}
  BY <1>32 DEF Crash, Spend, NoCall, NoScan, SetSession, SetSlot
<1>33. ASSUME ReadLeases PROVE Gone \/ HeldBy(t)' = {}
  BY <1>33 DEF ReadLeases, SetSession, SetSlot
<1>34. ASSUME Restore PROVE Gone \/ HeldBy(t)' = {}
  BY <1>34 DEF Restore, Restorable, Rows, LostRows, Owned, SetSession, SetSlot
<1>35. CASE UNCHANGED vars
  BY <1>35 DEF vars
<1> QED
  BY <1>1, <1>2, <1>3, <1>4, <1>5, <1>6, <1>7, <1>8, <1>8a, <1>9, <1>10,
     <1>11, <1>11a, <1>12, <1>13, <1>14, <1>15, <1>16, <1>17, <1>18, <1>19, <1>20, <1>21,
     <1>22, <1>23, <1>24, <1>25, <1>26, <1>27, <1>27a, <1>28, <1>29, <1>30, <1>31,
     <1>32, <1>33, <1>34, <1>35, ZenonT(40)
  DEF Next, Creates, Releases, Renews, Monitors, Boots

LEMMA ReleaseInit == Init => ReleaseInv
BY NobodyAssumption DEF Init, ReleaseInv, Unborn, Freed, Slots, NoCall, NoScan

LEMMA ReleaseStep == TypeOK /\ ReleaseInv /\ [Next]_vars => ReleaseInv'
BY UnbornStep, FreedStep DEF ReleaseInv

(***************************************************************************)
(* A released session holds no lease, for any GPUs, sessions, requests and *)
(* disturbances: ReleaseInv is inductive and implies it.                   *)
(***************************************************************************)
THEOREM ReleasedIsFree == Spec => []ReleasedHoldsNoLease
<1>1. ReleaseInv => ReleasedHoldsNoLease
  BY DEF ReleaseInv, Freed, ReleasedHoldsNoLease
<1> QED
  BY <1>1, ReleaseInit, ReleaseStep, TypeCorrect, PTL DEF Spec

-----------------------------------------------------------------------------
(***************************************************************************)
(* Whose steps are whose: a session's own coroutines, the monitor and a    *)
(* restart; all other steps leave what is the session's alone.             *)
(***************************************************************************)
OwnStep(s) ==
    \/ Refuse(s) \/ Acquire(s) \/ Creates(s)
    \/ UserRelease(s) \/ IdleRelease(s) \/ (\E c \in Caller : Releases(s, c))
    \/ Renews(s) \/ RenewRaises(s)

LEMMA OthersSteps ==
    ASSUME TypeOK, NEW s \in Session, NEW t \in Session, s # t, OwnStep(s)
    PROVE  UNCHANGED <<Local(t), monitor, gateway>>
<1> USE DEF Local, TypeOK, TypeSession, TypeCalls, session, creation, renewal, db, outside,
            SetSession, SetSlot
<1>1. CASE Refuse(s) \/ Acquire(s)
  BY <1>1 DEF Refuse, Acquire
<1>2. CASE Creates(s)
  <2>1. CASE Register(s)
    BY <2>1 DEF Register
  <2>2. CASE LoadSlot(s) \/ CallLoad(s)
    BY <2>2 DEF LoadSlot, CallLoad
  <2>3. CASE LoadReturns(s) \/ LoadRaises(s)
    BY <2>3 DEF LoadReturns, LoadRaises
  <2>4. CASE Unlease(s) \/ LoadUnleased(s)
    BY <2>4 DEF Unlease, LoadUnleased
  <2>5. CASE Settle(s)
    BY <2>5 DEF Settle
  <2>6. CASE Fail(s)
    BY <2>6 DEF Fail
  <2>7. CASE FailReleases(s) \/ Failed(s)
    BY <2>7 DEF FailReleases, Failed, StopRenewal
  <2> QED
    BY <1>2, <2>1, <2>2, <2>3, <2>4, <2>5, <2>6, <2>7 DEF Creates
<1>3. CASE UserRelease(s) \/ IdleRelease(s)
  BY <1>3 DEF UserRelease, IdleRelease, Begin
<1>4. ASSUME NEW c \in Caller, Releases(s, c) PROVE UNCHANGED <<Local(t), monitor, gateway>>
  <2>1. CASE Unload(s, c)
    BY <2>1 DEF Unload, Releasing
  <2>2. ASSUME NEW released \in BOOLEAN, Unloaded(s, c, released)
        PROVE  UNCHANGED <<Local(t), monitor, gateway>>
    BY <2>2 DEF Unloaded
  <2>3. CASE UnloadRaises(s, c)
    BY <2>3 DEF UnloadRaises, Returned
  <2>4. CASE FreeLeases(s, c)
    BY <2>4 DEF FreeLeases, Releasing
  <2>5. CASE Released(s, c)
    BY <2>5 DEF Released, StopRenewal
  <2>6. CASE ReleaseFails(s, c)
    BY <2>6 DEF ReleaseFails, Returned
  <2> QED
    BY <1>4, <2>1, <2>2, <2>3, <2>4, <2>5, <2>6 DEF Releases
<1>5. CASE Renews(s) \/ RenewRaises(s)
  BY <1>5 DEF Renews, RenewWakes, StoreRenews, RenewedAll, LoseSlot, LoseSession, RenewRaises,
     StopRenewal
<1> QED
  BY <1>1, <1>2, <1>3, <1>4, <1>5 DEF OwnStep

(***************************************************************************)
(* What the monitor does to a session: it marks a slot, and takes a lease  *)
(* away and then its token.                                                *)
(***************************************************************************)
MonitorStep(t) ==
    /\ UNCHANGED <<create, left, renew, asked, release, gateway>>
    /\ ReadySlots(t)' \subseteq ReadySlots(t)
    /\ token'[t] \subseteq token[t]
    /\ \A g \in HeldBy(t) : lease'[g] = t \/ GivenUp(t, g)'
    /\ \A g \in token'[t] : GivenUp(t, g) => GivenUp(t, g)'

LEMMA MonitorSteps ==
    ASSUME TypeOK, Monitors, NEW t \in Session
    PROVE  MonitorStep(t)
<1> USE DEF MonitorStep, HeldBy, TypeOK, LeaseTypeOK, TypeSession, TypeMonitor, GivenUp,
            session, creation, renewal, db, outside, SetSession, SetSlot
<1>1. ASSUME NEW s \in Session, NEW g, NEW scan, MarkStale(s, g, scan)
      PROVE  ReadySlots(t)' \subseteq ReadySlots(t) /\ token' = token
  BY <1>1 DEF MarkStale, ReadySlots, Slots
<1>2. CASE Detect
  BY <1>1, <1>2 DEF Detect, Registered
<1>3. CASE StaleFreed
  BY <1>3, NobodyAssumption DEF StaleFreed, Drop, ReadySlots, Slots
<1>4. CASE StaleDropped
  BY <1>4 DEF StaleDropped, ReadySlots, Slots
<1>5. CASE NextStaleSlot
  <2>1. ReadySlots(t)' \subseteq ReadySlots(t) /\ token' = token
    BY <1>1, <1>5 DEF NextStaleSlot, ReadySlots, Slots
  <2> QED
    BY <1>5, <2>1 DEF NextStaleSlot
<1>6. CASE NextStaleSession
  <2>1. ReadySlots(t)' \subseteq ReadySlots(t) /\ token' = token
    BY <1>1, <1>6 DEF NextStaleSession, ReadySlots, Slots
  <2> QED
    BY <1>6, <2>1 DEF NextStaleSession
<1> QED
  BY <1>2, <1>3, <1>4, <1>5, <1>6 DEF Monitors

LEMMA StepKinds ==
    ASSUME TypeOK, [Next]_vars, NEW t \in Session
    PROVE  \/ OwnStep(t) \/ Monitors \/ Crash \/ Restore
           \/ UNCHANGED <<Local(t), monitor>> /\ (gateway' = gateway \/ gateway = "down")
<1>1. CASE UNCHANGED vars
  BY <1>1 DEF vars, Local, session, creation, renewal, outside
<1>2. ASSUME NEW s \in Session, OwnStep(s) PROVE OwnStep(t) \/ UNCHANGED <<Local(t), monitor, gateway>>
  BY <1>2, OthersSteps
<1>3. ASSUME NEW g \in Gpu, RunnerSilent(g) \/ Expire(g) PROVE UNCHANGED <<Local(t), monitor, gateway>>
  BY <1>3 DEF RunnerSilent, Expire, Local, session, creation, renewal, outside
<1>4. ReadLeases => UNCHANGED <<Local(t), monitor>> /\ gateway = "down"
  BY DEF ReadLeases, Local, session, creation, renewal
<1> QED
  BY <1>1, <1>2, <1>3, <1>4 DEF Next, OwnStep, Boots

-----------------------------------------------------------------------------
(***************************************************************************)
(* A lease ends by a step of its own session, by the monitor, or because   *)
(* its time is over.                                                       *)
(***************************************************************************)
LEMMA LeaseKept ==
    ASSUME TypeOK, [Next]_vars, NEW t \in Session, ~OwnStep(t), ~Monitors, NEW g \in HeldBy(t)
    PROVE  lease'[g] = t \/ ~Kept(t)
<1> USE NobodyAssumption DEF HeldBy
<1>1. ASSUME NEW s \in Session, Acquire(s) PROVE lease'[g] = t
  BY <1>1 DEF Acquire, Grant, Free
<1>2. ASSUME NEW s \in Session, GivesUp(s) PROVE lease'[g] = t
  <2>1. OwnStep(s)
    BY <1>2 DEF GivesUp, OwnStep, Creates, Releases
  <2> QED
    BY <1>2, <2>1 DEF GivesUp, Unlease, FailReleases, FreeLeases, Drop
<1>3. ASSUME NEW h \in Gpu, Expire(h) PROVE lease'[g] = t \/ ~Kept(t)
  BY <1>3 DEF Expire, Lapse
<1>4. lease' = lease => lease'[g] = t
  OBVIOUS
<1> QED
  BY <1>1, <1>2, <1>3, <1>4, LeaseChanges DEF Monitors

LEMMA OthersLeases ==
    ASSUME TypeOK, [Next]_vars, NEW s \in Session, NEW t \in Session, s # t,
           ~ UNCHANGED Local(t)
    PROVE  HeldBy(s) \subseteq HeldBy(s)'
<1> USE NobodyAssumption DEF HeldBy
<1>1. ASSUME NEW u \in Session, Acquire(u) PROVE HeldBy(s) \subseteq HeldBy(s)'
  BY <1>1 DEF Acquire, Grant, Free
<1>2. ASSUME NEW u \in Session, GivesUp(u) PROVE HeldBy(s) \subseteq HeldBy(s)'
  <2>1. OwnStep(u)
    BY <1>2 DEF GivesUp, OwnStep, Creates, Releases
  <2>2. u # s
    BY <2>1, OthersSteps
  <2> QED
    BY <1>2, <2>2 DEF GivesUp, Unlease, FailReleases, FreeLeases, Drop
<1>3. ASSUME StaleFreed PROVE HeldBy(s) \subseteq HeldBy(s)'
  <2>1. monitor.at = s => UNCHANGED Local(t)
    BY <1>3 DEF StaleFreed, Local, TypeOK, TypeSession, session, creation, renewal
  <2> QED
    BY <1>3, <2>1 DEF StaleFreed, Drop
<1>4. \A g \in Gpu : ~Expire(g)
  BY DEF Expire, Local, session, creation, renewal
<1>5. lease' = lease => HeldBy(s) \subseteq HeldBy(s)'
  OBVIOUS
<1> QED
  BY <1>1, <1>2, <1>3, <1>4, <1>5, LeaseChanges

(***************************************************************************)
(* No step for one session ends the lease of another, for any sessions and *)
(* however late: each release names its session, and the store compares.   *)
(***************************************************************************)
THEOREM OwnersFree == Spec => OnlyOwnerFrees
<1> DEFINE Owner == \A s, t \in Session :
                        s # t /\ Local(t)' # Local(t) => HeldBy(s) \subseteq HeldBy(s)'
<1>1. TypeOK /\ [Next]_vars => [Owner]_vars
  BY OthersLeases
<1>2. Spec => [][Owner]_vars
  BY <1>1, TypeCorrect, PTL DEF Spec
<1> QED
  BY <1>2 DEF OnlyOwnerFrees

-----------------------------------------------------------------------------
(***************************************************************************)
(* Confirmed tokens: the invariant.                                        *)
(***************************************************************************)
\* A create that fails has no slot ready.
NoneReady(s) == create[s] \in {"failing", "failed"} => ReadySlots(s) = {}

\* The loop starts after the registration, or in restore when no create is left.
LoopStarts(s) ==
    /\ gateway # "up" => create[s] \in {"new", "end"} /\ renew[s] = "none"
    /\ create[s] = "registered" => renew[s] = "none"
    /\ renew[s] = "first" => create[s] = "end"
    /\ NoneReady(s)

\* A lease is live, or the loop is about to find that it is not.
Noticed(s, g) == lease[g] = s \/ (renew[s] \in {"ask", "told"} /\ g \in asked[s])

\* While create or the loop keeps the leases, the tokens that can be given to a job are
\* live, those of the slots still to load included, up to the await that ends a lease.
Keeping(s) ==
    /\ create[s] = "registered" \/ renew[s] \in {"sleep", "ask", "told"}
    /\ \A c \in Caller : release[s][c].pc # "stop"

TokensLive(s) ==
    /\ create[s] = "register" => left[s] \subseteq HeldBy(s)
    /\ Keeping(s) =>
           \A g \in token[s] : create[s] \notin {"failed", "end"} \/ g \in ReadySlots(s)
                  => Noticed(s, g) \/ GivenUp(s, g)

TokenInv == ReleaseInv /\ \A s \in Session : LoopStarts(s) /\ TokensLive(s)

LEMMA NoneReadyStep ==
    ASSUME TypeOK, NEW t \in Session, NoneReady(t), OwnStep(t)
    PROVE  NoneReady(t)'
<1> USE DEF NoneReady, ReadySlots, Slots, TypeOK, TypeSession, TypeCalls,
            session, creation, renewal, SetSession, SetSlot
<1>1. CASE Refuse(t) \/ Acquire(t)
  BY <1>1 DEF Refuse, Acquire
<1>2. CASE Creates(t)
  <2>1. create'[t] \in {"failing", "failed"} => Fail(t) \/ FailReleases(t)
    BY <1>2 DEF Creates, Register, LoadSlot, CallLoad, LoadReturns, LoadRaises,
       Unlease, LoadUnleased, Settle, Fail, FailReleases, Failed
  <2>2. Fail(t) => ReadySlots(t)' = {}
    BY DEF Fail
  <2>3. FailReleases(t) => create[t] = "failing" /\ slot' = slot
    BY DEF FailReleases
  <2> QED
    BY <2>1, <2>2, <2>3
<1>3. ASSUME create' = create, ReadySlots(t)' \subseteq ReadySlots(t) PROVE NoneReady(t)'
  BY <1>3
<1>4. CASE UserRelease(t) \/ IdleRelease(t)
  BY <1>4 DEF UserRelease, IdleRelease, Begin
<1>5. ASSUME NEW c \in Caller, Releases(t, c) PROVE NoneReady(t)'
  <2>1. create' = create
    BY <1>5 DEF Releases, Unload, Unloaded, UnloadRaises, FreeLeases, Released, ReleaseFails
  <2>2. ReadySlots(t)' \subseteq ReadySlots(t)
    BY <1>5 DEF Releases, Unload, Unloaded, UnloadRaises, FreeLeases, Released, ReleaseFails
  <2> QED
    BY <1>3, <2>1, <2>2
<1>6. CASE Renews(t) \/ RenewRaises(t)
  <2>1. create' = create
    BY <1>6 DEF Renews, RenewWakes, StoreRenews, RenewedAll, LoseSlot, LoseSession, RenewRaises
  <2>2. ReadySlots(t)' \subseteq ReadySlots(t)
    BY <1>6 DEF Renews, RenewWakes, StoreRenews, RenewedAll, LoseSlot, LoseSession, RenewRaises
  <2> QED
    BY <1>3, <2>1, <2>2
<1> QED
  BY <1>1, <1>2, <1>4, <1>5, <1>6 DEF OwnStep

LEMMA LoopStartsStep ==
    ASSUME TypeOK, TokenInv, [Next]_vars, NEW t \in Session
    PROVE  LoopStarts(t)'
<1> USE DEF LoopStarts
<1>1. CASE OwnStep(t)
  <2>a. NoneReady(t)'
    BY <1>1, NoneReadyStep DEF TokenInv
  <2> USE DEF TypeOK, TypeSession, TypeCalls, TokenInv, creation, renewal, outside
  <2>1. gateway' = gateway
    BY <1>1 DEF OwnStep, Creates, Releases, Renews, Refuse, Acquire, Register, LoadSlot, CallLoad,
       LoadReturns, LoadRaises, Unlease, LoadUnleased, Settle, Fail, FailReleases, Failed,
       UserRelease, IdleRelease,
       Begin, Unload, Unloaded, UnloadRaises, FreeLeases, Released, ReleaseFails,
       RenewWakes, StoreRenews, RenewedAll, LoseSlot, LoseSession, RenewRaises
  <2>2. CASE Refuse(t) \/ Acquire(t)
    BY <2>1, <2>a, <2>2 DEF Refuse, Acquire, ReleaseInv, Unborn
  <2>3. CASE Creates(t)
    BY <2>1, <2>a, <2>3 DEF Creates, Register, LoadSlot, CallLoad, LoadReturns, LoadRaises,
       Unlease, LoadUnleased, Settle, Fail, FailReleases, Failed, StopRenewal, ReleaseInv, Unborn
  <2>4. CASE UserRelease(t) \/ IdleRelease(t)
    BY <2>1, <2>a, <2>4 DEF UserRelease, IdleRelease, Begin
  <2>5. ASSUME NEW c \in Caller, Releases(t, c) PROVE LoopStarts(t)'
    BY <2>1, <2>a, <2>5 DEF Releases, Unload, Unloaded, UnloadRaises, FreeLeases, Released, ReleaseFails,
       Returned, StopRenewal
  <2>6. CASE Renews(t) \/ RenewRaises(t)
    BY <2>1, <2>a, <2>6 DEF Renews, RenewWakes, StoreRenews, RenewedAll, LoseSlot, LoseSession,
       RenewRaises, StopRenewal
  <2> QED
    BY <1>1, <2>2, <2>3, <2>4, <2>5, <2>6 DEF OwnStep
<1>2. CASE Monitors
  BY <1>2, MonitorSteps DEF MonitorStep, NoneReady, TokenInv
<1>3. CASE Crash
  BY <1>3 DEF Crash, NoneReady
<1>4. CASE Restore
  <2>1. \A s \in Restorable : create[s] # "new"
    BY DEF TokenInv, ReleaseInv, Unborn, Restorable
  <2> QED
    BY <1>4, <2>1 DEF Restore, NoneReady, TokenInv, creation
<1>5. CASE UNCHANGED <<Local(t), monitor>> /\ (gateway' = gateway \/ gateway = "down")
  BY <1>5 DEF Local, NoneReady, ReadySlots, Slots, TokenInv
<1> QED
  BY <1>1, <1>2, <1>3, <1>4, <1>5, StepKinds

\* A step that gives up no lease, and lets create and the loop go on.
Goes(t) ==
    /\ HeldBy(t) \subseteq HeldBy(t)' /\ token'[t] \subseteq token[t]
    /\ create'[t] = "register" => create[t] = "register" /\ left'[t] = left[t]
    /\ create'[t] \in {"failed", "end"} \/ create[t] \notin {"failed", "end"}
    /\ create'[t] \in {"failed", "end"} => ReadySlots(t)' \subseteq ReadySlots(t)
    /\ Keeping(t)' => Keeping(t) /\ renew'[t] = renew[t] /\ asked'[t] = asked[t]
    /\ create[t] # "unleased" \/ (create'[t] = create[t] /\ left'[t] = left[t])
    /\ monitor' = monitor

LEMMA GoesOn ==
    ASSUME TypeOK, NEW t \in Session, TokensLive(t), Goes(t)
    PROVE  TokensLive(t)'
<1>1. create'[t] = "register" => left'[t] \subseteq HeldBy(t)'
  BY DEF TokensLive, Goes
<1>2. ASSUME Keeping(t)', NEW g \in token'[t],
             create'[t] \notin {"failed", "end"} \/ g \in ReadySlots(t)'
      PROVE  Noticed(t, g)' \/ GivenUp(t, g)'
  <2>1. Noticed(t, g) \/ GivenUp(t, g)
    BY <1>2 DEF TokensLive, Goes
  <2>2. lease[g] = t => lease'[g] = t
    BY <1>2 DEF Goes, HeldBy, TypeOK, TypeSession
  <2>3. GivenUp(t, g) => GivenUp(t, g)'
    BY <1>2 DEF Goes, GivenUp, Keeping
  <2> QED
    BY <1>2, <2>1, <2>2, <2>3 DEF Noticed, Goes
<1> QED
  BY <1>1, <1>2 DEF TokensLive

\* The steps of create and of release that leave the leases alone.
LEMMA CreateGoes ==
    ASSUME TypeOK, NEW t \in Session,
           \/ Refuse(t) \/ CallLoad(t) \/ LoadReturns(t) \/ LoadRaises(t) \/ Settle(t) \/ Fail(t)
    PROVE  Goes(t)
<1> USE DEF Goes, TypeOK, TypeSession, TypeCalls, SetSession, SetSlot,
            session, creation, renewal, db, outside
<1>1. /\ lease' = lease /\ token' = token /\ release' = release /\ renew' = renew
      /\ asked' = asked /\ monitor' = monitor
  BY DEF Refuse, CallLoad, LoadReturns, LoadRaises, Settle, Fail
<1>2. create'[t] \in {"calling", "next", "unlease", "failing", "end"}
  BY DEF Refuse, CallLoad, LoadReturns, LoadRaises, Settle, Fail
<1>3. create[t] \notin {"unleased", "failed", "end"}
  BY DEF Refuse, CallLoad, LoadReturns, LoadRaises, Settle, Fail
<1>4. create'[t] = "end" => slot' = slot
  BY DEF Refuse, CallLoad, LoadReturns, LoadRaises, Settle, Fail
<1> QED
  BY <1>1, <1>2, <1>3, <1>4 DEF Keeping, HeldBy, ReadySlots, Slots

LEMMA ReleaseGoes ==
    ASSUME TypeOK, NEW t \in Session, LoopStarts(t),
           \/ UserRelease(t) \/ IdleRelease(t)
           \/ \E c \in Caller :
                  \/ Unload(t, c) \/ (\E released \in BOOLEAN : Unloaded(t, c, released))
                  \/ UnloadRaises(t, c) \/ ReleaseFails(t, c)
    PROVE  Goes(t)
<1> USE DEF TypeOK, TypeSession, TypeCalls, SetSession, SetSlot,
            session, creation, renewal, db, outside
<1>1. /\ lease' = lease /\ token' = token /\ create' = create /\ left' = left /\ asked' = asked
      /\ monitor' = monitor
  BY DEF UserRelease, IdleRelease, Begin, Unload, Unloaded, UnloadRaises, ReleaseFails, Returned
<1>2. ReadySlots(t)' \subseteq ReadySlots(t)
  BY DEF UserRelease, IdleRelease, Begin, Unload, Unloaded, UnloadRaises, ReleaseFails,
     ReadySlots, Slots
<1>3. renew'[t] \in {renew[t], "none", "idle"}
  BY DEF UserRelease, IdleRelease, Begin, Unload, Unloaded, UnloadRaises, ReleaseFails, Returned
<1>4. PICK c \in Caller : /\ release[t][c].pc # "stop"
                          /\ \A d \in Caller \ {c} : release'[t][d] = release[t][d]
  <2>1. CASE UserRelease(t) \/ IdleRelease(t)
    BY <2>1 DEF UserRelease, IdleRelease, Begin, NoCall, Caller
  <2>2. ASSUME NEW c \in Caller, Unload(t, c)
        PROVE  release[t][c].pc # "stop" /\ \A d \in Caller \ {c} : release'[t][d] = release[t][d]
    BY <2>2 DEF Unload
  <2>3. ASSUME NEW c \in Caller, NEW released \in BOOLEAN, Unloaded(t, c, released)
        PROVE  release[t][c].pc # "stop" /\ \A d \in Caller \ {c} : release'[t][d] = release[t][d]
    BY <2>3 DEF Unloaded
  <2>4. ASSUME NEW c \in Caller, UnloadRaises(t, c) \/ ReleaseFails(t, c)
        PROVE  release[t][c].pc # "stop" /\ \A d \in Caller \ {c} : release'[t][d] = release[t][d]
    BY <2>4 DEF UnloadRaises, ReleaseFails, Returned
  <2> QED
    BY <2>1, <2>2, <2>3, <2>4
<1>5. Keeping(t)' => Keeping(t) /\ renew'[t] = renew[t]
  <2>1. create[t] = "registered" => renew'[t] = renew[t]
    BY DEF LoopStarts, UserRelease, IdleRelease, Begin, Unload, Unloaded, UnloadRaises,
       ReleaseFails, Returned
  <2> QED
    BY <1>1, <1>3, <1>4, <2>1 DEF Keeping
<1> QED
  BY <1>1, <1>2, <1>5 DEF Goes, HeldBy

\* The session's own coroutines.
LEMMA OwnTokens ==
    ASSUME TypeOK, TokenInv, NEW t \in Session, OwnStep(t)
    PROVE  TokensLive(t)'
<1>a. TokensLive(t) /\ LoopStarts(t) /\ Unborn(t)
  BY DEF TokenInv, ReleaseInv
<1>b. ~Keeping(t)' /\ create'[t] # "register" => TokensLive(t)'
  BY DEF TokensLive
<1> USE DEF TypeOK, LeaseTypeOK, TypeSession, TypeCalls, session, creation, renewal, outside,
            SetSession, SetSlot
<1>1. CASE Acquire(t)
  <2>1. create'[t] = "register" /\ renew'[t] = "none" /\ left'[t] \subseteq HeldBy(t)'
    BY <1>1, <1>a DEF Acquire, Grant, Unborn, HeldBy
  <2> QED
    BY <2>1 DEF TokensLive, Keeping
<1>2. CASE Register(t)
  <2>1. create'[t] = "registered" /\ token'[t] = left[t] /\ lease' = lease
    BY <1>2 DEF Register
  <2>2. left[t] \subseteq HeldBy(t)
    BY <1>2, <1>a DEF Register, TokensLive
  <2> QED
    BY <2>1, <2>2 DEF TokensLive, Noticed, HeldBy
<1>3. CASE LoadSlot(t)
  <2>1. /\ create'[t] = "loading" /\ create[t] \in {"registered", "next"} /\ lease' = lease
        /\ token' = token /\ release' = release /\ asked' = asked
        /\ create[t] = "registered" => renew'[t] = "sleep"
        /\ create[t] # "registered" => renew'[t] = renew[t]
        /\ monitor' = monitor
    BY <1>3 DEF LoadSlot
  <2>2. Keeping(t)' => Keeping(t)
    BY <2>1 DEF Keeping
  <2>3. \A g \in token[t] : Keeping(t) => Noticed(t, g) \/ GivenUp(t, g)'
    BY <2>1, <1>a DEF TokensLive, GivenUp
  <2>4. create[t] = "registered" => \A g \in token[t] : Noticed(t, g) => lease[g] = t
    BY <1>a DEF Noticed, LoopStarts
  <2> QED
    BY <2>1, <2>2, <2>3, <2>4 DEF TokensLive, Noticed
<1>4. CASE Unlease(t)
  <2>1. /\ create'[t] = "unleased" /\ create[t] = "unlease" /\ release' = release /\ left' = left
        /\ renew' = renew /\ asked' = asked /\ token' = token /\ monitor' = monitor
        /\ \A g \in Gpu \ {First(left[t])} : lease'[g] = lease[g]
    BY <1>4 DEF Unlease, Drop
  <2>2. \A g \in token[t] : GivenUp(t, g) => GivenUp(t, g)'
    BY <2>1 DEF GivenUp
  <2> QED
    BY <2>1, <2>2, <1>a DEF TokensLive, Noticed, Keeping, GivenUp
<1>4a. CASE LoadUnleased(t)
  <2>1. /\ create'[t] = "next" /\ create[t] = "unleased" /\ release' = release
        /\ renew' = renew /\ asked' = asked /\ lease' = lease /\ monitor' = monitor
        /\ token'[t] = token[t] \ {First(left[t])}
    BY <1>4a DEF LoadUnleased
  <2> QED
    BY <2>1, <1>a DEF TokensLive, Noticed, Keeping, GivenUp
<1>5. CASE FailReleases(t)
  <2>1. /\ create'[t] = "failed" /\ create[t] = "failing" /\ slot' = slot
    BY <1>5 DEF FailReleases
  <2> QED
    BY <2>1, <1>a DEF TokensLive, LoopStarts, NoneReady, ReadySlots, Slots
<1>5a. CASE Failed(t)
  <2>1. create'[t] = "end" /\ renew'[t] = "none"
    BY <1>5a DEF Failed, StopRenewal
  <2> QED
    BY <2>1, <1>b DEF Keeping
<1>6. ASSUME NEW c \in Caller, FreeLeases(t, c) PROVE TokensLive(t)'
  <2>1. release'[t][c].pc = "stop" /\ create'[t] = create[t]
    BY <1>6 DEF FreeLeases
  <2>2. create[t] # "register"
    BY <1>6, <1>a DEF FreeLeases, Unborn
  <2> QED
    BY <2>1, <2>2, <1>b DEF Keeping
<1>7. ASSUME NEW c \in Caller, Released(t, c) PROVE TokensLive(t)'
  <2>1. token'[t] = {} /\ create'[t] = create[t]
    BY <1>7 DEF Released
  <2>2. create[t] # "register"
    BY <1>7, <1>a DEF Released, Unborn
  <2> QED
    BY <2>1, <2>2 DEF TokensLive
<1>8. CASE Renews(t) \/ RenewRaises(t)
  <2>1. /\ lease' = lease /\ token' = token /\ create' = create /\ left' = left
        /\ release' = release /\ create[t] \notin {"new", "register", "registered"}
        /\ \A g \in Gpu : GivenUp(t, g)' = GivenUp(t, g)
    BY <1>8, <1>a DEF Renews, RenewWakes, StoreRenews, RenewedAll, LoseSlot, LoseSession,
       RenewRaises, Unborn, LoopStarts, GivenUp
  <2>2. CASE RenewWakes(t)
    <3>1. /\ renew'[t] \in {"none", "ask"} /\ asked'[t] = Expected(t) /\ slot' = slot
          /\ renew[t] \in {"first", "sleep"}
      BY <2>2 DEF RenewWakes
    <3>2. ReadySlots(t) \subseteq Expected(t)
      BY DEF ReadySlots, Expected, ErrorSlot
    <3> QED
      BY <2>1, <3>1, <3>2, <1>a DEF TokensLive, Keeping, Noticed, LoopStarts, ReadySlots, Slots
  <2>3. CASE StoreRenews(t)
    <3>1. /\ renew'[t] = "told" /\ asked'[t] = asked[t] \ HeldBy(t) /\ slot' = slot
          /\ renew[t] = "ask"
      BY <2>3 DEF StoreRenews
    <3> QED
      BY <2>1, <3>1, <1>a DEF TokensLive, Keeping, Noticed, ReadySlots, Slots, HeldBy
  <2>4. CASE RenewedAll(t)
    <3>1. /\ renew'[t] \in {"none", "sleep"} /\ asked[t] = {} /\ slot' = slot /\ renew[t] = "told"
      BY <2>4 DEF RenewedAll
    <3> QED
      BY <2>1, <3>1, <1>a DEF TokensLive, Keeping, Noticed, ReadySlots, Slots
  <2>5. CASE LoseSlot(t) \/ LoseSession(t) \/ RenewRaises(t)
    <3>1. renew'[t] \in {"lost", "none"}
      BY <2>5 DEF LoseSlot, LoseSession, RenewRaises, StopRenewal
    <3> QED
      BY <2>1, <3>1, <1>b DEF Keeping
  <2> QED
    BY <1>8, <2>2, <2>3, <2>4, <2>5 DEF Renews
<1> HIDE DEF TypeOK
<1>9. ASSUME Goes(t) PROVE TokensLive(t)'
  BY <1>9, <1>a, GoesOn
<1>10. CASE Refuse(t) \/ Creates(t)
  BY <1>2, <1>3, <1>4, <1>4a, <1>5, <1>5a, <1>9, <1>10, CreateGoes DEF Creates
<1>11. CASE UserRelease(t) \/ IdleRelease(t)
  BY <1>a, <1>9, <1>11, ReleaseGoes
<1>12. ASSUME NEW c \in Caller, Releases(t, c) PROVE TokensLive(t)'
  <2>1. CASE FreeLeases(t, c) \/ Released(t, c)
    BY <2>1, <1>6, <1>7
  <2>2. CASE ~(FreeLeases(t, c) \/ Released(t, c))
    BY <2>2, <1>a, <1>9, <1>12, ReleaseGoes DEF Releases
  <2> QED
    BY <2>1, <2>2
<1> QED
  BY <1>1, <1>8, <1>10, <1>11, <1>12 DEF OwnStep

LEMMA TokensLiveStep ==
    ASSUME ~LateRenewal, TypeOK, TokenInv, [Next]_vars, NEW t \in Session
    PROVE  TokensLive(t)'
<1>a. TokensLive(t) /\ LoopStarts(t) /\ Unborn(t)
  BY DEF TokenInv, ReleaseInv
<1>1. CASE Monitors
  <2>1. MonitorStep(t)
    BY <1>1, MonitorSteps
  <2>2. Keeping(t)' <=> Keeping(t)
    BY <2>1 DEF MonitorStep, Keeping
  <2>3. create'[t] = "register" => left'[t] \subseteq HeldBy(t)'
    <3>1. Unborn(t)'
      BY UnbornStep DEF TokenInv
    <3> QED
      BY <2>1, <3>1, <1>a DEF MonitorStep, TokensLive, Unborn, GivenUp, HeldBy, Caller
  <2>4. ASSUME Keeping(t), NEW g \in token'[t],
               create'[t] \notin {"failed", "end"} \/ g \in ReadySlots(t)'
        PROVE  Noticed(t, g)' \/ GivenUp(t, g)'
    <3>1. g \in token[t] /\ (Noticed(t, g) \/ GivenUp(t, g)) /\ g \in Gpu
      BY <2>1, <2>4, <1>a DEF MonitorStep, TokensLive, TypeOK, TypeSession
    <3>2. lease[g] = t => lease'[g] = t \/ GivenUp(t, g)'
      BY <2>1, <2>4, <3>1 DEF MonitorStep, HeldBy
    <3>3. GivenUp(t, g) => GivenUp(t, g)'
      BY <2>1, <2>4 DEF MonitorStep
    <3> QED
      BY <2>1, <3>1, <3>2, <3>3 DEF MonitorStep, Noticed
  <2> QED
    BY <2>2, <2>3, <2>4 DEF TokensLive
<1>2. CASE Crash
  BY <1>2 DEF Crash, TokensLive, Keeping
<1>3. CASE Restore
  <2>1. create'[t] \notin {"register", "registered"} /\ renew'[t] \in {"first", "none"}
    BY <1>3 DEF Restore, TokenInv, LoopStarts, creation
  <2> QED
    BY <2>1 DEF TokensLive, Keeping
<1>4. CASE UNCHANGED <<Local(t), monitor>> /\ ~OwnStep(t) /\ ~Monitors
  <2>1. create[t] = "register" \/ Keeping(t) => Kept(t)
    BY DEF Kept, Keeping, TokenInv, LoopStarts
  <2>2. \A g \in HeldBy(t) : Kept(t) => lease'[g] = t
    BY <1>4, LeaseKept
  <2>3. /\ create'[t] = create[t] /\ left'[t] = left[t] /\ token'[t] = token[t]
        /\ renew'[t] = renew[t] /\ asked'[t] = asked[t] /\ release'[t] = release[t]
        /\ slot'[t] = slot[t]
    BY <1>4 DEF Local
  <2>4. Goes(t) \/ ~(create[t] = "register" \/ Keeping(t))
    <3>1. create[t] = "register" \/ Keeping(t) => HeldBy(t) \subseteq HeldBy(t)'
      BY <2>1, <2>2 DEF HeldBy
    <3>2. ReadySlots(t)' = ReadySlots(t)
      BY <2>3 DEF ReadySlots, Slots
    <3>3. Keeping(t)' <=> Keeping(t)
      BY <2>3 DEF Keeping
    <3> QED
      BY <1>4, <2>3, <3>1, <3>2, <3>3 DEF Goes
  <2>5. ~(create[t] = "register" \/ Keeping(t)) => TokensLive(t)'
    BY <2>3 DEF TokensLive, Keeping
  <2> QED
    BY <2>4, <2>5, <1>a, GoesOn
<1> QED
  BY <1>1, <1>2, <1>3, <1>4, OwnTokens, StepKinds

(***************************************************************************)
(* While the renewal loop keeps its rhythm, a READY slot's token names     *)
(* the live lease of its GPU from one confirmation to the next, through    *)
(* creates, releases, the monitor, crashes and restores, but for the one   *)
(* await in which a lease that is given up has gone before its token.      *)
(***************************************************************************)
THEOREM ConfirmedTokens == ~LateRenewal => (Spec => []ConfirmedTokenIsLive)
<1> SUFFICES ASSUME ~LateRenewal PROVE Spec => []ConfirmedTokenIsLive
  OBVIOUS
<1>1. Init => TokenInv
  BY ReleaseInit DEF Init, TokenInv, LoopStarts, NoneReady, TokensLive, Keeping
<1>2. TypeOK /\ TokenInv /\ [Next]_vars => TokenInv'
  BY ReleaseStep, LoopStartsStep, TokensLiveStep DEF TokenInv
<1>3. TokenInv => ConfirmedTokenIsLive
  BY DEF TokenInv, TokensLive, Keeping, Noticed, GivenUp, ConfirmedTokenIsLive
<1> QED
  BY <1>1, <1>2, <1>3, TypeCorrect, PTL DEF Spec
=============================================================================
