----------------------- MODULE AgentRepositoryProofs ------------------------
(***************************************************************************)
(* What AgentRepository promises, proved for any runs, calls, executors    *)
(* and number of turns.  Each property is inductive with the types: an     *)
(* operation reads and writes the rows it relates in one step.             *)
(***************************************************************************)
EXTENDS AgentRepository, TLAPS

USE AgentAssumption DEF stored

LEMMA StatusFacts ==
    /\ Terminal \subseteq RunStatus
    /\ DOMAIN Allowed \cap (Terminal \cup {"none"}) = {}
    /\ DOMAIN Allowed \subseteq RunStatus
    /\ \A from \in DOMAIN Allowed : Allowed[from] \subseteq RunStatus \ {"none"}
BY DEF Terminal, RunStatus, Allowed

(***************************************************************************)
(* A step of the repository is one operation: the cases of every proof.    *)
(***************************************************************************)
Operation ==
    \/ \E r \in Run, e \in Executor : \/ CreateRun(r, e) \/ ClaimRunExecution(r, e)
                                      \/ ReleaseRunExecution(r, e)
    \/ \E r \in Run : LeaseLapses(r)
    \/ \E r \in Run, n \in 0..MaxTurns, e \in Executor \cup {Nobody} : FinishRun(r, n, e)
    \/ \E r \in Run, n \in 0..MaxTurns, e \in Executor \cup {Nobody}, from, to \in RunStatus :
           TransitionRun(r, [status |-> from, requests |-> n], to, e)
    \/ \E c \in Call, n \in 0..MaxTurns, e \in Executor \cup {Nobody} : ProposeToolCall(c, n, e)
    \/ \E c \in Call, e \in Executor \cup {Nobody} : StartTool(c, e)
    \/ \E c \in Call, st \in CallStatus, e \in Executor \cup {Nobody} : FinishTool(c, st, e)
    \/ \E c \in Call, approve \in BOOLEAN, e \in Executor : DecideApproval(c, approve, e)
    \/ \E c \in Call : ApprovalFallsDue(c)
    \/ \E c \in Call : ExpireApproval(c)

LEMMA StepIsOperation == RepositoryNext => Operation
BY DEF RepositoryNext, OwnershipNext, RunNext, CallNext, Operation

(***************************************************************************)
(* The types of the rows.                                                  *)
(***************************************************************************)
RunRecord == [status : RunStatus, executor : Executor \cup {Nobody},
           leased : BOOLEAN, requests : 0..MaxTurns]
ApprovalRecord == [status : ApprovalStatus, due : BOOLEAN]

LEMMA Types ==
    StoredTypeOK <=> /\ run \in [Run -> RunRecord]
                     /\ call \in [Call -> CallStatus]
                     /\ approval \in [Call -> ApprovalRecord]
BY DEF StoredTypeOK, RunRecord, ApprovalRecord

LEMMA RunStatuses ==
    {"none", "queued", "completed", "waiting_approval", "executing_tool", "expired"}
        \subseteq RunStatus
BY DEF RunStatus, Terminal

LEMMA CallStatuses ==
    {"none", "waiting_approval", "proposed", "running", "succeeded", "failed", "approved",
     "rejected", "expired"} \subseteq CallStatus
BY DEF CallStatus

LEMMA ApprovalStatuses ==
    {"none", "pending", "consumed", "rejected", "expired"} \subseteq ApprovalStatus
BY DEF ApprovalStatus

\* A row stays a row when one of its columns is written.
LEMMA RunColumns ==
    ASSUME NEW w \in RunRecord
    PROVE  /\ \A st \in RunStatus : [w EXCEPT !.status = st] \in RunRecord
           /\ \A n \in 0..MaxTurns : [w EXCEPT !.requests = n] \in RunRecord
           /\ \A e \in Executor \cup {Nobody} : [w EXCEPT !.executor = e] \in RunRecord
           /\ \A b \in BOOLEAN : [w EXCEPT !.leased = b] \in RunRecord
BY DEF RunRecord

LEMMA ApprovalColumns ==
    ASSUME NEW w \in ApprovalRecord
    PROVE  /\ \A st \in ApprovalStatus : [w EXCEPT !.status = st] \in ApprovalRecord
           /\ \A b \in BOOLEAN : [w EXCEPT !.due = b] \in ApprovalRecord
BY DEF ApprovalRecord

LEMMA TypeInit == StoredInit => StoredTypeOK
BY RunStatuses, CallStatuses, ApprovalStatuses DEF StoredInit, StoredTypeOK

LEMMA TypeStep == StoredTypeOK /\ [RepositoryNext]_stored => StoredTypeOK'
<1> SUFFICES ASSUME run \in [Run -> RunRecord], call \in [Call -> CallStatus],
                    approval \in [Call -> ApprovalRecord], [RepositoryNext]_stored
             PROVE  /\ run' \in [Run -> RunRecord]
                    /\ call' \in [Call -> CallStatus]
                    /\ approval' \in [Call -> ApprovalRecord]
  BY Types DEF StoredTypeOK, RunRecord, ApprovalRecord
<1>1. CASE UNCHANGED stored
  BY <1>1
<1>2. CASE \E r \in Run, e \in Executor : CreateRun(r, e)
  BY <1>2, RunStatuses DEF CreateRun, RunRecord
<1>3. CASE \E r \in Run, e \in Executor : ClaimRunExecution(r, e) \/ ReleaseRunExecution(r, e)
  <2> PICK r \in Run, e \in Executor : ClaimRunExecution(r, e) \/ ReleaseRunExecution(r, e)
    BY <1>3
  <2> DEFINE claimed == [[run[r] EXCEPT !.executor = e] EXCEPT !.leased = TRUE]
             released == [[run[r] EXCEPT !.executor = Nobody] EXCEPT !.leased = FALSE]
  <2>1. claimed \in RunRecord /\ released \in RunRecord
    BY RunColumns
  <2>2. run' \in {[run EXCEPT ![r] = claimed], [run EXCEPT ![r] = released], run}
    BY DEF ClaimRunExecution, ReleaseRunExecution
  <2> QED
    BY <2>1, <2>2 DEF ClaimRunExecution, ReleaseRunExecution
<1>4. CASE \E r \in Run : LeaseLapses(r)
  <2> PICK r \in Run : LeaseLapses(r)
    BY <1>4
  <2>1. [run[r] EXCEPT !.leased = FALSE] \in RunRecord
    BY RunColumns
  <2> QED
    BY <2>1 DEF LeaseLapses
<1>5. CASE \E r \in Run, n \in 0..MaxTurns, e \in Executor \cup {Nobody} : FinishRun(r, n, e)
  <2> PICK r \in Run, n \in 0..MaxTurns, e \in Executor \cup {Nobody} : FinishRun(r, n, e)
    BY <1>5
  <2> DEFINE row == [[run[r] EXCEPT !.status = "completed"] EXCEPT !.requests = n]
  <2>1. row \in RunRecord
    BY RunColumns, RunStatuses
  <2>2. run' = [run EXCEPT ![r] = row]
    BY DEF FinishRun
  <2> QED
    BY <2>1, <2>2 DEF FinishRun
<1>6. CASE \E r \in Run, n \in 0..MaxTurns, e \in Executor \cup {Nobody}, from, to \in RunStatus :
               TransitionRun(r, [status |-> from, requests |-> n], to, e)
  <2> PICK r \in Run, n \in 0..MaxTurns, e \in Executor \cup {Nobody}, from, to \in RunStatus :
               TransitionRun(r, [status |-> from, requests |-> n], to, e)
    BY <1>6
  <2> DEFINE row == [[run[r] EXCEPT !.status = to] EXCEPT !.requests = n]
  <2>1. row \in RunRecord
    BY RunColumns
  <2>2. run' = [run EXCEPT ![r] = row]
    BY DEF TransitionRun
  <2> QED
    BY <2>1, <2>2 DEF TransitionRun
<1>7. CASE \E c \in Call, n \in 0..MaxTurns, e \in Executor \cup {Nobody} : ProposeToolCall(c, n, e)
  <2> PICK c \in Call, n \in 0..MaxTurns, e \in Executor \cup {Nobody} : ProposeToolCall(c, n, e)
    BY <1>7
  <2> DEFINE counted == [run[RunOf[c]] EXCEPT !.requests = n]
             waiting == [counted EXCEPT !.status = "waiting_approval"]
  <2>1. counted \in RunRecord
    BY RunColumns
  <2>2. waiting \in RunRecord
    BY <2>1, RunColumns, RunStatuses
  <2>3. run' \in [Run -> RunRecord]
    BY <2>1, <2>2 DEF ProposeToolCall
  <2>4. call' \in [Call -> CallStatus]
    BY CallStatuses DEF ProposeToolCall
  <2>5. approval' \in [Call -> ApprovalRecord]
    BY ApprovalStatuses, ApprovalColumns DEF ProposeToolCall
  <2> QED
    BY <2>3, <2>4, <2>5
<1>8. CASE \E c \in Call, e \in Executor \cup {Nobody} : StartTool(c, e)
  BY <1>8, CallStatuses DEF StartTool, StartToolAs
<1>9. CASE \E c \in Call, st \in CallStatus, e \in Executor \cup {Nobody} : FinishTool(c, st, e)
  BY <1>9 DEF FinishTool
<1>10. CASE \E c \in Call, approve \in BOOLEAN, e \in Executor : DecideApproval(c, approve, e)
  <2> PICK c \in Call, approve \in BOOLEAN, e \in Executor : DecideApproval(c, approve, e)
    BY <1>10
  <2> DEFINE row == [[[run[RunOf[c]] EXCEPT !.status = "executing_tool"] EXCEPT !.executor = e]
                         EXCEPT !.leased = TRUE]
  <2>1. [run[RunOf[c]] EXCEPT !.status = "executing_tool"] \in RunRecord
    BY RunColumns, RunStatuses
  <2>2. row \in RunRecord
    BY <2>1, RunColumns
  <2>3. run' = [run EXCEPT ![RunOf[c]] = row]
    BY DEF DecideApproval
  <2>4. call' \in [Call -> CallStatus]
    BY CallStatuses DEF DecideApproval
  <2>5. approval' \in [Call -> ApprovalRecord]
    BY ApprovalStatuses DEF DecideApproval, ApprovalRecord
  <2> QED
    BY <2>2, <2>3, <2>4, <2>5
<1>11. CASE \E c \in Call : ApprovalFallsDue(c)
  <2> PICK c \in Call : ApprovalFallsDue(c)
    BY <1>11
  <2>1. [approval[c] EXCEPT !.due = TRUE] \in ApprovalRecord
    BY ApprovalColumns
  <2> QED
    BY <2>1 DEF ApprovalFallsDue
<1>12. CASE \E c \in Call : ExpireApproval(c)
  <2> PICK c \in Call : ExpireApproval(c)
    BY <1>12
  <2> DEFINE st == IF run[RunOf[c]].status = "waiting_approval" THEN "expired"
                   ELSE run[RunOf[c]].status
  <2>1. st \in RunStatus
    BY RunStatuses DEF RunRecord
  <2>2. [run[RunOf[c]] EXCEPT !.status = st] \in RunRecord
    BY <2>1, RunColumns
  <2>3. run' = [run EXCEPT ![RunOf[c]] = [run[RunOf[c]] EXCEPT !.status = st]]
    BY DEF ExpireApproval
  <2>4. call' \in [Call -> CallStatus]
    BY CallStatuses DEF ExpireApproval
  <2>5. approval' \in [Call -> ApprovalRecord]
    BY ApprovalStatuses DEF ExpireApproval, ApprovalRecord
  <2> QED
    BY <2>2, <2>3, <2>4, <2>5
<1> QED
  BY <1>1, <1>2, <1>3, <1>4, <1>5, <1>6, <1>7, <1>8, <1>9, <1>10, <1>11, <1>12, StepIsOperation
     DEF Operation

\* Who executes a run is no matter of its status.
LEMMA OwnershipKeepsStatus ==
    ASSUME StoredTypeOK, NEW r \in Run, NEW e \in Executor,
           ClaimRunExecution(r, e) \/ ReleaseRunExecution(r, e) \/ LeaseLapses(r)
    PROVE  /\ UNCHANGED <<call, approval>>
           /\ \A q \in Run : /\ run'[q].status = run[q].status
                            /\ run'[q].requests = run[q].requests
<1>1. run \in [Run -> RunRecord]
  BY Types
<1>2. CASE ClaimRunExecution(r, e)
  <2> DEFINE claimed == [[run[r] EXCEPT !.executor = e] EXCEPT !.leased = TRUE]
  <2>1. claimed.status = run[r].status /\ claimed.requests = run[r].requests
    BY <1>1 DEF RunRecord
  <2>2. run' = [run EXCEPT ![r] = claimed]
    BY <1>2 DEF ClaimRunExecution
  <2> QED
    BY <1>1, <1>2, <2>1, <2>2 DEF ClaimRunExecution
<1>3. CASE ReleaseRunExecution(r, e)
  <2> DEFINE released == [[run[r] EXCEPT !.executor = Nobody] EXCEPT !.leased = FALSE]
  <2>1. released.status = run[r].status /\ released.requests = run[r].requests
    BY <1>1 DEF RunRecord
  <2>2. run' \in {[run EXCEPT ![r] = released], run}
    BY <1>1, <1>3 DEF ReleaseRunExecution
  <2> QED
    BY <1>1, <1>3, <2>1, <2>2 DEF ReleaseRunExecution
<1>4. CASE LeaseLapses(r)
  BY <1>1, <1>4 DEF LeaseLapses, RunRecord
<1> QED
  BY <1>2, <1>3, <1>4

\* The rows hold what the tables declare, whatever the callers do.
THEOREM RepositoryTypes == RepositorySpec => []StoredTypeOK
BY TypeInit, TypeStep, PTL DEF RepositorySpec

-----------------------------------------------------------------------------
(***************************************************************************)
(* Consent.  The three parts need each other: an approval that is pending  *)
(* belongs to a call that waits, so that expiring it or deciding on it     *)
(* never takes the consent from a call that has started.                   *)
(***************************************************************************)
LEMMA ConsentInit == StoredInit => ConsentBeforeCost
BY DEF StoredInit, ConsentBeforeCost

LEMMA ConsentStep ==
    StoredTypeOK /\ ConsentBeforeCost /\ [RepositoryNext]_stored => ConsentBeforeCost'
<1> SUFFICES ASSUME StoredTypeOK, ConsentBeforeCost, [RepositoryNext]_stored
             PROVE ConsentBeforeCost'
  OBVIOUS
<1> USE DEF StoredTypeOK, ConsentBeforeCost
<1>1. CASE UNCHANGED stored
  BY <1>1
<1>2. CASE \E r \in Run, e \in Executor : CreateRun(r, e)
  BY <1>2 DEF CreateRun
<1>3. CASE \E r \in Run, e \in Executor : ClaimRunExecution(r, e) \/ ReleaseRunExecution(r, e)
  BY <1>3, OwnershipKeepsStatus
<1>4. CASE \E r \in Run : LeaseLapses(r)
  BY <1>4 DEF LeaseLapses
<1>5. CASE \E r \in Run, n \in 0..MaxTurns, e \in Executor \cup {Nobody} : FinishRun(r, n, e)
  BY <1>5 DEF FinishRun
<1>6. CASE \E r \in Run, n \in 0..MaxTurns, e \in Executor \cup {Nobody}, from, to \in RunStatus :
               TransitionRun(r, [status |-> from, requests |-> n], to, e)
  BY <1>6, StatusFacts DEF TransitionRun, Allowed
<1>7. CASE \E c \in Call, n \in 0..MaxTurns, e \in Executor \cup {Nobody} : ProposeToolCall(c, n, e)
  <2> PICK c \in Call, n \in 0..MaxTurns, e \in Executor \cup {Nobody} : ProposeToolCall(c, n, e)
    BY <1>7
  <2>1. CASE call[c] # "none"
    <3>1. \A r \in Run : run'[r].status = run[r].status
      BY <2>1 DEF ProposeToolCall
    <3> QED
      BY <2>1, <3>1 DEF ProposeToolCall
  <2>2. CASE call[c] = "none" /\ c \in Costly
    <3>1. /\ \A r \in Run \ {RunOf[c]} : run'[r].status = run[r].status
          /\ \A d \in Call \ {c} : call'[d] = call[d] /\ approval'[d].status = approval[d].status
          /\ call'[c] = "waiting_approval" /\ approval'[c].status = "pending"
      BY <2>2 DEF ProposeToolCall
    <3>2. ASSUME NEW r \in Run, run'[r].status = "waiting_approval"
          PROVE  \E d \in Call : RunOf[d] = r /\ approval'[d].status = "pending"
      <4>1. CASE r = RunOf[c]
        BY <3>1, <4>1
      <4>2. CASE r # RunOf[c]
        BY <3>1, <3>2, <4>2
      <4> QED
        BY <4>1, <4>2
    <3>3. \A d \in Costly : call'[d] \in {"approved", "running", "succeeded", "failed"}
                                => approval'[d].status = "consumed"
      BY <3>1
    <3>4. \A d \in Call : call'[d] = "waiting_approval" <=> approval'[d].status = "pending"
      BY <3>1
    <3> QED
      BY <3>2, <3>3, <3>4
  <2>3. CASE call[c] = "none" /\ c \notin Costly
    <3>1. \A r \in Run : run'[r].status = run[r].status
      BY <2>3 DEF ProposeToolCall
    <3>2. /\ \A d \in Call \ {c} : call'[d] = call[d]
          /\ call'[c] = "proposed" /\ UNCHANGED approval
      BY <2>3 DEF ProposeToolCall
    <3> QED
      BY <2>3, <3>1, <3>2
  <2> QED
    BY <2>1, <2>2, <2>3
<1>8. CASE \E c \in Call, e \in Executor \cup {Nobody} : StartTool(c, e)
  BY <1>8 DEF StartTool, StartToolAs
<1>9. CASE \E c \in Call, st \in CallStatus, e \in Executor \cup {Nobody} : FinishTool(c, st, e)
  BY <1>9 DEF FinishTool, Finishable
<1>10. CASE \E c \in Call, approve \in BOOLEAN, e \in Executor : DecideApproval(c, approve, e)
  BY <1>10 DEF DecideApproval, Decidable
<1>11. CASE \E c \in Call : ApprovalFallsDue(c)
  BY <1>11 DEF ApprovalFallsDue
<1>12. CASE \E c \in Call : ExpireApproval(c)
  BY <1>12 DEF ExpireApproval
<1> QED
  BY <1>1, <1>2, <1>3, <1>4, <1>5, <1>6, <1>7, <1>8, <1>9, <1>10, <1>11, <1>12, StepIsOperation
     DEF Operation

\* Nothing costly is started without a consumed approval, calls and approvals wait
\* together, and a waiting run has one of them.
THEOREM RepositoryConsent == RepositorySpec => []ConsentBeforeCost
<1>1. RepositorySpec => []StoredTypeOK
  BY RepositoryTypes
<1> QED
  BY <1>1, ConsentInit, ConsentStep, PTL DEF RepositorySpec

-----------------------------------------------------------------------------
(***************************************************************************)
(* One active run: only create_run brings a run to life.                   *)
(***************************************************************************)
LEMMA ActiveInit == StoredInit => OneActiveRun
BY DEF StoredInit, OneActiveRun, Live

LEMMA ActiveStep == StoredTypeOK /\ OneActiveRun /\ [RepositoryNext]_stored => OneActiveRun'
<1> SUFFICES ASSUME StoredTypeOK, OneActiveRun, [RepositoryNext]_stored
             PROVE OneActiveRun'
  OBVIOUS
<1> USE DEF StoredTypeOK, OneActiveRun, Live, Terminal
<1>1. CASE UNCHANGED stored
  BY <1>1
<1>2. CASE \E r \in Run, e \in Executor : CreateRun(r, e)
  BY <1>2 DEF CreateRun
<1>3. CASE \E r \in Run, e \in Executor : ClaimRunExecution(r, e) \/ ReleaseRunExecution(r, e)
  BY <1>3, OwnershipKeepsStatus
<1>4. CASE \E r \in Run : LeaseLapses(r)
  BY <1>4 DEF LeaseLapses
<1>5. CASE \E r \in Run, n \in 0..MaxTurns, e \in Executor \cup {Nobody} : FinishRun(r, n, e)
  BY <1>5 DEF FinishRun
<1>6. CASE \E r \in Run, n \in 0..MaxTurns, e \in Executor \cup {Nobody}, from, to \in RunStatus :
               TransitionRun(r, [status |-> from, requests |-> n], to, e)
  BY <1>6, StatusFacts DEF TransitionRun, Allowed
<1>7. CASE \E c \in Call, n \in 0..MaxTurns, e \in Executor \cup {Nobody} : ProposeToolCall(c, n, e)
  BY <1>7, ZenonT(40) DEF ProposeToolCall
<1>8. CASE \E c \in Call, e \in Executor \cup {Nobody} : StartTool(c, e)
  BY <1>8 DEF StartTool, StartToolAs
<1>9. CASE \E c \in Call, st \in CallStatus, e \in Executor \cup {Nobody} : FinishTool(c, st, e)
  BY <1>9 DEF FinishTool, Finishable
<1>10. CASE \E c \in Call, approve \in BOOLEAN, e \in Executor : DecideApproval(c, approve, e)
  BY <1>10 DEF DecideApproval, Decidable
<1>11. CASE \E c \in Call : ApprovalFallsDue(c)
  BY <1>11 DEF ApprovalFallsDue
<1>12. CASE \E c \in Call : ExpireApproval(c)
  BY <1>12 DEF ExpireApproval
<1> QED
  BY <1>1, <1>2, <1>3, <1>4, <1>5, <1>6, <1>7, <1>8, <1>9, <1>10, <1>11, <1>12, StepIsOperation
     DEF Operation

\* An owner has at most one run that is not terminal, in whatever order the requests of
\* his clients arrive.
THEOREM RepositoryOneActiveRun == RepositorySpec => []OneActiveRun
<1>1. RepositorySpec => []StoredTypeOK
  BY RepositoryTypes
<1> QED
  BY <1>1, ActiveInit, ActiveStep, PTL DEF RepositorySpec

-----------------------------------------------------------------------------
(***************************************************************************)
(* The end of a run.                                                       *)
(***************************************************************************)
LEMMA EndStep == StoredTypeOK /\ [RepositoryNext]_stored => EndedStep
<1> SUFFICES ASSUME StoredTypeOK, [RepositoryNext]_stored PROVE EndedStep
  OBVIOUS
<1> USE DEF StoredTypeOK, EndedStep, Ended, Terminal
<1>1. CASE UNCHANGED stored
  BY <1>1
<1>2. CASE \E r \in Run, e \in Executor : CreateRun(r, e)
  BY <1>2 DEF CreateRun
<1>3. CASE \E r \in Run, e \in Executor : ClaimRunExecution(r, e) \/ ReleaseRunExecution(r, e)
  BY <1>3, OwnershipKeepsStatus
<1>4. CASE \E r \in Run : LeaseLapses(r)
  BY <1>4 DEF LeaseLapses
<1>5. CASE \E r \in Run, n \in 0..MaxTurns, e \in Executor \cup {Nobody} : FinishRun(r, n, e)
  BY <1>5 DEF FinishRun
<1>6. CASE \E r \in Run, n \in 0..MaxTurns, e \in Executor \cup {Nobody}, from, to \in RunStatus :
               TransitionRun(r, [status |-> from, requests |-> n], to, e)
  BY <1>6, StatusFacts DEF TransitionRun, Allowed
<1>7. CASE \E c \in Call, n \in 0..MaxTurns, e \in Executor \cup {Nobody} : ProposeToolCall(c, n, e)
  BY <1>7 DEF ProposeToolCall
<1>8. CASE \E c \in Call, e \in Executor \cup {Nobody} : StartTool(c, e)
  BY <1>8 DEF StartTool, StartToolAs
<1>9. CASE \E c \in Call, st \in CallStatus, e \in Executor \cup {Nobody} : FinishTool(c, st, e)
  BY <1>9 DEF FinishTool, Finishable
<1>10. CASE \E c \in Call, approve \in BOOLEAN, e \in Executor : DecideApproval(c, approve, e)
  BY <1>10 DEF DecideApproval, Decidable
<1>11. CASE \E c \in Call : ApprovalFallsDue(c)
  BY <1>11 DEF ApprovalFallsDue
<1>12. CASE \E c \in Call : ExpireApproval(c)
  BY <1>12 DEF ExpireApproval
<1> QED
  BY <1>1, <1>2, <1>3, <1>4, <1>5, <1>6, <1>7, <1>8, <1>9, <1>10, <1>11, <1>12, StepIsOperation
     DEF Operation

\* A run that has ended stays as it ended, and its calls are only closed any more.
THEOREM RepositoryEnds == RepositorySpec => NothingAfterTheEnd
<1>1. RepositorySpec => []StoredTypeOK
  BY RepositoryTypes
<1> QED
  BY <1>1, EndStep, PTL DEF RepositorySpec, NothingAfterTheEnd
=============================================================================
