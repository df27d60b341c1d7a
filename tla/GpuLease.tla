------------------------------ MODULE GpuLease ------------------------------
(***************************************************************************)
(* What a GPU lease store promises its clients, whatever store is          *)
(* configured (LeaseStore in redis/leases.py): which compute session holds *)
(* each GPU.  A grant covers all its GPUs in one step, and only GPUs that  *)
(* nobody holds; a lease ends because its holder gives it back or because  *)
(* its time-to-live runs out.                                              *)
(*                                                                         *)
(* A session id is drawn from uuid4 and asks for leases once, so the pair  *)
(* (GPU, session) identifies the grant and stands for the fencing token.   *)
(***************************************************************************)
CONSTANTS
    Gpu,        \* stable GPU identifiers
    Session,    \* identifiers drawn by ComputeSessionService.create
    Nobody      \* the holder of a GPU without a lease key

ASSUME NobodyAssumption == Nobody \notin Session

VARIABLE lease  \* lease[g]: the session whose unexpired lease covers g

LeaseTypeOK == lease \in [Gpu -> Session \cup {Nobody}]

Free == {g \in Gpu : lease[g] = Nobody}
HeldBy(s) == {g \in Gpu : lease[g] = s}

LeaseInit == lease = [g \in Gpu |-> Nobody]

\* acquire: the whole selection and every key are written in one step.
Grant(s, got) ==
    /\ got # {}
    /\ got \subseteq Free
    /\ lease' = [g \in Gpu |-> IF g \in got THEN s ELSE lease[g]]

\* Mutant: the key is deleted without comparing its holder.
DropAnyOwner(s, gpus) ==
    lease' = [g \in Gpu |-> IF g \in gpus THEN Nobody ELSE lease[g]]

\* release_gpu, release_session: compare the holder, then delete.
Drop(s, gpus) ==
    lease' = [g \in Gpu |-> IF g \in gpus /\ lease[g] = s THEN Nobody ELSE lease[g]]

\* Keys whose time-to-live has passed are gone.
Lapse(gpus) ==
    lease' = [g \in Gpu |-> IF g \in gpus THEN Nobody ELSE lease[g]]

LeaseNext ==
    \/ \E s \in Session, got \in SUBSET Gpu : Grant(s, got)
    \/ \E s \in Session, gpus \in SUBSET Gpu : Drop(s, gpus)
    \/ \E gpus \in SUBSET Gpu : Lapse(gpus)

LeaseSpec == LeaseInit /\ [][LeaseNext]_lease

(***************************************************************************)
(* A GPU never passes from one session to another in one step: between two *)
(* holders its key is absent.  A second grant over a live key (a lost NX,  *)
(* a check made outside the script) would break it.                        *)
(***************************************************************************)
NoTakeover ==
    [][\A g \in Gpu : lease[g] \in Session => lease'[g] \in {lease[g], Nobody}]_lease
=============================================================================
