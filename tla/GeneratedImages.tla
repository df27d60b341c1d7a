-------------------------- MODULE GeneratedImages ---------------------------
(***************************************************************************)
(* One call of the tool generate_reference_image (agent/registry.py) over  *)
(* ArtifactService (services/artifact_service.py): for every image of the  *)
(* call a file in the storage root and a row in assets, which are written  *)
(* one after the other under a file lock of the image's asset id.          *)
(*                                                                         *)
(* The call runs in the process Generator, which may be interrupted, lose  *)
(* the execution lease of its run, or crash; then the process Recoverer    *)
(* (recover_incomplete of a Gateway started later or elsewhere) closes the *)
(* call.  Meanwhile the user may delete an image.  What an image shows is  *)
(* its number among the images the provider sent.                          *)
(***************************************************************************)
EXTENDS Naturals, FiniteSets

CONSTANTS
    Generator, Recoverer,
    Nobody,
    Count,          \* the images asked for, one or two
    MaxImages,      \* the images the provider sends at most
    Disturbance, Budget

ASSUME ImagesAssumption ==
    /\ Generator # Recoverer /\ Nobody \notin {Generator, Recoverer}
    /\ Count \in {1, 2} /\ MaxImages \in Nat /\ Budget \in Nat
    /\ Disturbance \subseteq
           {"crash", "late", "cancel", "timeout", "events", "store", "disk", "delete"}

VARIABLES
    row,        \* the image of each asset row, 0 without a row
    file,       \* the image in each generated.png, 0 without the file
    partial,    \* the image in each generated.png.partial
    lock,       \* who holds the file lock of each asset id
    deleted,    \* how far the user's delete_asset is: nothing, the row, the file as well
    owner,      \* the executor of the run
    call,       \* [status, images] of the tool call
    left,       \* history: images the tool went on without, with what was written of them
    task,       \* the coroutine of each process, see TaskType
    spent       \* how many disturbances there were

disk == <<row, file, partial>>
vars == <<disk, lock, deleted, owner, call, left, task, spent>>

Process == {Generator, Recoverer}
Index   == 1..Count                 \* output_index of each image, from 1 here
Image   == 0..MaxImages

Locked  == {"look", "own", "write", "ownAfter", "create", "again", "ownLast"}
Making  == Locked \cup {"ask", "lock", "finish"}
Closing == {"clean", "registered", "unlink", "list", "close"}

TaskType ==
    [pc : Making \cup Closing \cup {"none"},
     made : 0..Count,               \* assets the tool has so far
     k : Index,                     \* the output_index in hand
     sent : Image,                  \* images received
     images : SUBSET Index,         \* what the result will list
     failure : {"none", "timeout", "overrun"}]

NoTask == [pc |-> "none", made |-> 0, k |-> 1, sent |-> 0, images |-> {}, failure |-> "none"]

TypeOK ==
    /\ row \in [Index -> Image] /\ file \in [Index -> Image] /\ partial \in [Index -> Image]
    /\ lock \in [Index -> Process \cup {Nobody}] /\ deleted \in [Index -> {"no", "row", "file"}]
    /\ owner \in Process
    /\ call \in [status : {"running", "succeeded", "failed", "timeout", "overrun", "abandoned"},
                 images : SUBSET Index]
    /\ left \in SUBSET Index /\ task \in [Process -> TaskType] /\ spent \in 0..Budget

Init ==
    /\ row = [k \in Index |-> 0] /\ file = row /\ partial = row
    /\ lock = [k \in Index |-> Nobody] /\ deleted = [k \in Index |-> "no"]
    /\ owner = Generator
    /\ call = [status |-> "running", images |-> {}] /\ left = {}
    /\ task = [p \in Process |-> IF p = Generator THEN [NoTask EXCEPT !.pc = "ask"] ELSE NoTask]
    /\ spent = 0

Spend(d) == d \in Disturbance /\ spent < Budget /\ spent' = spent + 1
Calm     == UNCHANGED spent
Others   == UNCHANGED <<deleted, owner, call, left>>

At(p, pc)   == task[p].pc = pc
Goto(p, pc) == task' = [task EXCEPT ![p].pc = pc]
Stop(p)     == task' = [task EXCEPT ![p] = NoTask]
K(p)        == task[p].k
Take(p)     == lock[K(p)] = Nobody /\ lock' = [lock EXCEPT ![K(p)] = p]
Leave(p)    == lock' = [k \in Index |-> IF lock[k] = p THEN Nobody ELSE lock[k]]

-----------------------------------------------------------------------------
(***************************************************************************)
(* _generate_reference_image and create_generated_image.                   *)
(***************************************************************************)

\* An error of the database that neither the tool nor the runtime names: the call stays
\* RUNNING while its run fails, if that is still this executor's.
Abandon(p) ==
    /\ call' = IF owner = p THEN [call EXCEPT !.status = "abandoned"] ELSE call
    /\ Stop(p) /\ Leave(p)

\* One that the tool names (OSError, of the connection) costs this image only.
GoOn(p)  == Goto(p, "ask") /\ Leave(p) /\ UNCHANGED call
Error(p) == Abandon(p) \/ GoOn(p)

\* _ensure_execution_owned renews the lease: without it the tool ends where it is, and
\* after an error the file or the row of this image stays.
Ensure(p, at, then) ==
    /\ At(p, at)
    /\ \/ /\ IF owner = p THEN then ELSE Stop(p) /\ Leave(p)
          /\ UNCHANGED <<call, left>> /\ Calm
       \/ /\ Spend("store") /\ Error(p)
          /\ left' = IF at = "own" THEN left ELSE left \cup {K(p)}
    /\ UNCHANGED <<disk, deleted, owner>>

\* Mutant: the images that exceed the count asked for are made too.
AskForMore(p) ==
    /\ At(p, "ask") /\ task[p].sent < MaxImages
    /\ task' = [task EXCEPT ![p].pc = "lock", ![p].k = task[p].made + 1, ![p].sent = @ + 1]
    /\ UNCHANGED <<disk, lock>> /\ Others /\ Calm

\* The provider sends another image, or it has sent all it will; its events exceed those of
\* the run (consume_provider_events), which ends the tool, whatever it has made.
Ask(p) ==
    /\ At(p, "ask")
    /\ \/ Spend("store") /\ Abandon(p)
       \/ /\ owner = p /\ Spend("events") /\ UNCHANGED <<lock, call>>
          /\ task' = [task EXCEPT ![p] = [NoTask EXCEPT !.pc = "finish", !.failure = "overrun"]]
       \/ /\ UNCHANGED <<lock, call>> /\ Calm
          /\ IF owner # p THEN Stop(p)
             ELSE \/ /\ task[p].made < Count /\ task[p].sent < MaxImages
                     /\ task' = [task EXCEPT ![p].pc = "lock", ![p].k = task[p].made + 1,
                                             ![p].sent = @ + 1]
                  \/ Goto(p, "finish")
    /\ UNCHANGED <<disk, deleted, owner, left>>

Lock(p) ==
    /\ At(p, "lock") /\ Take(p) /\ Goto(p, "look")
    /\ UNCHANGED disk /\ Others /\ Calm

\* get_asset finds the image already registered, which _validate_committed_generated_asset
\* compares with its file; or _normalize_image takes or refuses what was sent.
Look(p) ==
    LET k == K(p) IN
    /\ At(p, "look")
    /\ \/ Spend("store") /\ Error(p) /\ UNCHANGED left
       \/ /\ row[k] # 0 /\ file[k] = row[k] /\ left' = left \ {k}
          /\ task' = [task EXCEPT ![p].pc = "ask", ![p].made = @ + 1]
          /\ Leave(p) /\ UNCHANGED call /\ Calm
       \/ /\ row[k] = 0 \/ file[k] # row[k]
          /\ GoOn(p) /\ UNCHANGED left /\ Calm
       \/ /\ row[k] = 0 /\ Goto(p, "own") /\ UNCHANGED <<lock, call, left>> /\ Calm
    /\ UNCHANGED <<disk, deleted, owner>>

\* Mutant: the lock is given back before the row is registered.
WriteUnlocked(p) ==
    LET k == K(p) IN
    /\ At(p, "write") /\ Leave(p) /\ Goto(p, "ownAfter")
    /\ file' = [file EXCEPT ![k] = task[p].sent] /\ partial' = [partial EXCEPT ![k] = 0]
    /\ UNCHANGED row /\ Others /\ Calm

\* .partial, fsync, os.replace: no await in between.  An OSError removes both files,
\* and the tool goes on to the next image.
Write(p) ==
    LET k == K(p) IN
    /\ At(p, "write") /\ partial' = [partial EXCEPT ![k] = 0]
    /\ \/ /\ file' = [file EXCEPT ![k] = task[p].sent]
          /\ Goto(p, "ownAfter") /\ Calm /\ UNCHANGED lock
       \/ /\ Spend("disk") /\ file' = [file EXCEPT ![k] = 0]
          /\ Goto(p, "ask") /\ Leave(p)
    /\ left' = left \ {k} /\ UNCHANGED <<row, deleted, owner, call>>

\* create_asset commits, or raises before or after it has committed.
Create(p) ==
    LET registered == [row EXCEPT ![K(p)] = task[p].sent] IN
    /\ At(p, "create")
    /\ \/ row' = registered /\ Goto(p, "ownLast") /\ Calm
       \/ row' \in {row, registered} /\ Goto(p, "again") /\ Spend("store")
    /\ UNCHANGED <<file, partial, lock>> /\ Others

\* After an error, get_asset again: a row that is there after all, with its file, is taken;
\* if there is none the file goes, and the error passes on.
Again(p) ==
    LET k == K(p) IN
    /\ At(p, "again")
    /\ \/ /\ Spend("store") /\ Error(p)
          /\ left' = left \cup {k} /\ UNCHANGED file
       \/ /\ row[k] # 0 /\ file[k] # row[k] /\ GoOn(p)
          /\ left' = left \cup {k} /\ UNCHANGED file /\ Calm
       \/ /\ row[k] # 0 /\ file[k] = row[k] /\ Goto(p, "ownLast")
          /\ UNCHANGED <<file, lock, call, left>> /\ Calm
       \/ /\ row[k] = 0 /\ Error(p)
          /\ file' = [file EXCEPT ![k] = 0] /\ UNCHANGED left /\ Calm
    /\ UNCHANGED <<row, partial, deleted, owner>>

\* finish_tool, if the run is still this executor's.
Record(p, status, images) ==
    /\ call' = IF owner = p THEN [status |-> status, images |-> images] ELSE call
    /\ Stop(p) /\ UNCHANGED lock /\ Calm

\* AGENT_TOOL_TIMEOUT, AGENT_OUTPUT_INVALID and a tool without any image fail without a list
\* of assets.
Finish(p) ==
    /\ At(p, "finish")
    /\ \/ Spend("store") /\ Abandon(p)
       \/ task[p].failure # "none" /\ Record(p, task[p].failure, {})
       \/ /\ task[p].failure = "none"
          /\ Record(p, IF task[p].made > 0 THEN "succeeded" ELSE "failed", 1..task[p].made)
    /\ UNCHANGED <<disk, deleted, owner, left>>

-----------------------------------------------------------------------------
(***************************************************************************)
(* Cancellation reaches the tool at its await: its lock is given back, and *)
(* one it waits for is first taken; a create_asset under way commits or    *)
(* does not; a file stays.                                                 *)
(***************************************************************************)
Cut(p, next) ==
    /\ task[p].pc \in Making \ {"write", "finish"}
    /\ At(p, "lock") => lock[K(p)] = Nobody
    /\ row' \in {row, IF At(p, "create") THEN [row EXCEPT ![K(p)] = task[p].sent] ELSE row}
    /\ task' = [task EXCEPT ![p] = next]
    /\ UNCHANGED <<file, partial>> /\ Others

\* Mutant: the lock is given back when the image is made, and not in a finally.
CancelLocked(p, next) == Cut(p, next) /\ UNCHANGED lock

CancelAt(p, next) == Cut(p, next) /\ Leave(p)

\* asyncio.timeout(definition.timeout_seconds)
Timeout(p) ==
    /\ Spend("timeout")
    /\ CancelAt(p, [NoTask EXCEPT !.pc = "finish", !.failure = "timeout"])

\* The renewal of the lease fails: the handler returns and leaves the call to the new owner.
LeaseLost(p) == owner # p /\ CancelAt(p, NoTask) /\ Calm

\* The user, the budget of the run or the stopping Gateway; the handler of _resume_tool_work
\* then closes the call, see _tool_interruption_result.
Interrupt(p) == CancelAt(p, [NoTask EXCEPT !.pc = "clean"]) /\ Spend("cancel")

\* cleanup_unregistered_generated_images, one output_index after the other.
Clean(p) ==
    /\ At(p, "clean") /\ Take(p) /\ Goto(p, "registered")
    /\ UNCHANGED disk /\ Others /\ Calm

NextIndex(p) ==
    /\ Leave(p) /\ left' = left \ {K(p)}
    /\ task' = [task EXCEPT ![p].pc = IF K(p) < Count THEN "clean" ELSE "list",
                            ![p].k = IF K(p) < Count THEN @ + 1 ELSE @]

\* Mutant: what is on the disk is kept, registered or not.
KeepUnregistered(p) ==
    /\ At(p, "registered") /\ NextIndex(p)
    /\ UNCHANGED <<disk, deleted, owner, call>> /\ Calm

Registered(p) ==
    /\ At(p, "registered")
    /\ IF row[K(p)] = 0 THEN Goto(p, "unlink") /\ UNCHANGED <<lock, left>> ELSE NextIndex(p)
    /\ UNCHANGED <<disk, deleted, owner, call>> /\ Calm

Unlink(p) ==
    /\ At(p, "unlink") /\ NextIndex(p)
    /\ partial' = [partial EXCEPT ![K(p)] = 0] /\ file' = [file EXCEPT ![K(p)] = 0]
    /\ UNCHANGED <<row, deleted, owner, call>> /\ Calm

\* list_generated_images
List(p) ==
    /\ At(p, "list")
    /\ task' = [task EXCEPT ![p].pc = "close", ![p].images = {k \in Index : row[k] # 0}]
    /\ UNCHANGED <<disk, lock>> /\ Others /\ Calm

Close(p) ==
    /\ At(p, "close") /\ Record(p, "failed", task[p].images)
    /\ UNCHANGED <<disk, deleted, owner, left>>

-----------------------------------------------------------------------------
\* recover_incomplete claims a run whose lease has lapsed and closes its call.
Claim ==
    /\ call.status = "running" /\ At(Recoverer, "none")
    /\ IF At(Generator, "none") THEN Calm ELSE Spend("late")
    /\ owner' = Recoverer
    /\ task' = [task EXCEPT ![Recoverer] = [NoTask EXCEPT !.pc = "clean"]]
    /\ UNCHANGED <<disk, lock, deleted, call, left>>

\* The system frees the locks of a process that dies; in the write it leaves either file.
Crash(p) ==
    LET k == K(p)  image == task[p].sent IN
    /\ ~At(p, "none") /\ Spend("crash")
    /\ \/ UNCHANGED <<file, partial>>
       \/ At(p, "write") /\ \/ partial' = [partial EXCEPT ![k] = image] /\ file' = [file EXCEPT ![k] = 0]
                            \/ file' = [file EXCEPT ![k] = image] /\ UNCHANGED partial
    /\ Leave(p) /\ Stop(p)
    /\ UNCHANGED <<row, deleted, owner, call, left>>

\* delete_asset by the user: the row, then the file.
DeleteRow(k) ==
    /\ row[k] # 0 /\ Spend("delete")
    /\ row' = [row EXCEPT ![k] = 0] /\ deleted' = [deleted EXCEPT ![k] = "row"]
    /\ UNCHANGED <<file, partial, lock, owner, call, left, task>>

DeleteFile(k) ==
    /\ deleted[k] = "row"
    /\ file' = [file EXCEPT ![k] = 0] /\ deleted' = [deleted EXCEPT ![k] = "file"]
    /\ UNCHANGED <<row, partial, lock, owner, call, left, task, spent>>

Own(p)      == Ensure(p, "own", Goto(p, "write") /\ UNCHANGED lock)
OwnAfter(p) == Ensure(p, "ownAfter", Goto(p, "create") /\ UNCHANGED lock)
OwnLast(p)  == Ensure(p, "ownLast", /\ task' = [task EXCEPT ![p].pc = "ask", ![p].made = @ + 1]
                                    /\ Leave(p))

Make(p)   == \/ Ask(p) \/ Lock(p) \/ Look(p) \/ Own(p) \/ Write(p)
             \/ OwnAfter(p) \/ Create(p) \/ Again(p) \/ OwnLast(p) \/ Finish(p)
CloseUp(p) == Clean(p) \/ Registered(p) \/ Unlink(p) \/ List(p) \/ Close(p)

Next ==
    \/ \E p \in Process : Make(p) \/ CloseUp(p) \/ Timeout(p) \/ LeaseLost(p)
                       \/ Interrupt(p) \/ Crash(p)
    \/ Claim
    \/ \E k \in Index : DeleteRow(k) \/ DeleteFile(k)

Spec == Init /\ [][Next]_vars

\* Coroutines run on, a Gateway is there to recover, and a delete request ends.
FairSpec ==
    /\ Spec
    /\ \A p \in Process : WF_vars(Make(p) \/ CloseUp(p))
    /\ WF_vars(At(Generator, "none") /\ Claim)
    /\ \A k \in Index : WF_vars(DeleteFile(k))

-----------------------------------------------------------------------------
\* Every row has its image: whatever is interrupted or recovered meanwhile, no row is left
\* without its file or with the bytes of another image.  (delete_asset takes no lock: an
\* image the user deletes while it is being registered may be the exception, see README.)
RowHasItsFile == \A k \in Index : row[k] # 0 /\ deleted[k] = "no" => file[k] = row[k]

\* Once the call is over, and for good, its result lists every image that is registered,
\* and the disk has no file of it that is not, also while the executor that lost the run
\* is still at work.  Three exceptions, see the README: a tool that timed out or exceeded the
\* events of its run lists nothing, a call abandoned with an error has no result, and an
\* image that the tool went on without, when the database failed after its file was written,
\* stays unlisted, unless the call was closed by another Gateway.
ResultIsComplete ==
    call.status \in {"succeeded", "failed"} =>
        \A k \in Index : /\ partial[k] = 0
                         /\ \/ owner = Generator /\ k \in left
                            \/ /\ row[k] # 0 => k \in call.images
                               /\ file[k] # 0 => row[k] # 0 \/ deleted[k] = "row"

\* The call ends: the file locks of the executors do not block each other, and what was
\* interrupted is recovered.
CallEnds == (call.status = "running") ~> (call.status # "running")
=============================================================================
