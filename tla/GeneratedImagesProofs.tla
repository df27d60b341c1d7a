----------------------- MODULE GeneratedImagesProofs ------------------------
(***************************************************************************)
(* GeneratedImages, proved for one or two images asked for, with any       *)
(* number of images sent and of disturbances of every kind.                *)
(***************************************************************************)
EXTENDS GeneratedImages, TLAPS

USE ImagesAssumption

(***************************************************************************)
(* The inductive invariant.                                                *)
(***************************************************************************)
Pc(p) == task[p].pc

\* Who is at an image between taking and leaving its lock holds that lock; an image whose
\* files are about to be removed has no row.
LocksHeld == \A p \in Process :
    /\ Pc(p) \in Locked \cup {"registered", "unlink"} => lock[K(p)] = p
    /\ Pc(p) = "unlink" => row[K(p)] = 0

\* The Recoverer makes no images, and is there when it owns the run; what a crash leaves
\* in .partial is of an image that nobody registers any more.
Roles ==
    /\ Pc(Recoverer) \in Closing \cup {"none"}
    /\ owner = Generator => Pc(Recoverer) = "none"
    /\ \A k \in Index : partial[k] # 0 => row[k] = 0 /\ Pc(Generator) = "none"

\* Of an image that the executor of the run has not made there is nothing, unless it went on
\* without it.
Unmade(k) == (row[k] = 0 /\ file[k] = 0) \/ k \in left \/ owner # Generator

\* An image in hand is the one after those made; it has no row between the look for one and
\* its registration, and a file of its own bytes from the write on.
InHand(p) ==
    Pc(p) \in Making \ {"ask", "finish"} =>
        /\ K(p) = task[p].made + 1 /\ task[p].sent # 0
        /\ Pc(p) \in {"own", "write", "ownAfter", "create"} => row[K(p)] = 0
        /\ Pc(p) \in {"lock", "look", "own", "write"} => Unmade(K(p))
        /\ Pc(p) \in {"ownAfter", "create"} =>
               file[K(p)] = task[p].sent \/ deleted[K(p)] # "no"

\* A file is that of a row, or of one that the user is deleting.
Accounted(k) == file[k] # 0 => row[k] # 0 \/ deleted[k] = "row"

\* The images after the one in hand have not been touched, those before it are accounted
\* for, and so is the one in hand once it is registered.
Untouched(p) ==
    Pc(p) \in Making =>
        /\ Pc(p) # "finish" => task[p].failure = "none"
        /\ task[p].failure = "none" => \A k \in Index :
               /\ k > task[p].made + 1 => row[k] = 0 /\ file[k] = 0
               /\ k <= task[p].made => Accounted(k)
               /\ k = task[p].made + 1 /\ Pc(p) \in {"ask", "finish"} => Unmade(k)
               /\ k = task[p].made + 1 /\ Pc(p) = "ownLast" => Accounted(k)

\* An image that is settled: nobody is making it, and nothing unregistered is left of it.
AtDisk == {"write", "ownAfter", "create", "again"}
InMaking(k) == Pc(Generator) \in AtDisk /\ K(Generator) = k
Settled(k)  == Accounted(k) /\ partial[k] = 0 /\ ~ InMaking(k)

\* A closing task has settled the images it has passed.
Passed(p, k) == Pc(p) \in {"list", "close"} \/ (Pc(p) \in Closing /\ k < K(p))

PassedAreSettled ==
    \A p \in Process :
        /\ \A k \in Index : Passed(p, k) => Settled(k)
        /\ Pc(p) = "close" => \A k \in Index : row[k] # 0 => k \in task[p].images

\* Nobody who could begin an image is left when the call has its result.
Over ==
    call.status \in {"succeeded", "failed"} =>
        /\ owner = Generator => Pc(Generator) = "none"
        /\ \A k \in Index :
               /\ partial[k] = 0 /\ ~ InMaking(k)
               /\ \/ owner = Generator /\ k \in left
                  \/ Accounted(k) /\ (row[k] # 0 => k \in call.images)

ImagesInv ==
    /\ TypeOK /\ LocksHeld /\ Roles /\ InHand(Generator) /\ Untouched(Generator)
    /\ RowHasItsFile /\ PassedAreSettled /\ Over

-----------------------------------------------------------------------------
(***************************************************************************)
(* Types.                                                                  *)
(***************************************************************************)
LEMMA TaskParts ==
    ASSUME TypeOK, NEW p \in Process
    PROVE  /\ task \in [Process -> TaskType] /\ task[p] \in TaskType
           /\ Pc(p) \in Making \cup Closing \cup {"none"} /\ K(p) \in Index
           /\ task[p].made \in 0..Count /\ task[p].sent \in Image
           /\ task[p].images \in SUBSET Index /\ task[p].failure \in {"none", "timeout", "overrun"}
BY DEF TypeOK, TaskType, Pc, K

LEMMA NoTaskTyped == NoTask \in TaskType
<1>1. 1 \in Index /\ 0 \in 0..Count /\ 0 \in Image
  BY DEF Index, Image
<1> QED
  BY <1>1 DEF NoTask, TaskType

LEMMA ProcessIs == Generator \in Process /\ Recoverer \in Process /\ Generator # Recoverer
                   /\ \A p \in Process : p = Generator \/ p = Recoverer
BY DEF Process

LEMMA LeaveTyped ==
    ASSUME TypeOK, NEW p \in Process, Leave(p)
    PROVE  /\ lock' \in [Index -> Process \cup {Nobody}]
           /\ \A k \in Index : lock'[k] = lock[k] \/ (lock[k] = p /\ lock'[k] = Nobody)
BY DEF TypeOK, Leave

LEMMA TakeTyped ==
    ASSUME TypeOK, NEW p \in Process, Take(p)
    PROVE  /\ lock' \in [Index -> Process \cup {Nobody}] /\ lock'[K(p)] = p
           /\ lock[K(p)] = Nobody
           /\ \A k \in Index : k # K(p) => lock'[k] = lock[k]
BY TaskParts DEF TypeOK, Take

\* What a step makes of the record of its process.
LEMMA TaskTyped ==
    ASSUME TypeOK, NEW p \in Process, NEW x \in TaskType, task' = [task EXCEPT ![p] = x]
    PROVE  /\ task' \in [Process -> TaskType] /\ task'[p] = x
           /\ \A q \in Process : q # p => task'[q] = task[q]
BY DEF TypeOK

LEMMA GotoTask ==
    ASSUME TypeOK, NEW p \in Process, NEW pc \in Making \cup Closing \cup {"none"}, Goto(p, pc)
    PROVE  /\ task' \in [Process -> TaskType]
           /\ \A q \in Process : q # p => task'[q] = task[q]
           /\ task'[p].pc = pc /\ task'[p].made = task[p].made /\ task'[p].k = task[p].k
           /\ task'[p].sent = task[p].sent /\ task'[p].images = task[p].images
           /\ task'[p].failure = task[p].failure
<1> DEFINE x == [task[p] EXCEPT !.pc = pc]
<1>1. x \in TaskType /\ x.pc = pc /\ x.made = task[p].made /\ x.k = task[p].k
      /\ x.sent = task[p].sent /\ x.images = task[p].images /\ x.failure = task[p].failure
  BY TaskParts DEF TaskType
<1>2. task' = [task EXCEPT ![p] = x]
  BY TaskParts DEF Goto
<1> HIDE DEF x
<1> QED
  BY <1>1, <1>2, TaskTyped

LEMMA StopTask ==
    ASSUME TypeOK, NEW p \in Process, Stop(p)
    PROVE  /\ task' \in [Process -> TaskType] /\ task'[p] = NoTask
           /\ \A q \in Process : q # p => task'[q] = task[q]
BY NoTaskTyped, TaskTyped DEF Stop

LEMMA SpendTyped ==
    ASSUME TypeOK, NEW d, Spend(d)
    PROVE  spent' \in 0..Budget
BY DEF TypeOK, Spend

-----------------------------------------------------------------------------
(***************************************************************************)
(* A step of the executor that makes the images.                           *)
(***************************************************************************)
Same(k) == row'[k] = row[k] /\ file'[k] = file[k] /\ partial'[k] = partial[k]

MakeFrame(p) ==
    /\ Pc(p) \in Making /\ UNCHANGED <<deleted, owner>>
    /\ \A q \in Process : q # p => task'[q] = task[q]
    /\ \A k \in Index : k # K(p) \/ Pc(p) \notin AtDisk => Same(k)
    /\ Pc(p)' \in AtDisk => owner = p \/ (Pc(p) \in AtDisk /\ K(p)' = K(p))
    /\ Pc(p)' \in Making \cup {"none"} \/ (Pc(p)' = "clean" /\ K(p)' = 1)
    /\ \A k \in Index : lock[k] \in {p, Nobody} \/ lock'[k] = lock[k]
    /\ Pc(p)' \in Locked => lock'[task'[p].k] = p

LEMMA MakerIsGenerator ==
    ASSUME ImagesInv, NEW p \in Process, Pc(p) \in Making
    PROVE  p = Generator
<1>1. (Closing \cup {"none"}) \cap Making = {}
  BY DEF Closing, Making, Locked
<1> QED
  BY <1>1, ProcessIs DEF ImagesInv, Roles, Closing, Making, Locked

LEMMA MakeLocks ==
    ASSUME ImagesInv, MakeFrame(Generator)
    PROVE  LocksHeld'
<1> DEFINE g == Generator  r == Recoverer
<1> USE ProcessIs
<1>1. TypeOK /\ LocksHeld /\ task'[r] = task[r]
  BY DEF ImagesInv, MakeFrame
<1>2. K(r) \in Index /\ r # Nobody
  BY <1>1, TaskParts
<1>3. ASSUME Pc(r) \in Locked \cup {"registered", "unlink"}
      PROVE  lock'[task'[r].k] = r /\ (Pc(r)' = "unlink" => row'[task'[r].k] = 0)
  <2>1. lock[K(r)] = r /\ (Pc(r) = "unlink" => row[K(r)] = 0)
    BY <1>1, <1>3 DEF LocksHeld
  <2>2. lock'[K(r)] = r
    BY <1>2, <2>1 DEF MakeFrame
  <2>3. Pc(g) \in AtDisk => K(g) # K(r)
    BY <1>1, <2>1 DEF LocksHeld, AtDisk, Locked
  <2>4. row'[K(r)] = row[K(r)]
    BY <1>2, <2>3 DEF MakeFrame, Same
  <2> QED
    BY <1>1, <2>1, <2>2, <2>4 DEF K, Pc
<1>4. Pc(g)' \in Locked \cup {"registered", "unlink"} => lock'[task'[g].k] = g /\ Pc(g)' # "unlink"
  BY DEF MakeFrame, Making, Locked
<1> QED
  BY <1>1, <1>3, <1>4 DEF LocksHeld, K, Pc

LEMMA MakePassed ==
    ASSUME ImagesInv, MakeFrame(Generator)
    PROVE  PassedAreSettled' /\ (call' = call => Over')
<1> DEFINE g == Generator  r == Recoverer
<1> USE ProcessIs
<1>1. TypeOK /\ task'[r] = task[r] /\ Pc(g) \in Making /\ owner' = owner /\ deleted' = deleted
  BY DEF ImagesInv, MakeFrame
<1>2. ASSUME NEW k \in Index, Settled(k), owner # g PROVE Settled(k)' /\ row'[k] = row[k]
  <2>1. Same(k)
    BY <1>2 DEF MakeFrame, Settled, InMaking
  <2>2. ~ InMaking(k)'
    BY <1>2 DEF MakeFrame, Settled, InMaking
  <2> QED
    BY <1>1, <1>2, <2>1, <2>2 DEF Settled, Accounted, Same
<1>3. ASSUME NEW k \in Index PROVE ~ Passed(g, k)'
  <2>1. K(g)' = 1 => ~ (k < K(g)')
    BY DEF Index
  <2> QED
    BY <2>1 DEF MakeFrame, Passed, Making, Locked, Closing
<1>4. Pc(r)' = Pc(r) /\ K(r)' = K(r)
  BY <1>1 DEF Pc, K
<1>5. Pc(r) \in Closing => owner # g
  BY DEF ImagesInv, Roles, Closing
<1>6. Pc(g)' # "close"
  BY DEF MakeFrame, Making, Locked
<1>7. PassedAreSettled'
  <2>1. ASSUME NEW k \in Index, Passed(r, k)' PROVE Settled(k)'
    <3>1. Passed(r, k) /\ owner # g
      BY <1>4, <1>5, <2>1 DEF Passed, Closing
    <3>2. Settled(k)
      BY <3>1 DEF ImagesInv, PassedAreSettled
    <3> QED
      BY <1>2, <3>1, <3>2
  <2>2. ASSUME Pc(r)' = "close", NEW k \in Index, row'[k] # 0 PROVE k \in task'[r].images
    <3>1. Pc(r) = "close" /\ owner # g /\ Passed(r, k)
      BY <1>4, <1>5, <2>2 DEF Passed, Closing
    <3>2. row'[k] = row[k]
      BY <1>2, <3>1 DEF ImagesInv, PassedAreSettled
    <3> QED
      BY <1>1, <2>2, <3>1, <3>2 DEF ImagesInv, PassedAreSettled
  <2> QED
    BY <1>3, <1>6, <2>1, <2>2 DEF PassedAreSettled
<1>8. ASSUME call' = call PROVE Over'
  <2> SUFFICES ASSUME call.status \in {"succeeded", "failed"}
               PROVE  /\ owner # g
                      /\ \A k \in Index : Settled(k)' /\ (row'[k] # 0 => k \in call.images)
    BY <1>1, <1>8 DEF Over, Settled
  <2>1. owner # g
    BY <1>1 DEF ImagesInv, Over, Making, Locked
  <2>2. \A k \in Index : Settled(k) /\ (row[k] # 0 => k \in call.images)
    BY <2>1 DEF ImagesInv, Over, Settled
  <2> QED
    BY <1>2, <2>1, <2>2
<1> QED
  BY <1>7, <1>8

\* The parts that MakeFrame does not settle.
Rest == TypeOK /\ Roles /\ InHand(Generator) /\ Untouched(Generator) /\ RowHasItsFile

LEMMA MakeStep ==
    ASSUME ImagesInv, MakeFrame(Generator), Rest', call' = call
    PROVE  ImagesInv'
BY MakeLocks, MakePassed DEF ImagesInv, Rest

\* A step that touches no file and no row.
LEMMA DiskStays ==
    ASSUME ImagesInv, MakeFrame(Generator), UNCHANGED disk
    PROVE  Roles' /\ RowHasItsFile'
<1>1. task'[Recoverer] = task[Recoverer] /\ owner' = owner /\ deleted' = deleted
  BY ProcessIs DEF MakeFrame
<1>2. \A k \in Index : partial[k] = 0
  BY ProcessIs DEF ImagesInv, Roles, MakeFrame, Making, Locked
<1> QED
  BY <1>1, <1>2 DEF Roles, RowHasItsFile, ImagesInv, disk, Pc

\* The executor ends where it is.
LEMMA StopStep ==
    ASSUME ImagesInv, Pc(Generator) \in Making, Stop(Generator),
           Leave(Generator) \/ UNCHANGED lock,
           UNCHANGED <<disk, deleted, owner, call, left>>, spent' \in 0..Budget
    PROVE  ImagesInv'
<1> DEFINE g == Generator
<1> USE ProcessIs
<1>0. TypeOK
  BY DEF ImagesInv
<1>1. Pc(g)' = "none" /\ task' \in [Process -> TaskType]
      /\ \A q \in Process : q # g => task'[q] = task[q]
  BY <1>0, StopTask DEF NoTask, Pc
<1>2. /\ lock' \in [Index -> Process \cup {Nobody}]
      /\ \A k \in Index : lock[k] \in {g, Nobody} \/ lock'[k] = lock[k]
  BY <1>0, LeaveTyped DEF TypeOK
<1>3. MakeFrame(g)
  BY <1>1, <1>2 DEF MakeFrame, Same, disk, Making, AtDisk, Locked
<1>4. TypeOK' /\ InHand(g)' /\ Untouched(g)'
  BY <1>0, <1>1, <1>2 DEF TypeOK, InHand, Untouched, disk, Making, Locked
<1> QED
  BY <1>3, <1>4, DiskStays, MakeStep DEF Rest

\* The executor goes on to another place, with the image it has in hand.
LEMMA GoStep ==
    ASSUME ImagesInv, Pc(Generator) \in Making, NEW pc \in Making, Goto(Generator, pc),
           UNCHANGED <<disk, deleted, owner, call, left>>, spent' \in 0..Budget,
           \/ UNCHANGED lock /\ (pc \in Locked => Pc(Generator) \in Locked)
           \/ Take(Generator)
           \/ Leave(Generator) /\ pc \notin Locked,
           pc \in AtDisk => owner = Generator \/ Pc(Generator) \in AtDisk,
           InHand(Generator)', Untouched(Generator)'
    PROVE  ImagesInv'
<1> DEFINE g == Generator
<1> USE ProcessIs
<1>0. TypeOK /\ LocksHeld
  BY DEF ImagesInv
<1>1. /\ task' \in [Process -> TaskType] /\ Pc(g)' = pc /\ K(g)' = K(g) /\ task'[g].k = K(g)
      /\ \A q \in Process : q # g => task'[q] = task[q]
  BY <1>0, GotoTask DEF Pc, K
<1>2. /\ lock' \in [Index -> Process \cup {Nobody}]
      /\ \A k \in Index : lock[k] \in {g, Nobody} \/ lock'[k] = lock[k]
      /\ pc \in Locked => lock'[task'[g].k] = g
  BY <1>0, <1>1, LeaveTyped, TakeTyped DEF TypeOK, LocksHeld
<1>3. MakeFrame(g)
  BY <1>1, <1>2 DEF MakeFrame, Same, disk
<1>4. TypeOK'
  BY <1>0, <1>1, <1>2 DEF TypeOK, disk
<1> QED
  BY <1>3, <1>4, DiskStays, MakeStep DEF Rest

\* What Goto leaves of the executor's record.
LEMMA GoTask ==
    ASSUME ImagesInv, NEW pc \in Making, Goto(Generator, pc)
    PROVE  /\ Pc(Generator)' = pc /\ K(Generator)' = K(Generator)
           /\ task'[Generator].made = task[Generator].made
           /\ task'[Generator].sent = task[Generator].sent
           /\ task'[Generator].failure = task[Generator].failure
BY ProcessIs, GotoTask DEF ImagesInv, Pc, K

LEMMA LockStep ==
    ASSUME ImagesInv, Lock(Generator)
    PROVE  ImagesInv'
<1> DEFINE g == Generator
<1>0. /\ Pc(g) = "lock" /\ Goto(g, "look") /\ Take(g) /\ "look" \in Making
      /\ UNCHANGED <<disk, deleted, owner, call, left, spent>>
  BY DEF Lock, At, Pc, Others, Calm, Making, Locked
<1>1. InHand(g)'
  BY <1>0, GoTask DEF ImagesInv, InHand, Unmade, disk, Making, Locked
<1>2. Untouched(g)'
  BY <1>0, GoTask DEF ImagesInv, Untouched, Accounted, disk, Making, Locked
<1> QED
  BY <1>0, <1>1, <1>2, GoStep DEF ImagesInv, TypeOK, AtDisk, Making, Locked

LEMMA AbandonStep ==
    ASSUME ImagesInv, Pc(Generator) \in Making, Abandon(Generator), UNCHANGED <<deleted, owner>>,
           spent' \in 0..Budget, left' \in SUBSET Index, UNCHANGED <<row, partial>>,
           \A k \in Index : file'[k] = file[k]
                            \/ (k = K(Generator) /\ Pc(Generator) \in AtDisk
                                /\ file'[k] = 0 /\ row[k] = 0),
           file' \in [Index -> Image]
    PROVE  ImagesInv'
<1> DEFINE g == Generator
<1> USE ProcessIs
<1>0. TypeOK
  BY DEF ImagesInv
<1>1. Pc(g)' = "none" /\ task' \in [Process -> TaskType]
      /\ \A q \in Process : q # g => task'[q] = task[q]
  BY <1>0, StopTask DEF NoTask, Pc, Abandon
<1>2. /\ lock' \in [Index -> Process \cup {Nobody}]
      /\ \A k \in Index : lock[k] \in {g, Nobody} \/ lock'[k] = lock[k]
  BY <1>0, LeaveTyped DEF Abandon
<1>3. MakeFrame(g)
  BY <1>1, <1>2 DEF MakeFrame, Same, Making, AtDisk, Locked
<1>4. call' \in [status : {"running", "succeeded", "failed", "timeout", "overrun", "abandoned"},
                 images : SUBSET Index]
      /\ (call' = call \/ call'.status = "abandoned")
  BY <1>0 DEF Abandon, TypeOK
<1>5. TypeOK' /\ InHand(g)' /\ Untouched(g)'
  BY <1>0, <1>1, <1>2, <1>4 DEF TypeOK, InHand, Untouched, Making, Locked
<1>6. Roles' /\ RowHasItsFile'
  <2>1. \A k \in Index : partial[k] = 0
    BY DEF ImagesInv, Roles, Making, Locked
  <2> QED
    BY <1>1, <2>1 DEF ImagesInv, Roles, RowHasItsFile, Pc
<1>7. Over'
  BY <1>3, <1>4, MakePassed DEF Over
<1> QED
  BY <1>3, <1>5, <1>6, <1>7, MakeLocks, MakePassed DEF ImagesInv

\* The executor goes on to the next image, without the one in hand.
LEMMA GoOnStep ==
    ASSUME ImagesInv, Pc(Generator) \in Locked, GoOn(Generator), UNCHANGED <<deleted, owner>>,
           spent' \in 0..Budget, left' \in SUBSET Index, left \subseteq left',
           UNCHANGED <<row, partial>>,
           \A k \in Index : file'[k] = file[k]
                            \/ (k = K(Generator) /\ Pc(Generator) \in AtDisk
                                /\ file'[k] = 0 /\ row[k] = 0),
           file' \in [Index -> Image], Unmade(K(Generator))'
    PROVE  ImagesInv'
<1> DEFINE g == Generator  k == K(g)
<1> USE ProcessIs
<1>0. /\ TypeOK /\ Goto(g, "ask") /\ Leave(g) /\ UNCHANGED call /\ "ask" \in Making
      /\ k \in Index /\ k = task[g].made + 1 /\ Pc(g) \in Making
      /\ task[g].made \in 0..Count
  BY TaskParts DEF ImagesInv, GoOn, InHand, Making, Locked
<1>1. /\ task' \in [Process -> TaskType] /\ Pc(g)' = "ask" /\ task'[g].k = k
      /\ task'[g].made = task[g].made /\ task'[g].failure = task[g].failure
      /\ \A q \in Process : q # g => task'[q] = task[q]
  BY <1>0, GotoTask DEF Pc, K
<1>2. /\ lock' \in [Index -> Process \cup {Nobody}]
      /\ \A z \in Index : lock[z] \in {g, Nobody} \/ lock'[z] = lock[z]
  BY <1>0, LeaveTyped
<1>3. Unmade(k)' = ((row'[k] = 0 /\ file'[k] = 0) \/ k \in left' \/ owner' # g)
  BY <1>1 DEF Unmade, K
<1> HIDE DEF k
<1>4. MakeFrame(g)
  BY <1>0, <1>1, <1>2 DEF MakeFrame, Same, AtDisk, Making, Locked, k
<1>5. TypeOK' /\ InHand(g)'
  BY <1>0, <1>1, <1>2 DEF TypeOK, InHand
<1>6. Roles' /\ RowHasItsFile'
  <2>1. \A z \in Index : partial[z] = 0
    BY <1>0 DEF ImagesInv, Roles, Making, Locked
  <2> QED
    BY <1>1, <2>1 DEF ImagesInv, Roles, RowHasItsFile, Pc
<1>7. Untouched(g)'
  <2>1. task[g].failure = "none" /\ \A z \in Index :
            /\ z > task[g].made + 1 => row[z] = 0 /\ file[z] = 0
            /\ z <= task[g].made => Accounted(z)
    BY <1>0 DEF ImagesInv, Untouched, Making, Locked
  <2>2. \A z \in Index : z <= task[g].made => Accounted(z)'
    BY <1>0, <2>1 DEF Accounted, Index
  <2>3. \A z \in Index : z > task[g].made + 1 => row'[z] = 0 /\ file'[z] = 0
    BY <1>0, <2>1 DEF Index
  <2>4. \A z \in Index : z = task[g].made + 1 => Unmade(z)'
    BY <1>0, <1>3 DEF Unmade, k
  <2> QED
    BY <1>0, <1>1, <2>1, <2>2, <2>3, <2>4 DEF Untouched
<1> QED
  BY <1>0, <1>4, <1>5, <1>6, <1>7, MakeStep DEF Rest

\* An error of the database: one or the other.
LEMMA ErrorStep ==
    ASSUME ImagesInv, Pc(Generator) \in Locked, Error(Generator), UNCHANGED <<deleted, owner>>,
           spent' \in 0..Budget, left' \in SUBSET Index, left \subseteq left',
           UNCHANGED <<row, partial>>,
           \A k \in Index : file'[k] = file[k]
                            \/ (k = K(Generator) /\ Pc(Generator) \in AtDisk
                                /\ file'[k] = 0 /\ row[k] = 0),
           file' \in [Index -> Image],
           \/ K(Generator) \in left'
           \/ row[K(Generator)] = 0 /\ file'[K(Generator)] = 0
           \/ Unmade(K(Generator)) /\ file' = file
    PROVE  ImagesInv'
<1> DEFINE g == Generator
<1>1. CASE Abandon(g)
  BY <1>1, AbandonStep DEF Making
<1>2. CASE GoOn(g)
  <2>1. K(g)' = K(g)
    BY <1>2, GoTask DEF GoOn, Making
  <2>2. Unmade(K(g))'
    BY <2>1 DEF Unmade
  <2> QED
    BY <1>2, <2>2, GoOnStep
<1> QED
  BY <1>1, <1>2 DEF Error

\* The executor has the image in hand, and asks for the next.
LEMMA TakenStep ==
    ASSUME ImagesInv, Pc(Generator) \in Locked, Leave(Generator), Accounted(K(Generator)),
           task' = [task EXCEPT ![Generator].pc = "ask", ![Generator].made = @ + 1],
           UNCHANGED <<disk, deleted, owner, call>>, spent' \in 0..Budget, left' \in SUBSET Index
    PROVE  ImagesInv'
<1> DEFINE g == Generator
<1> USE ProcessIs
<1>0. /\ TypeOK /\ K(g) \in Index /\ K(g) = task[g].made + 1 /\ task[g].failure = "none"
      /\ Pc(g) \in Making
  BY TaskParts DEF ImagesInv, InHand, Untouched, Making, Locked
<1> DEFINE m == task[g].made + 1
           x == [task[g] EXCEPT !.pc = "ask", !.made = m]
<1>1. m \in 0..Count
  BY <1>0, TaskParts DEF Index
<1>2. x \in TaskType /\ x.pc = "ask" /\ x.made = m /\ x.failure = task[g].failure
  <2>1. task[g] \in TaskType
    BY <1>0, TaskParts
  <2> HIDE DEF m
  <2>2. x.pc = "ask" /\ x.made = m /\ x.failure = task[g].failure
    BY <2>1 DEF TaskType
  <2>3. x \in TaskType
    BY <1>1, <2>1 DEF TaskType, Making
  <2> QED
    BY <2>2, <2>3
<1>3. task' = [task EXCEPT ![g] = x]
  BY <1>0, TaskParts DEF TaskType
<1> HIDE DEF x
<1>4. /\ task' \in [Process -> TaskType] /\ Pc(g)' = "ask" /\ task'[g] = x
      /\ \A q \in Process : q # g => task'[q] = task[q]
  BY <1>0, <1>2, <1>3, TaskTyped DEF Pc
<1>5. /\ lock' \in [Index -> Process \cup {Nobody}]
      /\ \A z \in Index : lock[z] \in {g, Nobody} \/ lock'[z] = lock[z]
  BY <1>0, LeaveTyped
<1>6. MakeFrame(g)
  BY <1>0, <1>4, <1>5 DEF MakeFrame, Same, disk, Making, AtDisk, Locked
<1>7. TypeOK' /\ InHand(g)'
  BY <1>0, <1>4, <1>5 DEF TypeOK, InHand, disk
<1>8. Untouched(g)'
  <2>1. \A z \in Index :
            /\ z > task[g].made + 1 => row[z] = 0 /\ file[z] = 0
            /\ z <= task[g].made => Accounted(z)
            /\ z = task[g].made + 1 => Accounted(z)
    BY <1>0 DEF ImagesInv, Untouched
  <2>2. \A z \in Index : /\ z <= m => Accounted(z)
                         /\ z > m => row[z] = 0 /\ file[z] = 0
    BY <1>0, <2>1, TaskParts DEF Index
  <2>3. \A z \in Index : z <= m => Accounted(z)'
    BY <1>0, <2>2 DEF Accounted, disk
  <2>4. \A z \in Index : z > m => row'[z] = 0 /\ file'[z] = 0
    BY <1>0, <2>2 DEF disk
  <2>5. m + 1 > m /\ \A z \in Index : z = m + 1 => z > m
    BY <1>1 DEF Index
  <2>6. \A z \in Index : z = m + 1 => Unmade(z)'
    BY <2>4, <2>5 DEF Unmade
  <2>7. task'[g].made = m /\ task'[g].failure = "none"
    BY <1>0, <1>2, <1>4
  <2> HIDE DEF m
  <2> QED
    BY <1>1, <1>4, <2>3, <2>4, <2>5, <2>6, <2>7 DEF Untouched, Index
<1> QED
  BY <1>0, <1>6, <1>7, <1>8, DiskStays, MakeStep DEF Rest

LEMMA EnsureStep ==
    ASSUME ImagesInv, Own(Generator) \/ OwnAfter(Generator)
    PROVE  ImagesInv'
<1> DEFINE g == Generator
<1>0. /\ UNCHANGED <<disk, deleted, owner>> /\ Pc(g) \in {"own", "ownAfter"} /\ TypeOK
      /\ Pc(g) \in Locked /\ Pc(g) \in Making
  BY DEF Own, OwnAfter, Ensure, At, Pc, ImagesInv, Making, Locked
<1>1. CASE /\ Stop(g) /\ Leave(g) /\ UNCHANGED <<call, left>> /\ Calm
  BY <1>0, <1>1, StopStep DEF Calm, TypeOK
<1>2. ASSUME NEW pc \in {"write", "create"}, owner = g, Goto(g, pc), UNCHANGED <<lock, call, left>>,
             Calm, pc = "write" => Pc(g) = "own", pc = "create" => Pc(g) = "ownAfter"
      PROVE  ImagesInv'
  <2>1. pc \in Making
    BY DEF Making, Locked
  <2>2. InHand(g)'
    BY <1>0, <1>2, <2>1, GoTask DEF ImagesInv, InHand, Unmade, disk, Making, Locked
  <2>3. Untouched(g)'
    BY <1>0, <1>2, <2>1, GoTask DEF ImagesInv, Untouched, Accounted, disk, Making, Locked
  <2> QED
    BY <1>0, <1>2, <2>1, <2>2, <2>3, GoStep DEF AtDisk, Making, Locked, Calm, TypeOK
<1>3. CASE /\ Spend("store") /\ Error(g)
           /\ left' = IF Pc(g) = "own" THEN left ELSE left \cup {K(g)}
  <2>1. /\ K(g) \in Index /\ left' \in SUBSET Index /\ left \subseteq left'
        /\ spent' \in 0..Budget
    BY <1>0, <1>3, ProcessIs, TaskParts, SpendTyped DEF TypeOK
  <2>2. Pc(g) = "own" => Unmade(K(g))
    BY <1>0 DEF ImagesInv, InHand, Making, Locked
  <2> QED
    BY <1>0, <1>3, <2>1, <2>2, ErrorStep DEF disk, TypeOK
<1> QED
  BY <1>1, <1>2, <1>3 DEF Own, OwnAfter, Ensure, At, Pc

LEMMA LookStep ==
    ASSUME ImagesInv, Look(Generator)
    PROVE  ImagesInv'
<1> DEFINE g == Generator  k == K(g)  m == task[g].made + 1
<1> USE ProcessIs
<1>0. /\ UNCHANGED <<disk, deleted, owner>> /\ Pc(g) = "look" /\ k \in Index
      /\ TypeOK /\ file' \in [Index -> Image] /\ Pc(g) \in Locked /\ Pc(g) \in Making
      /\ left \in SUBSET Index
  BY TaskParts DEF Look, At, Pc, ImagesInv, Making, Locked, TypeOK, disk
<1>1. /\ k = m /\ Unmade(k) /\ task[g].failure = "none" /\ m \in 0..Count
      /\ task[g].made \in 0..Count
  BY <1>0, TaskParts DEF ImagesInv, InHand, Untouched, Making, Locked, Index
<1>2. CASE Spend("store") /\ Error(g) /\ UNCHANGED left
  BY <1>0, <1>1, <1>2, SpendTyped, ErrorStep DEF disk
<1>3. CASE GoOn(g) /\ UNCHANGED left /\ Calm
  <2>1. K(g)' = k
    BY <1>3, GoTask DEF GoOn, Making
  <2>2. Unmade(K(g))'
    BY <1>0, <1>1, <1>3, <2>1 DEF Unmade, disk
  <2> QED
    BY <1>0, <1>3, <2>2, GoOnStep DEF disk, Calm, TypeOK
<1>4. CASE row[k] = 0 /\ Goto(g, "own") /\ UNCHANGED <<lock, call, left>> /\ Calm
  <2>1. "own" \in Making /\ "own" \notin AtDisk
    BY DEF Making, Locked, AtDisk
  <2>2. InHand(g)'
    BY <1>0, <1>4, <2>1, GoTask DEF ImagesInv, InHand, Unmade, disk, Making, Locked
  <2>3. Untouched(g)'
    BY <1>0, <1>4, <2>1, GoTask DEF ImagesInv, Untouched, Accounted, disk, Making, Locked
  <2> QED
    BY <1>0, <1>4, <2>1, <2>2, <2>3, GoStep DEF Calm, TypeOK
<1>5. CASE /\ row[k] # 0 /\ left' = left \ {k} /\ UNCHANGED call /\ Calm /\ Leave(g)
           /\ task' = [task EXCEPT ![g].pc = "ask", ![g].made = @ + 1]
  BY <1>0, <1>1, <1>5, TakenStep DEF Accounted, Calm, TypeOK, disk
<1> QED
  BY <1>2, <1>3, <1>4, <1>5 DEF Look

LEMMA AskStep ==
    ASSUME ImagesInv, Ask(Generator)
    PROVE  ImagesInv'
<1> DEFINE g == Generator
<1> USE ProcessIs
<1>0. /\ TypeOK /\ Pc(g) = "ask" /\ Pc(g) \in Making /\ task[g].failure = "none"
      /\ UNCHANGED <<disk, deleted, owner, left>> /\ spent' \in 0..Budget
  BY SpendTyped DEF ImagesInv, Ask, At, Pc, Calm, Untouched, Making, TypeOK
<1>1. CASE Spend("store") /\ Abandon(g)
  BY <1>0, <1>1, AbandonStep DEF disk, TypeOK
<1>2. ASSUME UNCHANGED <<lock, call>>, NEW x \in TaskType, task' = [task EXCEPT ![g] = x],
             x.pc = "finish", x.failure # "none"
      PROVE  ImagesInv'
  <2>1. /\ task' \in [Process -> TaskType] /\ Pc(g)' = "finish" /\ task'[g].failure # "none"
        /\ \A q \in Process : q # g => task'[q] = task[q]
    BY <1>0, <1>2, TaskTyped DEF Pc
  <2>2. MakeFrame(g)
    BY <1>0, <1>2, <2>1 DEF MakeFrame, Same, disk, Making, AtDisk, Locked
  <2>3. TypeOK' /\ InHand(g)' /\ Untouched(g)'
    BY <1>0, <1>2, <2>1 DEF TypeOK, InHand, Untouched, disk
  <2> QED
    BY <1>0, <1>2, <2>2, <2>3, DiskStays, MakeStep DEF Rest
<1>3. CASE Stop(g) /\ UNCHANGED <<lock, call>>
  BY <1>0, <1>3, StopStep
<1>4. CASE /\ UNCHANGED <<lock, call>> /\ task[g].made < Count /\ task[g].sent < MaxImages
           /\ task' = [task EXCEPT ![g].pc = "lock", ![g].k = task[g].made + 1, ![g].sent = @ + 1]
  <2> DEFINE n == task[g].made + 1  m == task[g].sent + 1
             x == [task[g] EXCEPT !.pc = "lock", !.k = n, !.sent = m]
  <2>1. n \in Index /\ m \in Image /\ m # 0
    BY <1>0, <1>4, TaskParts DEF Index, Image
  <2>2. x \in TaskType /\ x.pc = "lock" /\ x.k = n /\ x.sent = m /\ x.made = task[g].made
        /\ x.failure = "none"
    <3>1. task[g] \in TaskType /\ task[g].failure = "none"
      BY <1>0, TaskParts
    <3> HIDE DEF n, m
    <3>2. /\ x.pc = "lock" /\ x.k = n /\ x.sent = m
          /\ x.made = task[g].made /\ x.failure = task[g].failure
      BY <3>1 DEF TaskType
    <3>3. x \in TaskType
      BY <2>1, <3>1 DEF TaskType, Making
    <3> QED
      BY <3>1, <3>2, <3>3, TaskParts
  <2>3. task' = [task EXCEPT ![g] = x]
    BY <1>0, <1>4, TaskParts DEF TaskType
  <2> HIDE DEF x
  <2>4. /\ task' \in [Process -> TaskType] /\ Pc(g)' = "lock" /\ task'[g] = x
        /\ \A q \in Process : q # g => task'[q] = task[q]
    BY <1>0, <2>2, <2>3, TaskTyped DEF Pc
  <2>5. MakeFrame(g)
    BY <1>0, <1>4, <2>4 DEF MakeFrame, Same, disk, Making, AtDisk, Locked
  <2>6. Unmade(n)
    BY <1>0, <2>1 DEF ImagesInv, Untouched
  <2>7. InHand(g)'
    BY <1>0, <2>1, <2>2, <2>4, <2>6 DEF InHand, Unmade, K, disk
  <2>8. Untouched(g)'
    BY <1>0, <2>1, <2>2, <2>4 DEF ImagesInv, Untouched, Accounted, Unmade, disk
  <2>9. TypeOK'
    BY <1>0, <1>4, <2>4 DEF TypeOK, disk
  <2> QED
    BY <1>0, <1>4, <2>5, <2>7, <2>8, <2>9, DiskStays, MakeStep DEF Rest
<1>5. CASE Goto(g, "finish") /\ UNCHANGED <<lock, call>>
  <2>1. /\ task' \in [Process -> TaskType] /\ Pc(g)' = "finish" /\ task'[g].made = task[g].made
        /\ task'[g].failure = "none"
        /\ \A q \in Process : q # g => task'[q] = task[q]
    BY <1>0, <1>5, GotoTask DEF Pc, Making
  <2>2. MakeFrame(g)
    BY <1>0, <1>5, <2>1 DEF MakeFrame, Same, disk, Making, AtDisk, Locked
  <2>3. TypeOK' /\ InHand(g)'
    BY <1>0, <1>5, <2>1 DEF TypeOK, InHand, disk
  <2>4. Untouched(g)'
    BY <1>0, <2>1 DEF ImagesInv, Untouched, Accounted, Unmade, disk
  <2> QED
    BY <1>0, <1>5, <2>2, <2>3, <2>4, DiskStays, MakeStep DEF Rest
<1>6. [NoTask EXCEPT !.pc = "finish", !.failure = "overrun"] \in TaskType
      /\ [NoTask EXCEPT !.pc = "finish", !.failure = "overrun"].pc = "finish"
      /\ [NoTask EXCEPT !.pc = "finish", !.failure = "overrun"].failure = "overrun"
  BY NoTaskTyped DEF TaskType, Making
<1> QED
  BY <1>1, <1>2, <1>3, <1>4, <1>5, <1>6 DEF Ask

LEMMA WriteStep ==
    ASSUME ImagesInv, Write(Generator)
    PROVE  ImagesInv'
<1> DEFINE g == Generator  k == K(g)
<1> USE ProcessIs
<1>0. /\ Pc(g) = "write" /\ TypeOK /\ k \in Index /\ row' = row
      /\ UNCHANGED <<deleted, owner, call>> /\ left' \in SUBSET Index
      /\ partial' = [partial EXCEPT ![k] = 0]
      /\ "ownAfter" \in Making /\ "ask" \in Making
  BY TaskParts DEF ImagesInv, Write, At, Pc, TypeOK, Making, Locked
<1>1. /\ row[k] = 0 /\ k = task[g].made + 1 /\ task[g].sent # 0
      /\ lock[k] = g /\ task[g].sent \in Image
  BY <1>0, TaskParts DEF ImagesInv, InHand, LocksHeld, Making, Locked
<1>2. ASSUME NEW f \in Image, NEW pc \in {"ownAfter", "ask"}, Goto(g, pc),
             file' = [file EXCEPT ![k] = f], pc = "ask" => f = 0, pc # "ask" => f = task[g].sent,
             \/ pc = "ownAfter" /\ UNCHANGED lock
             \/ pc = "ask" /\ Leave(g),
             spent' \in 0..Budget
      PROVE  ImagesInv'
  <2>1. /\ task' \in [Process -> TaskType] /\ Pc(g)' = pc /\ K(g)' = k /\ task'[g].k = k
        /\ task'[g].made = task[g].made /\ task'[g].sent = task[g].sent
        /\ task'[g].failure = task[g].failure
        /\ \A q \in Process : q # g => task'[q] = task[q]
    BY <1>0, <1>2, GotoTask DEF Pc, K
  <2>2. /\ lock' \in [Index -> Process \cup {Nobody}]
        /\ \A z \in Index : lock[z] \in {g, Nobody} \/ lock'[z] = lock[z]
        /\ pc # "ask" => lock'[k] = g
    BY <1>0, <1>1, <1>2, LeaveTyped DEF TypeOK
  <2>3. /\ file' \in [Index -> Image] /\ partial' \in [Index -> Image]
        /\ file'[k] = f /\ partial'[k] = 0
        /\ \A z \in Index : z # k => file'[z] = file[z] /\ partial'[z] = partial[z]
    BY <1>0, <1>2 DEF TypeOK, Image
  <2> HIDE DEF k
  <2>4. MakeFrame(g)
    BY <1>0, <1>2, <2>1, <2>2, <2>3 DEF MakeFrame, Same, AtDisk, Making, Locked, k
  <2>5. TypeOK'
    BY <1>0, <1>2, <2>1, <2>2, <2>3 DEF TypeOK
  <2>6. Roles'
    BY <1>0, <2>1, <2>3 DEF ImagesInv, Roles, Making, Locked, Pc
  <2>7. InHand(g)'
    BY <1>0, <1>1, <1>2, <2>1, <2>3 DEF InHand, k
  <2>8. Untouched(g)'
    <3>1. task[g].failure = "none" /\ \A z \in Index :
              /\ z > task[g].made + 1 => row[z] = 0 /\ file[z] = 0
              /\ z <= task[g].made => Accounted(z)
      BY <1>0 DEF ImagesInv, Untouched, Making, Locked
    <3>2. \A z \in Index : z <= task[g].made => Accounted(z)'
      BY <1>0, <1>1, <2>3, <3>1, TaskParts DEF Accounted, Index
    <3>3. \A z \in Index : z > task[g].made + 1 => row'[z] = 0 /\ file'[z] = 0
      BY <1>0, <1>1, <2>3, <3>1, TaskParts DEF Index
    <3> QED
      BY <1>0, <1>1, <1>2, <2>1, <2>3, <3>1, <3>2, <3>3 DEF Untouched, Unmade
  <2>9. RowHasItsFile'
    BY <1>0, <1>1, <2>3 DEF ImagesInv, RowHasItsFile
  <2> QED
    BY <1>0, <2>4, <2>5, <2>6, <2>7, <2>8, <2>9, MakeStep DEF Rest
<1>3. 0 \in Image /\ spent \in 0..Budget
  BY <1>0 DEF TypeOK, Image
<1>4. CASE /\ file' = [file EXCEPT ![k] = task[g].sent]
           /\ Goto(g, "ownAfter") /\ Calm /\ UNCHANGED lock
  <2>1. PICK f \in Image : f = task[g].sent
    BY <1>1
  <2>2. spent' \in 0..Budget
    BY <1>3, <1>4 DEF Calm
  <2>3. /\ Goto(g, "ownAfter") /\ UNCHANGED lock /\ file' = [file EXCEPT ![k] = f]
        /\ "ownAfter" \in {"ownAfter", "ask"} /\ "ownAfter" # "ask"
    BY <1>4, <2>1
  <2> HIDE DEF k
  <2> QED
    BY <1>2, <2>1, <2>2, <2>3
<1>5. CASE /\ Spend("disk") /\ file' = [file EXCEPT ![k] = 0]
           /\ Goto(g, "ask") /\ Leave(g)
  <2>1. spent' \in 0..Budget
    BY <1>0, <1>5, SpendTyped
  <2> HIDE DEF k
  <2> QED
    BY <1>2, <1>3, <1>5, <2>1
<1> QED
  BY <1>4, <1>5 DEF Write

LEMMA CreateStep ==
    ASSUME ImagesInv, Create(Generator)
    PROVE  ImagesInv'
<1> DEFINE g == Generator  k == K(g)
<1> USE ProcessIs
<1>0. /\ Pc(g) = "create" /\ TypeOK /\ k \in Index
      /\ UNCHANGED <<file, partial, lock, deleted, owner, call, left>> /\ spent' \in 0..Budget
  BY TaskParts, SpendTyped DEF ImagesInv, Create, At, Pc, Others, Calm, TypeOK
<1>1. /\ row[k] = 0 /\ k = task[g].made + 1 /\ task[g].sent # 0
      /\ lock[k] = g /\ task[g].sent \in Image /\ partial[k] = 0
      /\ file[k] = task[g].sent \/ deleted[k] # "no"
  BY <1>0, TaskParts DEF ImagesInv, InHand, LocksHeld, Roles, Making, Locked
<1>2. PICK pc \in {"again", "ownLast"} :
          /\ Goto(g, pc)
          /\ pc = "ownLast" => row' = [row EXCEPT ![k] = task[g].sent]
          /\ row' = row \/ row' = [row EXCEPT ![k] = task[g].sent]
  BY DEF Create
<1>3. /\ task' \in [Process -> TaskType] /\ Pc(g)' = pc /\ K(g)' = k /\ task'[g].k = k
      /\ task'[g].made = task[g].made /\ task'[g].sent = task[g].sent
      /\ task'[g].failure = task[g].failure
      /\ \A q \in Process : q # g => task'[q] = task[q]
  BY <1>0, <1>2, GotoTask DEF Pc, K, Making, Locked
<1>4. /\ row' \in [Index -> Image] /\ (pc = "ownLast" => row'[k] # 0)
      /\ row'[k] \in {0, task[g].sent}
      /\ \A z \in Index : z # k => row'[z] = row[z]
  BY <1>0, <1>1, <1>2 DEF TypeOK
<1> HIDE DEF k
<1>5. MakeFrame(g)
  BY <1>0, <1>1, <1>3, <1>4 DEF MakeFrame, Same, AtDisk, Making, Locked, k
<1>6. TypeOK'
  BY <1>0, <1>3, <1>4 DEF TypeOK
<1>7. Roles'
  BY <1>0, <1>3 DEF ImagesInv, Roles, Making, Locked, Pc
<1>8. InHand(g)'
  BY <1>0, <1>1, <1>3 DEF InHand
<1>9. Untouched(g)'
  <2>1. task[g].failure = "none" /\ \A z \in Index :
            /\ z > task[g].made + 1 => row[z] = 0 /\ file[z] = 0
            /\ z <= task[g].made => Accounted(z)
    BY <1>0 DEF ImagesInv, Untouched, Making, Locked
  <2>2. \A z \in Index : z <= task[g].made => Accounted(z)'
    BY <1>0, <1>1, <1>4, <2>1, TaskParts DEF Accounted, Index
  <2>3. \A z \in Index : z > task[g].made + 1 => row'[z] = 0 /\ file'[z] = 0
    BY <1>0, <1>1, <1>4, <2>1, TaskParts DEF Index
  <2>4. \A z \in Index : z = k /\ pc = "ownLast" => Accounted(z)'
    BY <1>4 DEF Accounted
  <2> QED
    BY <1>0, <1>1, <1>3, <2>1, <2>2, <2>3, <2>4 DEF Untouched
<1>10. RowHasItsFile'
  BY <1>0, <1>1, <1>4 DEF ImagesInv, RowHasItsFile
<1> QED
  BY <1>0, <1>5, <1>6, <1>7, <1>8, <1>9, <1>10, MakeStep DEF Rest

LEMMA AgainStep ==
    ASSUME ImagesInv, Again(Generator)
    PROVE  ImagesInv'
<1> DEFINE g == Generator  k == K(g)
<1> USE ProcessIs
<1>0. /\ Pc(g) = "again" /\ TypeOK /\ k \in Index /\ Pc(g) \in Locked /\ Pc(g) \in AtDisk
      /\ UNCHANGED <<row, partial, deleted, owner>> /\ spent' \in 0..Budget
      /\ left' \in SUBSET Index /\ left \subseteq left' /\ file \in [Index -> Image]
  BY TaskParts, SpendTyped DEF ImagesInv, Again, At, Pc, Calm, TypeOK, Locked, AtDisk
<1>1. /\ k = task[g].made + 1 /\ task[g].sent # 0 /\ lock[k] = g /\ Pc(g) \in Making
  BY <1>0, TaskParts DEF ImagesInv, InHand, LocksHeld, Making, Locked
<1>2. CASE row[k] # 0 /\ Goto(g, "ownLast") /\ UNCHANGED <<file, lock, call, left>> /\ Calm
  <2>1. "ownLast" \in Making /\ "ownLast" \notin AtDisk /\ UNCHANGED disk
    BY <1>0, <1>2 DEF Making, Locked, AtDisk, disk
  <2>2. InHand(g)'
    BY <1>0, <1>1, <1>2, <2>1, GoTask DEF InHand
  <2>3. Untouched(g)'
    BY <1>0, <1>1, <1>2, <2>1, GoTask
       DEF ImagesInv, Untouched, Accounted, disk, Making, Locked
  <2> QED
    BY <1>0, <1>1, <1>2, <2>1, <2>2, <2>3, GoStep
<1>3. CASE Error(g) /\ left' = left \cup {k} /\ UNCHANGED file
  BY <1>0, <1>3, ErrorStep
<1>4. CASE GoOn(g) /\ left' = left \cup {k} /\ UNCHANGED file
  BY <1>0, <1>4, ErrorStep DEF Error
<1>5. CASE row[k] = 0 /\ Error(g) /\ file' = [file EXCEPT ![k] = 0] /\ UNCHANGED left
  <2>1. /\ file' \in [Index -> Image] /\ file'[k] = 0
        /\ \A z \in Index : z # k => file'[z] = file[z]
    BY <1>0, <1>5 DEF Image
  <2>2. \A z \in Index : file'[z] = file[z]
                         \/ (z = k /\ Pc(g) \in AtDisk /\ file'[z] = 0 /\ row[z] = 0)
    BY <1>0, <1>5, <2>1
  <2> QED
    BY <1>0, <1>5, <2>1, <2>2, ErrorStep
<1> QED
  BY <1>2, <1>3, <1>4, <1>5 DEF Again

LEMMA MadeStep ==
    ASSUME ImagesInv, OwnLast(Generator)
    PROVE  ImagesInv'
<1> DEFINE g == Generator
<1>0. /\ UNCHANGED <<disk, deleted, owner>> /\ Pc(g) = "ownLast" /\ TypeOK /\ K(g) \in Index
      /\ Pc(g) \in Locked /\ Pc(g) \in Making /\ K(g) = task[g].made + 1
      /\ task[g].failure = "none"
  BY ProcessIs, TaskParts
     DEF OwnLast, Ensure, At, Pc, ImagesInv, InHand, Untouched, Making, Locked
<1>1. CASE Stop(g) /\ Leave(g) /\ UNCHANGED <<call, left>> /\ Calm
  BY <1>0, <1>1, StopStep DEF Calm, TypeOK
<1>2. CASE /\ task' = [task EXCEPT ![g].pc = "ask", ![g].made = @ + 1]
           /\ Leave(g) /\ UNCHANGED <<call, left>> /\ Calm
  <2>1. Accounted(K(g))
    BY <1>0 DEF ImagesInv, Untouched
  <2> QED
    BY <1>0, <1>2, <2>1, TakenStep DEF Calm, TypeOK
<1>3. CASE Spend("store") /\ Error(g) /\ left' = left \cup {K(g)}
  <2>1. /\ left' \in SUBSET Index /\ left \subseteq left' /\ K(g) \in left'
        /\ spent' \in 0..Budget
    BY <1>0, <1>3, SpendTyped DEF TypeOK
  <2> QED
    BY <1>0, <1>3, <2>1, ErrorStep DEF disk, TypeOK
<1> QED
  BY <1>1, <1>2, <1>3 DEF OwnLast, Ensure, At, Pc

\* The call ends with what the executor has made: nothing more is made, all is settled.
LEMMA FinishStep ==
    ASSUME ImagesInv, Finish(Generator)
    PROVE  ImagesInv'
<1> DEFINE g == Generator
<1> USE ProcessIs
<1>0. /\ Pc(g) = "finish" /\ Pc(g) \in Making /\ Stop(g) /\ TypeOK
      /\ UNCHANGED <<disk, deleted, owner, left>> /\ spent' \in 0..Budget
  BY SpendTyped DEF Finish, Record, Abandon, At, Pc, Calm, ImagesInv, TypeOK, Making
<1>3. CASE Spend("store") /\ Abandon(g)
  BY <1>0, <1>3, AbandonStep DEF disk, TypeOK
<1>1. CASE ~ (Spend("store") /\ Abandon(g)) /\ call' = call
  BY <1>0, <1>1, StopStep DEF Finish, Record
<1>2. CASE ~ (Spend("store") /\ Abandon(g)) /\ call' # call
  <2>1. PICK status \in {"timeout", "overrun", "succeeded", "failed"}, n \in 0..Count :
            /\ owner = g /\ call' = [status |-> status, images |-> 1..n] /\ UNCHANGED lock
            /\ status \in {"succeeded", "failed"} =>
                   task[g].failure = "none" /\ n = task[g].made
    <3>1. CASE task[g].failure # "none"
      <4>1. /\ Record(g, task[g].failure, {}) /\ {} = 1..0 /\ 0 \in 0..Count
            /\ task[g].failure \in {"timeout", "overrun"}
        BY <1>0, <1>2, <3>1, TaskParts DEF Finish
      <4> QED
        BY <1>2, <4>1 DEF Record
    <3>2. CASE task[g].failure = "none"
      <4>1. task[g].made \in 0..Count
        BY <1>0, TaskParts
      <4>2. \/ Record(g, "succeeded", 1..task[g].made)
            \/ Record(g, "failed", 1..task[g].made)
        BY <1>2, <3>2 DEF Finish
      <4> QED
        BY <1>2, <3>2, <4>1, <4>2 DEF Record
    <3> QED
      BY <3>1, <3>2
  <2>2. Pc(g)' = "none" /\ task' \in [Process -> TaskType]
        /\ \A q \in Process : q # g => task'[q] = task[q]
    BY <1>0, StopTask DEF NoTask, Pc
  <2>3. MakeFrame(g)
    BY <1>0, <2>1, <2>2 DEF MakeFrame, Same, disk, Making, AtDisk, Locked
  <2>4. 1..n \subseteq Index
    BY <2>1 DEF Index
  <2>5. TypeOK' /\ InHand(g)' /\ Untouched(g)'
    BY <1>0, <2>1, <2>2, <2>4 DEF TypeOK, InHand, Untouched, disk, Making, Locked
  <2>6. Over'
    <3>1. CASE status \in {"timeout", "overrun"}
      BY <2>1, <3>1 DEF Over
    <3>2. CASE status \in {"succeeded", "failed"}
      <4>1. ASSUME NEW k \in Index, k \notin left
            PROVE  Accounted(k) /\ (row[k] # 0 => k \in 1..n)
        <5>1. /\ k > n + 1 => row[k] = 0 /\ file[k] = 0
              /\ k <= n => Accounted(k)
              /\ k = n + 1 => row[k] = 0 /\ file[k] = 0
          BY <1>0, <2>1, <3>2, <4>1 DEF ImagesInv, Untouched, Unmade
        <5>2. k \in Nat /\ k >= 1 /\ n \in Nat
          BY <2>1 DEF Index
        <5> QED
          BY <5>1, <5>2 DEF Accounted
      <4>2. \A k \in Index : partial[k] = 0
        BY <1>0 DEF ImagesInv, Roles, Making, Locked
      <4>3. \A k \in Index : /\ row'[k] = row[k] /\ partial'[k] = 0 /\ ~ InMaking(k)'
                             /\ Accounted(k)' = Accounted(k)
        BY <1>0, <2>2, <4>2 DEF Accounted, InMaking, AtDisk, disk
      <4> QED
        BY <1>0, <2>1, <2>2, <4>1, <4>3 DEF Over
    <3> QED
      BY <3>1, <3>2
  <2> QED
    BY <1>0, <2>3, <2>5, <2>6, DiskStays, MakeLocks, MakePassed DEF ImagesInv
<1> QED
  BY <1>1, <1>2, <1>3

\* An image registered at the very moment of a cancellation has its file.
LEMMA CutStep ==
    ASSUME ImagesInv, NEW next \in TaskType, Cut(Generator, next), Leave(Generator),
           spent' \in 0..Budget,
           \/ next = NoTask
           \/ next.pc = "finish" /\ next.failure # "none"
           \/ next.pc = "clean" /\ next.k = 1
    PROVE  ImagesInv'
<1> DEFINE g == Generator  k == K(g)
<1> USE ProcessIs
<1>0. /\ TypeOK /\ k \in Index /\ Pc(g) \in Making
      /\ UNCHANGED <<file, partial, deleted, owner, call, left>>
      /\ task' = [task EXCEPT ![g] = next]
  BY TaskParts DEF ImagesInv, Cut, Others, Pc
<1>1. /\ task' \in [Process -> TaskType] /\ task'[g] = next
      /\ \A q \in Process : q # g => task'[q] = task[q]
  BY <1>0, TaskTyped
<1>2. Pc(g)' = next.pc /\ K(g)' = next.k /\ next.pc \in {"none", "finish", "clean"}
      /\ (next.pc # "clean" \/ next.k = 1) /\ (next.pc = "finish" => next.failure # "none")
  BY <1>1 DEF Pc, K, NoTask
<1>3. /\ lock' \in [Index -> Process \cup {Nobody}]
      /\ \A z \in Index : lock[z] \in {g, Nobody} \/ lock'[z] = lock[z]
  BY <1>0, LeaveTyped
<1>4. /\ row' \in [Index -> Image]
      /\ \A z \in Index : row'[z] = row[z]
             \/ (z = k /\ Pc(g) = "create" /\ row'[z] = task[g].sent /\ row[z] = 0
                 /\ (file[z] = row'[z] \/ deleted[z] # "no"))
  <2>1. CASE row' = row
    BY <1>0, <2>1 DEF TypeOK
  <2>2. CASE Pc(g) = "create" /\ row' = [row EXCEPT ![k] = task[g].sent]
    <3>1. row[k] = 0 /\ (file[k] = task[g].sent \/ deleted[k] # "no") /\ task[g].sent \in Image
      BY <1>0, <2>2, TaskParts DEF ImagesInv, InHand, Making, Locked
    <3> HIDE DEF k
    <3> QED
      BY <1>0, <2>2, <3>1 DEF TypeOK
  <2> QED
    BY <2>1, <2>2 DEF Cut, At, Pc
<1> HIDE DEF k
<1>5. MakeFrame(g)
  BY <1>0, <1>1, <1>2, <1>3, <1>4 DEF MakeFrame, Same, AtDisk, Making, Locked, k
<1>6. TypeOK'
  BY <1>0, <1>1, <1>3, <1>4 DEF TypeOK
<1>7. Roles'
  BY <1>0, <1>1 DEF ImagesInv, Roles, Making, Locked, Pc
<1>8. InHand(g)'
  BY <1>2 DEF InHand, Making, Locked
<1>9. Untouched(g)'
  BY <1>1, <1>2 DEF Untouched, Making, Locked
<1>10. RowHasItsFile'
  BY <1>0, <1>4 DEF ImagesInv, RowHasItsFile
<1> QED
  BY <1>0, <1>5, <1>6, <1>7, <1>8, <1>9, <1>10, MakeStep DEF Rest

LEMMA CancelStep ==
    ASSUME ImagesInv, Timeout(Generator) \/ LeaseLost(Generator) \/ Interrupt(Generator)
    PROVE  ImagesInv'
<1> DEFINE g == Generator
           late == [NoTask EXCEPT !.pc = "finish", !.failure = "timeout"]
           close == [NoTask EXCEPT !.pc = "clean"]
<1>1. late \in TaskType /\ late.pc = "finish" /\ late.failure # "none"
  BY NoTaskTyped DEF TaskType, Making
<1>2. close \in TaskType /\ close.pc = "clean" /\ close.k = 1
  BY NoTaskTyped DEF TaskType, Closing, NoTask
<1>3. spent' \in 0..Budget
  BY SpendTyped DEF Timeout, LeaseLost, Interrupt, Calm, ImagesInv, TypeOK
<1> HIDE DEF late, close
<1>4. CASE Timeout(g)
  BY <1>1, <1>3, <1>4, CutStep DEF Timeout, CancelAt, late
<1>5. CASE LeaseLost(g)
  BY <1>3, <1>5, NoTaskTyped, CutStep DEF LeaseLost, CancelAt
<1>6. CASE Interrupt(g)
  BY <1>2, <1>3, <1>6, CutStep DEF Interrupt, CancelAt, close
<1> QED
  BY <1>4, <1>5, <1>6

-----------------------------------------------------------------------------
(***************************************************************************)
(* A step of a process that closes the call.                               *)
(***************************************************************************)
CloseFrame(p) ==
    /\ Pc(p) \in Closing /\ UNCHANGED <<row, deleted, owner>> /\ left' \subseteq left
    /\ \A q \in Process : q # p => task'[q] = task[q]
    /\ \A k \in Index :
           \/ file'[k] = file[k] /\ partial'[k] = partial[k]
           \/ k = K(p) /\ Pc(p) = "unlink" /\ file'[k] = 0 /\ partial'[k] = 0
    /\ Pc(p)' \in Closing \cup {"none"}
    /\ \A k \in Index : Passed(p, k)' =>
           \/ Passed(p, k)
           \/ k = K(p) /\ Pc(p) = "unlink" /\ file'[k] = 0 /\ partial'[k] = 0
           \/ k = K(p) /\ Pc(p) = "registered" /\ row[k] # 0
    /\ \A k \in Index : lock[k] \in {p, Nobody} \/ lock'[k] = lock[k]
    /\ Pc(p)' \in {"registered", "unlink"} => lock'[task'[p].k] = p
    /\ Pc(p)' = "unlink" => row[task'[p].k] = 0

LEMMA ClosingNotMaking == (Closing \cup {"none"}) \cap Making = {} /\ AtDisk \subseteq Making
                          /\ Locked \subseteq Making /\ AtDisk \subseteq Locked
BY DEF Closing, Making, Locked, AtDisk

LEMMA CloseLocks ==
    ASSUME ImagesInv, NEW p \in Process, CloseFrame(p)
    PROVE  LocksHeld'
<1> USE ClosingNotMaking
<1>1. TypeOK /\ LocksHeld /\ row' = row /\ Pc(p)' \notin Locked
  BY DEF ImagesInv, CloseFrame
<1>2. ASSUME NEW q \in Process, q # p
      PROVE  /\ Pc(q)' \in Locked \cup {"registered", "unlink"} => lock'[task'[q].k] = q
             /\ Pc(q)' = "unlink" => row'[task'[q].k] = 0
  <2>1. task'[q] = task[q] /\ K(q) \in Index /\ q # Nobody
    BY <1>1, <1>2, TaskParts, ProcessIs DEF CloseFrame
  <2>2. lock[K(q)] = q => lock'[K(q)] = q
    BY <1>2, <2>1 DEF CloseFrame
  <2> QED
    BY <1>1, <2>1, <2>2 DEF LocksHeld, Pc, K
<1>3. /\ Pc(p)' \in Locked \cup {"registered", "unlink"} => lock'[task'[p].k] = p
      /\ Pc(p)' = "unlink" => row'[task'[p].k] = 0
  BY <1>1 DEF CloseFrame
<1> QED
  BY <1>2, <1>3 DEF LocksHeld, K, Pc

\* An image whose files are removed is not in the hands of the executor, and has no row.
LEMMA CloseImage ==
    ASSUME ImagesInv, NEW p \in Process, CloseFrame(p), NEW k \in Index
    PROVE  /\ \/ file'[k] = file[k] /\ partial'[k] = partial[k]
              \/ /\ file'[k] = 0 /\ partial'[k] = 0 /\ row[k] = 0
                 /\ Pc(Generator) \in Locked => K(Generator) # k
           /\ Pc(p) \in {"registered", "unlink"} /\ k = K(p) => ~ InMaking(k)
           /\ Pc(Generator)' \in Making => task'[Generator] = task[Generator]
<1> USE ProcessIs, ClosingNotMaking
<1>1. Pc(p) \in {"registered", "unlink"} => (Pc(Generator) \in Locked => K(Generator) # K(p))
  <2>1. Pc(p) \in Closing
    BY DEF CloseFrame
  <2> QED
    BY <2>1 DEF ImagesInv, LocksHeld
<1>2. Pc(Generator)' \in Making => task'[Generator] = task[Generator]
  BY DEF CloseFrame
<1> QED
  BY <1>1, <1>2 DEF CloseFrame, ImagesInv, LocksHeld, InMaking

LEMMA CloseRest ==
    ASSUME ImagesInv, NEW p \in Process, CloseFrame(p)
    PROVE  Roles' /\ InHand(Generator)' /\ Untouched(Generator)' /\ RowHasItsFile'
<1> DEFINE g == Generator
<1> USE ProcessIs, ClosingNotMaking
<1>0. /\ TypeOK /\ row' = row /\ deleted' = deleted /\ owner' = owner
      /\ Pc(Recoverer)' = Pc(Recoverer) \/ Pc(Recoverer)' \in Closing \cup {"none"}
      /\ Pc(g) = "none" => Pc(g)' = "none"
      /\ Pc(Recoverer) = "none" => Pc(Recoverer)' = "none"
  BY DEF ImagesInv, CloseFrame, Pc, Closing
<1>1. \A k \in Index : \/ file'[k] = file[k] /\ partial'[k] = partial[k]
                       \/ file'[k] = 0 /\ partial'[k] = 0 /\ row[k] = 0
                          /\ (Pc(g) \in Locked => K(g) # k)
  BY CloseImage
<1>2. Pc(g)' \in Making => task'[g] = task[g] /\ Pc(g)' = Pc(g) /\ K(g)' = K(g)
  BY DEF CloseFrame, Pc, K
<1>3. Roles'
  BY <1>0, <1>1 DEF ImagesInv, Roles
<1>4. RowHasItsFile'
  BY <1>0, <1>1 DEF ImagesInv, RowHasItsFile
<1>5. Pc(g)' \in Making => owner' # g
  BY <1>0, <1>2 DEF ImagesInv, Roles, CloseFrame, Closing
<1>6. ASSUME Pc(g)' \in Making \ {"ask", "finish"} PROVE InHand(g)'
  <2>1. Pc(g) = Pc(g)' /\ task'[g] = task[g] /\ K(g)' = K(g) /\ K(g) \in Index /\ InHand(g)
    BY <1>0, <1>2, <1>6, TaskParts DEF ImagesInv
  <2>2. Pc(g) \in Locked => file'[K(g)] = file[K(g)]
    BY <1>1, <2>1
  <2>3. Unmade(K(g))'
    BY <1>5, <1>6 DEF Unmade
  <2> QED
    BY <1>0, <1>6, <2>1, <2>2, <2>3 DEF InHand, Locked
<1>7. ASSUME Pc(g)' \in Making PROVE Untouched(g)'
  <2>1. Pc(g) = Pc(g)' /\ task'[g] = task[g] /\ Untouched(g)
    BY <1>2, <1>7 DEF ImagesInv
  <2>2. \A k \in Index : /\ (Accounted(k) => Accounted(k)') /\ (file[k] = 0 => file'[k] = 0)
                         /\ Unmade(k)'
    BY <1>0, <1>1, <1>5, <1>7 DEF Accounted, Unmade
  <2> QED
    BY <1>0, <1>7, <2>1, <2>2 DEF Untouched, Pc
<1> QED
  BY <1>3, <1>4, <1>6, <1>7 DEF InHand, Untouched

LEMMA ClosePassed ==
    ASSUME ImagesInv, NEW p \in Process, CloseFrame(p)
    PROVE  /\ \A q \in Process, k \in Index : Passed(q, k)' => Settled(k)'
           /\ \A q \in Process : q # p /\ Pc(q)' = "close" =>
                  \A k \in Index : row'[k] # 0 => k \in task'[q].images
           /\ call' = call => Over'
<1> USE ProcessIs, ClosingNotMaking
<1>0. row' = row /\ deleted' = deleted /\ owner' = owner
      /\ \A q \in Process : q # p => task'[q] = task[q] /\ Pc(q)' = Pc(q) /\ K(q)' = K(q)
  BY DEF CloseFrame, Pc, K
<1>1. \A k \in Index : InMaking(k)' => InMaking(k)
  BY <1>0 DEF InMaking, CloseFrame
<1>2. \A k \in Index : Settled(k) => Settled(k)'
  BY <1>0, <1>1, CloseImage DEF Settled, Accounted
<1>3. ASSUME NEW q \in Process, NEW k \in Index, Passed(q, k)' PROVE Settled(k)'
  <2>1. CASE Passed(q, k)
    BY <1>2, <2>1 DEF ImagesInv, PassedAreSettled
  <2>2. CASE ~ Passed(q, k)
    <3>1. q = p
      BY <1>0, <1>3, <2>2 DEF Passed
    <3>2. /\ k = K(p)
          /\ \/ Pc(p) = "unlink" /\ file'[k] = 0 /\ partial'[k] = 0
             \/ Pc(p) = "registered" /\ row[k] # 0
      BY <1>3, <2>2, <3>1 DEF CloseFrame
    <3>3. ~ InMaking(k)
      BY <3>2, CloseImage
    <3>4. CASE Pc(p) = "registered" /\ row[k] # 0
      <4>1. partial[k] = 0
        BY <3>4 DEF ImagesInv, Roles
      <4> QED
        BY <1>2, <3>3, <3>4, <4>1 DEF Settled, Accounted
    <3>5. CASE file'[k] = 0 /\ partial'[k] = 0
      BY <1>1, <3>3, <3>5 DEF Settled, Accounted
    <3> QED
      BY <3>2, <3>4, <3>5
  <2> QED
    BY <2>1, <2>2
<1>4. ASSUME NEW q \in Process, q # p, Pc(q)' = "close", NEW k \in Index, row'[k] # 0
      PROVE  k \in task'[q].images
  BY <1>0, <1>4 DEF ImagesInv, PassedAreSettled
<1>5. ASSUME call' = call PROVE Over'
  <2> SUFFICES ASSUME call.status \in {"succeeded", "failed"}
               PROVE  /\ owner # Generator
                      /\ \A k \in Index : Settled(k)' /\ (row'[k] # 0 => k \in call.images)
    BY <1>0, <1>5 DEF Over, Settled
  <2>1. owner # Generator
    BY DEF ImagesInv, Over, Roles, CloseFrame, Closing
  <2>2. \A k \in Index : Settled(k) /\ (row[k] # 0 => k \in call.images)
    BY <2>1 DEF ImagesInv, Over, Settled
  <2> QED
    BY <1>0, <1>2, <2>1, <2>2
<1> QED
  BY <1>3, <1>4, <1>5

LEMMA CloseStep ==
    ASSUME ImagesInv, NEW p \in Process, CloseFrame(p), TypeOK', call' = call,
           Pc(p)' = "close" => \A k \in Index : row[k] # 0 => k \in task'[p].images
    PROVE  ImagesInv'
<1>1. row' = row
  BY DEF CloseFrame
<1>2. PassedAreSettled'
  BY <1>1, ClosePassed DEF PassedAreSettled
<1> QED
  BY <1>2, CloseLocks, CloseRest, ClosePassed DEF ImagesInv

LEMMA CleanStep ==
    ASSUME ImagesInv, NEW p \in Process, Clean(p)
    PROVE  ImagesInv'
<1>0. /\ TypeOK /\ Pc(p) = "clean" /\ Take(p) /\ Goto(p, "registered")
      /\ UNCHANGED <<disk, deleted, owner, call, left, spent>>
  BY DEF ImagesInv, Clean, At, Pc, Others, Calm
<1>1. /\ task' \in [Process -> TaskType] /\ Pc(p)' = "registered" /\ K(p)' = K(p)
      /\ task'[p].k = K(p)
      /\ \A q \in Process : q # p => task'[q] = task[q]
  BY <1>0, GotoTask DEF Pc, K, Closing
<1>2. /\ lock' \in [Index -> Process \cup {Nobody}] /\ lock'[K(p)] = p /\ K(p) \in Index
      /\ \A k \in Index : lock[k] \in {p, Nobody} \/ lock'[k] = lock[k]
  BY <1>0, TakeTyped, TaskParts
<1>3. CloseFrame(p)
  BY <1>0, <1>1, <1>2 DEF CloseFrame, Passed, Closing, disk
<1>4. TypeOK'
  BY <1>0, <1>1, <1>2 DEF TypeOK, disk
<1> QED
  BY <1>0, <1>1, <1>3, <1>4, CloseStep

\* The next image, or the list.
LEMMA NextTask ==
    ASSUME TypeOK, NEW p \in Process, NextIndex(p)
    PROVE  /\ left' \subseteq left /\ task' \in [Process -> TaskType] /\ Pc(p)' \in {"clean", "list"}
           /\ Pc(p)' = "clean" => K(p)' = K(p) + 1
           /\ Pc(p)' = "list" => K(p) = Count
           /\ \A q \in Process : q # p => task'[q] = task[q]
           /\ lock' \in [Index -> Process \cup {Nobody}]
           /\ \A k \in Index : lock[k] \in {p, Nobody} \/ lock'[k] = lock[k]
<1> DEFINE pc == IF K(p) < Count THEN "clean" ELSE "list"
           n == IF K(p) < Count THEN K(p) + 1 ELSE K(p)
           x == [task[p] EXCEPT !.pc = pc, !.k = n]
<1>1. K(p) \in Index /\ n \in Index /\ pc \in {"clean", "list"}
      /\ (pc = "clean" => n = K(p) + 1) /\ (pc = "list" => K(p) = Count)
  BY TaskParts DEF Index
<1>2. x \in TaskType /\ x.pc = pc /\ x.k = n
  <2>1. task[p] \in TaskType
    BY TaskParts
  <2> HIDE DEF pc, n
  <2>2. x.pc = pc /\ x.k = n
    BY <2>1 DEF TaskType
  <2>3. x \in TaskType
    BY <1>1, <2>1 DEF TaskType, Closing
  <2> QED
    BY <2>2, <2>3
<1>3. task' = [task EXCEPT ![p] = x]
  BY TaskParts DEF NextIndex, K, TaskType
<1> HIDE DEF x, pc, n
<1>4. Pc(p)' = pc /\ K(p)' = n
  BY <1>2, <1>3, TaskTyped DEF Pc, K
<1>5. /\ lock' \in [Index -> Process \cup {Nobody}]
      /\ \A k \in Index : lock[k] \in {p, Nobody} \/ lock'[k] = lock[k]
  BY LeaveTyped DEF NextIndex
<1>6. task' \in [Process -> TaskType] /\ \A q \in Process : q # p => task'[q] = task[q]
  BY <1>2, <1>3, TaskTyped
<1>7. /\ Pc(p)' \in {"clean", "list"}
      /\ Pc(p)' = "clean" => K(p)' = K(p) + 1
      /\ Pc(p)' = "list" => K(p) = Count
  BY <1>1, <1>4
<1>8. left' \subseteq left
  BY DEF NextIndex
<1> QED
  BY <1>5, <1>6, <1>7, <1>8

LEMMA NextPassed ==
    ASSUME TypeOK, NEW p \in Process, NextIndex(p), Pc(p) \in Closing, NEW k \in Index,
           Passed(p, k)'
    PROVE  Passed(p, k) \/ k = K(p)
<1>1. k \in Nat /\ k <= Count /\ K(p) \in Nat
  BY TaskParts DEF Index
<1>2. CASE Pc(p)' = "list"
  <2>1. K(p) = Count
    BY <1>2, NextTask
  <2> QED
    BY <1>1, <2>1 DEF Passed
<1>3. CASE Pc(p)' = "clean"
  <2>1. K(p)' = K(p) + 1
    BY <1>3, NextTask
  <2>2. k < K(p)'
    BY <1>3 DEF Passed
  <2> QED
    BY <1>1, <2>1, <2>2 DEF Passed
<1> QED
  BY <1>2, <1>3, NextTask

LEMMA RegisteredStep ==
    ASSUME ImagesInv, NEW p \in Process, Registered(p)
    PROVE  ImagesInv'
<1>0. /\ TypeOK /\ Pc(p) = "registered" /\ lock[K(p)] = p /\ K(p) \in Index
      /\ UNCHANGED <<disk, deleted, owner, call, spent>>
  BY TaskParts DEF ImagesInv, Registered, At, Pc, Others, Calm, LocksHeld
<1>1. CASE row[K(p)] = 0
  <2>1. Goto(p, "unlink") /\ UNCHANGED <<lock, left>>
    BY <1>1 DEF Registered
  <2>2. /\ task' \in [Process -> TaskType] /\ Pc(p)' = "unlink" /\ K(p)' = K(p)
        /\ task'[p].k = K(p)
        /\ \A q \in Process : q # p => task'[q] = task[q]
    BY <1>0, <2>1, GotoTask DEF Pc, K, Closing
  <2>3. CloseFrame(p)
    BY <1>0, <1>1, <2>1, <2>2 DEF CloseFrame, Passed, Closing, disk
  <2>4. TypeOK'
    BY <1>0, <2>1, <2>2 DEF TypeOK, disk
  <2> QED
    BY <1>0, <2>2, <2>3, <2>4, CloseStep
<1>2. CASE row[K(p)] # 0
  <2>1. NextIndex(p)
    BY <1>2 DEF Registered
  <2>2. CloseFrame(p)
    BY <1>0, <1>2, <2>1, NextTask, NextPassed DEF CloseFrame, Closing, disk
  <2>3. TypeOK'
    BY <1>0, <2>1, NextTask DEF TypeOK, disk
  <2> QED
    BY <1>0, <2>1, <2>2, <2>3, NextTask, CloseStep
<1> QED
  BY <1>1, <1>2

LEMMA UnlinkStep ==
    ASSUME ImagesInv, NEW p \in Process, Unlink(p)
    PROVE  ImagesInv'
<1>0. /\ TypeOK /\ Pc(p) = "unlink" /\ K(p) \in Index /\ NextIndex(p)
      /\ UNCHANGED <<row, deleted, owner, call, spent>>
  BY TaskParts DEF ImagesInv, Unlink, At, Pc, Others, Calm
<1>1. /\ file' \in [Index -> Image] /\ partial' \in [Index -> Image]
      /\ file'[K(p)] = 0 /\ partial'[K(p)] = 0
      /\ \A k \in Index : k # K(p) => file'[k] = file[k] /\ partial'[k] = partial[k]
  BY <1>0 DEF Unlink, TypeOK, Image
<1>2. CloseFrame(p)
  BY <1>0, <1>1, NextTask, NextPassed DEF CloseFrame, Closing
<1>3. TypeOK'
  BY <1>0, <1>1, NextTask DEF TypeOK
<1>4. Pc(p)' # "close"
  BY <1>0, NextTask
<1> QED
  BY <1>0, <1>2, <1>3, <1>4, CloseStep

LEMMA ListStep ==
    ASSUME ImagesInv, NEW p \in Process, List(p)
    PROVE  ImagesInv'
<1> DEFINE found == {k \in Index : row[k] # 0}
           x == [task[p] EXCEPT !.pc = "close", !.images = found]
<1>0. /\ TypeOK /\ Pc(p) = "list" /\ UNCHANGED <<disk, lock, deleted, owner, call, left, spent>>
  BY DEF ImagesInv, List, At, Pc, Others, Calm
<1>1. x \in TaskType /\ x.pc = "close" /\ x.images = found
  <2>1. found \in SUBSET Index
    OBVIOUS
  <2>2. task[p] \in TaskType
    BY <1>0, TaskParts
  <2> HIDE DEF found
  <2>3. x.pc = "close" /\ x.images = found
    BY <2>2 DEF TaskType
  <2>4. x \in TaskType
    BY <2>1, <2>2 DEF TaskType, Closing
  <2> QED
    BY <2>3, <2>4
<1>2. task' = [task EXCEPT ![p] = x]
  BY DEF List
<1> HIDE DEF x
<1>3. /\ task' \in [Process -> TaskType] /\ Pc(p)' = "close" /\ task'[p].images = found
      /\ \A q \in Process : q # p => task'[q] = task[q]
  BY <1>0, <1>1, <1>2, TaskTyped DEF Pc
<1>4. CloseFrame(p)
  BY <1>0, <1>3 DEF CloseFrame, Passed, Closing, disk
<1>5. TypeOK'
  BY <1>0, <1>3 DEF TypeOK, disk
<1> QED
  BY <1>0, <1>3, <1>4, <1>5, CloseStep

\* The call is closed with the list of what is registered.
LEMMA CloseUpStep ==
    ASSUME ImagesInv, NEW p \in Process, Close(p)
    PROVE  ImagesInv'
<1> USE ProcessIs, ClosingNotMaking
<1>0. /\ TypeOK /\ Pc(p) = "close" /\ Stop(p) /\ UNCHANGED <<disk, lock, deleted, owner, left, spent>>
      /\ call' = IF owner = p THEN [status |-> "failed", images |-> task[p].images] ELSE call
  BY DEF ImagesInv, Close, Record, At, Pc, Calm
<1>1. /\ task' \in [Process -> TaskType] /\ Pc(p)' = "none"
      /\ \A q \in Process : q # p => task'[q] = task[q]
  BY <1>0, StopTask DEF NoTask, Pc
<1>2. CloseFrame(p)
  BY <1>0, <1>1 DEF CloseFrame, Passed, Closing, disk
<1>3. TypeOK'
  BY <1>0, <1>1, TaskParts DEF TypeOK, disk
<1>4. CASE owner # p
  BY <1>0, <1>1, <1>2, <1>3, <1>4, CloseStep
<1>5. CASE owner = p
  <2>1. \A k \in Index : Settled(k) /\ (row[k] # 0 => k \in task[p].images)
    BY <1>0 DEF ImagesInv, PassedAreSettled, Passed
  <2>2. \A k \in Index : InMaking(k)' => InMaking(k)
    BY <1>1 DEF InMaking, AtDisk, Pc, K
  <2>3. \A k \in Index : Settled(k)' /\ (row'[k] # 0 => k \in task[p].images)
    BY <1>0, <2>1, <2>2 DEF Settled, Accounted, disk
  <2>4. Over'
    <3>1. owner' = Generator => Pc(Generator)' = "none"
      BY <1>0, <1>1, <1>5
    <3> QED
      BY <1>0, <1>5, <2>3, <3>1 DEF Over, Settled
  <2>5. PassedAreSettled'
    BY <1>1, <1>2, ClosePassed DEF PassedAreSettled
  <2> QED
    BY <1>2, <1>3, <2>4, <2>5, CloseLocks, CloseRest DEF ImagesInv
<1> QED
  BY <1>4, <1>5

\* A process that dies in the write leaves the bytes in one of the two files.
LEMMA CrashStep ==
    ASSUME ImagesInv, NEW p \in Process, Crash(p)
    PROVE  ImagesInv'
<1> DEFINE k == K(p)
<1> USE ProcessIs, ClosingNotMaking
<1>0. /\ TypeOK /\ k \in Index /\ Pc(p) # "none" /\ Leave(p) /\ Stop(p) /\ spent' \in 0..Budget
      /\ UNCHANGED <<row, deleted, owner, call, left>> /\ task[p].sent \in Image
  BY TaskParts, SpendTyped DEF ImagesInv, Crash, At, Pc
<1>1. /\ task' \in [Process -> TaskType] /\ Pc(p)' = "none"
      /\ \A q \in Process : q # p => task'[q] = task[q]
  BY <1>0, StopTask DEF NoTask, Pc
<1>2. /\ lock' \in [Index -> Process \cup {Nobody}]
      /\ \A z \in Index : lock[z] \in {p, Nobody} \/ lock'[z] = lock[z]
  BY <1>0, LeaveTyped
<1>3. /\ file' \in [Index -> Image] /\ partial' \in [Index -> Image]
      /\ \A z \in Index : \/ file'[z] = file[z] /\ partial'[z] = partial[z]
                          \/ z = k /\ Pc(p) = "write"
  BY <1>0 DEF Crash, At, Pc, TypeOK, Image
<1> HIDE DEF k
<1>4. TypeOK'
  BY <1>0, <1>1, <1>2, <1>3 DEF TypeOK
<1>5. CASE Pc(p) \in Closing
  <2>1. CloseFrame(p)
    BY <1>0, <1>1, <1>2, <1>3, <1>5 DEF CloseFrame, Passed, Closing
  <2> QED
    BY <1>0, <1>1, <1>4, <2>1, CloseStep
<1>6. CASE Pc(p) \in Making
  <2>1. p = Generator
    BY <1>6, MakerIsGenerator
  <2>2. Pc(p) = "write" => row[k] = 0
    BY <1>6, <2>1 DEF ImagesInv, InHand, Locked, Making, k
  <2>3. MakeFrame(p)
    BY <1>0, <1>1, <1>2, <1>3, <1>6 DEF MakeFrame, Same, AtDisk, k
  <2>4. Roles'
    BY <1>0, <1>1, <1>3, <1>6, <2>1, <2>2 DEF ImagesInv, Roles, Pc
  <2>5. InHand(Generator)' /\ Untouched(Generator)'
    BY <1>1, <2>1 DEF InHand, Untouched
  <2>6. RowHasItsFile'
    BY <1>0, <1>3, <2>2 DEF ImagesInv, RowHasItsFile
  <2> QED
    BY <1>0, <1>4, <2>1, <2>3, <2>4, <2>5, <2>6, MakeStep DEF Rest
<1> QED
  BY <1>0, <1>5, <1>6, TaskParts

LEMMA ClaimStep ==
    ASSUME ImagesInv, Claim
    PROVE  ImagesInv'
<1> DEFINE g == Generator  r == Recoverer  x == [NoTask EXCEPT !.pc = "clean"]
<1> USE ProcessIs, ClosingNotMaking
<1>0. /\ TypeOK /\ call.status = "running" /\ UNCHANGED <<disk, lock, deleted, call, left>>
      /\ owner' = r /\ task' = [task EXCEPT ![r] = x] /\ spent' \in 0..Budget
  BY SpendTyped DEF ImagesInv, Claim, Calm, TypeOK
<1>1. x \in TaskType /\ x.pc = "clean" /\ x.k = 1
  BY NoTaskTyped DEF TaskType, Closing, NoTask
<1> HIDE DEF x
<1>2. /\ task' \in [Process -> TaskType] /\ Pc(r)' = "clean" /\ K(r)' = 1
      /\ task'[g] = task[g] /\ Pc(g)' = Pc(g) /\ K(g)' = K(g)
  BY <1>0, <1>1, TaskTyped DEF Pc, K
<1>3. TypeOK'
  BY <1>0, <1>2 DEF TypeOK, disk
<1>4. LocksHeld'
  <2>1. Pc(r)' \notin Locked \cup {"registered", "unlink"}
    BY <1>2 DEF Locked
  <2> QED
    BY <1>0, <1>2, <2>1 DEF ImagesInv, LocksHeld, disk, Pc, K
<1>5. Roles' /\ RowHasItsFile'
  BY <1>0, <1>2 DEF ImagesInv, Roles, RowHasItsFile, disk, Closing
<1>6. InHand(g)' /\ Untouched(g)'
  BY <1>0, <1>2 DEF ImagesInv, InHand, Untouched, Accounted, Unmade, disk
<1>7. \A k \in Index : /\ Settled(k) => Settled(k)'
                       /\ ~ Passed(r, k)'
                       /\ Passed(g, k)' => Passed(g, k)
  BY <1>0, <1>2 DEF Settled, Accounted, InMaking, Passed, disk, Index
<1>8. PassedAreSettled'
  BY <1>0, <1>2, <1>7 DEF ImagesInv, PassedAreSettled, disk
<1> QED
  BY <1>0, <1>3, <1>4, <1>5, <1>6, <1>8 DEF ImagesInv, Over

\* The user takes a row away, and then its file.
LEMMA DeleteStep ==
    ASSUME ImagesInv, NEW d \in Index, DeleteRow(d) \/ DeleteFile(d)
    PROVE  ImagesInv'
<1> DEFINE g == Generator
<1> USE ProcessIs, ClosingNotMaking
<1>0. /\ TypeOK /\ UNCHANGED <<partial, lock, owner, call, left, task>> /\ spent' \in 0..Budget
      /\ \A p \in Process : Pc(p)' = Pc(p) /\ K(p)' = K(p)
  BY SpendTyped DEF ImagesInv, DeleteRow, DeleteFile, TypeOK, Pc, K
<1>1. /\ row' \in [Index -> Image] /\ file' \in [Index -> Image]
      /\ deleted' \in [Index -> {"no", "row", "file"}]
      /\ deleted'[d] # "no"
      /\ \/ row'[d] = 0 /\ file'[d] = file[d] /\ deleted'[d] = "row"
         \/ row'[d] = row[d] /\ file'[d] = 0
      /\ \A k \in Index : k # d => row'[k] = row[k] /\ file'[k] = file[k]
                                   /\ deleted'[k] = deleted[k]
  BY <1>0 DEF DeleteRow, DeleteFile, TypeOK, Image
<1>2. TypeOK'
  BY <1>0, <1>1 DEF TypeOK
<1>3. \A k \in Index : /\ row[k] = 0 => row'[k] = 0
                       /\ file[k] = 0 => file'[k] = 0
                       /\ Accounted(k) => Accounted(k)'
                       /\ Unmade(k) => Unmade(k)'
                       /\ file'[k] # file[k] => deleted'[k] # "no"
                       /\ deleted[k] # "no" => deleted'[k] # "no"
  BY <1>0, <1>1 DEF Accounted, Unmade
<1>4. LocksHeld'
  BY <1>0, <1>3, TaskParts DEF ImagesInv, LocksHeld
<1>5. Roles' /\ RowHasItsFile'
  BY <1>0, <1>1, <1>3 DEF ImagesInv, Roles, RowHasItsFile
<1>6. InHand(g)'
  <2>1. K(g) \in Index /\ K(g)' = K(g) /\ task'[g] = task[g] /\ Pc(g)' = Pc(g)
    BY <1>0, TaskParts
  <2>2. ASSUME Unmade(K(g)) PROVE Unmade(K(g))'
    BY <1>0, <1>3, <2>1, <2>2 DEF Unmade
  <2>3. /\ row[K(g)] = 0 => row'[K(g)] = 0
        /\ file[K(g)] = task[g].sent \/ deleted[K(g)] # "no" =>
               file'[K(g)] = task[g].sent \/ deleted'[K(g)] # "no"
    BY <1>3, <2>1
  <2> QED
    BY <2>1, <2>2, <2>3 DEF ImagesInv, InHand
<1>7. Untouched(g)'
  BY <1>0, <1>3 DEF ImagesInv, Untouched
<1>8. \A k \in Index : Settled(k) => Settled(k)'
  BY <1>0, <1>3 DEF Settled, InMaking
<1>9. PassedAreSettled'
  BY <1>0, <1>3, <1>8 DEF ImagesInv, PassedAreSettled, Passed
<1>10. Over'
  <2>1. \A k \in Index : InMaking(k)' = InMaking(k)
    BY <1>0 DEF InMaking
  <2> QED
    BY <1>0, <1>3, <2>1 DEF ImagesInv, Over
<1> QED
  BY <1>2, <1>4, <1>5, <1>6, <1>7, <1>9, <1>10 DEF ImagesInv

-----------------------------------------------------------------------------
(***************************************************************************)
(* What follows.                                                           *)
(***************************************************************************)
LEMMA ImagesInvInit == Init => ImagesInv
<1> SUFFICES ASSUME Init PROVE ImagesInv
  OBVIOUS
<1> DEFINE first == [NoTask EXCEPT !.pc = "ask"]
<1> USE ProcessIs
<1>1. first \in TaskType /\ first.pc = "ask" /\ first.made = 0 /\ first.failure = "none"
  BY NoTaskTyped DEF TaskType, Making, NoTask
<1> HIDE DEF first
<1>2. task[Generator] = first /\ task[Recoverer] = NoTask /\ task \in [Process -> TaskType]
  BY <1>1, NoTaskTyped DEF Init, first
<1>3. Pc(Generator) = "ask" /\ Pc(Recoverer) = "none"
  BY <1>1, <1>2 DEF Pc, NoTask
<1>4. /\ \A k \in Index : row[k] = 0 /\ file[k] = 0 /\ partial[k] = 0
      /\ call.status = "running"
  BY DEF Init
<1>5. TypeOK
  BY <1>2 DEF Init, TypeOK, Image
<1>6. LocksHeld /\ Roles /\ PassedAreSettled
  BY <1>3, <1>4 DEF LocksHeld, Roles, PassedAreSettled, Passed, Locked, Closing
<1>7. InHand(Generator) /\ Untouched(Generator)
  BY <1>1, <1>2, <1>3, <1>4 DEF InHand, Untouched, Accounted, Unmade
<1> QED
  BY <1>4, <1>5, <1>6, <1>7 DEF ImagesInv, RowHasItsFile, Over

LEMMA ImagesInvStep == ImagesInv /\ [Next]_vars => ImagesInv'
<1> SUFFICES ASSUME ImagesInv, [Next]_vars PROVE ImagesInv'
  OBVIOUS
<1>1. ASSUME NEW p \in Process, Make(p) \/ Timeout(p) \/ LeaseLost(p) \/ Interrupt(p)
      PROVE  ImagesInv'
  <2>1. Pc(p) \in Making
    BY <1>1 DEF Make, Ask, Lock, Look, Own, OwnAfter, OwnLast, Ensure, Write, Create, Again, Finish,
                Timeout, LeaseLost, Interrupt, CancelAt, Cut, At, Pc, Making, Locked
  <2>2. p = Generator
    BY <2>1, MakerIsGenerator
  <2> QED
    BY <1>1, <2>2, AskStep, LockStep, LookStep, EnsureStep, WriteStep, CreateStep, AgainStep,
       MadeStep, FinishStep, CancelStep DEF Make
<1>2. ASSUME NEW p \in Process, CloseUp(p) \/ Crash(p)
      PROVE  ImagesInv'
  BY <1>2, CleanStep, RegisteredStep, UnlinkStep, ListStep, CloseUpStep, CrashStep DEF CloseUp
<1>3. ASSUME NEW k \in Index, DeleteRow(k) \/ DeleteFile(k)
      PROVE  ImagesInv'
  BY <1>3, DeleteStep
<1>4. CASE UNCHANGED vars
  BY <1>4 DEF vars, disk, ImagesInv, TypeOK, LocksHeld, Roles, InHand, Untouched, Accounted, Unmade,
              RowHasItsFile, PassedAreSettled, Passed, Settled, InMaking, Over, Pc, K
<1> QED
  BY <1>1, <1>2, <1>3, <1>4, ClaimStep DEF Next

\* The invariant the other results rest on: the file locks of ArtifactService, the image
\* in hand and the images a closing task has been through agree with rows and files.
THEOREM ImagesInvariant == Spec => []ImagesInv
BY ImagesInvInit, ImagesInvStep, PTL DEF Spec

\* Whatever is interrupted, lost, recovered or deleted, rows, files, locks and the state of
\* the tool call keep their types; no image beyond the count asked for is made.
THEOREM ImagesTypeCorrect == Spec => []TypeOK
<1>1. ImagesInv => TypeOK
  BY DEF ImagesInv
<1> QED
  BY <1>1, ImagesInvariant, PTL

\* create_generated_image never leaves a row without its file or with another image's bytes,
\* through crashes, cancellations, failures of disk and database, and a late executor; only
\* the user's delete_asset takes a file away.
THEOREM ImagesRowHasItsFile == Spec => []RowHasItsFile
<1>1. ImagesInv => RowHasItsFile
  BY DEF ImagesInv
<1> QED
  BY <1>1, ImagesInvariant, PTL

\* The result that finish_tool records lists every image that is registered, and once it is
\* recorded no file of the call is left without a row, whoever recorded it: but for a tool
\* that timed out or exceeded its run's events, a call abandoned with an error, and an image
\* that the executor itself went on without after an error of the database.
THEOREM ImagesResultIsComplete == Spec => []ResultIsComplete
<1>1. ImagesInv => ResultIsComplete
  BY DEF ImagesInv, Over, Settled, Accounted, ResultIsComplete
<1> QED
  BY <1>1, ImagesInvariant, PTL
=============================================================================
