------------------------------ MODULE JobProofs ------------------------------
(***************************************************************************)
(* Theorems about BackupJobs and RestoreJobs.                              *)
(***************************************************************************)
EXTENDS RestoreJobs, TLAPS

-----------------------------------------------------------------------------
(* The inductive invariant.                                                *)

Task == [pc : BackupPlace \cup RestorePlace, job : Jobs \cup {None},
         sub : Backups \cup {None}, tries : Nat, stored : BOOLEAN, kept : BOOLEAN,
         err : {"none", "lock", "other"}]

JobTypeOK ==
    /\ backup \in [Backups -> Backup] /\ object \in [Backups -> Nat]
    /\ work \in [Workers -> Task] /\ data \in Nat
    /\ restore \in [Restores -> Restore] /\ media \in [Restores -> BOOLEAN]
    /\ replaced \in [Restores -> Seq(Nat)]

\* The task of a worker: a backup that was sent, a safety backup inside of a
\* restore, or a restore.
OfBackup == {"block", "lock", "refused"}
OfEither == Running \cup {"fail", "mark", "sink", "drop", "done"}
OfBoth == {"inherit", "link"}
OfRestore == RestorePlace \ {"link"}
Fresh == OfBackup \cup OfRestore \cup {"inherit", "claim", "idle"}
Placed(t) ==
    /\ t.pc \in OfBackup => t.job \in Backups /\ t.sub = None
    /\ t.pc \in OfEither => \/ t.job \in Backups /\ t.sub = None
                            \/ t.job \in Restores /\ t.sub \in Backups
    /\ t.pc \in OfBoth => t.job \in Restores /\ t.sub \in Backups
    /\ t.pc \in OfRestore => t.job \in Restores /\ t.sub = None
    /\ t.pc \in Fresh => ~ t.stored /\ ~ t.kept

\* A worker that has claimed a backup: where it is tells the status, unless
\* somebody has failed the backup, and it alone stores the object.
Claimed == Running \ {"claim"}
Of(t) == IF t.sub = None THEN t.job ELSE t.sub
StatusesAt(place) ==
    IF place = "after" THEN {"SUCCEEDED"}
    ELSE IF place \in {"checking", "verified"} THEN {"VERIFYING", "FAILED"}
    ELSE {place, "FAILED"}
RunsSoundly(t) ==
    /\ t.sub # None => backup[t.sub].parent = t.job /\ backup[t.sub].status # "none"
    /\ t.pc \in Claimed =>
         /\ backup[Of(t)].status \in StatusesAt(t.pc)
         /\ t.pc # "after" => object[Of(t)] = IF t.stored THEN 1 ELSE 0
         /\ t.kept => t.stored /\ backup[Of(t)].meta
         /\ t.pc \in {"VERIFYING", "checking", "verified"} => t.kept

\* A worker that has begun a mutation.
Mutates == {"import", "committed", "undo", "rolling", "rolled", "doubt"}
MutatesSoundly(t) ==
    LET r == t.job IN
    /\ t.pc \in {"import", "undo", "rolling"} => restore[r].status = "RESTORING"
    /\ t.pc = "committed" => restore[r].status = "VERIFYING"
    /\ t.pc = "rolling" => ~ media[r]
    /\ t.pc = "rolled" => restore[r].status = "ROLLING_BACK"
    /\ t.pc = "doubt" => restore[r].status \in {"RESTORING", "VERIFYING"}

OneEach == \A v, w \in Workers : v # w =>
    /\ work[v].pc \in Claimed /\ work[w].pc \in Claimed => Of(work[v]) # Of(work[w])
    /\ work[v].pc \in Mutates /\ work[w].pc \in Mutates => work[v].job # work[w].job

BackupIsSound(b) ==
    /\ backup[b].status \in {"none", "QUEUED"} => object[b] = 0
    /\ backup[b].status = "SUCCEEDED" =>
         backup[b].integrity = "VERIFIED" /\ backup[b].meta /\ object[b] = 1

RestoreIsSound(r) ==
    /\ Len(replaced[r]) \in {0, 1}
    /\ restore[r].status \in {"VERIFYING", "SUCCEEDED"} => Committed(r) /\ media[r]
    /\ restore[r].status \in {"none", "QUEUED", "FAILED", "RESTORING", "ROLLING_BACK", "ROLLED_BACK"}
                             \cup PreMutation => ~ Committed(r)
    /\ restore[r].status \in {"none", "QUEUED", "FAILED", "ROLLING_BACK", "ROLLED_BACK"}
                             \cup PreMutation => ~ media[r]
    /\ restore[r].safety # None => HasSafety(r)
    /\ Committed(r) \/ restore[r].status \in {"VALIDATING", "RESTORING"} =>
         restore[r].safety # None

JobInv ==
    /\ JobTypeOK /\ OneEach
    /\ \A w \in Workers : Placed(work[w]) /\ RunsSoundly(work[w]) /\ MutatesSoundly(work[w])
    /\ \A b \in Backups : BackupIsSound(b)
    /\ \A r \in Restores : RestoreIsSound(r)

-----------------------------------------------------------------------------
(* What the definitions of the model give.                                 *)

LEMMA StatusNames ==
    /\ Transitional = {"QUEUED", "PREPARING", "SNAPSHOTTING", "PACKAGING", "UPLOADING", "VERIFYING"}
    /\ BackupStatus = Transitional \cup {"SUCCEEDED", "FAILED"}
<1>1. 1 .. 6 = {1, 2, 3, 4, 5, 6} /\ 1 .. 7 = {1, 2, 3, 4, 5, 6, 7}
  OBVIOUS
<1>2. /\ Stages[1] = "QUEUED" /\ Stages[2] = "PREPARING" /\ Stages[3] = "SNAPSHOTTING"
      /\ Stages[4] = "PACKAGING" /\ Stages[5] = "UPLOADING" /\ Stages[6] = "VERIFYING"
      /\ Stages[7] = "SUCCEEDED"
  BY DEF Stages
<1>3. Transitional = {"QUEUED", "PREPARING", "SNAPSHOTTING", "PACKAGING", "UPLOADING", "VERIFYING"}
  BY <1>1, <1>2 DEF Transitional
<1>4. BackupStatus = {"QUEUED", "PREPARING", "SNAPSHOTTING", "PACKAGING", "UPLOADING", "VERIFYING",
                      "SUCCEEDED", "FAILED"}
  BY <1>1, <1>2 DEF BackupStatus
<1> QED BY <1>3, <1>4

LEMMA Moves ==
    ASSUME NEW from, NEW to, CanMove(from, to)
    PROVE  \/ to = "FAILED" /\ from \in Transitional
           \/ from = "QUEUED" /\ to = "PREPARING"
           \/ from = "PREPARING" /\ to = "SNAPSHOTTING"
           \/ from = "SNAPSHOTTING" /\ to = "PACKAGING"
           \/ from = "PACKAGING" /\ to = "UPLOADING"
           \/ from = "UPLOADING" /\ to = "VERIFYING"
           \/ from = "VERIFYING" /\ to = "SUCCEEDED"
<1>1. /\ Stages[1] = "QUEUED" /\ Stages[2] = "PREPARING" /\ Stages[3] = "SNAPSHOTTING"
      /\ Stages[4] = "PACKAGING" /\ Stages[5] = "UPLOADING" /\ Stages[6] = "VERIFYING"
      /\ Stages[7] = "SUCCEEDED"
  BY DEF Stages
<1>2. CASE to = "FAILED" /\ from \in Transitional
  BY <1>2
<1>3. CASE \E i \in 1 .. 6 : from = Stages[i] /\ to = Stages[i + 1]
  <2>1. PICK i \in 1 .. 6 : from = Stages[i] /\ to = Stages[i + 1]
    BY <1>3
  <2>2. i \in {1, 2, 3, 4, 5, 6}
    BY <2>1
  <2> HIDE <1>3
  <2> QED BY <2>1, <2>2, <1>1
<1> QED BY <1>2, <1>3 DEF CanMove

\* The tasks that a worker may go on with.
Same(t, u) == t.job = u.job /\ t.sub = u.sub /\ t.stored = u.stored /\ t.kept = u.kept

LEMMA GoesOn ==
    ASSUME JobTypeOK, NEW w \in Workers, NEW place \in BackupPlace \cup RestorePlace,
           Go(w, place) \/ (\E e \in {"none", "lock", "other"} : Err(w, place, e))
    PROVE  \E t \in Task : work' = [work EXCEPT ![w] = t] /\ t.pc = place /\ Same(t, work[w])
<1>0. work[w] \in Task
  BY DEF JobTypeOK
<1>1. CASE Go(w, place)
  <2>1. PICK t : t = [work[w] EXCEPT !.pc = place]
    OBVIOUS
  <2>2. t \in Task /\ t.pc = place /\ Same(t, work[w])
    BY <2>1, <1>0 DEF Task, Same
  <2>3. work' = [work EXCEPT ![w] = t]
    BY <2>1, <1>1 DEF Go
  <2> QED BY <2>2, <2>3
<1>2. CASE \E e \in {"none", "lock", "other"} : Err(w, place, e)
  <2>0. PICK e \in {"none", "lock", "other"} : Err(w, place, e)
    BY <1>2
  <2>1. PICK t : t = [work[w] EXCEPT !.pc = place, !.err = e]
    OBVIOUS
  <2>2. t \in Task /\ t.pc = place /\ Same(t, work[w])
    BY <2>1, <1>0 DEF Task, Same
  <2>3. work' = [work EXCEPT ![w] = t]
    BY <2>0, <2>1 DEF Err, JobTypeOK, Task
  <2> QED BY <2>2, <2>3
<1> QED BY <1>1, <1>2

\* A worker that has nothing to do, or receives a message.
LEMMA Rests ==
    ASSUME JobTypeOK, NEW w \in Workers, Rest(w)
    PROVE  \E t \in Task : /\ work' = [work EXCEPT ![w] = t] /\ t.pc = "idle"
                           /\ Placed(t) /\ RunsSoundly(t) /\ MutatesSoundly(t)
                           /\ RunsSoundly(t)' /\ MutatesSoundly(t)'
<1>1. Idle \in Task /\ Idle.pc = "idle" /\ Idle.sub = None /\ ~ Idle.stored /\ ~ Idle.kept
  BY DEF Idle, Task, BackupPlace
<1>2. Placed(Idle)
  BY <1>1 DEF Placed, OfBackup, OfEither, OfBoth, OfRestore, Fresh, Running, RestorePlace
<1>3. RunsSoundly(Idle) /\ MutatesSoundly(Idle) /\ RunsSoundly(Idle)' /\ MutatesSoundly(Idle)'
  BY <1>1 DEF RunsSoundly, MutatesSoundly, Claimed, Running, Idle
<1> QED BY <1>1, <1>2, <1>3 DEF Rest

LEMMA Receives ==
    ASSUME NEW w \in Workers, NEW place, NEW j \in Jobs, NEW n \in Nat, Working(w, place, j, n),
           \/ place \in {"lock", "block"} /\ j \in Backups
           \/ place \in {"take", "misfit"} /\ j \in Restores
    PROVE  \E t \in Task : /\ work' = [work EXCEPT ![w] = t] /\ t.pc = place
                           /\ Placed(t) /\ RunsSoundly(t) /\ MutatesSoundly(t)
<1>1. PICK t : t = [Idle EXCEPT !.pc = place, !.job = j, !.tries = n]
  OBVIOUS
<1>2. /\ t \in Task /\ t.pc = place /\ t.job = j /\ t.sub = None
      /\ ~ t.stored /\ ~ t.kept
  BY <1>1 DEF Idle, Task, BackupPlace, RestorePlace
<1>3. Placed(t)
  BY <1>2 DEF Placed, OfBackup, OfEither, OfBoth, OfRestore, Fresh, Running, RestorePlace
<1>4. RunsSoundly(t) /\ MutatesSoundly(t)
  BY <1>2 DEF RunsSoundly, MutatesSoundly, Claimed, Running
<1> QED BY <1>1, <1>2, <1>3, <1>4 DEF Working

LEMMA GivesUp ==
    ASSUME JobTypeOK, NEW w \in Workers, GiveUp(w), work[w].job \in Restores
    PROVE  \E t \in Task : /\ work' = [work EXCEPT ![w] = t] /\ t.pc = "rfail"
                           /\ Placed(t) /\ RunsSoundly(t) /\ MutatesSoundly(t)
                           /\ RunsSoundly(t)' /\ MutatesSoundly(t)'
<1>0. work[w] \in Task
  BY DEF JobTypeOK
<1>1. PICK t : t = [work[w] EXCEPT !.pc = "rfail", !.sub = None, !.stored = FALSE, !.kept = FALSE]
  OBVIOUS
<1>2. /\ t \in Task /\ t.pc = "rfail" /\ t.job = work[w].job /\ t.sub = None
      /\ ~ t.stored /\ ~ t.kept
  BY <1>0, <1>1 DEF Task, RestorePlace
<1>3. Placed(t)
  BY <1>2 DEF Placed, OfBackup, OfEither, OfBoth, OfRestore, Fresh, Running, RestorePlace
<1>4. RunsSoundly(t) /\ MutatesSoundly(t) /\ RunsSoundly(t)' /\ MutatesSoundly(t)'
  BY <1>2 DEF RunsSoundly, MutatesSoundly, Claimed, Running
<1>5. work' = [work EXCEPT ![w] = t]
  BY <1>1 DEF GiveUp
<1> QED BY <1>2, <1>3, <1>4, <1>5

-----------------------------------------------------------------------------
(* What a step of one worker must leave to the others.                     *)

Spare(w, b) == \A v \in Workers \ {w} : work[v].pc \in Claimed => Of(work[v]) # b
Alone(w, r) == \A v \in Workers \ {w} : work[v].pc \in Mutates => work[v].job # r

BackupStep(w, b) ==
    /\ backup[b].status # "none" =>
         backup'[b].parent = backup[b].parent /\ backup'[b].status # "none"
    /\ backup[b].meta => backup'[b].meta
    /\ Sound(b) => Sound(b)'
    /\ \/ /\ object'[b] = object[b]
          /\ \/ backup'[b].status = backup[b].status
             \/ backup'[b].status = "FAILED" /\ backup[b].status # "SUCCEEDED"
       \/ Spare(w, b)
RestoreStep(w, r) ==
    \/ restore'[r].status = restore[r].status /\ media'[r] = media[r]
    \/ Alone(w, r)

LEMMA OthersKept ==
    ASSUME JobInv, NEW w \in Workers, NEW v \in Workers \ {w},
           \A b \in Backups : BackupStep(w, b), \A r \in Restores : RestoreStep(w, r)
    PROVE  work'[v] = work[v] => RunsSoundly(work[v])' /\ MutatesSoundly(work[v])'
<1>1. PICK t \in Task : t = work[v]
  BY DEF JobInv, JobTypeOK
<1>2. Placed(t) /\ RunsSoundly(t) /\ MutatesSoundly(t)
  BY <1>1 DEF JobInv
<1>3. RunsSoundly(t)'
  <2>1. t.sub # None => /\ t.sub \in Backups
                        /\ backup'[t.sub].parent = t.job /\ backup'[t.sub].status # "none"
    BY <1>2 DEF Task, RunsSoundly, BackupStep
  <2>2. CASE t.pc \notin Claimed
    BY <2>1, <2>2 DEF RunsSoundly
  <2>3. CASE t.pc \in Claimed
    <3>1. PICK b \in Backups : b = Of(t)
      BY <2>3, <1>2, JobConstants DEF Placed, Of, OfEither, Claimed, Task
    <3>2. ~ Spare(w, b)
      BY <3>1, <2>3, <1>1 DEF Spare
    <3>3. /\ object'[b] = object[b]
          /\ backup[b].meta => backup'[b].meta
          /\ \/ backup'[b].status = backup[b].status
             \/ backup'[b].status = "FAILED" /\ backup[b].status # "SUCCEEDED"
      BY <3>2 DEF BackupStep
    <3>4. backup'[b].status \in StatusesAt(t.pc)
      BY <3>1, <3>3, <2>3, <1>2 DEF RunsSoundly, StatusesAt
    <3>5. /\ t.pc # "after" => object[b] = IF t.stored THEN 1 ELSE 0
          /\ t.kept => t.stored /\ backup[b].meta
          /\ t.pc \in {"VERIFYING", "checking", "verified"} => t.kept
      BY <3>1, <2>3, <1>2 DEF RunsSoundly
    <3> QED BY <3>1, <3>3, <3>4, <3>5, <2>1 DEF RunsSoundly
  <2> QED BY <2>2, <2>3
<1>4. MutatesSoundly(t)'
  <2>1. CASE t.pc \notin Mutates
    BY <2>1 DEF Mutates, MutatesSoundly
  <2>2. CASE t.pc \in Mutates
    <3>1. t.job \in Restores
      BY <2>2, <1>2 DEF Placed, OfRestore, RestorePlace, Mutates
    <3>2. restore'[t.job].status = restore[t.job].status /\ media'[t.job] = media[t.job]
      BY <3>1, <2>2, <1>1 DEF RestoreStep, Alone
    <3> QED BY <3>2, <1>2 DEF MutatesSoundly
  <2> QED BY <2>1, <2>2
<1> QED BY <1>1, <1>3, <1>4

\* A step of one worker, whose task becomes t.
LEMMA Frame ==
    ASSUME JobInv, JobTypeOK', NEW w \in Workers, NEW t, work' = [work EXCEPT ![w] = t],
           Placed(t), RunsSoundly(t)', MutatesSoundly(t)',
           t.pc \in Claimed => \/ work[w].pc \in Claimed /\ Of(work[w]) = Of(t)
                               \/ Spare(w, Of(t)),
           t.pc \in Mutates => \/ work[w].pc \in Mutates /\ work[w].job = t.job
                               \/ Alone(w, t.job),
           \A b \in Backups : BackupStep(w, b) /\ BackupIsSound(b)',
           \A r \in Restores : RestoreStep(w, r) /\ RestoreIsSound(r)'
    PROVE  JobInv'
<1>1. work'[w] = t /\ \A v \in Workers \ {w} : work'[v] = work[v]
  BY DEF JobInv, JobTypeOK
<1>2. OneEach'
  BY <1>1 DEF JobInv, OneEach, Spare, Alone
<1>3. ASSUME NEW v \in Workers
      PROVE  (Placed(work[v]) /\ RunsSoundly(work[v]) /\ MutatesSoundly(work[v]))'
  <2>1. CASE v = w
    BY <2>1, <1>1 DEF RunsSoundly, MutatesSoundly
  <2>2. CASE v # w
    BY <2>2, <1>1, OthersKept DEF JobInv
  <2> QED BY <2>1, <2>2
<1> QED BY <1>2, <1>3 DEF JobInv

\* Restores that stay as they are, while their safety backups stay sound.
LEMMA RestoresKept ==
    ASSUME JobInv, UNCHANGED <<restore, media, replaced>>, NEW r \in Restores,
           \A b \in Backups : /\ backup[b].status # "none" => backup'[b].parent = backup[b].parent
                              /\ Sound(b) => Sound(b)'
    PROVE  RestoreIsSound(r)'
<1>1. RestoreIsSound(r)
  BY DEF JobInv
<1>2. restore[r].safety # None /\ HasSafety(r) => HasSafety(r)'
  <2>1. restore[r].safety \in Backups \cup {None}
    BY DEF JobInv, JobTypeOK, Restore
  <2> QED BY <2>1 DEF HasSafety, Sound
<1> QED BY <1>1, <1>2 DEF RestoreIsSound, Committed

\* Only the task of a worker changes.
LEMMA TaskMoves ==
    ASSUME JobInv, NEW w \in Workers, NEW t \in Task, work' = [work EXCEPT ![w] = t],
           UNCHANGED <<backup, object, data, restore, media, replaced>>,
           Placed(t), RunsSoundly(t), MutatesSoundly(t),
           t.pc \in Claimed => work[w].pc \in Claimed /\ Of(work[w]) = Of(t),
           t.pc \in Mutates => work[w].pc \in Mutates /\ work[w].job = t.job
    PROVE  JobInv'
<1>1. JobTypeOK'
  BY DEF JobInv, JobTypeOK
<1>2. RunsSoundly(t)' /\ MutatesSoundly(t)'
  BY DEF RunsSoundly, MutatesSoundly
<1>3. \A b \in Backups : BackupStep(w, b) /\ BackupIsSound(b)'
  BY DEF JobInv, BackupStep, Sound, BackupIsSound
<1>4. \A r \in Restores : RestoreStep(w, r) /\ RestoreIsSound(r)'
  BY RestoresKept DEF JobInv, RestoreStep, Sound
<1> QED BY <1>1, <1>2, <1>3, <1>4, Frame

LEMMA TaskRests ==
    ASSUME JobInv, NEW w \in Workers, Rest(w),
           UNCHANGED <<backup, object, data, restore, media, replaced>>
    PROVE  JobInv'
<1>1. PICK t \in Task : /\ work' = [work EXCEPT ![w] = t] /\ t.pc = "idle"
                        /\ Placed(t) /\ RunsSoundly(t) /\ MutatesSoundly(t)
  BY Rests DEF JobInv
<1> QED BY <1>1, TaskMoves DEF Claimed, Running, Mutates

LEMMA TaskGivesUp ==
    ASSUME JobInv, NEW w \in Workers, GiveUp(w), work[w].job \in Restores,
           UNCHANGED <<backup, object, data, restore, media, replaced>>
    PROVE  JobInv'
<1>1. PICK t \in Task : /\ work' = [work EXCEPT ![w] = t] /\ t.pc = "rfail"
                        /\ Placed(t) /\ RunsSoundly(t) /\ MutatesSoundly(t)
  BY GivesUp DEF JobInv
<1> QED BY <1>1, TaskMoves DEF Claimed, Running, Mutates

\* It goes on to a place of the same kind, where nothing new is claimed.
LEMMA TaskGoesOn ==
    ASSUME JobInv, NEW w \in Workers, NEW place \in BackupPlace \cup RestorePlace,
           Go(w, place) \/ (\E e \in {"none", "lock", "other"} : Err(w, place, e)),
           UNCHANGED <<backup, object, data, restore, media, replaced>>,
           \A t \in Task : Same(t, work[w]) /\ t.pc = place =>
              /\ Placed(t) /\ RunsSoundly(t) /\ MutatesSoundly(t)
              /\ place \in Claimed => work[w].pc \in Claimed
              /\ place \in Mutates => work[w].pc \in Mutates
    PROVE  JobInv'
<1>1. PICK t \in Task : work' = [work EXCEPT ![w] = t] /\ t.pc = place /\ Same(t, work[w])
  BY GoesOn DEF JobInv
<1> QED BY <1>1, TaskMoves DEF Same, Of

\* The backup of a worker changes and with it perhaps the task.
LEMMA BackupMoves ==
    ASSUME JobInv, JobTypeOK', NEW w \in Workers, NEW t, work' = [work EXCEPT ![w] = t],
           UNCHANGED <<restore, media, replaced>>,
           Placed(t), RunsSoundly(t)', MutatesSoundly(t),
           t.pc \in Claimed => \/ work[w].pc \in Claimed /\ Of(work[w]) = Of(t)
                               \/ Spare(w, Of(t)),
           t.pc \notin Mutates,
           NEW b \in Backups, BackupStep(w, b), BackupIsSound(b)',
           \A c \in Backups \ {b} : backup'[c] = backup[c] /\ object'[c] = object[c]
    PROVE  JobInv'
<1>1. MutatesSoundly(t)'
  BY DEF MutatesSoundly
<1>2. \A c \in Backups : BackupStep(w, c) /\ BackupIsSound(c)'
  BY DEF JobInv, BackupStep, Sound, BackupIsSound
<1>3. \A r \in Restores : RestoreStep(w, r) /\ RestoreIsSound(r)'
  BY <1>2, RestoresKept DEF RestoreStep, BackupStep
<1> QED BY <1>1, <1>2, <1>3, Frame

\* A backup that one worker has claimed is spared by the others; one that is
\* queued, by all.
LEMMA ClaimsDiffer ==
    ASSUME JobInv, NEW w \in Workers, NEW b \in Backups,
           \/ work[w].pc \in Claimed /\ b = Of(work[w])
           \/ backup[b].status \in {"none", "QUEUED"}
    PROVE  Spare(w, b)
<1>1. CASE work[w].pc \in Claimed /\ b = Of(work[w])
  BY <1>1 DEF JobInv, OneEach, Spare
<1>2. CASE backup[b].status \in {"none", "QUEUED"}
  BY <1>2 DEF JobInv, Spare, RunsSoundly, StatusesAt, Claimed, Running
<1> QED BY <1>1, <1>2

LEMMA MutatorsDiffer ==
    ASSUME JobInv, NEW w \in Workers, NEW r \in Restores,
           \/ work[w].pc \in Mutates /\ r = work[w].job
           \/ restore[r].status \notin {"RESTORING", "VERIFYING", "ROLLING_BACK"}
    PROVE  Alone(w, r)
<1>1. CASE work[w].pc \in Mutates /\ r = work[w].job
  BY <1>1 DEF JobInv, OneEach, Alone
<1>2. CASE restore[r].status \notin {"RESTORING", "VERIFYING", "ROLLING_BACK"}
  BY <1>2 DEF JobInv, Alone, MutatesSoundly, Mutates
<1> QED BY <1>1, <1>2

-----------------------------------------------------------------------------
(* The steps of a backup.                                                  *)

LEMMA Onward ==
    ASSUME JobInv, NEW w \in Workers, NEW place \in BackupPlace \cup RestorePlace,
           Go(w, place) \/ (\E e \in {"none", "lock", "other"} : Err(w, place, e)),
           UNCHANGED <<backup, object, data, restore, media, replaced>>,
           \/ work[w].pc \in OfBackup /\ place \in OfBackup \cup {"claim"}
           \/ work[w].pc = "inherit" /\ place = "claim"
           \/ work[w].pc \in OfEither /\ place \in OfEither \ Running
           \/ work[w].pc = "done" /\ work[w].sub # None /\ place = "link"
           \/ work[w].pc \in OfRestore /\ place \in OfRestore \ Mutates
    PROVE  JobInv'
<1>1. PICK u \in Task : u = work[w] /\ Placed(u) /\ RunsSoundly(u) /\ MutatesSoundly(u)
  BY DEF JobInv, JobTypeOK
<1>2. ASSUME NEW t \in Task, Same(t, work[w]), t.pc = place
      PROVE  /\ Placed(t) /\ RunsSoundly(t) /\ MutatesSoundly(t)
             /\ place \notin Claimed \cup Mutates
  <2>1. place \notin Claimed \cup Mutates
    BY <1>1 DEF Claimed, Running, Mutates, OfBackup, OfEither, OfRestore, RestorePlace
  <2>2. RunsSoundly(t) /\ MutatesSoundly(t)
    BY <1>1, <1>2, <2>1 DEF RunsSoundly, MutatesSoundly, Same, Mutates
  <2>3. Placed(t)
    BY <1>1, <1>2, JobConstants DEF Placed, OfBackup, OfEither, OfBoth, OfRestore, Fresh, Running,
                                    RestorePlace, Same, Task
  <2> QED BY <2>1, <2>2, <2>3
<1> QED BY <1>2, TaskGoesOn

LEMMA StatusIsSet ==
    ASSUME JobTypeOK, NEW b \in Backups, NEW s \in BackupStatus, SetStatus(b, s)
    PROVE  /\ backup' \in [Backups -> Backup]
           /\ backup'[b].status = s /\ backup'[b].integrity = backup[b].integrity
           /\ backup'[b].meta = backup[b].meta /\ backup'[b].parent = backup[b].parent
           /\ \A c \in Backups \ {b} : backup'[c] = backup[c]
<1>1. PICK x : x = [backup[b] EXCEPT !.status = s]
  OBVIOUS
<1>2. backup[b] \in Backup
  BY DEF JobTypeOK
<1>3. /\ x \in Backup /\ x.status = s /\ x.integrity = backup[b].integrity
      /\ x.meta = backup[b].meta /\ x.parent = backup[b].parent
  BY <1>1, <1>2 DEF Backup
<1>4. backup' = [backup EXCEPT ![b] = x]
  BY <1>1 DEF SetStatus
<1> QED BY <1>3, <1>4 DEF JobTypeOK

LEMMA IntegrityIsSet ==
    ASSUME JobTypeOK, NEW b \in Backups, NEW i \in Integrity, SetIntegrity(b, i)
    PROVE  /\ backup' \in [Backups -> Backup]
           /\ backup'[b].status = backup[b].status /\ backup'[b].integrity = i
           /\ backup'[b].meta = backup[b].meta /\ backup'[b].parent = backup[b].parent
           /\ \A c \in Backups \ {b} : backup'[c] = backup[c]
<1>1. PICK x : x = [backup[b] EXCEPT !.integrity = i]
  OBVIOUS
<1>2. backup[b] \in Backup
  BY DEF JobTypeOK
<1>3. /\ x \in Backup /\ x.status = backup[b].status /\ x.integrity = i
      /\ x.meta = backup[b].meta /\ x.parent = backup[b].parent
  BY <1>1, <1>2 DEF Backup
<1>4. backup' = [backup EXCEPT ![b] = x]
  BY <1>1 DEF SetIntegrity
<1> QED BY <1>3, <1>4 DEF JobTypeOK

LEMMA KeyIsKept ==
    ASSUME JobTypeOK, NEW b \in Backups, backup' = [backup EXCEPT ![b].meta = TRUE]
    PROVE  /\ backup' \in [Backups -> Backup]
           /\ backup'[b].status = backup[b].status /\ backup'[b].integrity = backup[b].integrity
           /\ backup'[b].meta /\ backup'[b].parent = backup[b].parent
           /\ \A c \in Backups \ {b} : backup'[c] = backup[c]
<1>1. PICK x : x = [backup[b] EXCEPT !.meta = TRUE]
  OBVIOUS
<1>2. backup[b] \in Backup
  BY DEF JobTypeOK
<1>3. /\ x \in Backup /\ x.status = backup[b].status /\ x.integrity = backup[b].integrity
      /\ x.meta /\ x.parent = backup[b].parent
  BY <1>1, <1>2 DEF Backup
<1>4. backup' = [backup EXCEPT ![b] = x]
  BY <1>1
<1> QED BY <1>3, <1>4 DEF JobTypeOK

\* The backup that a worker is at.
LEMMA MineIs ==
    ASSUME JobInv, NEW w \in Workers, work[w].pc \in OfBackup \cup OfEither \cup OfBoth
    PROVE  Mine(w) \in Backups /\ Mine(w) = Of(work[w])
BY JobConstants DEF JobInv, JobTypeOK, Task, Placed, Mine, Of

LEMMA AdvanceKeeps ==
    ASSUME JobInv, NEW w \in Workers, NEW to, NEW ok \in BOOLEAN, Advance(w, to, ok),
           UNCHANGED <<object, data, restore, media, replaced>>,
           \/ work[w].pc = "claim" /\ to = "PREPARING" /\ (ok => backup[Mine(w)].status = "QUEUED")
           \/ work[w].pc = "PREPARING" /\ to = "SNAPSHOTTING"
           \/ work[w].pc = "PACKAGING" /\ to = "UPLOADING"
           \/ work[w].pc = "UPLOADING" /\ to = "VERIFYING" /\ work[w].kept
    PROVE  JobInv'
<1>0. PICK u \in Task : u = work[w] /\ Placed(u) /\ RunsSoundly(u) /\ MutatesSoundly(u)
  BY DEF JobInv, JobTypeOK
<1>1. PICK b \in Backups : b = Mine(w) /\ b = Of(u)
  BY <1>0, MineIs DEF OfEither, Running
<1>2. CASE ok /\ CanMove(backup[b].status, to)
  <2>1. SetStatus(b, to) /\ Go(w, to) /\ to \in BackupStatus /\ to \in BackupPlace
    BY <1>1, <1>2, StatusNames DEF Advance, BackupPlace, Running
  <2>2. /\ backup' \in [Backups -> Backup]
        /\ backup'[b].status = to /\ backup'[b].integrity = backup[b].integrity
        /\ backup'[b].meta = backup[b].meta /\ backup'[b].parent = backup[b].parent
        /\ \A c \in Backups \ {b} : backup'[c] = backup[c]
    BY <2>1, StatusIsSet DEF JobInv
  <2>3. PICK t \in Task : work' = [work EXCEPT ![w] = t] /\ t.pc = to /\ Same(t, u)
    BY <2>1, <1>0, GoesOn DEF JobInv
  <2>4. Of(t) = b
    BY <2>3, <1>1 DEF Same, Of
  <2>5. \/ backup[b].status = "QUEUED" /\ to = "PREPARING" /\ u.pc = "claim"
        \/ backup[b].status = u.pc /\ u.pc = "PREPARING" /\ to = "SNAPSHOTTING"
        \/ backup[b].status = u.pc /\ u.pc = "PACKAGING" /\ to = "UPLOADING"
        \/ backup[b].status = u.pc /\ u.pc = "UPLOADING" /\ to = "VERIFYING" /\ u.kept
    BY <1>0, <1>1, <1>2, Moves
  <2>6. Spare(w, b) /\ Spare(w, Of(t))
    BY <2>4, <2>5, <1>0, <1>1, ClaimsDiffer DEF Claimed, Running
  <2>7. JobTypeOK'
    BY <2>2, <2>3 DEF JobInv, JobTypeOK
  <2>8. Placed(t) /\ MutatesSoundly(t) /\ t.pc \notin Mutates
    BY <2>3, <2>5, <1>0 DEF Placed, OfBackup, OfEither, OfBoth, OfRestore, Fresh, Running,
                            RestorePlace, Same, Task, MutatesSoundly, Mutates
  <2>9. RunsSoundly(t)'
    <3>1. t.sub # None => t.sub = b /\ t.job = u.job /\ u.sub = b
      BY <2>3, <2>4 DEF Same, Of
    <3>2. t.sub # None => backup'[t.sub].parent = t.job /\ backup'[t.sub].status # "none"
      BY <3>1, <2>2, <2>5, <1>0 DEF RunsSoundly
    <3>3. object[b] = IF t.stored THEN 1 ELSE 0
      BY <2>3, <2>5, <1>0, <1>1 DEF JobInv, BackupIsSound, Same, RunsSoundly, Placed, Fresh,
                                    Claimed, Running
    <3>4. t.kept => t.stored /\ backup[b].meta
      BY <2>3, <2>5, <1>0, <1>1 DEF Same, RunsSoundly, Placed, Fresh, Claimed, Running
    <3>5. t.pc \in {"VERIFYING", "checking", "verified"} => t.kept
      BY <2>3, <2>5 DEF Same
    <3>6. t.pc # "after" /\ to \in StatusesAt(t.pc)
      BY <2>3, <2>5 DEF StatusesAt
    <3> QED BY <2>2, <2>4, <3>2, <3>3, <3>4, <3>5, <3>6 DEF RunsSoundly
  <2>10. BackupStep(w, b) /\ BackupIsSound(b)'
    BY <2>2, <2>5, <2>6 DEF BackupStep, Sound, BackupIsSound
  <2>11. \A c \in Backups \ {b} : backup'[c] = backup[c] /\ object'[c] = object[c]
    BY <2>2
  <2> QED BY <2>3, <2>6, <2>7, <2>8, <2>9, <2>10, <2>11, BackupMoves
<1>3. CASE ~ (ok /\ CanMove(backup[b].status, to))
  <2>1. Go(w, "fail") /\ UNCHANGED backup
    BY <1>1, <1>3 DEF Advance
  <2> QED BY <2>1, Onward DEF BackupPlace, OfEither, Running
<1> QED BY <1>2, <1>3

LEMMA SnapshotKeeps ==
    ASSUME JobInv, NEW w \in Workers, Snapshot(w), UNCHANGED <<restore, media, replaced>>
    PROVE  JobInv'
<1>0. PICK u \in Task : u = work[w] /\ Placed(u) /\ RunsSoundly(u) /\ u.pc = "SNAPSHOTTING"
  BY DEF JobInv, JobTypeOK, Snapshot, At
<1>1. PICK b \in Backups : b = Mine(w) /\ b = Of(u)
  BY <1>0, MineIs DEF OfEither, Running
<1>2. UNCHANGED <<object, data, restore, media, replaced>>
  BY DEF Snapshot
<1>3. CASE Alive(w) /\ CanMove(backup[b].status, "PACKAGING")
  <2>1. PICK x : x = [backup[b] EXCEPT !.status = "PACKAGING", !.held = data]
    OBVIOUS
  <2>2. /\ x \in Backup /\ x.status = "PACKAGING" /\ x.parent = backup[b].parent
        /\ x.meta = backup[b].meta
    <3>1. backup[b] \in Backup /\ data \in Nat
      BY DEF JobInv, JobTypeOK
    <3> QED BY <3>1, <2>1, StatusNames DEF Backup
  <2>3. backup' = [backup EXCEPT ![b] = x] /\ Go(w, "PACKAGING")
    BY <2>1, <1>1, <1>3 DEF Snapshot, JobInv, JobTypeOK, Backup
  <2>4. /\ backup' \in [Backups -> Backup] /\ backup'[b] = x
        /\ \A c \in Backups \ {b} : backup'[c] = backup[c]
    BY <2>2, <2>3 DEF JobInv, JobTypeOK
  <2>5. PICK t \in Task : work' = [work EXCEPT ![w] = t] /\ t.pc = "PACKAGING" /\ Same(t, u)
    BY <2>3, <1>0, GoesOn DEF JobInv, BackupPlace, Running
  <2>6. JobTypeOK'
    BY <2>4, <2>5, <1>2 DEF JobInv, JobTypeOK
  <2>7. backup[b].status = "SNAPSHOTTING"
    BY <1>3, Moves
  <2>8. Of(t) = b /\ Spare(w, b)
    BY <2>5, <1>0, <1>1, ClaimsDiffer DEF Same, Of, Claimed, Running
  <2>9. Placed(t) /\ MutatesSoundly(t) /\ t.pc \notin Mutates
    BY <2>5, <1>0 DEF Placed, OfBackup, OfEither, OfBoth, OfRestore, Fresh, Running,
                      RestorePlace, Same, Task, MutatesSoundly, Mutates
  <2>10. RunsSoundly(t)'
    <3>1. t.sub # None => t.sub = b /\ t.job = u.job /\ u.sub = b
      BY <2>5, <2>8 DEF Same, Of
    <3>2. t.sub # None => backup'[t.sub].parent = t.job /\ backup'[t.sub].status # "none"
      BY <3>1, <2>2, <2>4, <1>0 DEF RunsSoundly
    <3>3. /\ object[b] = IF t.stored THEN 1 ELSE 0
          /\ t.kept => t.stored /\ backup[b].meta
      BY <2>5, <1>0, <1>1 DEF Same, RunsSoundly, Claimed, Running
    <3>4. "PACKAGING" \in StatusesAt(t.pc)
      BY <2>5 DEF StatusesAt
    <3> QED BY <1>2, <2>2, <2>4, <2>5, <2>8, <3>2, <3>3, <3>4 DEF RunsSoundly
  <2>11. BackupStep(w, b) /\ BackupIsSound(b)'
    BY <2>2, <2>4, <2>7, <2>8 DEF BackupStep, Sound, BackupIsSound
  <2>12. \A c \in Backups \ {b} : backup'[c] = backup[c] /\ object'[c] = object[c]
    BY <2>4, <1>2
  <2> QED BY <1>2, <2>5, <2>6, <2>8, <2>9, <2>10, <2>11, <2>12, BackupMoves
<1>4. CASE ~ (Alive(w) /\ CanMove(backup[b].status, "PACKAGING"))
  <2>1. Go(w, "fail") /\ UNCHANGED backup
    BY <1>1, <1>4 DEF Snapshot
  <2> QED BY <2>1, <1>0, <1>2, Onward DEF BackupPlace, OfEither, Running
<1> QED BY <1>3, <1>4

\* The object goes into the store.
LEMMA StoreKeeps ==
    ASSUME JobInv, NEW w \in Workers, Store(w), UNCHANGED <<restore, media, replaced>>
    PROVE  JobInv'
<1>0. PICK u \in Task : /\ u = work[w] /\ Placed(u) /\ RunsSoundly(u) /\ u.pc = "UPLOADING"
                        /\ ~ u.stored
  BY DEF JobInv, JobTypeOK, Store, At
<1>1. PICK b \in Backups : b = Mine(w) /\ b = Of(u)
  BY <1>0, MineIs DEF OfEither, Running
<1>2. UNCHANGED <<backup, data, restore, media, replaced>>
  BY DEF Store
<1>3. CASE object' = [object EXCEPT ![b] = @ + 1]
  <2>1. object[b] = 0 /\ ~ u.kept /\ backup[b].status \in {"UPLOADING", "FAILED"}
    BY <1>0, <1>1 DEF RunsSoundly, Claimed, Running, StatusesAt
  <2>2. /\ object' \in [Backups -> Nat] /\ object'[b] = 1
        /\ \A c \in Backups \ {b} : object'[c] = object[c]
    BY <1>3, <2>1 DEF JobInv, JobTypeOK
  <2>3. PICK t \in Task : /\ work' = [work EXCEPT ![w] = t] /\ t.job = u.job /\ t.sub = u.sub
                          /\ ~ t.kept
                          /\ (t.pc = "UPLOADING" /\ t.stored) \/ t.pc = "fail"
    <3>1. CASE work' = [work EXCEPT ![w].stored = TRUE]
      <4>1. PICK t : t = [u EXCEPT !.stored = TRUE]
        OBVIOUS
      <4>2. /\ t \in Task /\ t.job = u.job /\ t.sub = u.sub /\ ~ t.kept
            /\ t.pc = "UPLOADING" /\ t.stored
        BY <4>1, <1>0, <2>1 DEF Task
      <4>3. work' = [work EXCEPT ![w] = t]
        BY <4>1, <3>1, <1>0
      <4> QED BY <4>2, <4>3
    <3>2. CASE Go(w, "fail")
      BY <3>2, <1>0, <2>1, GoesOn DEF JobInv, BackupPlace, Same
    <3>3. object' # object
      BY <2>1, <2>2
    <3> QED BY <3>1, <3>2, <3>3 DEF Store
  <2>4. JobTypeOK'
    BY <2>2, <2>3, <1>2 DEF JobInv, JobTypeOK
  <2>5. Of(t) = b /\ Spare(w, b)
    BY <2>3, <1>0, <1>1, ClaimsDiffer DEF Of, Claimed, Running
  <2>6. Placed(t) /\ MutatesSoundly(t) /\ t.pc \notin Mutates
    BY <2>3, <1>0 DEF Placed, OfBackup, OfEither, OfBoth, OfRestore, Fresh, Running,
                      RestorePlace, Task, MutatesSoundly, Mutates
  <2>7. RunsSoundly(t)'
    BY <1>0, <1>1, <1>2, <2>1, <2>2, <2>3, <2>5 DEF RunsSoundly, Claimed, Running, StatusesAt
  <2>8. BackupStep(w, b) /\ BackupIsSound(b)'
    BY <1>2, <2>1, <2>5 DEF BackupStep, Sound, BackupIsSound
  <2> QED BY <1>2, <2>2, <2>3, <2>4, <2>5, <2>6, <2>7, <2>8, BackupMoves
<1>4. CASE object' # [object EXCEPT ![b] = @ + 1]
  <2>1. Go(w, "fail") /\ UNCHANGED object
    BY <1>1, <1>4 DEF Store
  <2> QED BY <2>1, <1>0, <1>2, Onward DEF BackupPlace, OfEither, Running
<1> QED BY <1>3, <1>4

\* The backup of a worker gets the key of its object, integrity or an end; where
\* nothing of this depends on the other workers.
LEMMA RecordMoves ==
    ASSUME JobInv, NEW w \in Workers, NEW t \in Task, work' = [work EXCEPT ![w] = t],
           UNCHANGED <<object, data, restore, media, replaced>>,
           Placed(t), t.pc \notin Mutates,
           NEW b \in Backups, backup' \in [Backups -> Backup],
           \A c \in Backups \ {b} : backup'[c] = backup[c],
           backup'[b].parent = backup[b].parent,
           backup[b].meta => backup'[b].meta,
           \/ backup'[b].integrity = backup[b].integrity
           \/ backup[b].integrity # "VERIFIED",
           \/ backup'[b].status = backup[b].status
           \/ backup'[b].status = "FAILED" /\ backup[b].status \in Transitional
           \/ /\ backup[b].status = "VERIFYING" /\ backup'[b].status = "SUCCEEDED"
              /\ backup'[b].integrity = "VERIFIED" /\ backup'[b].meta /\ object[b] = 1
              /\ Spare(w, b),
           t.sub # None => t.sub = work[w].sub /\ t.job = work[w].job,
           t.pc \in Claimed =>
              /\ work[w].pc \in Claimed /\ Of(work[w]) = Of(t) /\ RunsSoundly(t)'
    PROVE  JobInv'
<1>1. JobTypeOK'
  BY DEF JobInv, JobTypeOK
<1>2. backup'[b].status = "none" => backup[b].status = "none"
  BY StatusNames
<1>3. RunsSoundly(t)'
  <2>1. t.sub # None => t.sub \in Backups /\ backup[t.sub].parent = t.job /\ backup[t.sub].status # "none"
    BY DEF JobInv, RunsSoundly, Task
  <2>2. t.sub # None => backup'[t.sub].parent = t.job /\ backup'[t.sub].status # "none"
    BY <2>1, <1>2
  <2> QED BY <2>2 DEF RunsSoundly
<1>4. BackupStep(w, b)
  BY <1>2, StatusNames DEF BackupStep, Sound
<1>5. BackupIsSound(b)'
  BY StatusNames DEF JobInv, BackupIsSound
<1>6. MutatesSoundly(t)
  BY DEF MutatesSoundly, Mutates
<1> QED BY <1>1, <1>3, <1>4, <1>5, <1>6, BackupMoves

LEMMA PersistKeeps ==
    ASSUME JobInv, NEW w \in Workers, Persist(w), UNCHANGED <<restore, media, replaced>>
    PROVE  JobInv'
<1>0. PICK u \in Task : /\ u = work[w] /\ Placed(u) /\ RunsSoundly(u) /\ u.pc = "UPLOADING"
                        /\ u.stored /\ ~ u.kept
  BY DEF JobInv, JobTypeOK, Persist, At
<1>1. PICK b \in Backups : b = Mine(w) /\ b = Of(u)
  BY <1>0, MineIs DEF OfEither, Running
<1>2. UNCHANGED <<object, data, restore, media, replaced>>
  BY DEF Persist
<1>3. CASE CanKeep(w)
  <2>1. backup' = [backup EXCEPT ![b].meta = TRUE] /\ work' = [work EXCEPT ![w].kept = TRUE]
    BY <1>1, <1>3 DEF Persist
  <2>2. /\ backup' \in [Backups -> Backup]
        /\ backup'[b].status = backup[b].status /\ backup'[b].integrity = backup[b].integrity
        /\ backup'[b].meta /\ backup'[b].parent = backup[b].parent
        /\ \A c \in Backups \ {b} : backup'[c] = backup[c]
    BY <2>1, KeyIsKept DEF JobInv
  <2>3. PICK t : t = [u EXCEPT !.kept = TRUE]
    OBVIOUS
  <2>4. /\ t \in Task /\ t.pc = "UPLOADING" /\ t.job = u.job /\ t.sub = u.sub /\ t.stored
        /\ t.kept
    BY <2>3, <1>0 DEF Task
  <2>5. work' = [work EXCEPT ![w] = t]
    BY <2>1, <2>3, <1>0
  <2>6. Of(t) = b /\ t.pc \notin Mutates
    BY <2>4, <1>1 DEF Of, Mutates
  <2>7. Placed(t)
    BY <2>4, <1>0 DEF Placed, OfBackup, OfEither, OfBoth, OfRestore, Fresh, Running,
                      RestorePlace, Task
  <2>8. RunsSoundly(t)'
    <3>1. t.sub # None => t.sub = b
      BY <2>6 DEF Of
    <3>2. t.sub # None => backup'[t.sub].parent = t.job /\ backup'[t.sub].status # "none"
      BY <3>1, <2>2, <2>4, <1>0 DEF RunsSoundly
    <3>3. object'[b] = IF t.stored THEN 1 ELSE 0
      BY <2>4, <1>0, <1>1, <1>2 DEF RunsSoundly, Claimed, Running
    <3>4. backup'[b].status \in StatusesAt(t.pc)
      BY <2>2, <2>4, <1>0, <1>1 DEF RunsSoundly, Claimed, Running, StatusesAt
    <3> QED BY <2>2, <2>4, <2>6, <3>2, <3>3, <3>4 DEF RunsSoundly
  <2>9. work[w].pc \in Claimed /\ Of(work[w]) = Of(t)
    BY <1>0, <1>1, <2>6 DEF Claimed, Running
  <2>10. t.sub = work[w].sub /\ t.job = work[w].job
    BY <1>0, <2>4
  <2> QED BY <1>2, <2>2, <2>4, <2>5, <2>6, <2>7, <2>8, <2>9, <2>10, RecordMoves
<1>4. CASE ~ CanKeep(w)
  <2>1. Go(w, "fail") /\ UNCHANGED backup
    BY <1>4 DEF Persist
  <2> QED BY <2>1, <1>0, <1>2, Onward DEF BackupPlace, OfEither, Running
<1> QED BY <1>3, <1>4

LEMMA MarkKeeps ==
    ASSUME JobInv, NEW w \in Workers, NEW from, NEW to, NEW i, Mark(w, from, to, i),
           \/ from = "VERIFYING" /\ to = "checking" /\ i = "VERIFYING"
           \/ from = "checking" /\ to = "verified" /\ i = "VERIFIED",
           UNCHANGED <<object, data, restore, media, replaced>>
    PROVE  JobInv'
<1>0. PICK u \in Task : /\ u = work[w] /\ Placed(u) /\ RunsSoundly(u) /\ u.pc = from
  BY DEF JobInv, JobTypeOK, Mark, At
<1>1. PICK b \in Backups : b = Mine(w) /\ b = Of(u)
  BY <1>0, MineIs DEF OfEither, Running
<1>3. CASE CanMark(backup[b].integrity, i)
  <2>1. SetIntegrity(b, i) /\ Go(w, to) /\ i \in Integrity /\ backup[b].integrity # "VERIFIED"
    BY <1>1, <1>3 DEF Mark, Integrity, CanMark
  <2>2. /\ backup' \in [Backups -> Backup]
        /\ backup'[b].status = backup[b].status /\ backup'[b].integrity = i
        /\ backup'[b].meta = backup[b].meta /\ backup'[b].parent = backup[b].parent
        /\ \A c \in Backups \ {b} : backup'[c] = backup[c]
    BY <2>1, IntegrityIsSet DEF JobInv
  <2>3. PICK t \in Task : work' = [work EXCEPT ![w] = t] /\ t.pc = to /\ Same(t, u)
    BY <2>1, <1>0, GoesOn DEF JobInv, BackupPlace, Running
  <2>4. Of(t) = b /\ t.pc \notin Mutates
    BY <2>3, <1>1 DEF Of, Mutates, Same
  <2>5. Placed(t)
    BY <2>3, <1>0 DEF Placed, OfBackup, OfEither, OfBoth, OfRestore, Fresh, Running,
                      RestorePlace, Task, Same
  <2>6. RunsSoundly(t)'
    <3>1. t.sub # None => t.sub = b
      BY <2>4 DEF Of
    <3>2. t.sub # None => backup'[t.sub].parent = t.job /\ backup'[t.sub].status # "none"
      BY <3>1, <2>2, <2>3, <1>0 DEF RunsSoundly, Same
    <3>3. /\ object'[b] = IF t.stored THEN 1 ELSE 0
          /\ t.kept /\ t.stored /\ backup[b].meta
      BY <2>3, <1>0, <1>1 DEF RunsSoundly, Claimed, Running, Same
    <3>4. backup'[b].status \in StatusesAt(t.pc)
      BY <2>2, <2>3, <1>0, <1>1 DEF RunsSoundly, Claimed, Running, StatusesAt
    <3> QED BY <2>2, <2>4, <3>2, <3>3, <3>4 DEF RunsSoundly
  <2>7. backup[b].meta => backup'[b].meta
    BY <2>2
  <2>8. /\ work[w].pc \in Claimed /\ Of(work[w]) = Of(t)
        /\ t.sub = work[w].sub /\ t.job = work[w].job
    BY <1>0, <1>1, <2>3, <2>4 DEF Same, Claimed, Running
  <2> QED BY <2>1, <2>2, <2>3, <2>4, <2>5, <2>6, <2>7, <2>8, RecordMoves
<1>4. CASE ~ CanMark(backup[b].integrity, i)
  <2>1. Go(w, "fail") /\ UNCHANGED backup
    BY <1>1, <1>4 DEF Mark
  <2> QED BY <2>1, <1>0, Onward DEF BackupPlace, OfEither, Running
<1> QED BY <1>3, <1>4

LEMMA SucceedKeeps ==
    ASSUME JobInv, NEW w \in Workers, Succeed(w), UNCHANGED <<restore, media, replaced>>
    PROVE  JobInv'
<1>0. PICK u \in Task : /\ u = work[w] /\ Placed(u) /\ RunsSoundly(u) /\ u.pc = "verified"
  BY DEF JobInv, JobTypeOK, Succeed, At
<1>1. PICK b \in Backups : b = Mine(w) /\ b = Of(u)
  BY <1>0, MineIs DEF OfEither, Running
<1>2. UNCHANGED <<object, data, restore, media, replaced>>
  BY DEF Succeed
<1>3. CASE CanMove(backup[b].status, "SUCCEEDED") /\ backup[b].integrity = "VERIFIED"
  <2>1. SetStatus(b, "SUCCEEDED") /\ Go(w, "after") /\ backup[b].status = "VERIFYING"
    BY <1>1, <1>3, Moves DEF Succeed
  <2>2. /\ backup' \in [Backups -> Backup]
        /\ backup'[b].status = "SUCCEEDED" /\ backup'[b].integrity = "VERIFIED"
        /\ backup'[b].meta = backup[b].meta /\ backup'[b].parent = backup[b].parent
        /\ \A c \in Backups \ {b} : backup'[c] = backup[c]
    BY <2>1, <1>3, StatusIsSet, StatusNames DEF JobInv
  <2>3. PICK t \in Task : work' = [work EXCEPT ![w] = t] /\ t.pc = "after" /\ Same(t, u)
    BY <2>1, <1>0, GoesOn DEF JobInv, BackupPlace, Running
  <2>4. Of(t) = b /\ t.pc \notin Mutates /\ Spare(w, b)
    BY <2>3, <1>0, <1>1, ClaimsDiffer DEF Of, Mutates, Same, Claimed, Running
  <2>5. Placed(t)
    BY <2>3, <1>0 DEF Placed, OfBackup, OfEither, OfBoth, OfRestore, Fresh, Running,
                      RestorePlace, Task, Same
  <2>6. object[b] = 1 /\ t.kept /\ t.stored /\ backup[b].meta
    BY <2>3, <1>0, <1>1 DEF RunsSoundly, Claimed, Running, Same
  <2>7. RunsSoundly(t)'
    <3>1. t.sub # None => t.sub = b
      BY <2>4 DEF Of
    <3>2. t.sub # None => backup'[t.sub].parent = t.job /\ backup'[t.sub].status # "none"
      BY <3>1, <2>2, <2>3, <1>0 DEF RunsSoundly, Same
    <3>3. backup'[b].status \in StatusesAt(t.pc)
      BY <2>2, <2>3 DEF StatusesAt
    <3> QED BY <2>2, <2>3, <2>4, <2>6, <3>2, <3>3 DEF RunsSoundly
  <2>8. backup[b].meta => backup'[b].meta
    BY <2>2
  <2>9. /\ work[w].pc \in Claimed /\ Of(work[w]) = Of(t)
        /\ t.sub = work[w].sub /\ t.job = work[w].job
    BY <1>0, <1>1, <2>3, <2>4 DEF Same, Claimed, Running
  <2>10. backup'[b].meta
    BY <2>6, <2>8
  <2> QED BY <1>2, <1>3, <2>1, <2>2, <2>3, <2>4, <2>5, <2>6, <2>7, <2>9, <2>10, RecordMoves, ZenonT(40)
<1>4. CASE ~ (CanMove(backup[b].status, "SUCCEEDED") /\ backup[b].integrity = "VERIFIED")
  <2>1. Go(w, "fail") /\ UNCHANGED backup
    BY <1>1, <1>4 DEF Succeed
  <2> QED BY <2>1, <1>0, <1>2, Onward DEF BackupPlace, OfEither, Running
<1> QED BY <1>3, <1>4

\* Every way to fail: the worker is no longer at the backup, or only marks it.
LEMMA FailingKeeps ==
    ASSUME JobInv, NEW w \in Workers, NEW t \in Task, work' = [work EXCEPT ![w] = t],
           work[w].pc \in OfBackup \cup OfEither,
           UNCHANGED <<object, data, restore, media, replaced>>,
           Placed(t), t.pc \notin Mutates \cup Claimed,
           t.sub # None => t.sub = work[w].sub /\ t.job = work[w].job,
           \/ UNCHANGED backup
           \/ Kept(w)
           \/ SetStatus(Mine(w), "FAILED") /\ backup[Mine(w)].status \in Transitional
           \/ SetIntegrity(Mine(w), "FAILED") /\ CanMark(backup[Mine(w)].integrity, "FAILED")
    PROVE  JobInv'
<1>1. PICK b \in Backups : b = Mine(w)
  BY MineIs
<1>2. CASE UNCHANGED backup
  <2>1. backup' \in [Backups -> Backup]
    BY <1>2 DEF JobInv, JobTypeOK
  <2>2. backup'[b].status = backup[b].status /\ backup'[b].integrity = backup[b].integrity
    BY <1>2
  <2>3. backup'[b].parent = backup[b].parent
    BY <1>2
  <2>4. backup[b].meta => backup'[b].meta
    BY <1>2
  <2>5. \A c \in Backups \ {b} : backup'[c] = backup[c]
    BY <1>2
  <2>6. t.pc \notin Mutates /\ t.pc \notin Claimed
    OBVIOUS
  <2> QED BY <2>1, <2>2, <2>3, <2>4, <2>5, <2>6, RecordMoves
<1>3. CASE backup' = [backup EXCEPT ![b].meta = TRUE]
  <2>1. /\ backup' \in [Backups -> Backup]
        /\ backup'[b].status = backup[b].status /\ backup'[b].integrity = backup[b].integrity
        /\ backup'[b].meta /\ backup'[b].parent = backup[b].parent
        /\ \A c \in Backups \ {b} : backup'[c] = backup[c]
    BY <1>3, KeyIsKept DEF JobInv
  <2> QED BY <2>1, RecordMoves
<1>4. CASE SetStatus(b, "FAILED") /\ backup[b].status \in Transitional
  <2>1. /\ backup' \in [Backups -> Backup]
        /\ backup'[b].status = "FAILED" /\ backup'[b].integrity = backup[b].integrity
        /\ backup'[b].meta = backup[b].meta /\ backup'[b].parent = backup[b].parent
        /\ \A c \in Backups \ {b} : backup'[c] = backup[c]
    BY <1>4, StatusIsSet, StatusNames DEF JobInv
  <2>2. backup[b].meta => backup'[b].meta
    BY <2>1
  <2> QED BY <2>1, <2>2, <1>4, RecordMoves
<1>5. CASE SetIntegrity(b, "FAILED") /\ CanMark(backup[b].integrity, "FAILED")
  <2>1. /\ backup' \in [Backups -> Backup]
        /\ backup'[b].status = backup[b].status /\ backup'[b].integrity = "FAILED"
        /\ backup'[b].meta = backup[b].meta /\ backup'[b].parent = backup[b].parent
        /\ \A c \in Backups \ {b} : backup'[c] = backup[c]
    BY <1>5, IntegrityIsSet DEF JobInv, Integrity
  <2>2. backup[b].integrity # "VERIFIED"
    BY <1>5 DEF CanMark
  <2>3. backup[b].meta => backup'[b].meta
    BY <2>1
  <2> QED BY <2>1, <2>2, <2>3, RecordMoves
<1> QED BY <1>1, <1>2, <1>3, <1>4, <1>5 DEF Kept

\* A backup fails, or its worker leaves it.
LEMMA EndingKeeps ==
    ASSUME JobInv, NEW w \in Workers, UNCHANGED <<restore, media, replaced>>,
           \/ Block(w) \/ Unbuildable(w) \/ RetryBackup(w) \/ Fail(w) \/ MarkFailed(w) \/ Sink(w)
           \/ Leave(w) \/ Interrupt(w) \/ Crash(w)
    PROVE  JobInv'
<1>0. PICK u \in Task : u = work[w] /\ Placed(u) /\ RunsSoundly(u) /\ MutatesSoundly(u)
  BY DEF JobInv, JobTypeOK
<1>1. UNCHANGED <<object, data, restore, media, replaced>>
  BY DEF Block, Unbuildable, RetryBackup, Fail, MarkFailed, Sink, Leave, Interrupt, Crash,
         backupVars
\* It rests.
<1>2. ASSUME Rest(w), u.pc \in OfBackup \cup OfEither,
             \/ UNCHANGED backup
             \/ Kept(w)
             \/ SetStatus(Mine(w), "FAILED") /\ backup[Mine(w)].status \in Transitional
      PROVE  JobInv'
  <2>2. PICK t \in Task : work' = [work EXCEPT ![w] = t] /\ t.pc = "idle" /\ t.sub = None /\ Placed(t)
    <3>1. Idle \in Task /\ Idle.pc = "idle" /\ Idle.sub = None /\ ~ Idle.stored /\ ~ Idle.kept
      BY DEF Idle, Task, BackupPlace
    <3>2. Placed(Idle)
      BY <3>1 DEF Placed, OfBackup, OfEither, OfBoth, OfRestore, Fresh, Running, RestorePlace
    <3> QED BY <3>1, <3>2, <1>2 DEF Rest
  <2>3. t.pc \notin Mutates \cup Claimed
    BY <2>2 DEF Mutates, Claimed, Running
  <2> QED BY <2>2, <2>3, <1>0, <1>1, <1>2, FailingKeeps
\* It goes on to fail.
<1>3. ASSUME NEW place \in {"mark", "sink", "drop"}, Go(w, place), u.pc \in OfEither,
             \/ UNCHANGED backup
             \/ Kept(w)
             \/ SetStatus(Mine(w), "FAILED") /\ backup[Mine(w)].status \in Transitional
             \/ SetIntegrity(Mine(w), "FAILED") /\ CanMark(backup[Mine(w)].integrity, "FAILED")
      PROVE  JobInv'
  <2>1. PICK t \in Task : work' = [work EXCEPT ![w] = t] /\ t.pc = place /\ Same(t, u)
    BY <1>0, <1>3, GoesOn DEF JobInv, BackupPlace
  <2>2. Placed(t) /\ t.pc \notin Mutates \cup Claimed
    BY <2>1, <1>0, <1>3 DEF Placed, OfBackup, OfEither, OfBoth, OfRestore, Fresh, Running,
                            RestorePlace, Task, Same, Mutates, Claimed
  <2> QED BY <2>1, <2>2, <1>0, <1>1, <1>3, FailingKeeps DEF Same
\* It hands a failed safety backup to its restore.
<1>4. ASSUME GiveUp(w), u.pc \in OfEither, u.sub # None, UNCHANGED backup \/ Kept(w)
      PROVE  JobInv'
  <2>1. u.job \in Restores
    BY <1>0, <1>4 DEF Placed
  <2>2. PICK t \in Task : work' = [work EXCEPT ![w] = t] /\ t.pc = "rfail" /\ t.sub = None /\ Placed(t)
    <3>1. PICK t : t = [u EXCEPT !.pc = "rfail", !.sub = None, !.stored = FALSE, !.kept = FALSE]
      OBVIOUS
    <3>2. /\ t \in Task /\ t.pc = "rfail" /\ t.job = u.job /\ t.sub = None
          /\ ~ t.stored /\ ~ t.kept
      BY <3>1 DEF Task, RestorePlace
    <3>3. Placed(t)
      BY <2>1, <3>2 DEF Placed, OfBackup, OfEither, OfBoth, OfRestore, Fresh, Running, RestorePlace
    <3>4. work' = [work EXCEPT ![w] = t]
      BY <1>0, <1>4, <3>1 DEF GiveUp
    <3> QED BY <3>2, <3>3, <3>4
  <2>3. t.pc \notin Mutates \cup Claimed
    BY <2>2 DEF Mutates, Claimed, Running
  <2> QED BY <2>2, <2>3, <1>0, <1>1, <1>4, FailingKeeps
<1>5. \A from : CanMove(from, "FAILED") => from \in Transitional
  BY Moves
<1>6. CASE Block(w)
  BY <1>0, <1>2, <1>5, <1>6 DEF Block, At, OfBackup
<1>7. CASE Unbuildable(w)
  BY <1>0, <1>2, <1>7 DEF Unbuildable, At, OfBackup, backupVars
<1>8. CASE RetryBackup(w)
  BY <1>0, <1>2, <1>8, StatusNames DEF RetryBackup, At, OfBackup
<1>9. CASE Fail(w)
  BY <1>0, <1>3, <1>9 DEF Fail, At, OfEither
<1>10. CASE MarkFailed(w)
  BY <1>0, <1>3, <1>10 DEF MarkFailed, At, OfEither
<1>11. CASE Sink(w)
  BY <1>0, <1>3, <1>5, <1>11 DEF Sink, At, OfEither
<1>12. CASE Leave(w)
  <2>1. u.pc \in {"done", "drop"} /\ u.pc \in OfEither /\ UNCHANGED backup
    BY <1>0, <1>12 DEF Leave, At, OfEither, backupVars
  <2>2. CASE u.sub = None
    BY <2>1, <2>2, <1>0, <1>2, <1>12 DEF Leave
  <2>3. CASE u.sub # None /\ u.pc = "done"
    <3>1. Go(w, "link")
      BY <2>3, <1>0, <1>12 DEF Leave, At
    <3> QED BY <3>1, <2>1, <2>3, <1>0, <1>1, Onward DEF RestorePlace
  <2>4. CASE u.sub # None /\ u.pc # "done"
    BY <2>1, <2>4, <1>0, <1>4, <1>12 DEF Leave, At
  <2> QED BY <2>2, <2>3, <2>4
<1>13. CASE Interrupt(w)
  BY <1>0, <1>2, <1>4, <1>13 DEF Interrupt, OfEither
<1>14. CASE Crash(w)
  BY <1>1, <1>14, TaskRests DEF Crash, backupVars
<1> QED BY <1>6, <1>7, <1>8, <1>9, <1>10, <1>11, <1>12, <1>13, <1>14

\* The lease and the places between the stages.
LEMMA PassingKeeps ==
    ASSUME JobInv, NEW w \in Workers, UNCHANGED <<restore, media, replaced>>,
           \/ Lock(w) \/ Refuse(w) \/ Inherit(w) \/ After(w) \/ Break(w)
    PROVE  JobInv'
<1>1. UNCHANGED <<backup, object, data, restore, media, replaced>>
  BY DEF Lock, Refuse, Inherit, After, Break, backupVars
<1>2. CASE Lock(w)
  BY <1>1, <1>2, Onward DEF Lock, At, OfBackup, BackupPlace, Running
<1>3. CASE Refuse(w)
  BY <1>1, <1>3, Onward DEF Refuse, At, OfBackup, BackupPlace
<1>4. CASE Inherit(w)
  <2>1. CASE Go(w, "claim")
    BY <2>1, <1>1, <1>4, Onward DEF Inherit, At, BackupPlace, Running
  <2>2. CASE GiveUp(w)
    BY <2>2, <1>1, <1>4, TaskGivesUp DEF JobInv, Placed, Inherit, At, OfBoth
  <2> QED BY <2>1, <2>2, <1>4 DEF Inherit
<1>5. CASE After(w)
  BY <1>1, <1>5, Onward DEF After, At, OfEither, Running, BackupPlace
<1>6. CASE Break(w)
  BY <1>1, <1>6, Onward DEF Break, OfEither, Running, BackupPlace
<1> QED BY <1>2, <1>3, <1>4, <1>5, <1>6

\* Nothing that the invariant speaks of changes.
LEMMA Unmoved ==
    ASSUME JobInv, UNCHANGED <<backup, object, work, restore, media, replaced>>, data' \in Nat
    PROVE  JobInv'
<1>1. JobTypeOK' /\ OneEach'
  BY DEF JobInv, JobTypeOK, OneEach
<1>2. \A v \in Workers : (Placed(work[v]) /\ RunsSoundly(work[v]) /\ MutatesSoundly(work[v]))'
  BY DEF JobInv, RunsSoundly, MutatesSoundly
<1>3. \A b \in Backups : BackupIsSound(b)'
  BY DEF JobInv, BackupIsSound
<1>4. \A r \in Restores : RestoreIsSound(r)'
  BY RestoresKept DEF Sound
<1> QED BY <1>1, <1>2, <1>3, <1>4 DEF JobInv

\* A message is received.
LEMMA ReceiptKeeps ==
    ASSUME JobInv, NEW w \in Workers, UNCHANGED <<backup, object, data, restore, media, replaced>>,
           \/ UNCHANGED work
           \/ \E j \in Jobs, n \in Nat, place \in {"lock", "block", "take", "misfit"} :
                 /\ Working(w, place, j, n)
                 /\ \/ place \in {"lock", "block"} /\ j \in Backups
                    \/ place \in {"take", "misfit"} /\ j \in Restores
    PROVE  JobInv'
<1>1. CASE UNCHANGED work
  BY <1>1, Unmoved DEF JobInv, JobTypeOK
<1>2. CASE \E j \in Jobs, n \in Nat, place \in {"lock", "block", "take", "misfit"} :
              /\ Working(w, place, j, n)
              /\ \/ place \in {"lock", "block"} /\ j \in Backups
                 \/ place \in {"take", "misfit"} /\ j \in Restores
  <2>1. PICK j \in Jobs, n \in Nat, place \in {"lock", "block", "take", "misfit"} :
              /\ Working(w, place, j, n)
              /\ \/ place \in {"lock", "block"} /\ j \in Backups
                 \/ place \in {"take", "misfit"} /\ j \in Restores
    BY <1>2
  <2>2. PICK t \in Task : /\ work' = [work EXCEPT ![w] = t] /\ t.pc = place
                          /\ Placed(t) /\ RunsSoundly(t) /\ MutatesSoundly(t)
    BY <2>1, Receives
  <2>3. t.pc \notin Claimed \cup Mutates
    BY <2>1, <2>2 DEF Claimed, Running, Mutates
  <2> QED BY <2>2, <2>3, TaskMoves
<1> QED BY <1>1, <1>2

\* A backup is asked for: none of the workers has it.
LEMMA RequestKeeps ==
    ASSUME JobInv, NEW p \in Publishers, NEW b \in Backups, Request(p, b),
           UNCHANGED <<restore, media, replaced>>
    PROVE  JobInv'
<1>1. /\ backup[b].status = "none"
      /\ backup' = [backup EXCEPT ![b].status = "QUEUED", ![b].parent = None]
      /\ UNCHANGED <<object, work, data>>
  BY DEF Request, CreateBackup
<1>2. /\ backup' \in [Backups -> Backup] /\ backup'[b].status = "QUEUED"
      /\ \A c \in Backups \ {b} : backup'[c] = backup[c]
  <2>1. backup[b] \in Backup
    BY DEF JobInv, JobTypeOK
  <2>2. PICK row : row = [backup[b] EXCEPT !.status = "QUEUED", !.parent = None]
    OBVIOUS
  <2>3. row \in Backup /\ row.status = "QUEUED"
    BY <2>1, <2>2, StatusNames DEF Backup
  <2>4. backup' = [backup EXCEPT ![b] = row]
    BY <1>1, <2>1, <2>2 DEF Backup, JobInv, JobTypeOK
  <2> QED BY <2>3, <2>4 DEF JobInv, JobTypeOK
<1>3. JobTypeOK' /\ OneEach'
  BY <1>1, <1>2 DEF JobInv, JobTypeOK, OneEach
<1>4. ASSUME NEW w \in Workers
      PROVE  (Placed(work[w]) /\ RunsSoundly(work[w]) /\ MutatesSoundly(work[w]))'
  <2>1. PICK u \in Task : u = work[w] /\ Placed(u) /\ RunsSoundly(u) /\ MutatesSoundly(u)
    BY DEF JobInv, JobTypeOK
  <2>2. u.sub # b
    BY <2>1, <1>1, JobConstants DEF RunsSoundly
  <2>3. u.pc \in Claimed => Of(u) \in Backups \ {b}
    BY <2>1, <1>1, JobConstants DEF RunsSoundly, StatusesAt, Claimed, Running, Placed, OfEither, Of,
                                    Task
  <2>4. RunsSoundly(u)'
    BY <2>1, <2>2, <2>3, <1>1, <1>2 DEF RunsSoundly, Task
  <2>5. MutatesSoundly(u)'
    BY <2>1 DEF MutatesSoundly
  <2> QED BY <2>1, <2>4, <2>5, <1>1
<1>5. \A c \in Backups : BackupIsSound(c)'
  BY <1>1, <1>2 DEF JobInv, BackupIsSound
<1>6. \A r \in Restores : RestoreIsSound(r)'
  BY <1>1, <1>2, RestoresKept DEF Sound
<1> QED BY <1>3, <1>4, <1>5, <1>6 DEF JobInv

LEMMA BackupStepKeeps ==
    ASSUME JobInv, BackupNext, UNCHANGED restoreVars
    PROVE  JobInv'
<1>0. UNCHANGED <<restore, media, replaced>> /\ data \in Nat
  BY DEF restoreVars, JobInv, JobTypeOK
<1>1. CASE \E p \in Publishers, b \in Backups : Request(p, b)
  BY <1>0, <1>1, RequestKeeps
<1>2. CASE \E p \in Publishers : PublisherStep(p) \/ BackupReconcile(p) \/ Die(p)
  BY <1>0, <1>2, Unmoved DEF PublisherStep, BackupReconcile, Die, Begin, Publish, Confirm,
                             ReconcileBackup, backupVars
<1>3. CASE RunOut
  BY <1>0, <1>3, Unmoved DEF RunOut, backupVars
<1>4. CASE \E w \in Workers : BackupReceipt(w)
  <2>1. PICK w \in Workers, b \in Backups, n \in 0 .. Retries : ReceiveBackup(w, b, n)
    BY <1>4 DEF BackupReceipt
  <2>2. b \in Jobs /\ n \in Nat
    BY JobConstants DEF Jobs
  <2> QED BY <2>1, <2>2, <1>0, ReceiptKeeps DEF ReceiveBackup, backupVars
<1>5. CASE \E w \in Workers : Execution(w) \/ Interrupt(w) \/ Crash(w)
  <2>1. PICK w \in Workers : Execution(w) \/ Interrupt(w) \/ Crash(w)
    BY <1>5
  <2>2. CASE Claim(w)
    BY <2>2, <1>0, AdvanceKeeps DEF Claim, At
  <2>3. CASE Stage(w)
    BY <2>3, <1>0, AdvanceKeeps DEF Stage, At, Alive
  <2>4. CASE Snapshot(w) \/ Store(w) \/ Persist(w) \/ Succeed(w)
    BY <2>4, <1>0, SnapshotKeeps, StoreKeeps, PersistKeeps, SucceedKeeps
  <2>5. CASE Verify(w)
    BY <2>5, <1>0, MarkKeeps DEF Verify
  <2>6. CASE \/ Block(w) \/ Unbuildable(w) \/ RetryBackup(w) \/ Fail(w) \/ MarkFailed(w)
             \/ Sink(w) \/ Leave(w) \/ Interrupt(w) \/ Crash(w)
    BY <2>6, <1>0, EndingKeeps
  <2>7. CASE Lock(w) \/ Refuse(w) \/ Inherit(w) \/ After(w) \/ Break(w)
    BY <2>7, <1>0, PassingKeeps
  <2> QED BY <2>1, <2>2, <2>3, <2>4, <2>5, <2>6, <2>7 DEF Execution
<1> QED BY <1>1, <1>2, <1>3, <1>4, <1>5 DEF BackupNext, BackupFault

-----------------------------------------------------------------------------
(* The steps of a restore.                                                 *)

LEMMA RestoreIsSet ==
    ASSUME JobTypeOK, NEW r \in Restores, NEW s \in RestoreStatus,
           \/ SetRestore(r, s)
           \/ s = "FAILED" /\ \E c \in {"none", "lock", "other", "exhausted"} : FailRestore(r, c)
           \/ s = "AUTHORIZING" /\ Authorized(r)
    PROVE  /\ restore' \in [Restores -> Restore]
           /\ restore'[r].status = s /\ restore'[r].safety = restore[r].safety
           /\ \A x \in Restores \ {r} : restore'[x] = restore[x]
<1>0. restore[r] \in Restore
  BY DEF JobTypeOK
<1>1. \E row \in Restore : /\ restore' = [restore EXCEPT ![r] = row]
                           /\ row.status = s /\ row.safety = restore[r].safety
  <2>1. CASE SetRestore(r, s)
    <3>1. PICK row : row = [restore[r] EXCEPT !.status = s]
      OBVIOUS
    <3>2. row \in Restore /\ row.status = s /\ row.safety = restore[r].safety
      BY <3>1, <1>0 DEF Restore
    <3>3. restore' = [restore EXCEPT ![r] = row]
      BY <2>1, <3>1 DEF SetRestore
    <3> QED BY <3>2, <3>3
  <2>2. ASSUME NEW c \in {"none", "lock", "other", "exhausted"},
               restore' = [restore EXCEPT ![r].status = s, ![r].code = c]
        PROVE  \E row \in Restore : /\ restore' = [restore EXCEPT ![r] = row]
                                    /\ row.status = s /\ row.safety = restore[r].safety
    <3>1. PICK row : row = [restore[r] EXCEPT !.status = s, !.code = c]
      OBVIOUS
    <3>2. row \in Restore /\ row.status = s /\ row.safety = restore[r].safety
      BY <3>1, <1>0 DEF Restore
    <3>3. restore' = [restore EXCEPT ![r] = row]
      BY <2>2, <3>1, <1>0 DEF Restore, JobTypeOK
    <3> QED BY <3>2, <3>3
  <2> QED BY <2>1, <2>2 DEF FailRestore, Authorized
<1> QED BY <1>1 DEF JobTypeOK

\* The restore of a worker changes and with it perhaps the task.
LEMMA RestoreMoves ==
    ASSUME JobInv, JobTypeOK', NEW w \in Workers, NEW t, work' = [work EXCEPT ![w] = t],
           UNCHANGED <<backup, object>>,
           Placed(t), RunsSoundly(t), MutatesSoundly(t)', t.pc \notin Claimed,
           t.pc \in Mutates => \/ work[w].pc \in Mutates /\ work[w].job = t.job
                               \/ Alone(w, t.job),
           NEW r \in Restores, RestoreStep(w, r), RestoreIsSound(r)',
           \A x \in Restores \ {r} : /\ restore'[x] = restore[x] /\ media'[x] = media[x]
                                     /\ replaced'[x] = replaced[x]
    PROVE  JobInv'
<1>1. RunsSoundly(t)'
  BY DEF RunsSoundly
<1>2. \A b \in Backups : BackupStep(w, b) /\ BackupIsSound(b)'
  BY DEF JobInv, BackupStep, Sound, BackupIsSound
<1>3. \A x \in Restores : RestoreStep(w, x) /\ RestoreIsSound(x)'
  BY DEF JobInv, RestoreStep, RestoreIsSound, Committed, HasSafety, Sound
<1> QED BY <1>1, <1>2, <1>3, Frame

\* Before the mutation.
LEMMA PreMutationKeeps ==
    ASSUME JobInv, NEW w \in Workers, NEW t \in Task, work' = [work EXCEPT ![w] = t],
           Placed(t), RunsSoundly(t), t.pc \notin Claimed \cup Mutates,
           UNCHANGED <<backup, object, data, media, replaced>>,
           NEW r \in Restores, NEW s \in {"QUEUED", "FAILED"} \cup PreMutation,
           \/ SetRestore(r, s)
           \/ s = "FAILED" /\ \E c \in {"none", "lock", "other", "exhausted"} : FailRestore(r, c)
           \/ s = "AUTHORIZING" /\ Authorized(r),
           restore[r].status \in {"none", "QUEUED", "FAILED"} \cup PreMutation,
           s = "VALIDATING" => restore[r].safety # None
    PROVE  JobInv'
<1>1. /\ restore' \in [Restores -> Restore]
      /\ restore'[r].status = s /\ restore'[r].safety = restore[r].safety
      /\ \A x \in Restores \ {r} : restore'[x] = restore[x]
  BY RestoreIsSet DEF JobInv, RestoreStatus, PreMutation, Settled, Mutating
<1>2. JobTypeOK'
  BY <1>1 DEF JobInv, JobTypeOK
<1>3. RestoreStep(w, r)
  BY MutatorsDiffer DEF RestoreStep, PreMutation
<1>4. RestoreIsSound(r)'
  <2>1. RestoreIsSound(r)
    BY DEF JobInv
  <2>2. ~ Committed(r) /\ ~ media[r] /\ Len(replaced[r]) \in {0, 1}
    BY <2>1 DEF RestoreIsSound
  <2>3. restore[r].safety # None => HasSafety(r)'
    BY <1>1, <2>1 DEF RestoreIsSound, HasSafety, Sound
  <2> QED BY <1>1, <2>2, <2>3 DEF RestoreIsSound, Committed, PreMutation
<1>5. MutatesSoundly(t)'
  BY DEF MutatesSoundly, Mutates
<1> QED BY <1>1, <1>2, <1>3, <1>4, <1>5, RestoreMoves

\* The worker goes on as it is, or rests.
LEMMA PreMutationGoesOn ==
    ASSUME JobInv, NEW w \in Workers, work[w].pc \in OfRestore,
           \/ Rest(w)
           \/ \E place \in OfRestore \ Mutates :
                 Go(w, place) \/ (\E e \in {"none", "lock", "other"} : Err(w, place, e)),
           UNCHANGED <<backup, object, data, media, replaced>>,
           NEW s \in {"QUEUED", "FAILED"} \cup PreMutation,
           \/ SetRestore(R(w), s)
           \/ s = "FAILED" /\ \E c \in {"none", "lock", "other", "exhausted"} : FailRestore(R(w), c)
           \/ s = "AUTHORIZING" /\ Authorized(R(w)),
           restore[R(w)].status \in {"none", "QUEUED", "FAILED"} \cup PreMutation,
           s = "VALIDATING" => restore[R(w)].safety # None
    PROVE  JobInv'
<1>0. PICK u \in Task : u = work[w] /\ Placed(u) /\ RunsSoundly(u)
  BY DEF JobInv, JobTypeOK
<1>1. PICK r \in Restores : r = R(w)
  BY <1>0 DEF Placed, R
<1>2. CASE Rest(w)
  <2>1. PICK t \in Task : /\ work' = [work EXCEPT ![w] = t] /\ t.pc = "idle"
                          /\ Placed(t) /\ RunsSoundly(t)
    BY <1>2, Rests DEF JobInv
  <2>2. t.pc \notin Claimed \cup Mutates
    BY <2>1 DEF Claimed, Running, Mutates
  <2> QED BY <2>1, <2>2, <1>1, PreMutationKeeps
<1>3. CASE \E place \in OfRestore \ Mutates :
                 Go(w, place) \/ (\E e \in {"none", "lock", "other"} : Err(w, place, e))
  <2>1. PICK place \in OfRestore \ Mutates :
                 Go(w, place) \/ (\E e \in {"none", "lock", "other"} : Err(w, place, e))
    BY <1>3
  <2>2. PICK t \in Task : work' = [work EXCEPT ![w] = t] /\ t.pc = place /\ Same(t, u)
    BY <2>1, <1>0, GoesOn DEF JobInv, OfRestore
  <2>3. t.pc \notin Claimed \cup Mutates
    BY <2>1, <2>2 DEF Claimed, Running, Mutates, OfRestore, RestorePlace
  <2>4. Placed(t) /\ RunsSoundly(t)
    BY <2>1, <2>2, <2>3, <1>0 DEF Placed, OfBackup, OfEither, OfBoth, OfRestore, Fresh, Running,
                                  RestorePlace, Same, RunsSoundly
  <2> QED BY <2>2, <2>3, <2>4, <1>1, PreMutationKeeps
<1> QED BY <1>2, <1>3

\* ... or the restore stays as it is.
LEMMA EarlyKeeps ==
    ASSUME JobInv, NEW w \in Workers, work[w].pc \in OfRestore,
           \/ Rest(w)
           \/ \E place \in OfRestore \ Mutates :
                 Go(w, place) \/ (\E e \in {"none", "lock", "other"} : Err(w, place, e)),
           UNCHANGED <<backup, object, data, media, replaced>>,
           \/ UNCHANGED restore
           \/ /\ restore[R(w)].status \in {"none", "QUEUED", "FAILED"} \cup PreMutation
              /\ \/ \E c \in {"none", "lock", "other", "exhausted"} : FailRestore(R(w), c)
                 \/ Authorized(R(w))
                 \/ \E s \in PreMutation : /\ SetRestore(R(w), s)
                                           /\ s = "VALIDATING" => restore[R(w)].safety # None
    PROVE  JobInv'
<1>1. CASE UNCHANGED restore
  <2>1. CASE Rest(w)
    BY <2>1, <1>1, TaskRests
  <2>2. CASE \E place \in OfRestore \ Mutates :
                 Go(w, place) \/ (\E e \in {"none", "lock", "other"} : Err(w, place, e))
    BY <2>2, <1>1, Onward DEF OfRestore
  <2> QED BY <2>1, <2>2
<1>2. CASE /\ restore[R(w)].status \in {"none", "QUEUED", "FAILED"} \cup PreMutation
           /\ \E c \in {"none", "lock", "other", "exhausted"} : FailRestore(R(w), c)
  <2>1. "FAILED" \in {"QUEUED", "FAILED"} \cup PreMutation
    OBVIOUS
  <2> QED BY <2>1, <1>2, PreMutationGoesOn
<1>3. CASE /\ restore[R(w)].status \in {"none", "QUEUED", "FAILED"} \cup PreMutation
           /\ Authorized(R(w))
  <2>1. "AUTHORIZING" \in {"QUEUED", "FAILED"} \cup PreMutation
    BY DEF PreMutation
  <2> QED BY <2>1, <1>3, PreMutationGoesOn
<1>4. CASE /\ restore[R(w)].status \in {"none", "QUEUED", "FAILED"} \cup PreMutation
           /\ \E s \in PreMutation : /\ SetRestore(R(w), s)
                                     /\ s = "VALIDATING" => restore[R(w)].safety # None
  <2>1. PICK s \in PreMutation : SetRestore(R(w), s) /\ (s = "VALIDATING" => restore[R(w)].safety # None)
    BY <1>4
  <2>2. s \in {"QUEUED", "FAILED"} \cup PreMutation
    BY <2>1
  <2> QED BY <2>1, <2>2, <1>4, PreMutationGoesOn
<1> QED BY <1>1, <1>2, <1>3, <1>4

LEMMA ClaimKeeps ==
    ASSUME JobInv, NEW w \in Workers,
           \/ Misfit(w) \/ Take(w) \/ Preflight(w) \/ Checked(w) \/ StopRestore(w) \/ Enter(w)
    PROVE  JobInv'
<1>1. /\ UNCHANGED <<backup, object, data, media, replaced>>
      /\ work[w].pc \in {"misfit", "take", "preflight", "examine", "enter"}
  BY DEF Misfit, Take, Preflight, Checked, StopRestore, Enter, backupVars, restoreVars, At
<1>2. work[w].pc \in OfRestore
  BY <1>1 DEF OfRestore, RestorePlace
<1>3. {"preflight", "examine", "answer", "enter", "locking"} \subseteq OfRestore \ Mutates
  BY DEF OfRestore, RestorePlace, Mutates
<1>4. CASE Misfit(w)
  BY <1>1, <1>2, <1>4, EarlyKeeps DEF Misfit, Unmutated
<1>5. CASE Take(w)
  BY <1>1, <1>2, <1>3, <1>5, EarlyKeeps DEF Take, Claimable, Restartable
<1>6. CASE Preflight(w)
  BY <1>1, <1>2, <1>3, <1>6, EarlyKeeps DEF Preflight, restoreVars
<1>7. CASE Checked(w)
  BY <1>1, <1>2, <1>3, <1>7, EarlyKeeps DEF Checked, restoreVars
<1>8. CASE StopRestore(w)
  BY <1>1, <1>2, <1>8, EarlyKeeps DEF StopRestore, restoreVars
<1>9. CASE Enter(w)
  <2>1. "AUTHORIZING" \in PreMutation
    BY DEF PreMutation
  <2> QED BY <1>1, <1>2, <1>3, <1>9, <2>1, EarlyKeeps DEF Enter, Restartable
<1> QED BY <1>4, <1>5, <1>6, <1>7, <1>8, <1>9

LEMMA WayKeeps ==
    ASSUME JobInv, NEW w \in Workers,
           Locking(w) \/ Secure(w) \/ ToSafety(w) \/ OldSafety(w) \/ Validate(w)
    PROVE  JobInv'
<1>1. /\ UNCHANGED <<backup, object, data, media, replaced>>
      /\ work[w].pc \in {"locking", "secure", "locked", "safety", "secured"}
  BY DEF Locking, Secure, ToSafety, OldSafety, Validate, backupVars, restoreVars, At
<1>2. work[w].pc \in OfRestore
  BY <1>1 DEF OfRestore, RestorePlace
<1>3. {"secure", "locked", "rfail", "safety", "secured", "valid"} \subseteq OfRestore \ Mutates
  BY DEF OfRestore, RestorePlace, Mutates
<1>4. {"AUTHORIZING", "LOCKING", "SAFETY_BACKUP", "VALIDATING"} = PreMutation
  BY DEF PreMutation
<1>5. CASE Locking(w)
  BY <1>1, <1>2, <1>3, <1>4, <1>5, EarlyKeeps DEF Locking, Step
<1>6. CASE Secure(w)
  BY <1>1, <1>2, <1>3, <1>6, EarlyKeeps DEF Secure, restoreVars
<1>7. CASE ToSafety(w)
  BY <1>1, <1>2, <1>3, <1>4, <1>7, EarlyKeeps DEF ToSafety, Step
<1>8. CASE OldSafety(w)
  BY <1>1, <1>2, <1>3, <1>8, EarlyKeeps DEF OldSafety, restoreVars
<1>9. CASE Validate(w)
  BY <1>1, <1>2, <1>3, <1>4, <1>9, EarlyKeeps DEF Validate, Step, HasSafety
<1> QED BY <1>5, <1>6, <1>7, <1>8, <1>9

LEMMA AnswerKeeps ==
    ASSUME JobInv, NEW w \in Workers,
           RestoreFails(w) \/ Close(w) \/ Answer(w) \/ RetryRestore(w) \/ Exhaust(w)
    PROVE  JobInv'
<1>0. work[w].err \in {"none", "lock", "other"}
  BY DEF JobInv, JobTypeOK, Task
<1>1. /\ UNCHANGED <<backup, object, data, media, replaced>>
      /\ work[w].pc \in {"rfail", "close", "answer"}
  BY DEF RestoreFails, Close, Answer, RetryRestore, Exhaust, backupVars, restoreVars, At
<1>2. work[w].pc \in OfRestore
  BY <1>1 DEF OfRestore, RestorePlace
<1>3. {"close", "answer"} \subseteq OfRestore \ Mutates
  BY DEF OfRestore, RestorePlace, Mutates
<1>4. CASE RestoreFails(w)
  <2>1. PICK e \in {"lock", "other"} :
              /\ Err(w, "close", e)
              /\ IF restore[R(w)].status \in PreMutation THEN FailRestore(R(w), e) ELSE UNCHANGED restore
    BY <1>0, <1>4 DEF RestoreFails
  <2> QED BY <2>1, <1>1, <1>2, <1>3, EarlyKeeps
<1>5. CASE Close(w)
  BY <1>1, <1>2, <1>3, <1>5, EarlyKeeps DEF Close, restoreVars
<1>6. CASE Answer(w)
  BY <1>1, <1>2, <1>6, EarlyKeeps DEF Answer
<1>7. CASE RetryRestore(w)
  BY <1>1, <1>2, <1>7, EarlyKeeps DEF RetryRestore, Unmutated
<1>8. CASE Exhaust(w)
  BY <1>1, <1>2, <1>8, EarlyKeeps DEF Exhaust, Unmutated
<1> QED BY <1>4, <1>5, <1>6, <1>7, <1>8

\* The worker breaks off, and the task that it goes on with is the restore's.
LEMMA BreakKeeps ==
    ASSUME JobInv, NEW w \in Workers, BreakRestore(w)
    PROVE  JobInv'
<1>0. PICK u \in Task : u = work[w] /\ Placed(u)
  BY DEF JobInv, JobTypeOK
<1>1. u.job \in Restores
  BY <1>0 DEF BreakRestore, Placed, OfRestore, OfBoth, RestorePlace
<1>2. PICK t : t = [Idle EXCEPT !.pc = "rfail", !.job = u.job, !.tries = u.tries]
  OBVIOUS
<1>3. /\ t \in Task /\ t.pc = "rfail" /\ t.job = u.job /\ t.sub = None
      /\ ~ t.stored /\ ~ t.kept
  BY <1>0, <1>2, ZenonT(40) DEF Idle, Task, RestorePlace
<1>4. Placed(t)
  BY <1>1, <1>3 DEF Placed, OfBackup, OfEither, OfBoth, OfRestore, Fresh, Running, RestorePlace
<1>5. RunsSoundly(t) /\ MutatesSoundly(t) /\ t.pc \notin Claimed \cup Mutates
  BY <1>3 DEF RunsSoundly, MutatesSoundly, Claimed, Running, Mutates
<1>6. /\ work' = [work EXCEPT ![w] = t]
      /\ UNCHANGED <<backup, object, data, restore, media, replaced>>
  BY <1>0, <1>2 DEF BreakRestore, R, backupVars, restoreVars
<1> QED BY <1>3, <1>4, <1>5, <1>6, TaskMoves

\* A safety backup is made: none of the workers has it yet.
LEMMA NewSafetyKeeps ==
    ASSUME JobInv, NEW w \in Workers, NewSafety(w)
    PROVE  JobInv'
<1>0. PICK u \in Task : u = work[w] /\ Placed(u) /\ u.pc = "safety"
  BY DEF JobInv, JobTypeOK, NewSafety, At
<1>1. u.job \in Restores /\ ~ u.stored /\ ~ u.kept
  BY <1>0 DEF Placed, OfRestore, RestorePlace, Fresh
<1>2. PICK b \in Backups :
         /\ backup[b].status = "none"
         /\ backup' = [backup EXCEPT ![b].status = "QUEUED", ![b].parent = R(w)]
         /\ work' = [work EXCEPT ![w].pc = "inherit", ![w].sub = b]
  BY DEF NewSafety, CreateBackup
<1>3. UNCHANGED <<object, data, restore, media, replaced>>
  BY DEF NewSafety, restoreVars
<1>4. backup[b] \in Backup
  BY DEF JobInv, JobTypeOK
<1>5. PICK row : row = [backup[b] EXCEPT !.status = "QUEUED", !.parent = u.job]
  OBVIOUS
<1>6. /\ row \in Backup /\ row.status = "QUEUED" /\ row.parent = u.job
      /\ row.meta = backup[b].meta
  BY <1>1, <1>4, <1>5, StatusNames DEF Backup
<1>7. backup' = [backup EXCEPT ![b] = row]
  BY <1>0, <1>2, <1>4, <1>5 DEF Backup, JobInv, JobTypeOK, R
<1>8. /\ backup' \in [Backups -> Backup] /\ backup'[b] = row
      /\ \A c \in Backups \ {b} : backup'[c] = backup[c]
  BY <1>6, <1>7 DEF JobInv, JobTypeOK
<1>9. PICK t : t = [u EXCEPT !.pc = "inherit", !.sub = b]
  OBVIOUS
<1>10. /\ t \in Task /\ t.pc = "inherit" /\ t.job = u.job /\ t.sub = b
       /\ ~ t.stored /\ ~ t.kept
  BY <1>0, <1>1, <1>9 DEF Task, BackupPlace
<1>11. work' = [work EXCEPT ![w] = t]
  BY <1>0, <1>2, <1>9 DEF JobInv, JobTypeOK, Task
<1>12. JobTypeOK'
  BY <1>3, <1>8, <1>10, <1>11 DEF JobInv, JobTypeOK
<1>13. Placed(t)
  BY <1>1, <1>10 DEF Placed, OfBackup, OfEither, OfBoth, OfRestore, Fresh, Running, RestorePlace
<1>14. t.pc \notin Claimed \cup Mutates /\ MutatesSoundly(t)
  BY <1>10 DEF Claimed, Running, Mutates, MutatesSoundly
<1>15. RunsSoundly(t)'
  BY <1>6, <1>8, <1>10, <1>14 DEF RunsSoundly
<1>16. Spare(w, b)
  BY <1>2, ClaimsDiffer
<1>17. BackupStep(w, b) /\ BackupIsSound(b)'
  BY <1>2, <1>3, <1>6, <1>8, <1>16 DEF BackupStep, Sound, BackupIsSound, JobInv
<1>18. \A c \in Backups \ {b} : backup'[c] = backup[c] /\ object'[c] = object[c]
  BY <1>3, <1>8
<1> QED BY <1>3, <1>11, <1>12, <1>13, <1>14, <1>15, <1>17, <1>18, BackupMoves

\* The restore has its safety backup.
LEMMA LinkKeeps ==
    ASSUME JobInv, NEW w \in Workers, Link(w)
    PROVE  JobInv'
<1>0. PICK u \in Task : u = work[w] /\ Placed(u) /\ RunsSoundly(u) /\ u.pc = "link"
  BY DEF JobInv, JobTypeOK, Link, At
<1>1. PICK b \in Backups : b = u.sub
  BY <1>0 DEF Placed, OfBoth
<1>2. PICK r \in Restores : r = u.job
  BY <1>0 DEF Placed, OfBoth
<1>3. UNCHANGED <<backup, object, data, media, replaced>>
  BY DEF Link, backupVars
<1>4. CASE Sound(b) /\ backup[b].meta
  <2>1. restore' = [restore EXCEPT ![r].safety = b] /\ Secured(w)
    BY <1>0, <1>1, <1>2, <1>4 DEF Link, R
  <2>2. restore[r] \in Restore
    BY DEF JobInv, JobTypeOK
  <2>3. PICK row : row = [restore[r] EXCEPT !.safety = b]
    OBVIOUS
  <2>4. row \in Restore /\ row.status = restore[r].status /\ row.safety = b
    BY <2>2, <2>3 DEF Restore
  <2>5. restore' = [restore EXCEPT ![r] = row]
    BY <2>1, <2>3
  <2>6. /\ restore' \in [Restores -> Restore] /\ restore'[r] = row
        /\ \A x \in Restores \ {r} : restore'[x] = restore[x]
    BY <2>4, <2>5 DEF JobInv, JobTypeOK
  <2>7. PICK t : t = [u EXCEPT !.pc = "secured", !.sub = None, !.stored = FALSE, !.kept = FALSE]
    OBVIOUS
  <2>8. /\ t \in Task /\ t.pc = "secured" /\ t.job = r /\ t.sub = None
        /\ ~ t.stored /\ ~ t.kept
    BY <1>0, <1>2, <2>7 DEF Task, RestorePlace
  <2>9. work' = [work EXCEPT ![w] = t]
    BY <1>0, <2>1, <2>7 DEF Secured
  <2>10. JobTypeOK'
    BY <1>3, <2>6, <2>8, <2>9 DEF JobInv, JobTypeOK
  <2>11. Placed(t)
    BY <2>8 DEF Placed, OfBackup, OfEither, OfBoth, OfRestore, Fresh, Running, RestorePlace
  <2>12. t.pc \notin Claimed \cup Mutates
    BY <2>8 DEF Claimed, Running, Mutates
  <2>13. RunsSoundly(t) /\ MutatesSoundly(t)'
    BY <2>8, <2>12 DEF RunsSoundly, MutatesSoundly, Mutates
  <2>14. RestoreStep(w, r)
    BY <1>3, <2>4, <2>6 DEF RestoreStep
  <2>15. HasSafety(r)'
    <3>1. backup[b].parent = r
      BY <1>0, <1>1, <1>2, JobConstants DEF RunsSoundly
    <3>2. b # None
      BY JobConstants
    <3> QED BY <1>3, <1>4, <2>4, <2>6, <3>1, <3>2 DEF HasSafety, Sound
  <2>16. RestoreIsSound(r)'
    <3>1. restore'[r].safety # None
      BY <2>15 DEF HasSafety
    <3> QED BY <1>3, <2>4, <2>6, <2>15, <3>1 DEF JobInv, RestoreIsSound, Committed
  <2>17. \A x \in Restores \ {r} : /\ restore'[x] = restore[x] /\ media'[x] = media[x]
                                   /\ replaced'[x] = replaced[x]
    BY <1>3, <2>6
  <2> QED BY <1>3, <2>9, <2>10, <2>11, <2>12, <2>13, <2>14, <2>16, <2>17, RestoreMoves
<1>5. CASE ~ (Sound(b) /\ backup[b].meta)
  BY <1>0, <1>1, <1>2, <1>3, <1>5, TaskGivesUp DEF Link
<1> QED BY <1>4, <1>5

-----------------------------------------------------------------------------
(* The mutation.                                                           *)

\* A worker that mutates goes on, and with it its restore.
LEMMA MutationGoesOn ==
    ASSUME JobInv, NEW w \in Workers, NEW place \in OfRestore,
           Go(w, place) \/ (\E e \in {"none", "lock", "other"} : Err(w, place, e)),
           work[w].pc \in OfRestore,
           NEW r \in Restores, r = R(w), Alone(w, r),
           UNCHANGED <<backup, object>>, data' \in Nat,
           restore' \in [Restores -> Restore], media' \in [Restores -> BOOLEAN],
           replaced' \in [Restores -> Seq(Nat)],
           \A t \in Task : t.pc = place /\ t.job = r => MutatesSoundly(t)',
           RestoreIsSound(r)',
           \A x \in Restores \ {r} : /\ restore'[x] = restore[x] /\ media'[x] = media[x]
                                     /\ replaced'[x] = replaced[x]
    PROVE  JobInv'
<1>0. PICK u \in Task : u = work[w] /\ Placed(u) /\ RunsSoundly(u)
  BY DEF JobInv, JobTypeOK
<1>1. PICK t \in Task : work' = [work EXCEPT ![w] = t] /\ t.pc = place /\ Same(t, u)
  BY <1>0, GoesOn DEF JobInv, OfRestore
<1>2. JobTypeOK'
  BY <1>1 DEF JobInv, JobTypeOK
<1>3. t.job = r /\ MutatesSoundly(t)'
  BY <1>0, <1>1 DEF Same, R
<1>4. t.pc \notin Claimed
  BY <1>1 DEF Claimed, Running, OfRestore, RestorePlace
<1>5. Placed(t) /\ RunsSoundly(t)
  BY <1>0, <1>1, <1>4 DEF Placed, OfBackup, OfEither, OfBoth, OfRestore, Fresh, Running,
                          RestorePlace, Same, RunsSoundly
<1>6. RestoreStep(w, r) /\ Alone(w, t.job)
  BY <1>3 DEF RestoreStep
<1> QED BY <1>1, <1>2, <1>3, <1>4, <1>5, <1>6, RestoreMoves

\* The status alone changes, to one that says the same of the data.
LEMMA StaysSound ==
    ASSUME JobInv, NEW r \in Restores, UNCHANGED <<backup, replaced>>,
           restore'[r].safety = restore[r].safety,
           LET s == restore'[r].status IN
           /\ s \in {"VERIFYING", "SUCCEEDED"} => Committed(r) /\ media'[r]
           /\ s \in {"RESTORING", "ROLLING_BACK", "ROLLED_BACK"} => ~ Committed(r)
           /\ s \in {"ROLLING_BACK", "ROLLED_BACK"} => ~ media'[r]
           /\ s = "RESTORING" => restore[r].safety # None
           /\ s \in Mutating \cup {"SUCCEEDED", "ROLLED_BACK", "INDETERMINATE"}
    PROVE  RestoreIsSound(r)'
<1>1. RestoreIsSound(r)
  BY DEF JobInv
<1>2. HasSafety(r) => HasSafety(r)'
  BY DEF HasSafety, Sound
<1> QED BY <1>1, <1>2 DEF RestoreIsSound, Committed, Mutating, PreMutation

LEMMA BeginKeeps ==
    ASSUME JobInv, NEW w \in Workers, BeginMutation(w)
    PROVE  JobInv'
<1>0. PICK u \in Task : u = work[w] /\ Placed(u) /\ u.pc = "valid"
  BY DEF JobInv, JobTypeOK, BeginMutation, At
<1>1. work[w].pc \in OfRestore /\ "rfail" \in OfRestore \ Mutates /\ "import" \in OfRestore
  BY <1>0 DEF OfRestore, RestorePlace, Mutates
<1>2. PICK r \in Restores : r = R(w)
  BY <1>0, <1>1 DEF Placed, R
<1>3. UNCHANGED <<backup, object, data, media, replaced>>
  BY DEF BeginMutation, backupVars
<1>4. CASE restore[r].status = "VALIDATING" /\ SetRestore(r, "RESTORING") /\ Go(w, "import")
  <2>1. /\ restore' \in [Restores -> Restore]
        /\ restore'[r].status = "RESTORING" /\ restore'[r].safety = restore[r].safety
        /\ \A x \in Restores \ {r} : restore'[x] = restore[x]
    BY <1>4, RestoreIsSet DEF JobInv, RestoreStatus, Mutating
  <2>2. Alone(w, r)
    BY <1>4, MutatorsDiffer
  <2>3. RestoreIsSound(r)
    BY DEF JobInv
  <2>4. RestoreIsSound(r)'
    BY <1>3, <1>4, <2>1, <2>3, StaysSound DEF RestoreIsSound, PreMutation, Mutating
  <2>5. \A t \in Task : t.pc = "import" /\ t.job = r => MutatesSoundly(t)'
    BY <2>1 DEF MutatesSoundly
  <2>6. /\ data' \in Nat /\ media' \in [Restores -> BOOLEAN]
        /\ replaced' \in [Restores -> Seq(Nat)]
    BY <1>3 DEF JobInv, JobTypeOK
  <2> QED BY <1>1, <1>2, <1>3, <1>4, <2>1, <2>2, <2>4, <2>5, <2>6, MutationGoesOn
<1>5. CASE UNCHANGED restore /\ Err(w, "rfail", "other")
  BY <1>1, <1>3, <1>5, EarlyKeeps
<1> QED BY <1>2, <1>4, <1>5 DEF BeginMutation, Step

LEMMA ImportKeeps ==
    ASSUME JobInv, NEW w \in Workers, Import(w)
    PROVE  JobInv'
<1>0. PICK u \in Task : u = work[w] /\ Placed(u) /\ u.pc = "import"
  BY DEF JobInv, JobTypeOK, Import, At
<1>1. work[w].pc \in OfRestore \cap Mutates /\ "committed" \in OfRestore
  BY <1>0 DEF OfRestore, RestorePlace, Mutates
<1>2. PICK r \in Restores : r = R(w) /\ r = work[w].job
  BY <1>0, <1>1 DEF Placed, R
<1>3. /\ restore[r].status = "RESTORING" /\ SetRestore(r, "VERIFYING")
      /\ Go(w, "committed") /\ data' = data + 1
      /\ replaced' = [replaced EXCEPT ![r] = Append(@, data)]
      /\ media' = [media EXCEPT ![r] = TRUE]
      /\ UNCHANGED <<backup, object>>
  BY <1>2 DEF Import, backupVars
<1>4. /\ restore' \in [Restores -> Restore]
      /\ restore'[r].status = "VERIFYING" /\ restore'[r].safety = restore[r].safety
      /\ \A x \in Restores \ {r} : restore'[x] = restore[x]
  BY <1>3, RestoreIsSet DEF JobInv, RestoreStatus, Mutating
<1>5. Alone(w, r)
  BY <1>1, <1>2, MutatorsDiffer
<1>6. RestoreIsSound(r) /\ data \in Nat /\ replaced[r] \in Seq(Nat)
  BY DEF JobInv, JobTypeOK
<1>7. Len(replaced[r]) = 0 /\ restore[r].safety # None /\ HasSafety(r)
  BY <1>3, <1>6 DEF RestoreIsSound, Committed
<1>8. PICK s \in Seq(Nat) : s = Append(replaced[r], data) /\ Len(s) = 1
  <2>1. \A x \in Seq(Nat) : /\ Append(x, data) \in Seq(Nat)
                           /\ Len(x) = 0 => Len(Append(x, data)) = 1
    BY <1>6
  <2>2. Append(replaced[r], data) \in Seq(Nat) /\ Len(Append(replaced[r], data)) = 1
    BY <2>1, <1>6, <1>7
  <2> QED BY <2>2
<1>9. /\ replaced' \in [Restores -> Seq(Nat)] /\ replaced'[r] = s
      /\ \A x \in Restores \ {r} : replaced'[x] = replaced[x]
  BY <1>3, <1>8 DEF JobInv, JobTypeOK
<1>10. /\ media' \in [Restores -> BOOLEAN] /\ media'[r]
       /\ \A x \in Restores \ {r} : media'[x] = media[x]
  BY <1>3 DEF JobInv, JobTypeOK
<1>11. RestoreIsSound(r)'
  <2>1. HasSafety(r)'
    BY <1>3, <1>4, <1>7 DEF HasSafety, Sound
  <2> QED BY <1>4, <1>7, <1>8, <1>9, <1>10, <2>1 DEF RestoreIsSound, Committed, PreMutation
<1>12. \A t \in Task : t.pc = "committed" /\ t.job = r => MutatesSoundly(t)'
  BY <1>4 DEF MutatesSoundly
<1>13. data' \in Nat
  BY <1>3, <1>6
<1> QED BY <1>1, <1>2, <1>3, <1>4, <1>5, <1>9, <1>10, <1>11, <1>12, <1>13, MutationGoesOn

\* The files are published or taken back.
LEMMA MediaKeeps ==
    ASSUME JobInv, NEW w \in Workers, ImportFails(w) \/ Undo(w)
    PROVE  JobInv'
<1>0. PICK u \in Task : /\ u = work[w] /\ Placed(u) /\ MutatesSoundly(u)
                        /\ u.pc \in {"import", "undo"}
  BY DEF JobInv, JobTypeOK, ImportFails, Undo, At
<1>1. work[w].pc \in OfRestore \cap Mutates /\ {"undo", "rolling", "doubt"} \subseteq OfRestore
  BY <1>0 DEF OfRestore, RestorePlace, Mutates
<1>2. PICK r \in Restores : r = R(w) /\ r = work[w].job
  BY <1>0, <1>1 DEF Placed, R
<1>3. restore[r].status = "RESTORING" /\ RestoreIsSound(r)
  BY <1>0, <1>2 DEF MutatesSoundly, JobInv
<1>4. UNCHANGED <<backup, object, data, restore, replaced>>
  BY DEF ImportFails, Undo, backupVars
<1>5. PICK place \in {"undo", "rolling", "doubt"} :
         /\ Go(w, place) \/ (\E e \in {"none", "lock", "other"} : Err(w, place, e))
         /\ \E m \in BOOLEAN : media' = [media EXCEPT ![r] = m] /\ (place = "rolling" => ~ m)
  <2>1. media[r] \in BOOLEAN /\ media = [media EXCEPT ![r] = media[r]]
    BY DEF JobInv, JobTypeOK
  <2>2. CASE ImportFails(w)
    BY <1>2, <2>1, <2>2 DEF ImportFails
  <2>3. CASE Undo(w)
    BY <1>2, <2>1, <2>3 DEF Undo
  <2> QED BY <2>2, <2>3
<1>6. /\ media' \in [Restores -> BOOLEAN] /\ (place = "rolling" => ~ media'[r])
      /\ \A x \in Restores \ {r} : media'[x] = media[x]
  BY <1>5 DEF JobInv, JobTypeOK
<1>7. Alone(w, r)
  BY <1>1, <1>2, MutatorsDiffer
<1>8. RestoreIsSound(r)'
  BY <1>3, <1>4, StaysSound DEF RestoreIsSound, Mutating
<1>9. \A t \in Task : t.pc = place /\ t.job = r => MutatesSoundly(t)'
  BY <1>3, <1>4, <1>6, <1>5 DEF MutatesSoundly
<1>10. /\ data' \in Nat /\ restore' \in [Restores -> Restore]
       /\ replaced' \in [Restores -> Seq(Nat)]
  BY <1>4 DEF JobInv, JobTypeOK
<1> QED BY <1>1, <1>2, <1>4, <1>5, <1>6, <1>7, <1>8, <1>9, <1>10, MutationGoesOn

\* What the restore shows at the end.
LEMMA OutcomeKeeps ==
    ASSUME JobInv, NEW w \in Workers,
           Finish(w) \/ FinishFails(w) \/ Rolling(w) \/ Rolled(w) \/ Doubt(w)
    PROVE  JobInv'
<1>0. PICK u \in Task : /\ u = work[w] /\ Placed(u) /\ MutatesSoundly(u)
                        /\ u.pc \in {"committed", "rolling", "rolled", "doubt"}
  BY DEF JobInv, JobTypeOK, Finish, FinishFails, Rolling, Rolled, Doubt, At
<1>1. work[w].pc \in OfRestore \cap Mutates /\ {"close", "rolled", "doubt"} \subseteq OfRestore
  BY <1>0 DEF OfRestore, RestorePlace, Mutates
<1>2. PICK r \in Restores : r = R(w) /\ r = work[w].job
  BY <1>0, <1>1 DEF Placed, R
<1>3. UNCHANGED <<backup, object, data, media, replaced>>
  BY DEF Finish, FinishFails, Rolling, Rolled, Doubt, backupVars, restoreVars
<1>4. RestoreIsSound(r)
  BY DEF JobInv
<1>5. Alone(w, r)
  BY <1>1, <1>2, MutatorsDiffer
<1>6. /\ data' \in Nat /\ media' \in [Restores -> BOOLEAN]
      /\ replaced' \in [Restores -> Seq(Nat)]
  BY <1>3 DEF JobInv, JobTypeOK
<1>7. ASSUME NEW place \in OfRestore,
             Go(w, place) \/ (\E e \in {"none", "lock", "other"} : Err(w, place, e)),
             restore' \in [Restores -> Restore], restore'[r].safety = restore[r].safety,
             \A x \in Restores \ {r} : restore'[x] = restore[x],
             \/ restore'[r].status = "SUCCEEDED" /\ restore[r].status = "VERIFYING" /\ place = "close"
             \/ /\ restore'[r].status = "ROLLING_BACK" /\ restore[r].status = "RESTORING"
                /\ ~ media[r] /\ place = "rolled"
             \/ /\ restore'[r].status = "ROLLED_BACK" /\ restore[r].status = "ROLLING_BACK"
                /\ place = "close"
             \/ restore'[r].status = "INDETERMINATE" /\ place = "close"
             \/ restore'[r].status = "VERIFYING" /\ restore[r].status = "VERIFYING" /\ place = "doubt"
      PROVE  JobInv'
  <2>1. RestoreIsSound(r)'
    BY <1>3, <1>4, <1>7, StaysSound DEF RestoreIsSound, Mutating
  <2>2. \A t \in Task : t.pc = place /\ t.job = r => MutatesSoundly(t)'
    BY <1>7 DEF MutatesSoundly
  <2> QED BY <1>1, <1>2, <1>3, <1>5, <1>6, <1>7, <2>1, <2>2, MutationGoesOn
<1>8. CASE Finish(w)
  <2>1. restore[r].status = "VERIFYING"
    BY <1>0, <1>2, <1>8 DEF MutatesSoundly, Finish, At
  <2>2. SetRestore(r, "SUCCEEDED") /\ Go(w, "close")
    BY <1>2, <1>8, <2>1 DEF Finish
  <2>3. /\ restore' \in [Restores -> Restore]
        /\ restore'[r].status = "SUCCEEDED" /\ restore'[r].safety = restore[r].safety
        /\ \A x \in Restores \ {r} : restore'[x] = restore[x]
    BY <2>2, RestoreIsSet DEF JobInv, RestoreStatus, Settled
  <2> QED BY <1>1, <1>7, <2>1, <2>2, <2>3
<1>9. CASE FinishFails(w)
  <2>1. restore[r].status = "VERIFYING"
    BY <1>0, <1>2, <1>9 DEF MutatesSoundly, FinishFails, At
  <2>2. UNCHANGED restore /\ Err(w, "doubt", "other")
    BY <1>9 DEF FinishFails, restoreVars
  <2>3. restore' \in [Restores -> Restore]
    BY <2>2 DEF JobInv, JobTypeOK
  <2> QED BY <1>1, <1>7, <2>1, <2>2, <2>3
<1>10. CASE Rolling(w)
  <2>1. restore[r].status = "RESTORING" /\ ~ media[r]
    BY <1>0, <1>2, <1>10 DEF MutatesSoundly, Rolling, At
  <2>2. /\ restore' = [restore EXCEPT ![r].status = "ROLLING_BACK", ![r].rollback = TRUE]
        /\ Go(w, "rolled")
    BY <1>2, <1>10, <2>1 DEF Rolling, InDoubt
  <2>3. PICK row : row = [restore[r] EXCEPT !.status = "ROLLING_BACK", !.rollback = TRUE]
    OBVIOUS
  <2>4. restore[r] \in Restore
    BY DEF JobInv, JobTypeOK
  <2>5. row \in Restore /\ row.status = "ROLLING_BACK" /\ row.safety = restore[r].safety
    BY <2>3, <2>4 DEF Restore, RestoreStatus, Mutating
  <2>6. restore' = [restore EXCEPT ![r] = row]
    BY <2>2, <2>3, <2>4 DEF Restore, JobInv, JobTypeOK
  <2>7. /\ restore' \in [Restores -> Restore] /\ restore'[r] = row
        /\ \A x \in Restores \ {r} : restore'[x] = restore[x]
    BY <2>5, <2>6 DEF JobInv, JobTypeOK
  <2> QED BY <1>1, <1>7, <2>1, <2>2, <2>5, <2>7
<1>11. CASE Rolled(w)
  <2>1. restore[r].status = "ROLLING_BACK"
    BY <1>0, <1>2, <1>11 DEF MutatesSoundly, Rolled, At
  <2>2. SetRestore(r, "ROLLED_BACK") /\ Go(w, "close")
    BY <1>2, <1>11, <2>1 DEF Rolled
  <2>3. /\ restore' \in [Restores -> Restore]
        /\ restore'[r].status = "ROLLED_BACK" /\ restore'[r].safety = restore[r].safety
        /\ \A x \in Restores \ {r} : restore'[x] = restore[x]
    BY <2>2, RestoreIsSet DEF JobInv, RestoreStatus, Settled
  <2> QED BY <1>1, <1>7, <2>1, <2>2, <2>3
<1>12. CASE Doubt(w)
  <2>1. restore[r].status \in {"RESTORING", "VERIFYING"}
    BY <1>0, <1>2, <1>12 DEF MutatesSoundly, Doubt, At
  <2>2. SetRestore(r, "INDETERMINATE") /\ Go(w, "close")
    BY <1>2, <1>12, <2>1 DEF Doubt, InDoubt
  <2>3. /\ restore' \in [Restores -> Restore]
        /\ restore'[r].status = "INDETERMINATE" /\ restore'[r].safety = restore[r].safety
        /\ \A x \in Restores \ {r} : restore'[x] = restore[x]
    BY <2>2, RestoreIsSet DEF JobInv, RestoreStatus, Settled
  <2> QED BY <1>1, <1>7, <2>1, <2>2, <2>3
<1> QED BY <1>8, <1>9, <1>10, <1>11, <1>12

\* A restore is asked for.
LEMMA AskKeeps ==
    ASSUME JobInv, NEW p \in Publishers, NEW r \in Restores, RequestRestore(p, r)
    PROVE  JobInv'
<1>1. /\ restore[r].status = "none" /\ SetRestore(r, "QUEUED")
      /\ UNCHANGED <<backup, object, work, data, media, replaced>>
  BY DEF RequestRestore, CreateRestore, backupVars
<1>2. /\ restore' \in [Restores -> Restore]
      /\ restore'[r].status = "QUEUED" /\ restore'[r].safety = restore[r].safety
      /\ \A x \in Restores \ {r} : restore'[x] = restore[x]
  BY <1>1, RestoreIsSet DEF JobInv, RestoreStatus
<1>3. JobTypeOK' /\ OneEach'
  BY <1>1, <1>2 DEF JobInv, JobTypeOK, OneEach
<1>4. ASSUME NEW w \in Workers
      PROVE  (Placed(work[w]) /\ RunsSoundly(work[w]) /\ MutatesSoundly(work[w]))'
  <2>1. PICK u \in Task : u = work[w] /\ Placed(u) /\ RunsSoundly(u) /\ MutatesSoundly(u)
    BY DEF JobInv, JobTypeOK
  <2>2. RunsSoundly(u)'
    BY <1>1, <2>1 DEF RunsSoundly
  <2>3. u.pc \in Mutates => u.job \in Restores \ {r}
    BY <1>1, <2>1 DEF MutatesSoundly, Mutates, Placed, OfRestore, RestorePlace
  <2>4. MutatesSoundly(u)'
    BY <1>1, <1>2, <2>1, <2>3 DEF MutatesSoundly, Mutates
  <2> QED BY <1>1, <2>1, <2>2, <2>4
<1>5. \A b \in Backups : BackupIsSound(b)'
  BY <1>1 DEF JobInv, BackupIsSound
<1>6. ASSUME NEW x \in Restores
      PROVE  RestoreIsSound(x)'
  <2>1. RestoreIsSound(x)
    BY DEF JobInv
  <2>2. HasSafety(x) => HasSafety(x)'
    BY <1>1, <1>2 DEF HasSafety, Sound
  <2> QED BY <1>1, <1>2, <2>1, <2>2 DEF RestoreIsSound, Committed, PreMutation
<1> QED BY <1>3, <1>4, <1>5, <1>6 DEF JobInv

-----------------------------------------------------------------------------
(* The theorems.                                                           *)

LEMMA JobsStart ==
    ASSUME Init
    PROVE  JobInv
<1>1. Idle \in Task /\ Idle.pc = "idle" /\ Idle.sub = None /\ ~ Idle.stored /\ ~ Idle.kept
  BY DEF Idle, Task, BackupPlace
<1>2. work = [w \in Workers |-> Idle]
  BY DEF Init, BackupInit
<1>3. JobTypeOK
  <2>1. [status |-> "none", integrity |-> "NOT_CHECKED", meta |-> FALSE, parent |-> None,
         held |-> -1] \in Backup
    BY DEF Backup, Integrity
  <2>2. [status |-> "none", code |-> "none", safety |-> None, rollback |-> FALSE] \in Restore
    BY DEF Restore
  <2>3. << >> \in Seq(Nat)
    OBVIOUS
  <2> QED BY <1>1, <1>2, <2>1, <2>2, <2>3 DEF Init, BackupInit, JobTypeOK
<1>4. OneEach
  BY <1>1, <1>2 DEF OneEach, Claimed, Running, Mutates
<1>5. Placed(Idle) /\ RunsSoundly(Idle) /\ MutatesSoundly(Idle)
  BY <1>1 DEF Placed, OfBackup, OfEither, OfBoth, OfRestore, Fresh, Running, RestorePlace,
              RunsSoundly, MutatesSoundly, Claimed
<1>6. \A b \in Backups : BackupIsSound(b)
  BY DEF Init, BackupInit, BackupIsSound
<1>7. \A r \in Restores : RestoreIsSound(r)
  <2>1. Len(<< >>) = 0
    OBVIOUS
  <2> QED BY <2>1 DEF Init, RestoreIsSound, Committed, PreMutation
<1> QED BY <1>2, <1>3, <1>4, <1>5, <1>6, <1>7 DEF JobInv

LEMMA JobsGoOn ==
    ASSUME JobInv, [Next]_vars
    PROVE  JobInv'
<1>0. data \in Nat
  BY DEF JobInv, JobTypeOK
<1>1. CASE BackupNext /\ UNCHANGED restoreVars
  BY <1>1, BackupStepKeeps
<1>2. CASE \E p \in Publishers : (\E r \in Restores : RequestRestore(p, r)) \/ RestoreReconcile(p)
  <2>1. CASE \E p \in Publishers, r \in Restores : RequestRestore(p, r)
    BY <2>1, AskKeeps
  <2>2. CASE \E p \in Publishers, r \in Restores : ReconcileRestore(p, r)
    BY <2>2, <1>0, Unmoved DEF ReconcileRestore, backupVars, restoreVars
  <2> QED BY <1>2, <2>1, <2>2 DEF RestoreReconcile
<1>3. CASE \E w \in Workers : RestoreReceipt(w)
  <2>1. PICK w \in Workers, r \in Restores, n \in 0 .. Retries : ReceiveRestore(w, r, n)
    BY <1>3 DEF RestoreReceipt
  <2>2. r \in Jobs /\ n \in Nat
    BY JobConstants DEF Jobs
  <2> QED BY <2>1, <2>2, ReceiptKeeps DEF ReceiveRestore, backupVars, restoreVars
<1>4. CASE \E w \in Workers : RestoreExecution(w) \/ StopRestore(w)
  <2>1. PICK w \in Workers : RestoreExecution(w) \/ StopRestore(w)
    BY <1>4
  <2> QED BY <2>1, ClaimKeeps, WayKeeps, AnswerKeeps, BreakKeeps, NewSafetyKeeps, LinkKeeps,
             BeginKeeps, ImportKeeps, MediaKeeps, OutcomeKeeps DEF RestoreExecution
<1>5. CASE WriteData
  <2>1. data' \in Nat /\ UNCHANGED <<backup, object, work, restore, media, replaced>>
    BY <1>0, <1>5 DEF WriteData, backupVars, restoreVars
  <2> QED BY <2>1, Unmoved
<1>6. CASE UNCHANGED vars
  BY <1>0, <1>6, Unmoved DEF vars, backupVars, restoreVars
<1> QED BY <1>1, <1>2, <1>3, <1>4, <1>5, <1>6 DEF Next

\* Of all tasks, backups and restores: where a worker is tells the status of what it
\* works on, one worker has claimed it, and its status tells what there is
\* (engine/runtime.py, engine/restore_mutation.py).
THEOREM JobInvariant == Spec => []JobInv
BY JobsStart, JobsGoOn, PTL DEF Spec

\* A backup is executed by one worker and a restore replaces the data once, whatever
\* comes twice, dies or runs out (transition_backup, claim_restore_operation).
THEOREM JobsRunOnce == Spec => []RunOnce
<1>1. JobInv => RunOnce
  <2> SUFFICES ASSUME JobInv PROVE RunOnce
    OBVIOUS
  <2>1. \A w \in Workers : work[w].pc \in Claimed => Mine(w) = Of(work[w])
    BY DEF Mine, Of
  <2>2. OneRunner
    BY <2>1 DEF JobInv, OneEach, OneRunner, Claimed
  <2>3. MutatedOnce
    <3>1. \A r \in Restores : Len(replaced[r]) \in {0, 1}
      BY DEF JobInv, RestoreIsSound
    <3>2. \A n \in {0, 1} : n <= 1
      OBVIOUS
    <3> QED BY <3>1, <3>2 DEF MutatedOnce
  <2> QED BY <2>2, <2>3 DEF RunOnce
<1> QED BY <1>1, JobInvariant, PTL

\* The status of a backup and of a restore tells what became of the object, the data
\* and the files (engine/runtime.py:1145-1193, engine/restore_mutation.py).
THEOREM JobStatusesAreTrue == Spec => []StatusesAreTrue
<1>1. JobInv => StatusesAreTrue
  <2> SUFFICES ASSUME JobInv PROVE StatusesAreTrue
    OBVIOUS
  <2>1. SucceededIsSound
    BY DEF JobInv, BackupIsSound, SucceededIsSound
  <2>2. StatusTellsData
    BY DEF JobInv, RestoreIsSound, StatusTellsData
  <2> QED BY <2>1, <2>2 DEF StatusesAreTrue
<1> QED BY <1>1, JobInvariant, PTL

\* No data is replaced before a verified safety backup of this restore is in the store
\* (BACKUPS_PHASE3B.md:22; engine/restore_mutation.py).
THEOREM SafetyBackupComesFirst == Spec => []SafetyFirst
<1>1. JobInv => SafetyFirst
  <2> SUFFICES ASSUME JobInv, NEW r \in Restores, Committed(r)
               PROVE  LET b == restore[r].safety
                      IN  b # None /\ Sound(b) /\ backup[b].parent = r /\ object[b] = 1
    BY DEF SafetyFirst
  <2>1. PICK b \in Backups \cup {None} : b = restore[r].safety
    BY DEF JobInv, JobTypeOK, Restore
  <2>2. b # None /\ Sound(b) /\ backup[b].parent = r
    BY <2>1 DEF JobInv, RestoreIsSound, HasSafety
  <2>3. object[b] = 1
    BY <2>1, <2>2 DEF JobInv, BackupIsSound, Sound
  <2> QED BY <2>1, <2>2, <2>3
<1> QED BY <1>1, JobInvariant, PTL
=============================================================================
