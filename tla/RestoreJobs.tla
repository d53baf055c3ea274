------------------------------ MODULE RestoreJobs ------------------------------
(***************************************************************************)
(* Restores of one business beside its backups: the claim of the task      *)
(* (apps/backups/restore_execution.py, tasks.py), the preflight and the    *)
(* mutation under the tenant lease (engine/restore_preflight.py,           *)
(* engine/restore_mutation.py), with the safety backup that each makes.    *)
(*                                                                         *)
(* The backup to restore is given and stays as it is.  The engine runs on  *)
(* SQLite, whose write transaction excludes all other writers: the import, *)
(* its verification and the transition to VERIFYING are one step, beside   *)
(* which only the media files can be left.  The data of the business is a  *)
(* generation that every write and every import increments.                *)
(***************************************************************************)
EXTENDS BackupJobs, Sequences

CONSTANT MostWrites     \* bound: generations the business itself writes

ASSUME RestoreConstants == MostWrites \in Nat

VARIABLES
    restore,    \* RestoreOperation
    media,      \* per restore: files published and not rolled back
    replaced    \* history: generations of the data that each restore replaced

restoreVars == <<restore, media, replaced>>
vars == <<backupVars, dispatchVars, work, lease, data, faults, restoreVars>>

PreMutation == {"AUTHORIZING", "LOCKING", "SAFETY_BACKUP", "VALIDATING"}
Mutating == {"RESTORING", "VERIFYING", "ROLLING_BACK"}
Settled == {"SUCCEEDED", "FAILED", "ROLLED_BACK", "INDETERMINATE"}
RestoreStatus == {"QUEUED"} \cup PreMutation \cup Mutating \cup Settled
\* Every failure code of a restore begins with pre_mutation_.
Restore == [status : RestoreStatus \cup {"none"}, code : {"none", "lock", "other", "exhausted"},
            safety : Backups \cup {None}, rollback : BOOLEAN]
RestorePlace == {"misfit", "take", "preflight", "examine", "enter", "locking", "secure",
                 "locked", "safety", "link", "secured", "valid", "import",
                 "committed", "undo", "rolling", "rolled", "doubt", "rfail", "close", "answer"}

R(w) == work[w].job
SetRestore(r, s) == restore' = [restore EXCEPT ![r].status = s]
FailRestore(r, c) == restore' = [restore EXCEPT ![r].status = "FAILED", ![r].code = c]
Err(w, place, e) == work' = [work EXCEPT ![w].pc = place, ![w].err = e]
Sound(b) == backup[b].status = "SUCCEEDED" /\ backup[b].integrity = "VERIFIED"

(***************************************************************************)
(* Request, dispatch and claim.                                            *)
(***************************************************************************)
\* create_restore_request: one record for each idempotency key.
CreateRestore(r) == restore[r].status = "none" /\ SetRestore(r, "QUEUED")

RequestRestore(p, r) ==
    /\ Free(p) /\ CreateRestore(r)
    /\ journal' = [journal EXCEPT ![r].intent = TRUE]
    /\ Pub(p, "begin", r, 0)
    /\ UNCHANGED <<backupVars, queue, work, lease, data, faults, media, replaced>>

RestoreEligible(r) ==
    /\ restore[r].status = "QUEUED" /\ restore[r].safety = None /\ ~restore[r].rollback
    /\ Redispatchable(r)
ReconcileRestore(p, r) ==
    /\ Free(p) /\ RestoreEligible(r) /\ Pub(p, "begin", r, 0)
    /\ UNCHANGED <<backupVars, journal, queue, work, lease, data, faults, restoreVars>>

\* A message is dropped when the restore is active, done or in doubt.
ReceiveRestore(w, r, n) ==
    /\ Taken(w, r, n)
    /\ IF restore[r].status \in {"QUEUED", "FAILED", "ROLLED_BACK"}
       THEN \E place \in {"take", "misfit"} : Working(w, place, r, n)
       ELSE UNCHANGED work
    /\ UNCHANGED <<backupVars, journal, pub, lease, data, faults, restoreVars>>

\* A worker whose configuration or providers are unsafe fails the restore,
\* whatever has become of it before its mutation.
Unmutated(r) == restore[r].status \in {"QUEUED"} \cup PreMutation
Misfit(w) ==
    /\ At(w, "misfit") /\ Rest(w)
    /\ IF Unmutated(R(w)) THEN FailRestore(R(w), "other") ELSE UNCHANGED restore
    /\ UNCHANGED <<backupVars, dispatchVars, lease, data, faults, media, replaced>>

\* A queued restore is claimed, and one that failed before its mutation again.
Restartable(r) ==
    restore[r].status = "FAILED" /\ restore[r].code # "none" /\ ~restore[r].rollback
Claimable(r) == restore[r].status = "QUEUED" \/ Restartable(r)
Authorized(r) ==
    restore' = [restore EXCEPT ![r].status = "AUTHORIZING", ![r].code = "none"]
Take(w) ==
    /\ At(w, "take")
    /\ IF Claimable(R(w)) THEN Authorized(R(w)) /\ Go(w, "preflight")
       ELSE Rest(w) /\ UNCHANGED restore
    /\ UNCHANGED <<backupVars, dispatchVars, lease, data, faults, media, replaced>>

(***************************************************************************)
(* Preflight, under a lease of its own.                                    *)
(***************************************************************************)
Preflight(w) ==
    /\ At(w, "preflight")
    /\ IF Available THEN Acquire(w, R(w)) /\ Go(w, "examine")
       ELSE Err(w, "answer", "lock") /\ UNCHANGED lease
    /\ UNCHANGED <<backupVars, dispatchVars, data, faults, restoreVars>>
Checked(w) ==
    /\ At(w, "examine") /\ Release(w)
    /\ \/ Alive(w) /\ Go(w, "enter")
       \/ Err(w, "answer", "other")
    /\ UNCHANGED <<backupVars, dispatchVars, data, faults, restoreVars>>

\* A worker that is told to stop before the execution leaves the status as it is.
StopRestore(w) ==
    /\ work[w].pc \in {"preflight", "examine", "enter"} /\ Fault
    /\ Rest(w) /\ Release(w)
    /\ UNCHANGED <<backupVars, dispatchVars, data, restoreVars>>

(***************************************************************************)
(* The execution, up to the mutation.                                      *)
(***************************************************************************)
Enter(w) ==
    /\ At(w, "enter")
    /\ \/ /\ restore[R(w)].status = "AUTHORIZING" \/ Restartable(R(w))
          /\ Authorized(R(w)) /\ Go(w, "locking")
       \/ Err(w, "answer", "other") /\ UNCHANGED restore
    /\ UNCHANGED <<backupVars, dispatchVars, lease, data, faults, media, replaced>>

\* A step of the restore to its next status.
Step(w, from, to, place, ok) ==
    IF ok /\ restore[R(w)].status = from THEN SetRestore(R(w), to) /\ Go(w, place)
    ELSE Err(w, "rfail", "other") /\ UNCHANGED restore

Locking(w) ==
    /\ At(w, "locking") /\ Step(w, "AUTHORIZING", "LOCKING", "secure", TRUE)
    /\ UNCHANGED <<backupVars, dispatchVars, lease, data, faults, media, replaced>>
Secure(w) ==
    /\ At(w, "secure")
    /\ IF Available THEN Acquire(w, R(w)) /\ Go(w, "locked")
       ELSE Err(w, "rfail", "lock") /\ UNCHANGED lease
    /\ UNCHANGED <<backupVars, dispatchVars, data, faults, restoreVars>>
NoSafety(w) ==
    /\ At(w, "locked") /\ Step(w, "LOCKING", "VALIDATING", "valid", Alive(w))
    /\ UNCHANGED <<backupVars, dispatchVars, lease, data, faults, media, replaced>>
ToSafety(w) ==
    /\ At(w, "locked") /\ Step(w, "LOCKING", "SAFETY_BACKUP", "safety", Alive(w))
    /\ UNCHANGED <<backupVars, dispatchVars, lease, data, faults, media, replaced>>

\* A safety backup that is linked and sound is taken again, else a new one is
\* made.
HasSafety(r) == /\ restore[r].safety # None /\ Sound(restore[r].safety)
                /\ backup[restore[r].safety].parent = r
OldSafety(w) ==
    /\ At(w, "safety") /\ HasSafety(R(w)) /\ Go(w, "secured")
    /\ UNCHANGED <<backupVars, dispatchVars, lease, data, faults, restoreVars>>
NewSafety(w) ==
    /\ At(w, "safety") /\ ~HasSafety(R(w))
    /\ \E b \in Backups :
         /\ CreateBackup(b, R(w))
         /\ work' = [work EXCEPT ![w].pc = "inherit", ![w].sub = b]
    /\ UNCHANGED <<object, dispatchVars, lease, data, faults, restoreVars>>
Secured(w) == work' = [work EXCEPT ![w].pc = "secured", ![w].sub = None,
                                   ![w].stored = FALSE, ![w].kept = FALSE]
Link(w) ==
    LET b == work[w].sub IN
    /\ At(w, "link")
    /\ IF Sound(b) /\ backup[b].meta
       THEN /\ restore' = [restore EXCEPT ![R(w)].safety = b]
            /\ Secured(w)
       ELSE GiveUp(w) /\ UNCHANGED restore
    /\ UNCHANGED <<backupVars, dispatchVars, lease, data, faults, media, replaced>>

Validate(w) ==
    /\ At(w, "secured")
    /\ Step(w, "SAFETY_BACKUP", "VALIDATING", "valid", Alive(w) /\ HasSafety(R(w)))
    /\ UNCHANGED <<backupVars, dispatchVars, lease, data, faults, media, replaced>>
BeginMutation(w) ==
    /\ At(w, "valid") /\ Step(w, "VALIDATING", "RESTORING", "import", Alive(w))
    /\ UNCHANGED <<backupVars, dispatchVars, lease, data, faults, media, replaced>>

BreakRestore(w) ==
    /\ work[w].pc \in {"locking", "locked", "safety", "link", "secured", "valid"}
    /\ work' = [work EXCEPT ![w] = [Idle EXCEPT !.pc = "rfail", !.job = R(w), !.tries = work[w].tries]]
    /\ UNCHANGED <<backupVars, dispatchVars, lease, data, faults, restoreVars>>

(***************************************************************************)
(* The mutation, and what becomes of one that fails.                       *)
(***************************************************************************)
\* Either all of it commits, or nothing but files may be left.
Import(w) ==
    /\ At(w, "import") /\ restore[R(w)].status = "RESTORING"
    /\ SetRestore(R(w), "VERIFYING") /\ Go(w, "committed")
    /\ data' = data + 1
    /\ replaced' = [replaced EXCEPT ![R(w)] = Append(@, data)]
    /\ media' = [media EXCEPT ![R(w)] = TRUE]
    /\ UNCHANGED <<backupVars, dispatchVars, lease, faults>>
ImportFails(w) ==
    /\ At(w, "import") /\ Err(w, "undo", "other")
    /\ \E m \in {TRUE, media[R(w)]} : media' = [media EXCEPT ![R(w)] = m]
    /\ UNCHANGED <<backupVars, dispatchVars, lease, data, faults, restore, replaced>>

\* After the commit the restore succeeds, or is in doubt.
Finish(w) ==
    /\ At(w, "committed")
    /\ IF restore[R(w)].status = "VERIFYING" THEN SetRestore(R(w), "SUCCEEDED") /\ Go(w, "close")
       ELSE Err(w, "doubt", "other") /\ UNCHANGED restore
    /\ UNCHANGED <<backupVars, dispatchVars, lease, data, faults, media, replaced>>
FinishRollsBack(w) ==
    /\ At(w, "committed") /\ Err(w, "undo", "other")
    /\ UNCHANGED <<backupVars, dispatchVars, lease, data, faults, restoreVars>>
FinishFails(w) ==
    /\ At(w, "committed") /\ Err(w, "doubt", "other")
    /\ UNCHANGED <<backupVars, dispatchVars, lease, data, faults, restoreVars>>

\* The files of a failed import are taken back, unless that fails too.
Undo(w) ==
    /\ At(w, "undo")
    /\ \/ media' = [media EXCEPT ![R(w)] = FALSE] /\ Go(w, "rolling")
       \/ Go(w, "doubt") /\ UNCHANGED media
    /\ UNCHANGED <<backupVars, dispatchVars, lease, data, faults, restore, replaced>>

InDoubt(r) == restore[r].status \in {"RESTORING", "VERIFYING", "FAILED"}
Rolling(w) ==
    /\ At(w, "rolling") /\ Go(w, "rolled")
    /\ IF InDoubt(R(w))
       THEN restore' = [restore EXCEPT ![R(w)].status = "ROLLING_BACK", ![R(w)].rollback = TRUE]
       ELSE UNCHANGED restore
    /\ UNCHANGED <<backupVars, dispatchVars, lease, data, faults, media, replaced>>
Rolled(w) ==
    /\ At(w, "rolled") /\ Go(w, "close")
    /\ IF restore[R(w)].status = "ROLLING_BACK" THEN SetRestore(R(w), "ROLLED_BACK")
       ELSE UNCHANGED restore
    /\ UNCHANGED <<backupVars, dispatchVars, lease, data, faults, media, replaced>>
Doubt(w) ==
    /\ At(w, "doubt") /\ Go(w, "close")
    /\ IF InDoubt(R(w)) THEN SetRestore(R(w), "INDETERMINATE") ELSE UNCHANGED restore
    /\ UNCHANGED <<backupVars, dispatchVars, lease, data, faults, media, replaced>>

\* A failure before the mutation.
RestoreFails(w) ==
    LET e == IF work[w].err = "none" THEN "other" ELSE work[w].err IN
    /\ At(w, "rfail") /\ Err(w, "close", e)
    /\ IF restore[R(w)].status \in PreMutation THEN FailRestore(R(w), e) ELSE UNCHANGED restore
    /\ UNCHANGED <<backupVars, dispatchVars, lease, data, faults, media, replaced>>

Close(w) ==
    /\ At(w, "close") /\ Release(w)
    /\ IF work[w].err = "none" THEN Rest(w) ELSE Go(w, "answer")
    /\ UNCHANGED <<backupVars, dispatchVars, data, faults, restoreVars>>

(***************************************************************************)
(* What the task makes of an error: it marks a restore that is not marked  *)
(* yet, and tries again if the lease was refused.                          *)
(***************************************************************************)
Answer(w) ==
    /\ At(w, "answer") /\ work[w].err = "other" /\ Rest(w)
    /\ IF restore[R(w)].status \in PreMutation THEN FailRestore(R(w), "other")
       ELSE UNCHANGED restore
    /\ UNCHANGED <<backupVars, dispatchVars, lease, data, faults, media, replaced>>
RetryRestore(w) ==
    /\ At(w, "answer") /\ work[w].err = "lock" /\ work[w].tries < Retries /\ Rest(w)
    /\ IF Unmutated(R(w)) THEN FailRestore(R(w), "lock") ELSE UNCHANGED restore
    /\ Again(w, R(w), work[w].tries)
    /\ UNCHANGED <<backupVars, journal, pub, lease, data, media, replaced>>
Exhaust(w) ==
    /\ At(w, "answer") /\ work[w].err = "lock" /\ work[w].tries = Retries /\ Rest(w)
    /\ IF \/ Unmutated(R(w))
          \/ restore[R(w)].status = "FAILED" /\ ~restore[R(w)].rollback
       THEN FailRestore(R(w), "exhausted") ELSE UNCHANGED restore
    /\ UNCHANGED <<backupVars, dispatchVars, lease, data, faults, media, replaced>>

\* The business writes its data, except while a restore is under way: tenant
\* writes are stopped for it (BACKUPS_PHASE3I.md:626).
WriteData ==
    /\ data < MostWrites
    /\ \A r \in Restores : restore[r].status \in Settled \cup {"none"}
    /\ data' = data + 1
    /\ UNCHANGED <<backupVars, dispatchVars, work, lease, faults, restoreVars>>

(***************************************************************************)
(* Specification.                                                          *)
(***************************************************************************)
Init ==
    /\ BackupInit
    /\ restore = [r \in Restores |-> [status |-> "none", code |-> "none",
                                      safety |-> None, rollback |-> FALSE]]
    /\ media = [r \in Restores |-> FALSE]
    /\ replaced = [r \in Restores |-> <<>>]

RestoreReceipt(w) == \E r \in Restores, n \in 0 .. Retries : ReceiveRestore(w, r, n)
RestoreReconcile(p) == \E r \in Restores : ReconcileRestore(p, r)
RestoreExecution(w) ==
    \/ Misfit(w) \/ Take(w) \/ Preflight(w) \/ Checked(w) \/ Enter(w) \/ Locking(w)
    \/ Secure(w) \/ ToSafety(w) \/ OldSafety(w) \/ NewSafety(w) \/ Link(w) \/ Validate(w)
    \/ BeginMutation(w) \/ BreakRestore(w) \/ Import(w) \/ ImportFails(w) \/ Finish(w)
    \/ FinishFails(w) \/ Undo(w) \/ Rolling(w) \/ Rolled(w) \/ Doubt(w) \/ RestoreFails(w)
    \/ Close(w) \/ Answer(w) \/ RetryRestore(w) \/ Exhaust(w)

Next ==
    \/ BackupNext /\ UNCHANGED restoreVars
    \/ \E p \in Publishers : (\E r \in Restores : RequestRestore(p, r)) \/ RestoreReconcile(p)
    \/ \E w \in Workers : RestoreReceipt(w) \/ RestoreExecution(w) \/ StopRestore(w)
    \/ WriteData

\* Workers take their messages and go on, publishers finish what they dispatch,
\* and the beat task looks for queued jobs again and again.
Reconcile == \E p \in Publishers :
    (BackupReconcile(p) /\ UNCHANGED restoreVars) \/ RestoreReconcile(p)
WorkerStep(w) ==
    \/ (BackupReceipt(w) \/ Execution(w)) /\ UNCHANGED restoreVars
    \/ RestoreReceipt(w)
    \/ RestoreExecution(w)
Fairness ==
    /\ WF_vars(Reconcile)
    /\ \A p \in Publishers : WF_vars(PublisherStep(p) /\ UNCHANGED restoreVars)
    /\ \A w \in Workers : WF_vars(WorkerStep(w))
Spec == Init /\ [][Next]_vars
FairSpec == Spec /\ Fairness

(***************************************************************************)
(* Properties.                                                             *)
(***************************************************************************)
\* Every record keeps its shape and every status is one its table has.
TypeOK ==
    /\ backup \in [Backups -> Backup] /\ object \in [Backups -> Nat]
    /\ journal \in [Jobs -> Journal] /\ queue \in [Jobs -> [0 .. Retries -> Nat]]
    /\ pub \in [Publishers -> Dispatch]
    /\ \A w \in Workers :
         /\ work[w].pc \in BackupPlace \cup RestorePlace
         /\ work[w].job \in Jobs \cup {None} /\ work[w].sub \in Backups \cup {None}
         /\ work[w].sub # None => work[w].job \in Restores
         /\ work[w].pc # "idle" => work[w].job # None
    /\ lease \in Lease /\ data \in Nat /\ faults \in 0 .. MostFaults
    /\ restore \in [Restores -> Restore] /\ media \in [Restores -> BOOLEAN]
    /\ replaced \in [Restores -> Seq(Nat)]

\* A backup that SUCCEEDED is one somebody can restore from: its one object is in
\* the store, its key in the row and its integrity verified, whatever raised, died or
\* ran twice on the way (engine/runtime.py:1145-1193).
SucceededIsSound == \A b \in Backups :
    backup[b].status = "SUCCEEDED" =>
        backup[b].integrity = "VERIFIED" /\ backup[b].meta /\ object[b] = 1

\* A backup is executed by one worker, even if its message comes twice and the lease
\* under which the first one works runs out (the claim in transition_backup).
OneRunner == \A v, w \in Workers :
    v # w /\ work[v].pc \in Running \ {"claim"} /\ work[w].pc \in Running \ {"claim"}
        => Mine(v) # Mine(w)

\* However often its message comes, a restore replaces the data of the business once
\* (claim_restore_operation, "Claim one restore exactly once").
MutatedOnce == \A r \in Restores : Len(replaced[r]) <= 1

\* What the owner reads is what became of the data: a restore that shows success has
\* replaced data and files, one that failed or was rolled back has left both alone;
\* only INDETERMINATE and a worker that died in the middle leave it open.
Committed(r) == Len(replaced[r]) > 0
StatusTellsData == \A r \in Restores :
    /\ restore[r].status \in {"VERIFYING", "SUCCEEDED"} => Committed(r) /\ media[r]
    /\ restore[r].status \in {"QUEUED", "FAILED", "ROLLED_BACK"} \cup PreMutation
        => ~Committed(r) /\ ~media[r]

\* Workers, messages and leases that come twice neither run a backup nor change the
\* data of a restore twice.
RunOnce == OneRunner /\ MutatedOnce

\* The status of a backup and of a restore tells what there is in the store, in the
\* database and on the disk.
StatusesAreTrue == SucceededIsSound /\ StatusTellsData

\* No data is replaced before a verified safety backup of this restore is in the store
\* (BACKUPS_PHASE3B.md:22).
SafetyFirst == \A r \in Restores : Committed(r) =>
    LET b == restore[r].safety
    IN  b # None /\ Sound(b) /\ backup[b].parent = r /\ object[b] = 1

\* ... and what it holds is the data that is replaced (BACKUPS_PHASE3B.md:22, "of the
\* current tenant state").
SafetyBackupIsCurrent == \A r \in Restores :
    Committed(r) => backup[restore[r].safety].held = replaced[r][1]

\* Every backup and restore that was asked for ends, unless a process died, a message
\* was lost or a lease ran out, or the broker took none of the attempts: a refused
\* lease, a failed publication or a second message never leaves it waiting.
Answered(j) == IF j \in Backups THEN backup[j].status \in {"SUCCEEDED", "FAILED"}
               ELSE restore[j].status \in Settled
EveryRequestIsAnswered == []<>(\A j \in Jobs : journal[j].intent =>
    \/ Answered(j) \/ faults > 0
    \/ journal[j].attempts = Total /\ ~journal[j].confirmed)
=============================================================================
