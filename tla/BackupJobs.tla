------------------------------ MODULE BackupJobs ------------------------------
(***************************************************************************)
(* Backups of one business, from the request to the durable object: the    *)
(* dispatch journal and its reconciliation (apps/backups/dispatch.py,      *)
(* reconciliation.py), the Celery task (tasks.py) and the execution under  *)
(* the tenant lease (engine/runtime.py).                                   *)
(*                                                                         *)
(* One step is one transaction, with what the process computes before the  *)
(* next one; a heartbeat, or a look at a row, and the transition right     *)
(* after it are one step.  What a stage makes in the workspace is left out;*)
(* it may raise at any point (Break).  A worker or publisher may die       *)
(* between any two steps; messages are acknowledged when they are received.*)
(*                                                                         *)
(* A definition that no other one uses, just before one of the same shape, *)
(* is the slip that a property has to find out.                            *)
(***************************************************************************)
EXTENDS Integers

CONSTANTS
    Holders,                    \* processes that take the lease of the business
    Operations,                 \* what they take it for
    Nobody,                     \* the holder of a lease whose process has died
    NoOperation,                \* what a business without lease does
    Backups, Restores,          \* identities of records
    Wanted,                     \* bound: the backups somebody asks for
    Publishers, Workers,        \* processes
    None,                       \* no record
    Immediate, Total, Retries,  \* bounds of the settings and of the task
    MostFaults                  \* bound: deaths, lost messages and leases run out

ASSUME LeaseConstants == Nobody \notin Holders

ASSUME JobConstants ==
    /\ Immediate \in Nat \ {0} /\ Total \in Nat \ {0} /\ Retries \in Nat
    /\ MostFaults \in Nat
    /\ None \notin Backups \cup Restores /\ Backups \cap Restores = {} /\ Wanted \subseteq Backups
    /\ Workers \subseteq Holders /\ Backups \cup Restores \subseteq Operations

VARIABLES
    lease,      \* TenantOperationLock, the active row: holder, operation, run out or not
    backup,     \* BackupRecord
    object,     \* per backup: how many objects the durable store has
    journal,    \* per job: what BackupActivity says of its dispatch
    queue,      \* per job and retry count: messages in the broker
    pub,        \* per publisher: the dispatch it is in
    work,       \* per worker: the task it is in
    data,       \* generation of the business's data
    faults      \* how many faults there have been

backupVars == <<backup, object>>
dispatchVars == <<journal, queue, pub>>

-----------------------------------------------------------------------------
(* The exclusive lease under which backups, restores and restore preflights*)
(* run: the functions of apps/backups/services.py that write it.  A process*)
(* holds one handle at a time, so the holder stands for the lock token; one*)
(* that dies leaves its row to Nobody.  A lease that has run out stays     *)
(* active until somebody else acquires.                                    *)

NoLease == [holder |-> Nobody, op |-> NoOperation, expired |-> TRUE]
Lease == {NoLease} \cup
         [holder : Holders \cup {Nobody}, op : Operations, expired : BOOLEAN]

\* The partial unique constraint lets one row be active; acquiring retires a
\* row that has run out first.
Available == lease.expired
Acquire(p, o) == lease' = [holder |-> p, op |-> o, expired |-> FALSE]

\* A heartbeat extends a lease that is still active and has not run out.
Owns(p) == lease.holder = p
Alive(p) == Owns(p) /\ ~lease.expired

\* A release by its token retires the row, run out or not.
Released(p) == IF Owns(p) THEN NoLease ELSE lease
Release(p) == lease' = Released(p)
Abandoned(p) == IF Owns(p) THEN [lease EXCEPT !.holder = Nobody] ELSE lease

\* A row of this operation that is marked active, run out or not.
Marked(o) == lease.op = o

Expire == ~lease.expired /\ lease' = [lease EXCEPT !.expired = TRUE]

-----------------------------------------------------------------------------
(* Records, messages and processes                                         *)

Jobs == Backups \cup Restores

Stages == <<"QUEUED", "PREPARING", "SNAPSHOTTING", "PACKAGING", "UPLOADING",
            "VERIFYING", "SUCCEEDED">>
BackupStatus == {Stages[i] : i \in 1 .. 7} \cup {"FAILED"}
Transitional == {Stages[i] : i \in 1 .. 6}
Integrity == {"NOT_CHECKED", "VERIFYING", "VERIFIED", "FAILED"}
Backup == [status : BackupStatus \cup {"none"}, integrity : Integrity, meta : BOOLEAN,
           parent : Restores \cup {None}, held : Nat \cup {-1}]

Journal == [intent : BOOLEAN, attempts : Nat, confirmed : BOOLEAN, refused : BOOLEAN]
Dispatch == [pc : {"idle", "begin", "send", "confirm"}, job : Jobs \cup {None},
             left : 0 .. Immediate]
NoDispatch == [pc |-> "idle", job |-> None, left |-> 0]

\* What a worker is at: a received backup, the stages and the end of a backup.
Running == {"claim", "PREPARING", "SNAPSHOTTING", "PACKAGING", "UPLOADING",
            "VERIFYING", "checking", "verified", "after"}
BackupPlace == Running \cup {"idle", "block", "lock", "refused", "inherit", "fail",
                             "mark", "sink", "drop", "done"}
\* The job of the message and, in a restore, the safety backup it runs.
Idle == [pc |-> "idle", job |-> None, sub |-> None, tries |-> 0,
         stored |-> FALSE, kept |-> FALSE, err |-> "none"]

(***************************************************************************)
(* Transitions.  Each re-reads the row and writes it only if its status is *)
(* still the one it read.                                                  *)
(***************************************************************************)
CanMove(from, to) ==
    \/ to = "FAILED" /\ from \in Transitional
    \/ \E i \in 1 .. 6 : from = Stages[i] /\ to = Stages[i + 1]
CanMark(from, to) ==
    \/ to = "VERIFYING" /\ from \in {"NOT_CHECKED", "FAILED"}
    \/ to = "VERIFIED" /\ from = "VERIFYING"
    \/ to = "FAILED" /\ from \in {"NOT_CHECKED", "VERIFYING"}
SetStatus(b, s) == backup' = [backup EXCEPT ![b].status = s]
SetIntegrity(b, i) == backup' = [backup EXCEPT ![b].integrity = i]

Fault == faults < MostFaults /\ faults' = faults + 1
Go(w, place) == work' = [work EXCEPT ![w].pc = place]
Rest(w) == work' = [work EXCEPT ![w] = Idle]
At(w, place) == work[w].pc = place
GiveUp(w) == work' = [work EXCEPT ![w].pc = "rfail", ![w].sub = None,
                                  ![w].stored = FALSE, ![w].kept = FALSE]
Mine(w) == IF work[w].sub = None THEN work[w].job ELSE work[w].sub

\* A worker moves its backup to the next stage, if it may, and itself with it.
Advance(w, to, ok) ==
    IF ok /\ CanMove(backup[Mine(w)].status, to)
    THEN SetStatus(Mine(w), to) /\ Go(w, to)
    ELSE Go(w, "fail") /\ UNCHANGED backup

(***************************************************************************)
(* Dispatch.  A publisher counts the attempts made so far, then publishes  *)
(* until the broker takes the message; a broker that raises may have taken *)
(* it.  The status of the row is not read again.                           *)
(***************************************************************************)
Pub(p, place, j, n) == pub' = [pub EXCEPT ![p] = [pc |-> place, job |-> j, left |-> n]]
Free(p) == pub[p].pc = "idle"
Lesser(m, n) == IF m < n THEN m ELSE n
Room(j) == IF journal[j].attempts < Total THEN Total - journal[j].attempts ELSE 0
Put(j, n) == queue' = [queue EXCEPT ![j][n] = @ + 1]

\* create_backup_request: one record for each idempotency key.
CreateBackup(b, parent) ==
    /\ backup[b].status = "none"
    /\ backup' = [backup EXCEPT ![b].status = "QUEUED", ![b].parent = parent]

\* The owner or the schedule asks for a backup while no other one is active.
Request(p, b) ==
    /\ Free(p) /\ b \in Wanted
    /\ \A c \in Backups : backup[c].status \notin Transitional
    /\ CreateBackup(b, None)
    /\ journal' = [journal EXCEPT ![b].intent = TRUE]
    /\ Pub(p, "begin", b, 0)
    /\ UNCHANGED <<object, queue, work, lease, data, faults>>

Begin(p) ==
    /\ pub[p].pc = "begin"
    /\ IF Room(pub[p].job) = 0 THEN Pub(p, "idle", None, 0)
       ELSE Pub(p, "send", pub[p].job, Lesser(Immediate, Room(pub[p].job)))
    /\ UNCHANGED <<backupVars, journal, queue, work, lease, data, faults>>

\* The message goes out and is known to have gone out, goes out and the call
\* raises, or does not go out.
Publish(p) ==
    LET j == pub[p].job IN
    /\ pub[p].pc = "send"
    /\ journal' = [journal EXCEPT ![j].attempts = @ + 1]
    /\ \/ Put(j, 0) /\ Pub(p, "confirm", j, 0)
       \/ /\ Put(j, 0) \/ UNCHANGED queue
          /\ IF pub[p].left > 1 THEN Pub(p, "send", j, pub[p].left - 1)
             ELSE Pub(p, "idle", None, 0)
    /\ UNCHANGED <<backupVars, work, lease, data, faults>>

Confirm(p) ==
    /\ pub[p].pc = "confirm"
    /\ journal' = [journal EXCEPT ![pub[p].job].confirmed = TRUE]
    /\ Pub(p, "idle", None, 0)
    /\ UNCHANGED <<backupVars, queue, work, lease, data, faults>>

Die(p) ==
    /\ ~Free(p) /\ Pub(p, "idle", None, 0) /\ Fault
    /\ UNCHANGED <<backupVars, journal, queue, work, lease, data>>

\* What the journal and the lease of a queued job must say for a second try.
RedispatchUntried(j) ==
    /\ journal[j].intent /\ ~journal[j].confirmed /\ ~journal[j].refused
    /\ ~Marked(j)
    /\ journal[j].attempts = 0
Redispatchable(j) ==
    /\ journal[j].intent /\ ~journal[j].confirmed /\ ~journal[j].refused
    /\ ~Marked(j)
    /\ journal[j].attempts < Total
BackupEligible(b) ==
    /\ backup[b].status = "QUEUED" /\ backup[b].parent = None /\ ~backup[b].meta
    /\ Redispatchable(b)

ReconcileBackup(p, b) ==
    /\ Free(p) /\ BackupEligible(b) /\ Pub(p, "begin", b, 0)
    /\ UNCHANGED <<backupVars, journal, queue, work, lease, data, faults>>

(***************************************************************************)
(* The task.                                                               *)
(***************************************************************************)
Taken(w, j, n) ==
    /\ At(w, "idle") /\ queue[j][n] > 0
    /\ queue' = [queue EXCEPT ![j][n] = @ - 1]
Working(w, place, j, n) ==
    work' = [work EXCEPT ![w] = [Idle EXCEPT !.pc = place, !.job = j, !.tries = n]]

\* A message that finds the backup past QUEUED raises and is gone; so does one
\* that reaches a worker whose configuration is unsafe (Block).
ReceiveBackup(w, b, n) ==
    /\ Taken(w, b, n)
    /\ IF backup[b].status = "QUEUED"
       THEN \E place \in {"lock", "block"} : Working(w, place, b, n)
       ELSE UNCHANGED work
    /\ UNCHANGED <<backupVars, journal, pub, lease, data, faults>>

\* The row that was found QUEUED is failed, whatever has become of it.
Block(w) ==
    /\ At(w, "block") /\ Rest(w)
    /\ IF CanMove(backup[Mine(w)].status, "FAILED") THEN SetStatus(Mine(w), "FAILED")
       ELSE UNCHANGED backup
    /\ UNCHANGED <<object, dispatchVars, lease, data, faults>>

\* A worker that cannot build its providers raises, and is not asked again.
Unbuildable(w) ==
    /\ At(w, "lock") /\ Rest(w)
    /\ Fault
    /\ UNCHANGED <<backupVars, dispatchVars, lease, data>>

Lock(w) ==
    /\ At(w, "lock") /\ Available
    /\ Acquire(w, Mine(w)) /\ Go(w, "claim")
    /\ UNCHANGED <<backupVars, dispatchVars, data, faults>>

\* The refusal is journalled as a failure of the backup.
Refuse(w) ==
    /\ At(w, "lock") /\ ~Available
    /\ journal' = [journal EXCEPT ![Mine(w)].refused = TRUE]
    /\ Go(w, "refused")
    /\ UNCHANGED <<backupVars, queue, pub, lease, data, faults>>

\* The retry is a new message, which may fail to go out.
Again(w, j, n) ==
    \/ Put(j, n + 1) /\ UNCHANGED faults
    \/ Fault /\ UNCHANGED queue
RetryBackup(w) ==
    /\ At(w, "refused") /\ Rest(w)
    /\ IF backup[Mine(w)].status # "QUEUED" THEN UNCHANGED <<backup, queue, faults>>
       ELSE IF work[w].tries < Retries
            THEN Again(w, Mine(w), work[w].tries) /\ UNCHANGED backup
            ELSE SetStatus(Mine(w), "FAILED") /\ UNCHANGED <<queue, faults>>
    /\ UNCHANGED <<object, journal, pub, lease, data>>

(***************************************************************************)
(* The execution.                                                          *)
(***************************************************************************)
\* A safety backup runs under the lease of its restore, if that is still alive.
Inherit(w) ==
    /\ At(w, "inherit")
    /\ IF Alive(w) THEN Go(w, "claim") ELSE GiveUp(w)
    /\ UNCHANGED <<backupVars, dispatchVars, lease, data, faults>>

ClaimUnread(w) ==
    /\ At(w, "claim") /\ SetStatus(Mine(w), "PREPARING") /\ Go(w, "PREPARING")
    /\ UNCHANGED <<object, dispatchVars, lease, data, faults>>
Claim(w) ==
    /\ At(w, "claim") /\ Advance(w, "PREPARING", backup[Mine(w)].status = "QUEUED")
    /\ UNCHANGED <<object, dispatchVars, lease, data, faults>>

\* The stages.  The snapshot is taken in the second one.
Stage(w) ==
    /\ \/ At(w, "PREPARING") /\ Advance(w, "SNAPSHOTTING", Alive(w))
       \/ At(w, "PACKAGING") /\ Advance(w, "UPLOADING", Alive(w))
       \/ /\ At(w, "UPLOADING") /\ work[w].kept
          /\ Advance(w, "VERIFYING", Alive(w))
    /\ UNCHANGED <<object, dispatchVars, lease, data, faults>>

Snapshot(w) ==
    /\ At(w, "SNAPSHOTTING")
    /\ IF Alive(w) /\ CanMove(backup[Mine(w)].status, "PACKAGING")
       THEN /\ backup' = [backup EXCEPT ![Mine(w)].status = "PACKAGING",
                                        ![Mine(w)].held = data]
            /\ Go(w, "PACKAGING")
       ELSE Go(w, "fail") /\ UNCHANGED backup
    /\ UNCHANGED <<object, dispatchVars, lease, data, faults>>

\* The object is published; the provider may raise before or after.
Store(w) ==
    /\ At(w, "UPLOADING") /\ ~work[w].stored
    /\ \/ /\ object' = [object EXCEPT ![Mine(w)] = @ + 1]
          /\ \/ work' = [work EXCEPT ![w].stored = TRUE]
             \/ Go(w, "fail")
       \/ Go(w, "fail") /\ UNCHANGED object
    /\ UNCHANGED <<backup, dispatchVars, lease, data, faults>>

\* The key of the object goes into the row while it is not finished.
CanKeep(w) ==
    /\ work[w].stored /\ ~work[w].kept
    /\ backup[Mine(w)].status \in Transitional /\ ~backup[Mine(w)].meta
Persist(w) ==
    /\ At(w, "UPLOADING") /\ work[w].stored /\ ~work[w].kept
    /\ IF CanKeep(w)
       THEN /\ backup' = [backup EXCEPT ![Mine(w)].meta = TRUE]
            /\ work' = [work EXCEPT ![w].kept = TRUE]
       ELSE Go(w, "fail") /\ UNCHANGED backup
    /\ UNCHANGED <<object, dispatchVars, lease, data, faults>>

Mark(w, from, to, i) ==
    /\ At(w, from)
    /\ IF CanMark(backup[Mine(w)].integrity, i) THEN SetIntegrity(Mine(w), i) /\ Go(w, to)
       ELSE Go(w, "fail") /\ UNCHANGED backup
Verify(w) ==
    /\ Mark(w, "VERIFYING", "checking", "VERIFYING") \/ Mark(w, "checking", "verified", "VERIFIED")
    /\ UNCHANGED <<object, dispatchVars, lease, data, faults>>

Succeed(w) ==
    /\ At(w, "verified")
    /\ IF CanMove(backup[Mine(w)].status, "SUCCEEDED") /\ backup[Mine(w)].integrity = "VERIFIED"
       THEN SetStatus(Mine(w), "SUCCEEDED") /\ Go(w, "after")
       ELSE Go(w, "fail") /\ UNCHANGED backup
    /\ UNCHANGED <<object, dispatchVars, lease, data, faults>>

\* One more heartbeat and the retention pass follow the success.
After(w) ==
    /\ At(w, "after") /\ Go(w, IF Alive(w) THEN "done" ELSE "fail")
    /\ UNCHANGED <<backupVars, dispatchVars, lease, data, faults>>

(***************************************************************************)
(* The end.                                                                *)
(***************************************************************************)
Break(w) ==
    /\ work[w].pc \in Running /\ Go(w, "fail")
    /\ UNCHANGED <<backupVars, dispatchVars, lease, data, faults>>

\* A failure first tries to keep the key of an object that was published, then
\* marks the integrity and the status of a backup that is not finished.
Kept(w) ==
    IF CanKeep(w) THEN backup' = [backup EXCEPT ![Mine(w)].meta = TRUE]
    ELSE UNCHANGED backup
Fail(w) ==
    /\ At(w, "fail") /\ Kept(w) /\ Go(w, "mark")
    /\ UNCHANGED <<object, dispatchVars, lease, data, faults>>

MarkFailed(w) ==
    LET b == Mine(w) IN
    /\ At(w, "mark")
    /\ IF backup[b].status \notin Transitional THEN Go(w, "drop") /\ UNCHANGED backup
       ELSE /\ Go(w, "sink")
            /\ IF CanMark(backup[b].integrity, "FAILED") THEN SetIntegrity(b, "FAILED")
               ELSE UNCHANGED backup
    /\ UNCHANGED <<object, dispatchVars, lease, data, faults>>
Sink(w) ==
    /\ At(w, "sink") /\ Go(w, "drop")
    /\ IF CanMove(backup[Mine(w)].status, "FAILED") THEN SetStatus(Mine(w), "FAILED")
       ELSE UNCHANGED backup
    /\ UNCHANGED <<object, dispatchVars, lease, data, faults>>

\* The lease is released by the process that acquired it for this backup; a
\* safety backup hands back to its restore.
Leave(w) ==
    /\ At(w, "done") \/ At(w, "drop")
    /\ IF work[w].sub = None THEN Rest(w) /\ Release(w)
       ELSE (IF At(w, "done") THEN Go(w, "link") ELSE GiveUp(w)) /\ UNCHANGED lease
    /\ UNCHANGED <<backupVars, dispatchVars, data, faults>>

\* A worker that is told to stop keeps the key and releases the lease, but
\* leaves the status as it is.
Interrupt(w) ==
    /\ work[w].pc \in Running /\ Kept(w)
    /\ IF work[w].sub = None
       THEN Rest(w) /\ Release(w)
       ELSE GiveUp(w) /\ UNCHANGED lease
    /\ Fault
    /\ UNCHANGED <<object, dispatchVars, data>>

Crash(w) ==
    /\ ~At(w, "idle") /\ Rest(w)
    /\ lease' = Abandoned(w)
    /\ Fault
    /\ UNCHANGED <<backupVars, dispatchVars, data>>

\* Hours pass.
RunOut == Expire /\ Fault /\ UNCHANGED <<backupVars, dispatchVars, work, data>>

(***************************************************************************)
(* Specification.                                                          *)
(***************************************************************************)
BackupInit ==
    /\ backup = [b \in Backups |-> [status |-> "none", integrity |-> "NOT_CHECKED",
                                    meta |-> FALSE, parent |-> None, held |-> -1]]
    /\ object = [b \in Backups |-> 0]
    /\ journal = [j \in Jobs |-> [intent |-> FALSE, attempts |-> 0,
                                  confirmed |-> FALSE, refused |-> FALSE]]
    /\ queue = [j \in Jobs |-> [n \in 0 .. Retries |-> 0]]
    /\ pub = [p \in Publishers |-> NoDispatch]
    /\ work = [w \in Workers |-> Idle]
    /\ lease = NoLease /\ data = 0 /\ faults = 0

PublisherStep(p) == Begin(p) \/ Publish(p) \/ Confirm(p)
Execution(w) ==
    \/ Block(w) \/ Unbuildable(w) \/ Lock(w) \/ Refuse(w) \/ RetryBackup(w) \/ Inherit(w)
    \/ Claim(w) \/ Stage(w) \/ Snapshot(w) \/ Store(w) \/ Persist(w) \/ Verify(w)
    \/ Succeed(w) \/ After(w) \/ Break(w) \/ Fail(w) \/ MarkFailed(w) \/ Sink(w) \/ Leave(w)
BackupReceipt(w) == \E b \in Backups, n \in 0 .. Retries : ReceiveBackup(w, b, n)
BackupReconcile(p) == \E b \in Backups : ReconcileBackup(p, b)
BackupFault ==
    \/ \E p \in Publishers : Die(p)
    \/ \E w \in Workers : Interrupt(w) \/ Crash(w)

BackupNext ==
    \/ \E p \in Publishers :
          (\E b \in Backups : Request(p, b)) \/ PublisherStep(p) \/ BackupReconcile(p)
    \/ \E w \in Workers : BackupReceipt(w) \/ Execution(w)
    \/ BackupFault \/ RunOut
=============================================================================
