----------------------------- MODULE MediaRestore -----------------------------
(***************************************************************************)
(* The execution of a restore (engine/restore_mutation.py) with its media  *)
(* (engine/media_restore.py), from the preflight that RestoreWorkspace     *)
(* holds to the last clean-up.  The files of the package are staged in a   *)
(* second private workspace; inside the transaction that replaces the rows *)
(* they are linked into the media storage of the running application,      *)
(* which goes on uploading and deleting files, never over a name that is   *)
(* taken; a failure takes back what was linked.                            *)
(***************************************************************************)
EXTENDS RestoreWorkspace

CONSTANTS
    Nobody,
    MostUploads     \* bound: uploads and deletions by the application

VARIABLES
    live,           \* photo -> who wrote it and whether it is the package's, or Nobody
    gallery,        \* who made the folder of the photos: "none", "app", "ours"
    crumbs,         \* photos with a ".part" beside them
    stash,          \* the staged copies
    made,           \* photos linked by this restore, in order
    data,           \* the rows of the tenant: "old", "new"
    status,
    uploads,
    removed         \* photos the application has deleted

mediaVars == <<live, gallery, crumbs, stash, made, data, status, uploads, removed>>
restoreRunVars == <<workspaceVars, mediaVars>>

Everything == Range(Photos)
NoStash == [room |-> FALSE, files |-> {}, odd |-> {}, reuse |-> {}, todo |-> Photos, opened |-> FALSE]
File(who, same) == [by |-> who, good |-> same]

MediaInit ==
    /\ WorkspaceInit
    /\ live \in [Everything -> {Nobody, File("app", TRUE), File("app", FALSE)}]
    /\ gallery = IF \E p \in Everything : live[p] # Nobody THEN "app" ELSE "none"
    /\ crumbs = {} /\ stash = NoStash /\ made = <<>>
    /\ data = "old" /\ status = "QUEUED"
    /\ uploads = 0 /\ removed = {}

Disk == <<tree, spoilt, mine, attempt>>
LiveFiles == <<live, gallery, crumbs>>

-----------------------------------------------------------------------------
(* Before the mutation                                                     *)

Preflight ==
    /\ PreflightNext
    /\ status' = CASE at' = "create" -> "AUTHORIZING"
                   [] at' \in {"failed", "unready", "locked out"} /\ status \in {"QUEUED", "AUTHORIZING"} -> "FAILED"
                   [] OTHER -> status
    /\ stash' = IF at' = "create" THEN NoStash ELSE stash
    /\ UNCHANGED <<live, gallery, crumbs, made, data, uploads, removed>>

KeepRest == UNCHANGED <<LiveFiles, made, data, uploads, removed>>

\* The tenant may be taken between the preflight and the execution.
EnterExecution ==
    /\ at = "held"
    /\ \/ at' = "revalidate" /\ UNCHANGED status
       \/ at' = "locked out" /\ status' = "FAILED"
    /\ NoSlip /\ KeepRest /\ UNCHANGED <<Disk, after, stash>>

Consumable == TreeIsExact /\ Sound("package") /\ "evidence" \notin spoilt

FailBefore == status' = "FAILED" /\ CleanUp("failed")

\* Until the first check has passed, nothing is there to be cleaned up.
Revalidate ==
    /\ at = "revalidate"
    /\ IF Consumable THEN at' = "safety" /\ UNCHANGED status ELSE at' = "failed" /\ status' = "FAILED"
    /\ NoSlip /\ KeepRest /\ UNCHANGED <<Disk, after, stash>>

\* The safety backup, the second check, the records and the dependencies, and
\* the workspace that the files are staged in.
PrepareRestore ==
    /\ at = "safety"
    /\ \/ /\ Consumable /\ "records" \notin spoilt /\ NoSlip
          /\ stash' = [stash EXCEPT !.room = TRUE]
          /\ at' = "stage" /\ UNCHANGED <<status, after>>
       \/ /\ IF Consumable /\ "records" \notin spoilt THEN Slip ELSE NoSlip
          /\ FailBefore /\ UNCHANGED stash
    /\ KeepRest /\ UNCHANGED Disk

\* They are staged in the order of their names.
NextStaged(i) == Photos[i] \notin stash.files /\ \A j \in 1 .. i - 1 : Photos[j] \in stash.files

\* A name that is taken must hold the same bytes already.  A failure removes
\* the staging workspace with all that is in it.
Collides(p) == live[p] # Nobody /\ ~ live[p].good
StageOne ==
    /\ at = "stage"
    /\ \E i \in DOMAIN Photos :
          /\ NextStaged(i)
          /\ LET p == Photos[i] IN
             \/ /\ ~ Collides(p) /\ p \notin spoilt /\ NoSlip
                /\ stash' = [stash EXCEPT !.files = @ \cup {p},
                                          !.reuse = IF live[p] # Nobody THEN @ \cup {p} ELSE @]
                /\ UNCHANGED <<at, after, status>>
             \/ /\ IF Collides(p) \/ p \in spoilt THEN NoSlip ELSE Slip
                /\ stash' = NoStash /\ FailBefore
    /\ KeepRest /\ UNCHANGED Disk

\* A failure from here on finds the staged copies to be removed.
Staged ==
    /\ at = "stage" /\ stash.files = Everything
    /\ \/ at' = "mutate" /\ status' = "RESTORING" /\ NoSlip
       \/ at' = "unstash" /\ status' = "FAILED" /\ Slip
    /\ UNCHANGED after
    /\ KeepRest /\ UNCHANGED <<Disk, stash>>

-----------------------------------------------------------------------------
(* The transaction: rows, photos, verification                             *)

ToRollBack == at' = "take back"

ReplaceRows ==
    /\ at = "mutate"
    /\ \/ at' = "publish" /\ NoSlip
       \/ Slip /\ ToRollBack
    /\ KeepRest /\ UNCHANGED <<Disk, after, stash, status>>

Next1 == Head(stash.todo)
Done == stash' = [stash EXCEPT !.todo = Tail(@)]
Reaches(place) == at = place /\ stash.todo # <<>>

\* A photo that was there already is compared once more.
Reuse ==
    /\ Reaches("publish") /\ Next1 \in stash.reuse
    /\ \/ live[Next1] = File("app", TRUE) /\ Done /\ NoSlip /\ UNCHANGED at
       \/ /\ IF live[Next1] = File("app", TRUE) THEN Slip ELSE NoSlip
          /\ ToRollBack /\ UNCHANGED stash
    /\ KeepRest /\ UNCHANGED <<Disk, after, status>>

\* The photo is copied beside its name, into a folder that is made if missing.
Aim ==
    /\ Reaches("publish") /\ Next1 \notin stash.reuse
    /\ IF live[Next1] # Nobody
       THEN ToRollBack /\ NoSlip /\ UNCHANGED <<stash, gallery, crumbs>>
       ELSE /\ gallery' = IF gallery = "none" THEN "ours" ELSE gallery
            /\ stash' = [stash EXCEPT !.opened = @ \/ gallery = "none"]
            /\ \/ Next1 \notin stash.odd /\ at' = "link in" /\ crumbs' = crumbs \cup {Next1} /\ NoSlip
               \/ Next1 \in stash.odd /\ ToRollBack /\ UNCHANGED crumbs /\ NoSlip
               \/ Slip /\ ToRollBack /\ UNCHANGED crumbs
    /\ UNCHANGED <<Disk, after, live, made, data, uploads, removed, status>>

\* A hard link never replaces a name.
LinkIn ==
    /\ at = "link in"
    /\ IF live[Next1] = Nobody
       THEN /\ live' = [live EXCEPT ![Next1] = File("ours", TRUE)]
            /\ made' = Append(made, Next1)
            /\ at' = "settle" /\ UNCHANGED crumbs
       ELSE /\ crumbs' = crumbs \ {Next1} /\ ToRollBack /\ UNCHANGED <<live, made>>
    /\ NoSlip
    /\ UNCHANGED <<Disk, after, gallery, stash, data, uploads, removed, status>>

\* The name that is left over may resist, twice.
Settle ==
    /\ at = "settle"
    /\ \/ /\ crumbs' = crumbs \ {Next1} /\ NoSlip
          /\ IF live[Next1] # Nobody /\ live[Next1].by = "ours"
             THEN at' = "publish" /\ Done ELSE ToRollBack /\ UNCHANGED stash
       \/ Slip /\ ToRollBack /\ crumbs' \in {crumbs, crumbs \ {Next1}} /\ UNCHANGED stash
    /\ UNCHANGED <<Disk, after, live, gallery, made, data, uploads, removed, status>>

PublishedAll ==
    /\ at = "publish" /\ stash.todo = <<>>
    /\ at' = "verify photos"
    /\ NoSlip /\ KeepRest /\ UNCHANGED <<Disk, after, stash, status>>

InPlace(p) == live[p] # Nobody /\ live[p].good /\ p \notin crumbs

\* The rows and every photo are read again before the transaction commits.
VerifyRestored ==
    /\ at = "verify photos"
    /\ \/ (\A p \in Everything : InPlace(p)) /\ at' = "commit" /\ NoSlip
          /\ removed' = {}
       \/ (\E p \in Everything : ~ InPlace(p)) /\ ToRollBack /\ NoSlip /\ UNCHANGED removed
       \/ Slip /\ ToRollBack /\ UNCHANGED removed
    /\ UNCHANGED <<Disk, after, stash, LiveFiles, made, data, uploads, status>>

Commit ==
    /\ at = "commit"
    /\ \/ data' = "new" /\ status' = "VERIFYING" /\ at' = "unstash" /\ after' = "succeeded" /\ NoSlip
       \/ Slip /\ ToRollBack /\ UNCHANGED <<data, status, after>>
    /\ UNCHANGED <<Disk, stash, LiveFiles, made, uploads, removed>>

-----------------------------------------------------------------------------
(* Taking back, and the clean-ups                                          *)

\* Slip: a file of the expected name is taken for the one that was linked.
OursByName(p) == live[p] # Nobody /\ p \notin crumbs
Ours(p) == live[p] # Nobody /\ live[p].by = "ours" /\ p \notin crumbs
Unproven == status' = "INDETERMINATE" /\ at' = "unstash" /\ after' = "ended"

\* The last link first; a file that is not the one that was linked is left alone.
TakeBack ==
    /\ at = "take back" /\ made # <<>>
    /\ \/ /\ Ours(Last(made)) /\ NoSlip
          /\ live' = [live EXCEPT ![Last(made)] = Nobody] /\ made' = Front(made)
          /\ UNCHANGED <<at, after, status>>
       \/ /\ IF Ours(Last(made)) THEN Slip ELSE NoSlip
          /\ Unproven /\ UNCHANGED <<live, made>>
    /\ UNCHANGED <<Disk, stash, gallery, crumbs, data, uploads, removed>>

EmptyGallery == crumbs = {} /\ \A p \in Everything : live[p] = Nobody
TakenBack ==
    /\ at = "take back" /\ made = <<>>
    /\ \/ /\ stash.opened => EmptyGallery /\ gallery = "ours"
          /\ gallery' = IF stash.opened THEN "none" ELSE gallery
          /\ status' = "ROLLED_BACK" /\ at' = "unstash" /\ after' = "ended" /\ NoSlip
       \/ /\ IF stash.opened => EmptyGallery /\ gallery = "ours" THEN Slip ELSE NoSlip
          /\ Unproven /\ UNCHANGED gallery
    /\ UNCHANGED <<Disk, stash, live, crumbs, made, data, uploads, removed>>

\* The staged copies go one by one; a second call stops at the first that is gone.
Unstash ==
    /\ at = "unstash"
    /\ \/ /\ stash.files = Everything /\ NoSlip
          /\ stash' = NoStash /\ at' = "sweep" /\ UNCHANGED <<after, status>>
       \/ /\ stash.files = Everything /\ Slip
          /\ \E n \in 0 .. Len(Photos) : stash' = [stash EXCEPT !.files = Range(SubSeq(Photos, 1, n))]
          /\ IF after = "succeeded" THEN Unproven
             ELSE at' = "sweep" /\ UNCHANGED <<after, status>>
       \/ /\ stash.files # Everything /\ NoSlip
          /\ at' = "sweep" /\ UNCHANGED <<stash, after, status>>
    /\ UNCHANGED <<Disk, LiveFiles, made, data, uploads, removed>>

\* The clean-up of the preflight ends the restore, or is tried once more.
SucceedRestore ==
    /\ at = "succeeded" /\ status = "VERIFYING"
    /\ \/ status' = "SUCCEEDED" /\ NoSlip
       \/ status' = "INDETERMINATE" /\ Slip
    /\ KeepRest /\ UNCHANGED <<Disk, at, after, stash>>
SweepAgain ==
    /\ at = "stuck" /\ after = "succeeded"
    /\ status' = "INDETERMINATE" /\ CleanUp("ended")
    /\ NoSlip /\ KeepRest /\ UNCHANGED <<Disk, stash>>
LeaveIt ==
    /\ at = "stuck" /\ after = "ended"
    /\ at' = "ended"
    /\ NoSlip /\ KeepRest /\ UNCHANGED <<Disk, after, stash, status>>

\* The worker dies: the transaction is gone, everything on disk stays.
Die ==
    /\ at \notin {"idle", "failed", "unready", "locked out", "succeeded", "ended", "dead"}
    /\ Slip
    /\ at' = "dead"
    /\ KeepRest /\ UNCHANGED <<Disk, after, stash, status>>

SpoilStaged ==
    /\ Slip
    /\ \E p \in stash.files : stash' = [stash EXCEPT !.odd = @ \cup {p}]
    /\ KeepRest /\ UNCHANGED <<Disk, at, after, status>>

-----------------------------------------------------------------------------
(* The application                                                         *)

AppUse == uploads < MostUploads /\ uploads' = uploads + 1

\* A name that is taken is never written over: the upload gets another.
UploadPhoto(p) ==
    /\ AppUse /\ live[p] = Nobody
    /\ \E same \in BOOLEAN : live' = [live EXCEPT ![p] = File("app", same)]
    /\ gallery' = IF gallery = "none" THEN "app" ELSE gallery
    /\ UNCHANGED <<workspaceVars, crumbs, stash, made, data, status, removed>>
DeleteUpload(p) ==
    /\ AppUse /\ live[p] # Nobody
    /\ live' = [live EXCEPT ![p] = Nobody]
    /\ removed' = removed \cup {p}
    /\ UNCHANGED <<workspaceVars, gallery, crumbs, stash, made, data, status>>

Application == \E p \in Everything : UploadPhoto(p) \/ DeleteUpload(p)

Execution ==
    \/ EnterExecution \/ Revalidate \/ PrepareRestore \/ StageOne \/ Staged \/ ReplaceRows \/ Reuse \/ Aim
    \/ LinkIn \/ Settle \/ PublishedAll \/ VerifyRestored \/ Commit \/ TakeBack \/ TakenBack
    \/ Unstash \/ SucceedRestore \/ SweepAgain \/ LeaveIt \/ Die \/ SpoilStaged

RestoreNext == Preflight \/ Execution \/ Application
RestoreSpec == MediaInit /\ [][RestoreNext]_restoreRunVars

-----------------------------------------------------------------------------
(* What a restore promises                                                 *)

EndsAsReported ==
    /\ status = "SUCCEEDED" =>
          /\ data = "new"
          /\ \A p \in Everything : InPlace(p) \/ p \in removed
          /\ tree = {} /\ ~ stash.room
    /\ status = "ROLLED_BACK" =>
          /\ data = "old"
          /\ \A p \in Everything : live[p] # Nobody => live[p].by = "app"
          /\ gallery # "ours"
    /\ status = "FAILED" => data = "old" /\ made = <<>> /\ crumbs = {}
    /\ at = "unready" => tree = {}

UploadsAreKept ==
    [][\A p \in Everything :
          live[p] # Nobody /\ live[p].by = "app" /\ live'[p] # live[p] => uploads' = uploads + 1]_restoreRunVars

\* What the worker reports is true of the rows, the media storage and the
\* private workspaces (restore_mutation.py execute): a restore that succeeded
\* left the new rows, every photo of the package that the application has not
\* deleted since the verification, and no plaintext; one that was rolled back
\* left the old rows and none of its files; one that failed changed nothing.
\* And it never replaces or deletes a file that the application put into the
\* media storage (media_restore.py publish, rollback).
RestoreEndsAsReported == []EndsAsReported /\ UploadsAreKept
=============================================================================
