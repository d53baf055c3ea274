--------------------------- MODULE RestoreWorkspace ---------------------------
(***************************************************************************)
(* The preflight of a restore on disk (engine/restore_preflight.py and     *)
(* engine/restore_workspace.py): the plaintext package of one backup is    *)
(* rebuilt in a private workspace, verified, unpacked entry by entry and   *)
(* held for the execution; everything is removed again by a clean-up that  *)
(* removes exactly what the provider knows it made.                        *)
(*                                                                         *)
(* `tree` is the workspace on disk, `mine` what the provider knows of    *)
(* it, `at` the place in the worker's code.  Memory does not survive the   *)
(* attempt: a retry is a task of its own with new providers.               *)
(***************************************************************************)
EXTENDS Naturals, FiniteSets, Sequences, SequencesExt

CONSTANTS
    Photos,         \* the media files of the package, in the order of their names
    MostSlips,      \* bound: exceptions, failed removals and damage
    MostAttempts    \* bound: the worker's attempts, Celery's retries included

ASSUME AttemptBounds == MostSlips \in Nat /\ MostAttempts \in Nat
ASSUME PhotosAssumption == Photos \in Seq(Range(Photos))

VARIABLES
    tree,           \* names in the workspace
    spoilt,         \* names whose bytes are no longer those written
    mine,          \* names the providers hold evidence of
    at,
    after,          \* where a clean-up continues
    attempt,
    slips

workspaceVars == <<tree, spoilt, mine, at, after, attempt, slips>>

Folders == {"workspace", "area", "extracted", "components", "media"}
Entries == <<"records">> \o Photos
Parent(e) == IF e = "records" THEN "components" ELSE "media"
Unpacked == {"extracted", "components", "media"} \cup Range(Entries)
Files == {"part", "package", "evidence", "proof"} \cup Range(Entries)

WorkspaceInit ==
    /\ tree = {} /\ spoilt = {} /\ mine = {}
    /\ at = "idle" /\ after = "none"
    /\ attempt = 0 /\ slips = 0

Slip == slips < MostSlips /\ slips' = slips + 1
NoSlip == UNCHANGED slips

\* One call of the operating system; the exception comes before or after it.
Do(here, names, next, undo, left) ==
    /\ at = here
    /\ \/ tree' = names /\ at' = next /\ NoSlip
       \/ Slip /\ at' = undo /\ tree' \in left
    /\ UNCHANGED <<spoilt, mine, after, attempt>>

\* A file whose name is linked twice is not touched.
Single(f) == ~ (f \in {"part", "package"} /\ {"part", "package"} \subseteq tree)
Sound(f) == f \in tree /\ Single(f) /\ f \notin spoilt

-----------------------------------------------------------------------------
(* The worker starts, or starts again after the tenant was locked.         *)

BeginAttempt ==
    /\ at \in {"idle", "locked out"} /\ attempt < MostAttempts
    /\ attempt' = attempt + 1
    /\ mine' = {} /\ after' = "failed"
    /\ at' \in {"create", "locked out"}
    /\ UNCHANGED <<tree, spoilt, slips>>

\* The workspace is named after the operation, and must be new.
CreateWorkspace ==
    /\ at = "create"
    /\ \/ "workspace" \notin tree /\ tree' = tree \cup {"workspace"} /\ at' = "fetch" /\ NoSlip
       \/ "workspace" \in tree /\ at' = "failed" /\ NoSlip /\ UNCHANGED tree
       \/ Slip /\ at' = "failed" /\ UNCHANGED tree
    /\ UNCHANGED <<spoilt, mine, after, attempt>>

\* The stored object is attested and decrypted while it is copied.
MakeArea == Do("fetch", tree \cup {"area"}, "copy", "vacate", {tree})
CopyPlaintext == Do("copy", tree \cup {"part"}, "link", "undo", {tree, tree \cup {"part"}})
LinkPackage == Do("link", tree \cup {"package"}, "unlink", "undo", {tree, tree \cup {"package"}})
UnlinkPart == Do("unlink", tree \ {"part"}, "inspect", "undo", {tree, tree \ {"part"}})

RegisterPackage ==
    /\ at = "inspect"
    /\ \/ Sound("package") /\ mine' = mine \cup {"area", "package"} /\ at' = "verify" /\ NoSlip
       \/ ~ Sound("package") /\ at' = "undo" /\ NoSlip /\ UNCHANGED mine
       \/ Slip /\ at' = "undo" /\ UNCHANGED mine
    /\ UNCHANGED <<tree, spoilt, after, attempt>>

\* A name is removed only if nothing else links to its file, and the directory
\* only if nothing is in it.
UndoPackage ==
    /\ at = "undo"
    /\ LET left == tree \ {f \in {"part", "package"} : Single(f)}
       IN  tree' = IF left \subseteq {"workspace", "area"} THEN left \ {"area"} ELSE left
    /\ at' = "vacate"
    /\ UNCHANGED <<spoilt, mine, after, attempt, slips>>

-----------------------------------------------------------------------------
(* Verification, extraction, evidence                                      *)

CleanUp(then) == at' = "sweep" /\ after' = then

\* The verification ends "compatible", with a package that is not ready to be
\* restored, or with an error.
VerifyPackage ==
    /\ at = "verify"
    /\ \/ /\ Sound("package") /\ NoSlip
          /\ tree' = tree \cup {"proof"} /\ mine' = mine \cup {"proof"}
          /\ \/ at' = "unfold" /\ UNCHANGED after
             \/ CleanUp("unready")
       \/ /\ IF Sound("package") THEN Slip ELSE NoSlip
          /\ CleanUp("failed") /\ UNCHANGED <<tree, mine>>
    /\ UNCHANGED <<spoilt, attempt>>

MakeFolders ==
    Do("unfold", tree \cup {"extracted", "components"} \cup (IF Photos = <<>> THEN {} ELSE {"media"}),
       "extract", "scrap", {tree})

Waiting == SelectSeq(Entries, LAMBDA e : e \notin tree)
ExtractEntry ==
    /\ at = "extract" /\ Waiting # <<>>
    /\ \/ Sound("package") /\ at' = at /\ NoSlip /\ UNCHANGED after
       \/ Slip /\ at' = "scrap" /\ after' = Head(Waiting)
       \/ ~ Sound("package") /\ at' = "scrap" /\ after' = Head(Waiting) /\ NoSlip
    /\ tree' = tree \cup {Head(Waiting)}
    /\ UNCHANGED <<spoilt, mine, attempt>>

\* The entry that failed is not among the files that are removed.
ScrapExtraction ==
    /\ at = "scrap"
    /\ LET kept == Range(Entries) \cap tree \cap {after}
           needed == {Parent(e) : e \in kept} \cup {"extracted" : e \in kept}
       IN  tree' = (tree \ Unpacked) \cup kept \cup needed
    /\ CleanUp("failed")
    /\ UNCHANGED <<spoilt, mine, attempt, slips>>

RegisterEntries ==
    /\ at = "extract" /\ Waiting = <<>>
    /\ mine' = mine \cup (tree \cap Unpacked)
    /\ \/ at' = "attest" /\ NoSlip /\ UNCHANGED after
       \/ Slip /\ CleanUp("failed")
    /\ UNCHANGED <<tree, spoilt, attempt>>

\* An exception may come after the file was made, but before it is known.
PublishEvidence ==
    /\ at = "attest"
    /\ \/ tree' = tree \cup {"evidence"} /\ mine' = mine \cup {"evidence"} /\ at' = "held"
          /\ NoSlip /\ UNCHANGED after
       \/ Slip /\ CleanUp("failed") /\ UNCHANGED mine
          /\ tree' \in {tree, tree \cup {"evidence"}}
    /\ UNCHANGED <<spoilt, attempt>>

-----------------------------------------------------------------------------
(* Removing everything, exactly                                            *)

OwnTree == tree \ {"workspace", "area", "proof"}
TreeIsExact == OwnTree = mine \ {"area", "proof"}

\* The proof goes first; if it cannot, the rest is removed all the same.
DropProof ==
    /\ at = "sweep"
    /\ \/ tree' = tree \ ({"proof"} \cap mine) /\ mine' = mine \ {"proof"} /\ NoSlip
       \/ "proof" \in mine /\ Slip /\ UNCHANGED <<tree, mine>>
    /\ at' = "check"
    /\ UNCHANGED <<spoilt, after, attempt>>

CheckTree ==
    /\ at = "check"
    /\ at' = IF TreeIsExact /\ ("package" \in mine => Sound("package")) THEN "strip" ELSE "stuck"
    /\ UNCHANGED <<tree, spoilt, mine, after, attempt, slips>>

\* Files but the package, deepest first; folders, deepest first; the package;
\* the area.
Depth(n) ==
    CASE n \in Range(Entries) -> 5 [] n = "evidence" -> 4 [] n \in {"components", "media"} -> 3
      [] n = "extracted" -> 2 [] n = "package" -> 1 [] OTHER -> 0
Strippable == {n \in mine \ {"proof"} : \A o \in mine \ {"proof"} : Depth(o) <= Depth(n)}

\* What is removed is forgotten, also when the removal raises afterwards.
StripOne ==
    /\ at = "strip"
    /\ \E n \in Strippable :
          \/ tree' = tree \ {n} /\ mine' = mine \ {n} /\ NoSlip /\ UNCHANGED at
          \/ tree' = tree \ {n} /\ mine' = mine \ {n} /\ Slip /\ at' = "stuck"
          \/ Slip /\ at' = "stuck" /\ UNCHANGED <<tree, mine>>
    /\ UNCHANGED <<spoilt, after, attempt>>
Stripped ==
    /\ at = "strip" /\ mine \ {"proof"} = {}
    /\ at' = "vacate"
    /\ UNCHANGED <<tree, spoilt, mine, after, attempt, slips>>

\* Only an empty workspace is removed.
Vacate ==
    /\ at = "vacate"
    /\ \/ tree \subseteq {"workspace"} /\ tree' = {} /\ at' = after /\ NoSlip
       \/ ~ (tree \subseteq {"workspace"}) /\ at' = "stuck" /\ NoSlip /\ UNCHANGED tree
       \/ Slip /\ at' = "stuck" /\ UNCHANGED tree
    /\ spoilt' = spoilt \cap tree'
    /\ UNCHANGED <<mine, after, attempt>>

\* A preflight whose clean-up fails has failed.
GiveUp ==
    /\ at = "stuck" /\ after \in {"failed", "unready"}
    /\ at' = "failed"
    /\ UNCHANGED <<tree, spoilt, mine, after, attempt, slips>>

\* Bytes on disk go bad.
Spoil ==
    /\ Slip
    /\ \E f \in tree \cap Files : spoilt' = spoilt \cup {f}
    /\ UNCHANGED <<tree, mine, at, after, attempt>>

PreflightNext ==
    \/ BeginAttempt \/ CreateWorkspace \/ MakeArea \/ CopyPlaintext \/ LinkPackage \/ UnlinkPart
    \/ RegisterPackage \/ UndoPackage \/ VerifyPackage \/ MakeFolders \/ ExtractEntry
    \/ ScrapExtraction \/ RegisterEntries \/ PublishEvidence \/ DropProof \/ CheckTree
    \/ StripOne \/ Stripped \/ Vacate \/ GiveUp \/ Spoil
=============================================================================
