------------------------- MODULE ArtifactPipeline -------------------------
(***************************************************************************)
(* One execution of a backup by the worker: a snapshot of the database,    *)
(* component exports, media captures, the canonical manifest, the          *)
(* deterministic package, its independent verification, the encrypted      *)
(* artifact and the stored object, each made from its predecessors and     *)
(* each predecessor removed when its successor is whole                    *)
(* (runtime.BackupExecutionCoordinator.execute with the phase coordinators *)
(* and providers it calls).                                                *)
(*                                                                         *)
(* `stage` is the runtime's variable of that name, `todo` the calls that   *)
(* remain in the stage, `held` the references the runtime holds, `slip`    *)
(* whether a cleanup of the running block failed, `flagged` the            *)
(* cleanup_incomplete it reports.                                          *)
(***************************************************************************)
EXTENDS Publication

VARIABLES stage, todo, held, slip, ahead, object, attempted, flagged

runVars == <<stage, todo, held, slip, ahead, object, attempted, flagged>>
pipelineVars == <<pubVars, runVars>>

Stages == <<"snapshot", "export", "manifest", "package", "verification",
            "encryption", "durable">>

Op(do, p) == [do |-> do, p |-> p]
Each(do, plan) == [i \in DOMAIN plan |-> Op(do, plan[i])]
When(condition, ops) == IF condition THEN ops ELSE <<>>

Doing(do, p) == todo # <<>> /\ Head(todo) = Op(do, p)

Start(ops) == IF ops = <<>> THEN "idle"
              ELSE CASE Head(ops).do = "make" -> "mkdir"
                     [] Head(ops).do \in {"try", "again"} -> "unlink"
                     [] OTHER -> "idle"

Continue(ops) == todo' = ops /\ step' = Start(ops)
Proceed == Continue(Tail(todo))

---------------------------------------------------------------------------
(* The stages as the calls they make, in order.  "make" runs a provider's  *)
(* build, "try" a cleanup whose failure is noted, "again" a cleanup whose  *)
(* failure raises, "intact" a validation of a provider's evidence.         *)

SnapshotStage == <<Op("make", "snapshot"), Op("hand", "snapshot")>>

ExportStage == Each("make", ExportPlan)
               \o <<Op("try", "snapshot"), Op("settle", "none"),
                    Op("hand", "exports")>>

ManifestStage == Each("intact", ExportPlan)
                 \o <<Op("stat", "none")>>
                 \o Each("make", CapturePlan)
                 \o Each("intact", CapturePlan)
                 \o <<Op("make", "manifest"), Op("intact", "manifest"),
                      Op("hand", "manifest")>>

InputsRemovedFirst == Each("try", Reverse(CapturePlan))
                      \o Each("try", Reverse(ExportPlan))
                      \o <<Op("make", "package"), Op("try", "manifest"),
                           Op("hand", "package")>>
PackageStage == <<Op("make", "package"), Op("intact", "package"),
                  Op("try", "manifest")>>
                \o Each("try", Reverse(CapturePlan))
                \o Each("try", Reverse(ExportPlan))
                \o <<Op("settle", "none"), Op("intact", "package"),
                     Op("hand", "package")>>

VerificationStage == <<Op("verify", "package"), Op("make", "evidence"),
                       Op("hand", "evidence")>>

(* The result is returned even when the plaintext package could not be     *)
(* removed; the runtime then asks for the removal once more.               *)
EncryptionStage == <<Op("intact", "package"), Op("intact", "evidence"),
                     Op("make", "sealed"), Op("try", "package"),
                     Op("hand", "sealed"), Op("again", "package"),
                     Op("intact", "sealed")>>

DurableStage == <<Op("store", "sealed"), Op("try", "sealed"),
                  Op("hand", "stored"), Op("again", "sealed")>>

CallsOf(s) == CASE s = "snapshot" -> SnapshotStage
                [] s = "export" -> ExportStage
                [] s = "manifest" -> ManifestStage
                [] s = "package" -> PackageStage
                [] s = "verification" -> VerificationStage
                [] s = "encryption" -> EncryptionStage
                [] s = "durable" -> DurableStage

Position(s) == CHOOSE i \in DOMAIN Stages : Stages[i] = s

---------------------------------------------------------------------------
(* What a failing stage removes before the exception leaves it.            *)

\* The products of a plan are made in its order.
Made(plan) == SubSeq(plan, 1, Cardinality({i \in DOMAIN plan : ledger[plan[i]] # "new"}))
Removing(plan) == Each("try", Reverse(Made(plan)))

ExportRecovery == Removing(ExportPlan)
                  \o When(Head(todo).do = "make", <<Op("try", "snapshot")>>)

ManifestRecovery == Removing(<<"manifest">>) \o Removing(CapturePlan)
                    \o Removing(ExportPlan)

Recovery == CASE stage = "export" -> ExportRecovery
              [] stage = "manifest" -> ManifestRecovery
              [] OTHER -> <<>>

(* What the runtime removes on every way out, from the references it       *)
(* holds; the area sweep that follows is Sweep.                            *)
Transients ==
  When("evidence" \in held, <<Op("try", "evidence")>>)
  \o When("sealed" \in held /\ "stored" \notin held /\ ~attempted,
          <<Op("try", "sealed")>>)
  \o When("package" \in held /\ "sealed" \notin held,
          <<Op("try", "package")>>)
  \o (IF "manifest" \in held /\ "package" \notin held
      THEN <<Op("try", "manifest")>> \o Each("try", Reverse(CapturePlan))
           \o Each("try", Reverse(ExportPlan))
      ELSE When("exports" \in held, Each("try", Reverse(ExportPlan))))
  \o When("snapshot" \in held, <<Op("try", "snapshot")>>)

Fail == /\ ahead' = FALSE
        /\ Continue(Recovery)

---------------------------------------------------------------------------
(* The stages' own code around the common protocol.                        *)

Making(p) == Doing("make", p) /\ UNCHANGED runVars

(* SQLite copies the database into a file of its final name, which is      *)
(* validated (quick_check does not find every damage) and registered.      *)
SnapshotFile == /\ step = "reserve"
                /\ Names("snapshot", Whole)
                /\ step' = "write"
                /\ UNCHANGED <<body, ledger, source, mishaps>>
SnapshotValidated == /\ step = "check"
                     /\ \/ step' = "confirm"
                        \/ Lies("snapshot") /\ step' = "undo"
                     /\ Kept
SnapshotRegistered == /\ step = "confirm"
                      /\ ledger' = [ledger EXCEPT !["snapshot"] = "published"]
                      /\ step' = "made"
                      /\ UNCHANGED <<place, body, source, mishaps>>
MakeSnapshot ==
  /\ Making("snapshot")
  /\ \/ Directory("snapshot") \/ SnapshotFile
     \/ Write("snapshot", TRUE, Written(Nothing, Nothing))
     \/ SnapshotValidated \/ SnapshotRegistered \/ Break("snapshot")
     \/ Undo("snapshot")

(* A component export: rows of one tenant out of the snapshot.             *)
ExportDirectory(e) == Directory(e)
ExportFiles(e) == Reserve(e)
ExportRows(e) ==
  Write(e, place["snapshot"] = Whole,
        Written(Nothing, Only(e, IF Lies("snapshot") THEN "odd" ELSE "rows")))
ExportPublication(e) == Check(e, TRUE) \/ Link(e) \/ DropPart(e)
ExportConfirmed(e) == Confirm(e)
ExportUndone(e) == Undo(e)
MakeExport(e) ==
  /\ Making(e)
  /\ \/ ExportDirectory(e) \/ ExportFiles(e) \/ ExportRows(e)
     \/ ExportPublication(e) \/ ExportConfirmed(e) \/ Break(e)
     \/ ExportUndone(e)

(* A media capture.  The source must be unmodified since the cutoff when   *)
(* the batch starts, when the capture starts and, by its stable state,     *)
(* after the last chunk was read.                                          *)
Unmodified(c) == source[c] = "old"
CapturePreflight == \A c \in Captures : Unmodified(c)

CaptureDirectory(c) == IF Unmodified(c) THEN Directory(c)
                       ELSE step = "mkdir" /\ step' = "undo" /\ Kept
CapturePart(c) == Reserve(c)
CaptureChunk(c) ==
  /\ step = "write"
  /\ IF source[c] = "gone"
     THEN step' = "undo" /\ UNCHANGED body
     ELSE /\ body' = [body EXCEPT ![c] = Written(Nothing, Only(c, source[c]))]
          /\ step' = "more"
  /\ UNCHANGED <<place, ledger, source, mishaps>>
CaptureRest(c) ==
  /\ step = "more"
  /\ body' = [body EXCEPT ![c].has[c] = IF @ = source[c] THEN @ ELSE "mixed"]
  /\ step' = "check"
  /\ UNCHANGED <<place, ledger, source, mishaps>>
UncheckedEnd(c) == Check(c, TRUE)
CaptureStable(c) == Check(c, Unmodified(c))
CapturePublication(c) == Link(c) \/ DropPart(c)
CaptureConfirmed(c) == Confirm(c)
CaptureUndone(c) == Undo(c)
MakeCapture(c) ==
  /\ Making(c)
  /\ \/ CaptureDirectory(c) \/ CapturePart(c) \/ CaptureChunk(c)
     \/ CaptureRest(c) \/ CaptureStable(c) \/ CapturePublication(c)
     \/ CaptureConfirmed(c) \/ Break(c) \/ CaptureUndone(c)

(* The manifest says what the coordinator read from every input.           *)
ManifestDirectory == Directory("manifest")
ManifestPart == Reserve("manifest")
ManifestDocument ==
  Write("manifest", TRUE,
        Written([q \in Inputs |-> body[q].has[q]], Nothing))
ManifestPublication ==
  Check("manifest", TRUE) \/ Link("manifest") \/ DropPart("manifest")
ManifestConfirmed == Confirm("manifest")
ManifestUndone == Undo("manifest")
MakeManifest ==
  /\ Making("manifest")
  /\ \/ ManifestDirectory \/ ManifestPart \/ ManifestDocument
     \/ ManifestPublication \/ ManifestConfirmed \/ Break("manifest")
     \/ ManifestUndone

(* The package copies the manifest and every payload it names, and refuses *)
(* a payload whose bytes are not the ones the manifest says.               *)
PackageSources ==
  /\ Intact("manifest")
  /\ \A q \in Inputs : Intact(q)
PayloadsMatch == \A q \in Inputs : body[q].has[q] = body["manifest"].says[q]
PackageDirectory == Directory("package")
PackagePart == Reserve("package")
PackageEntries ==
  Write("package", PackageSources /\ PayloadsMatch,
        Written(body["manifest"].says, [q \in Inputs |-> body[q].has[q]]))
PackageReadBack == Check("package", ~Lies("package"))
PackagePublication == Link("package") \/ DropPart("package")
PackageConfirmed == Confirm("package")
PackageUndone == Undo("package")
MakePackage ==
  /\ Making("package")
  /\ \/ PackageDirectory \/ PackagePart \/ PackageEntries \/ PackageReadBack
     \/ PackagePublication \/ PackageConfirmed \/ Break("package")
     \/ PackageUndone

(* Independent verification reads the package again and holds every        *)
(* payload against the manifest inside it.                                 *)
PackageVerified ==
  /\ Intact("package")
  /\ body["package"].says = body["package"].has
EvidenceDocument == Write("evidence", TRUE, Written(Nothing, Nothing))
EvidenceFile ==
  \/ Directory("evidence") \/ Reserve("evidence") \/ EvidenceDocument
  \/ Check("evidence", TRUE) \/ Link("evidence") \/ DropPart("evidence")
EvidenceConfirmed == Confirm("evidence")
EvidenceUndone == Undo("evidence")
MakeEvidence ==
  /\ Making("evidence")
  /\ EvidenceFile \/ EvidenceConfirmed \/ Break("evidence") \/ EvidenceUndone

(* Sealing encrypts the bytes of the package as they are read, refuses     *)
(* them when their digest is not the package's, and authenticates the part *)
(* file before it is published.                                            *)
SealedDirectory == Directory("sealed")
SealedPart == Reserve("sealed")
SealedBytes == Write("sealed", Intact("package"), body["package"])
SealedReadBack == Check("sealed", ~Lies("sealed"))
SealedPublication == Link("sealed") \/ DropPart("sealed")
SealedConfirmed == Confirm("sealed")
SealedUndone == Undo("sealed")
MakeSealed ==
  /\ Making("sealed")
  /\ \/ SealedDirectory \/ SealedPart \/ SealedBytes \/ SealedReadBack
     \/ SealedPublication \/ SealedConfirmed \/ Break("sealed")
     \/ SealedUndone

---------------------------------------------------------------------------
(* Cleanup calls of the providers.                                         *)

TakeAway(p) == RemoveFile(p) \/ RemoveDirectory(p)

(* A snapshot is removed in whatever state it is, and again without harm.  *)
SnapshotUnlinked ==
  /\ step = "unlink"
  /\ \/ /\ place["snapshot"] = {}
        /\ step' = "removed"
        /\ Kept
     \/ /\ "dir" \in place["snapshot"]
        /\ Names("snapshot", {"dir"})
        /\ body' = [body EXCEPT !["snapshot"] = Blank]
        /\ step' = "rmdir"
        /\ UNCHANGED <<ledger, source, mishaps>>
     \/ /\ place["snapshot"] # {}
        /\ Mishap("removal")
        /\ step' = "stuck"
        /\ UNCHANGED <<place, body, ledger, source>>
RemoveSnapshot == SnapshotUnlinked \/ RemoveDirectory("snapshot")
RemoveExport(e) == TakeAway(e)
RemoveCapture(c) == TakeAway(c)
RemoveManifest == TakeAway("manifest")
RemovePackage == TakeAway("package")
RemoveEvidence == TakeAway("evidence")
RemoveSealed == TakeAway("sealed")

Cleaning(p) == (Doing("try", p) \/ Doing("again", p)) /\ UNCHANGED runVars

Clean ==
  \/ Cleaning("snapshot") /\ RemoveSnapshot
  \/ \E e \in Exports : Cleaning(e) /\ RemoveExport(e)
  \/ \E c \in Captures : Cleaning(c) /\ RemoveCapture(c)
  \/ Cleaning("manifest") /\ RemoveManifest
  \/ Cleaning("package") /\ RemovePackage
  \/ Cleaning("evidence") /\ RemoveEvidence
  \/ Cleaning("sealed") /\ RemoveSealed

---------------------------------------------------------------------------
(* The calls return to the code that made them.                            *)

HeldStill == UNCHANGED <<stage, held, object, attempted, flagged>>

Return ==
  /\ todo # <<>>
  /\ \/ step \in {"made", "removed"} /\ Proceed /\ UNCHANGED <<slip, ahead>>
     \/ step = "unmade" /\ Fail /\ UNCHANGED slip
     \/ step = "stuck" /\ Head(todo).do = "try"
        /\ slip' = TRUE /\ Proceed /\ UNCHANGED ahead
     \/ step = "stuck" /\ Head(todo).do = "again" /\ Fail /\ UNCHANGED slip
  /\ HeldStill
  /\ Kept

(* Validations between the calls: evidence, media sources, a failed        *)
(* cleanup of the block, the verifier's verdict.                           *)
Holds(op) == CASE op.do = "intact" -> Intact(op.p)
               [] op.do = "stat" -> CapturePreflight
               [] op.do = "settle" -> ~slip
               [] op.do = "verify" -> PackageVerified

Demand ==
  /\ todo # <<>> /\ step = "idle"
  /\ Head(todo).do \in {"intact", "stat", "settle", "verify"}
  /\ IF Holds(Head(todo)) THEN Proceed /\ UNCHANGED ahead ELSE Fail
  /\ HeldStill
  /\ UNCHANGED slip
  /\ Kept

(* A reference reaches the variable of the runtime.                        *)
TakeOver ==
  /\ todo # <<>> /\ Head(todo).do = "hand"
  /\ held' = held \cup {Head(todo).p}
  /\ Proceed
  /\ UNCHANGED <<stage, slip, ahead, object, attempted, flagged>>
  /\ Kept

(* The durable store reads the artifact it owns and publishes it; an       *)
(* exception may come before or after the object is there.                 *)
StoreArtifact ==
  /\ Doing("store", "sealed")
  /\ attempted' = TRUE
  /\ \/ /\ Intact("sealed")
        /\ object' = <<body["sealed"]>>
        /\ Proceed
        /\ UNCHANGED <<ahead, mishaps>>
     \/ /\ Intact("sealed")
        /\ Mishap("build")
        /\ object' \in {<<>>, <<body["sealed"]>>}
        /\ Fail
     \/ /\ ~Intact("sealed")
        /\ Fail
        /\ UNCHANGED <<object, mishaps>>
  /\ UNCHANGED <<stage, held, slip, flagged, place, body, ledger, source>>

(* Between two stages the activity is written down and the lease renewed;  *)
(* either may raise.                                                       *)
Interrupted ==
  /\ todo = <<>> /\ ahead /\ stage \notin {"transients", "over"}
  /\ Mishap("build")
  /\ ahead' = FALSE
  /\ UNCHANGED <<stage, todo, held, slip, object, attempted, flagged>>
  /\ UNCHANGED <<place, body, ledger, source, step>>

NextStage ==
  /\ todo = <<>> /\ stage \notin {"transients", "over"}
  /\ slip' = FALSE
  /\ IF ahead /\ stage # "durable"
     THEN LET s == Stages[Position(stage) + 1]
          IN stage' = s /\ Continue(CallsOf(s))
     ELSE stage' = "transients" /\ Continue(Transients)
  /\ UNCHANGED <<held, ahead, object, attempted, flagged>>
  /\ Kept

(* The areas that are empty are removed, then the workspace; anything left *)
(* is reported.                                                            *)
Sweep ==
  /\ todo = <<>> /\ stage = "transients"
  /\ stage' = "over"
  /\ flagged' = (slip \/ \E p \in Places : place[p] # {})
  /\ UNCHANGED <<todo, held, slip, ahead, object, attempted>>
  /\ UNCHANGED pubVars

Environment ==
  /\ stage # "over"
  /\ \/ \E p \in Places : Damage(p)
     \/ \E c \in Captures : EditMedia(c)
  /\ UNCHANGED runVars

Worker ==
  \/ MakeSnapshot \/ (\E e \in Exports : MakeExport(e))
  \/ (\E c \in Captures : MakeCapture(c))
  \/ MakeManifest \/ MakePackage \/ MakeEvidence \/ MakeSealed
  \/ Clean \/ Return \/ Demand \/ TakeOver \/ StoreArtifact
  \/ Interrupted \/ NextStage
  \/ Sweep

PipelineInit ==
  /\ PubInit
  /\ stage = "snapshot" /\ slip = FALSE /\ ahead = TRUE
  /\ held = {} /\ object = <<>> /\ attempted = FALSE /\ flagged = FALSE
  /\ todo = SnapshotStage

PipelineStart == PipelineInit /\ step = Start(SnapshotStage)
PipelineNext == Worker \/ Environment
PipelineSpec == PipelineStart /\ [][PipelineNext]_pipelineVars

Over == stage = "over"

---------------------------------------------------------------------------
(* What is stored is what its manifest says, whatever went bad on disk and *)
(* whatever the application did to its media files meanwhile; and a media  *)
(* file is in it only as it was at the snapshot's cutoff.                  *)
StoredIsSound ==
  \A i \in DOMAIN object :
    /\ object[i].form = "full"
    /\ object[i].says = object[i].has
    /\ \A c \in Captures : object[i].has[c] = "old"

(* While the execution goes ahead the tenant's rows exist in at least one  *)
(* finished product: nothing is removed before its successor is whole.  A  *)
(* finished execution that reports no incomplete cleanup left nothing of   *)
(* its plaintext or artifacts in the workspace; and exceptions while       *)
(* something is built are always cleaned up after, by whoever holds the    *)
(* reference at that moment.  Only the artifact that a failed store was    *)
(* given stays for its retry.                                              *)
NothingIsLostOrLeft ==
  /\ (ahead /\ stage # "snapshot") =>
       \/ place["snapshot"] = Whole
       \/ \A q \in Exports : place[q] = Whole
       \/ place["package"] = Whole
       \/ place["sealed"] = Whole
       \/ object # <<>>
  /\ Over =>
       /\ ~flagged => \A p \in Places : place[p] = {}
       /\ (mishaps["removal"] = 0 /\ mishaps["damage"] = 0) =>
            \A p \in Places : (p = "sealed" /\ attempted) \/ place[p] = {}
=============================================================================
