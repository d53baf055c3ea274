------------------------------ MODULE TenantData ------------------------------
(***************************************************************************)
(* The data path of backup and restore: the rows of tenants, the logical   *)
(* export of one tenant (engine/logical_export.py), and the engine that    *)
(* replaces the tenant's rows by those of a package                        *)
(* (engine/logical_restore.py).                                            *)
(*                                                                         *)
(* The export reads one snapshot and the replacement is one transaction,   *)
(* so each is one step; the application writes before, between and after   *)
(* them.  What a row holds is its references, one value that stands for    *)
(* its other fields, and the name of its media file.  How a package is     *)
(* written and read back intact is in ArtifactPipeline.                    *)
(***************************************************************************)
EXTENDS BackupRegistry

CONSTANTS
    Tenants,
    Rows,           \* public identities of rows
    ModelOf,        \* the model of each
    OwnerOf,        \* its tenant
    PublicId,       \* the order of public identities
    Values,
    Media,          \* names in the media storage
    Gone,           \* no row, no reference, no file, no package
    Scope,          \* the scope of the backups
    FirstRows,      \* the rows of the application when it starts
    MostEdits       \* bound: changes by the application

VARIABLES
    row,            \* identity -> row
    package,        \* tenant -> the records of its last backup
    restore,        \* the restore that runs: tenant, records, stage
    outcome,        \* how the last restore ended
    edits

dataVars == <<row, package, restore, outcome, edits>>

Sampled == {ModelOf[r] : r \in Rows}
Targets(m) == Refers(m) \cap Sampled
Present(db) == {r \in Rows : db[r] # Gone}
RowsOf(db, t) == {r \in Present(db) : OwnerOf[r] = t}
References(db, r) == {db[r].refs[m] : m \in DOMAIN db[r].refs} \ {Gone}

DataInit ==
    /\ row = FirstRows
    /\ package = [t \in Tenants |-> Gone]
    /\ restore = Gone
    /\ outcome = "none"
    /\ edits = 0

-----------------------------------------------------------------------------
(* The application                                                         *)

Edit == edits < MostEdits /\ edits' = edits + 1 /\ UNCHANGED <<package, restore, outcome>>

\* Models are validated: a reference stays within the tenant, and uploads get a
\* name of their own.
Save(r) ==
    /\ Edit
    /\ \E v \in Values, f \in (IF ModelOf[r] \in MediaModels THEN Media ELSE {}) \cup {Gone} :
       \E refs \in [Targets(ModelOf[r]) -> RowsOf(row, OwnerOf[r]) \cup {Gone}] :
          /\ \A m \in DOMAIN refs :
                IF refs[m] = Gone THEN m \in MayRefer(ModelOf[r])
                ELSE ModelOf[refs[m]] = m /\ refs[m] # r
          /\ f # Gone => \A o \in Present(row) : row[o].file # f
          /\ row' = [row EXCEPT ![r] = [refs |-> refs, value |-> v, file |-> f]]

Drop(r) ==
    /\ Edit
    /\ row[r] # Gone
    /\ \A o \in Present(row) : r \notin References(row, o)
    /\ row' = [row EXCEPT ![r] = Gone]

\* update(), bulk_create and SQL pass the validation by: a reference or a file
\* of another tenant gets into a row.
Misplace(r) ==
    /\ Edit
    /\ row[r] # Gone
    /\ \E o \in Present(row) :
          /\ OwnerOf[o] # OwnerOf[r]
          /\ \/ ModelOf[o] \in Targets(ModelOf[r])
                /\ row' = [row EXCEPT ![r].refs[ModelOf[o]] = o]
             \/ row[o].file # Gone /\ ModelOf[r] \in MediaModels
                /\ row' = [row EXCEPT ![r].file = row[o].file]

-----------------------------------------------------------------------------
(* The export                                                              *)

\* Component by component, model by model, by public identity.
Place == [r \in Rows |-> SelectInSeq(ModelsOf(Scope), LAMBDA m : m = ModelOf[r])]
InPlan(r) == Place[r] > 0
Precedes(r, o) == \/ Place[r] < Place[o]
                  \/ Place[r] = Place[o] /\ PublicId[r] < PublicId[o]

ResolvesAnywhere(t, r) == TRUE
ResolvesWithin(t, r) == \A o \in References(row, r) : OwnerOf[o] = t

MediaExclusive(t, r) ==
    row[r].file # Gone => \A o \in Present(row) : row[o].file = row[r].file => OwnerOf[o] = t

RecordsOf(t) ==
    LET rows == {r \in RowsOf(row, t) : InPlan(r)}
        At(i) == CHOOSE r \in rows : Cardinality({o \in rows : Precedes(o, r)}) = i - 1
    IN  [i \in 1 .. Cardinality(rows) |-> [id |-> At(i), row |-> row[At(i)]]]

\* A reference or a file that is not the tenant's alone fails the export.
Export(t) ==
    /\ \A r \in RowsOf(row, t) : InPlan(r) => ResolvesWithin(t, r) /\ MediaExclusive(t, r)
    /\ package' = [package EXCEPT ![t] = RecordsOf(t)]
    /\ UNCHANGED <<row, restore, outcome, edits>>

-----------------------------------------------------------------------------
(* The restore                                                             *)

Ids(records) == {records[i].id : i \in DOMAIN records}
Content(records, r) == records[CHOOSE i \in DOMAIN records : records[i].id = r].row

End(how) == restore' = Gone /\ outcome' = how

\* prepare() takes records of the tenant alone, each of them once.
Acceptable(t, records) == \A r \in Ids(records) : OwnerOf[r] = t

Prepare(t, origin) ==
    /\ restore = Gone
    /\ package[origin] # Gone
    /\ IF Acceptable(t, package[origin])
       THEN /\ restore' = [tenant |-> t, records |-> package[origin], stage |-> "prepared"]
            /\ outcome' = "none"
       ELSE End("refused")
    /\ UNCHANGED <<row, package, edits>>

\* What a restore does not replace must be as it was: the same rows with the
\* same content.
Preserved(m) == ~ Replaceable(m)
CountsAgree(t, records) ==
    \A m \in Sampled : Preserved(m) =>
        Cardinality({r \in RowsOf(row, t) : ModelOf[r] = m})
            = Cardinality({r \in Ids(records) : ModelOf[r] = m})
KeptAsRecorded(t, records) ==
    /\ CountsAgree(t, records)
    /\ \A r \in Ids(records) : Preserved(ModelOf[r]) => row[r] = Content(records, r)

\* Checked before anything is changed ...
CheckDependencies ==
    /\ restore # Gone /\ restore.stage = "prepared"
    /\ IF KeptAsRecorded(restore.tenant, restore.records)
       THEN restore' = [restore EXCEPT !.stage = "checked"] /\ UNCHANGED outcome
       ELSE End("refused")
    /\ UNCHANGED <<row, package, edits>>

\* ... and again in the transaction.  Models are deleted in reverse order: a
\* protecting reference of an earlier model is still there.
ReplaceablesOfAll(t) == {r \in Present(row) : InPlan(r) /\ Replaceable(ModelOf[r])}
Replaceables(t) == {r \in RowsOf(row, t) : InPlan(r) /\ Replaceable(ModelOf[r])}
DeletionProtected(t) ==
    \E r, o \in Replaceables(t) : o \in References(row, r) /\ <<ModelOf[r], ModelOf[o]>> \in Protects

\* Rows are created in the order of their records, and a reference must lead
\* to a row that is kept or was created before.
Unresolved(records) ==
    \E i \in DOMAIN records :
        /\ Replaceable(ModelOf[records[i].id])
        /\ \E m \in DOMAIN records[i].row.refs :
              LET o == records[i].row.refs[m] IN
              o # Gone /\ \A j \in DOMAIN records : records[j].id = o => Replaceable(m) /\ j >= i

Rebuilt(t, records) ==
    [r \in Rows |-> IF r \in Ids(records) /\ Replaceable(ModelOf[r]) THEN Content(records, r)
                    ELSE IF r \in Replaceables(t) THEN Gone
                    ELSE row[r]]

\* Before the transaction ends, every count and field is compared.
MatchesPackage(db, t, records) ==
    /\ {r \in RowsOf(db, t) : InPlan(r)} = Ids(records)
    /\ \A r \in Ids(records) : db[r] = Content(records, r)

Mutate ==
    /\ restore # Gone /\ restore.stage = "checked"
    /\ LET t == restore.tenant
           records == restore.records
       IN  IF ~ KeptAsRecorded(t, records) THEN End("refused") /\ UNCHANGED row
           ELSE IF DeletionProtected(t) THEN End("protected") /\ UNCHANGED row
           ELSE IF Unresolved(records) THEN End("unresolved") /\ UNCHANGED row
           ELSE IF ~ MatchesPackage(Rebuilt(t, records), t, records) THEN End("failed") /\ UNCHANGED row
           ELSE End("succeeded") /\ row' = Rebuilt(t, records)
    /\ UNCHANGED <<package, edits>>

\* A process dies, a lock is lost or a write fails: the transaction is undone.
Interrupt ==
    /\ restore # Gone
    /\ End("failed")
    /\ UNCHANGED <<row, package, edits>>

DataNext ==
    \/ \E r \in Rows : Save(r) \/ Drop(r) \/ Misplace(r)
    \/ \E t, origin \in Tenants : Prepare(t, origin)
    \/ \E t \in Tenants : Export(t)
    \/ CheckDependencies \/ Mutate \/ Interrupt

DataSpec == DataInit /\ [][DataNext]_dataVars

-----------------------------------------------------------------------------
(* Properties                                                              *)

\* A package stands for itself: it holds rows of its tenant alone, and whatever
\* they refer to is in it (_resolve_relation of the export, "TenantIsolationViolation").
PackageIsSelfContained ==
    \A t \in Tenants : package[t] # Gone =>
        \A r \in Ids(package[t]) :
            /\ OwnerOf[r] = t
            /\ \A m \in DOMAIN Content(package[t], r).refs :
                  Content(package[t], r).refs[m] \in Ids(package[t]) \cup {Gone}

\* A restore that succeeds makes the tenant what the package says, and no other
\* step of a restore, and no restore of another tenant, changes a row
\* (logical_restore.py, mutate and verify).
RestoreIsExact ==
    [][edits' = edits =>
         LET t == restore.tenant
             recorded == Ids(restore.records)
         IN  IF outcome' = "succeeded" /\ restore' # restore
             THEN /\ \A r \in Rows : OwnerOf[r] # t \/ ~ InPlan(r) => row'[r] = row[r]
                  /\ {r \in RowsOf(row', t) : InPlan(r)} = recorded
                  /\ \A r \in recorded : row'[r] = Content(restore.records, r)
             ELSE row' = row]_dataVars

\* A backup of a tenant can be restored: its references are resolved by their
\* public identities (BACKUPS_PHASE3B.md, "Foreign keys and M2M links resolve by
\* registered logical public identity").  False.
BackupsResolve == outcome \notin {"protected", "unresolved"}
=============================================================================
