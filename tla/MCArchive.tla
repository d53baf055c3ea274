----------------------------- MODULE MCArchive -----------------------------
(***************************************************************************)
(* The instances of the backup engine for TLC: one execution of a backup,  *)
(* the two durable stores, the retention over the local one, the data of   *)
(* two tenants, and a restore on disk.  One behaviour plays in one part,   *)
(* which the initial state picks.                                          *)
(***************************************************************************)
EXTENDS ArtifactPipeline, Retention, RemoteStore, TenantData, MediaRestore

CONSTANTS x1, x2, f1, o1, o2, o3, again, b1, b2, b3, w1, w2, k1, c1, c2, ph1, ph2,
    shop, other, wa, wb, ca, cc, pa, pb, sa, sp, pm, img

VARIABLE part

MCVars == <<part, pipelineVars, retentionVars, remoteVars, dataVars, restoreRunVars>>

MCExportPlan == <<x1, x2>>
MCCapturePlan == <<f1>>
MCPhotos == <<ph1, ph2>>
MCOf == o1 :> b1 @@ o2 :> b2 @@ o3 :> b3 @@ again :> b1
MCAge == o1 :> 1 @@ o2 :> 2 @@ o3 :> 3 @@ again :> 4

\* A shop with two categories, a product, a supplier and a payment to him,
\* and its neighbour with a product.
MCModelOf == (wa :> "Warehouse" @@ wb :> "Warehouse" @@ ca :> "Category" @@ cc :> "Category"
              @@ pa :> "Product" @@ pb :> "Product" @@ sa :> "Supplier"
              @@ sp :> "SupplierPayment" @@ pm :> "PaymentMethod")
MCOwnerOf == [r \in Rows |-> IF r \in {wb, pb} THEN other ELSE shop]
MCPublicId == [r \in Rows |-> IF r = cc THEN 1 ELSE 2]

Unrelated(m) == [t \in Targets(m) |-> Gone]
MCFirstRows == [r \in Rows |->
    [refs |-> IF r = sp THEN [Unrelated("SupplierPayment") EXCEPT !["Supplier"] = sa]
              ELSE Unrelated(ModelOf[r]),
     value |-> 1, file |-> IF r = pa THEN img ELSE Gone]]

Symmetric == Permutations({w1, w2})

Parts == {"execution", "local", "remote", "retention", "data", "restore"}

MCInit ==
    /\ part \in Parts
    /\ PipelineStart /\ RemoteInit /\ DataInit /\ MediaInit
    /\ IF part = "retention" THEN AllStored({o1, o2, o3}) ELSE RetentionInit
    /\ part # "remote" => bucket[k1] = "none"
    /\ part # "restore" => \A p \in Everything : live[p] = Nobody

\* Bound: slips, uploads and deletions during one restore.
MostTroubles == 2

\* One artifact that is stored twice.
LocalPart == /\ StoreNext
             /\ InUse' \cap {o2, o3} = {}
             /\ UNCHANGED <<flag, plans, run, reflagged>>

MCNext ==
    /\ UNCHANGED part
    /\ part # "execution" => UNCHANGED pipelineVars
    /\ part \notin {"local", "retention"} => UNCHANGED retentionVars
    /\ part # "remote" => UNCHANGED remoteVars
    /\ part # "data" => UNCHANGED dataVars
    /\ part # "restore" => UNCHANGED restoreRunVars
    /\ \/ part = "execution" /\ PipelineNext
       \/ part = "local" /\ LocalPart
       \/ part = "remote" /\ RemoteNext
       \/ part = "retention" /\ RetentionNext /\ flag'[again] = "daily"
       \/ part = "data" /\ DataNext
       \/ part = "restore" /\ RestoreNext /\ slips' + uploads' <= MostTroubles

MCSpec == MCInit /\ [][MCNext]_MCVars

\* The local and the remote store both implement the contract of a store.
StoresKeepPromises == KeepsPromises /\ RemoteKeepsPromises

\* In the part in which only retention deletes.
RetentionKeepsNewest == part = "retention" => KeepsNewest
=============================================================================
