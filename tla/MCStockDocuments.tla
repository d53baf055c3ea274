--------------------------- MODULE MCStockDocuments ---------------------------
(***************************************************************************)
(* Small instances of StockDocuments: one for transfers between two        *)
(* warehouses, one for crossing transactions of the other components and   *)
(* for adjustments with a Meter parent and counts.                         *)
(***************************************************************************)
EXTENDS StockDocuments, TLC

CONSTANTS w1, w2, cloth, thread, meter, s1, s2, t1, t2, x1, x2, c1

VARIABLE part

MCVars == <<vars, part>>

Move(w, i, type, qty) ==
    [wh |-> w, item |-> i, type |-> type, qty |-> qty, cost |-> 0,
     enforce |-> TRUE, mode |-> "by", ref |-> Direct]
R(i, q) == [item |-> i, qty |-> q]

MCProductOf == [i \in Items |-> CASE i = cloth -> "pa" [] i = thread -> "pb" [] i = meter -> "pm"]
MCProducts == {"pa", "pb", "pm"}
MCLegacy == [l \in Warehouses \X MeterParents |-> 2]
MCAssignable == {<<w1, cloth>>}
MCSymmetry == Permutations({s1, s2})

NoPostings == {}
NoRows == {}

\* Two transfers whose rows name the items in opposite orders, and one that
\* names an item twice.
TransferRows == { << R(cloth, 1), R(thread, 1) >>, << R(thread, 1), R(cloth, 1), R(thread, 1) >> }
TransferPostings == {
    [op |-> "post", ahead |-> FALSE,
     lines |-> << Move(w1, thread, "purchase", 2), Move(w1, cloth, "purchase", 1) >>] }

AdjustRows == { << R(cloth, -1) >>, << R(cloth, 1), R(meter, -2) >>, << R(meter, -2), R(meter, -2) >>,
                << R(cloth, 0), R(cloth, -2) >> }
AdjustPostings == {
    [op |-> "post", ahead |-> FALSE, lines |-> << Move(w1, cloth, "sale_return", 1) >>] }

\* Transactions that cross: A sells both items, B returns them to the supplier
\* in the other order, receipts come at two prices and into two warehouses,
\* imports replace balances and trip over a Meter parent.
At(w, i, type, qty, cost) == [Move(w, i, type, qty) EXCEPT !.cost = cost]
Replace(w, i, qty) == [Move(w, i, "count", qty) EXCEPT !.enforce = FALSE, !.mode = "to"]
CrossingPostings == {
    [op |-> "opening", ahead |-> TRUE, lines |-> << At(w1, cloth, "opening", 2, 5) >>],
    [op |-> "post", ahead |-> TRUE,
     lines |-> << Move(w1, cloth, "sale", -1), Move(w1, thread, "sale", -1),
                  Move(w1, cloth, "sale", -2) >>],
    [op |-> "post", ahead |-> FALSE,
     lines |-> << Move(w1, thread, "purchase_return", -1),
                  Move(w1, cloth, "purchase_return", -1) >>],
    [op |-> "post", ahead |-> FALSE,
     lines |-> << At(w1, cloth, "purchase", 2, 8), At(w1, thread, "purchase", 2, 0) >>],
    [op |-> "post", ahead |-> FALSE, lines |-> << At(w2, cloth, "purchase", 1, 5) >>],
    [op |-> "post", ahead |-> FALSE, lines |-> << Move(w1, meter, "damage", -2) >>],
    [op |-> "post", ahead |-> FALSE, lines |-> << Move(w1, meter, "wastage", -1) >>],
    [op |-> "import", ahead |-> FALSE,
     lines |-> << Replace(w1, cloth, 1), Replace(w1, meter, 1), Replace(w1, cloth, 3) >>]
}

Busy == {s \in Sessions : txn[s].op # "idle" \/ form[s] # NoDoc}

\* A count at which one request at a time works, whatever others do beside it, or
\* adjustments in two sessions.
PostedTypes == UNION {{hist[l][n].type : n \in DOMAIN hist[l]} : l \in Warehouses \X {cloth}}
OneKind ==
    IF count[c1] # NoDoc
    THEN /\ \A x \in Adjustments : adjustment[x] = NoDoc
         /\ CountsAlone /\ policy = "block" /\ "sale_return" \notin PostedTypes
    ELSE /\ \A l \in Loc : Len(hist[l]) <= 2
         /\ (\E x \in Adjustments : adjustment[x] # NoDoc)
               => /\ PostedTypes \cap {"opening", "sale"} = {}
                  /\ \A l \in MCAssignable \cap stocked : hist[l] # <<>>

CountPostings == {
    [op |-> "opening", ahead |-> TRUE, lines |-> << Move(w1, cloth, "opening", 2) >>],
    [op |-> "post", ahead |-> TRUE, lines |-> << Move(w1, cloth, "sale", -1) >>] }
MixedPostings == AdjustPostings \cup CountPostings
LedgerPostings == CrossingPostings \cup MixedPostings

-----------------------------------------------------------------------------
(* Transfers, and in another run two parts: the ledger by itself, and      *)
(* corrections in one warehouse under a policy that is relaxed at most     *)
(* once, between requests.                                                 *)

TransfersInit == Init /\ part = "transfers"
TransfersSpec == /\ TransfersInit
                 /\ [][Next /\ UNCHANGED part]_MCVars
                 /\ \A s \in Sessions : FairSession(s)

Begun(s) == txn[s].op = "idle" /\ txn'[s].op # "idle"
From(postings, s) == \E p \in postings : txn'[s].op = p.op /\ txn'[s].todo = p.lines
\* At most two places move besides those of the Meter parents, which have moved
\* before.
Crossing ==
    /\ \A x \in Adjustments : adjustment'[x] = NoDoc
    /\ count'[c1] = NoDoc
    /\ \A s \in Sessions : Begun(s) => From(CrossingPostings, s) /\
          /\ \A k \in DOMAIN txn'[s].todo : Len(hist[Place(txn'[s].todo[k])]) < 2
          /\ Cardinality({l \in Loc : hist[l] # <<>>}) <= 4
    /\ policy' # "warn"

Correcting ==
    /\ \A x \in Adjustments : adjustment'[x] # NoDoc => adjustment'[x].wh = w1
    /\ \A s \in Sessions : draft'[s] # NoDoc => draft'[s].wh = w1
    /\ count'[c1] # NoDoc => count'[c1].wh = w1
    /\ \A s \in Sessions : Begun(s) => txn'[s].doc # NoDoc \/ From(MixedPostings, s)
    /\ policy' # policy => policy' = "warn" /\ Busy = {}

MCInit ==
    /\ part \in {"crossing", "correcting"}
    /\ Init
MCNext == UNCHANGED part /\ Next /\ (IF part = "crossing" THEN Crossing ELSE Correcting)
MCSpec == MCInit /\ [][MCNext]_MCVars

MCOneKind == part = "correcting" => OneKind
=============================================================================
