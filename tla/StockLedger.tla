----------------------------- MODULE StockLedger -----------------------------
(***************************************************************************)
(* The append-only stock ledger of apps/inventory/services.py: the         *)
(* StockMovement rows, the StockLevel cache beside them and the moving     *)
(* average cost, as changed by record_movement when several database       *)
(* transactions run at once.                                               *)
(*                                                                         *)
(* A session is one request inside transaction.atomic.  It takes the row   *)
(* lock of a product the first time it moves one of the product's items    *)
(* and keeps it until it commits or rolls back, so what it has written is  *)
(* kept apart, in pending, until the commit publishes it (READ COMMITTED). *)
(* Requests that only fail before their first write leave no trace and are *)
(* not modelled.  Audit rows and low-stock notices are write-only for      *)
(* stock and are left out.                                                 *)
(*                                                                         *)
(* Just before some definitions stands a second one of the same shape that *)
(* nothing uses: the definition as a slip in the code would have it, which *)
(* a property must find out.                                               *)
(***************************************************************************)
EXTENDS Integers, Sequences, FiniteSets, FiniteSetsExt

CONSTANTS
    Warehouses,     \* warehouses of one business
    Items,          \* what stock is kept of: a product, or one of its variants
    Products,       \* product rows: the unit of locking
    ProductOf,      \* the product an item belongs to
    MeterParents,   \* items that are the parent of a Meter product's variants
    Legacy,         \* balances that Meter parents had before variants were required
    Docs,           \* identities of transfers, adjustments and counts
    NoDoc,          \* the reference of a movement that no such document posts
    Postings,       \* requests that sales, purchases, catalog and imports may make
    Policies,       \* negative-stock policies the owner may choose
    Assignable,     \* bound: locations catalog may assign before stock arrives
    Sessions,       \* concurrent requests
    MaxMoves        \* bound: no request starts that would extend a longer history

Loc == Warehouses \X Items

MovementTypes == {"opening", "purchase", "sale", "sale_return", "purchase_return",
                  "transfer_out", "transfer_in", "adjust_in", "adjust_out",
                  "damage", "wastage", "internal", "count"}
InboundAveragesCost == {"opening", "purchase"}
NegativeAllowedTypes == {"count"}
MeterParentRepairTypes == {"adjust_in", "adjust_out", "count", "damage",
                           "wastage", "internal"}

\* What a movement refers to: a leg of a document and the row that caused it.
Legs == {"out", "in", "back", "adjust", "count", "direct"}
Refs == [doc : Docs \cup {NoDoc}, leg : Legs, row : Nat]
Direct == [doc |-> NoDoc, leg |-> "direct", row |-> 0]

\* One row of the StockMovement table.
Movement == [type : MovementTypes, qty : Int, cost : Nat, balance : Int, ref : Refs]

\* One intended call of record_movement.  mode "to" is the import that replaces
\* the balance: its quantity is the balance wanted, turned into a delta later.
Line == [wh : Warehouses, item : Items, type : MovementTypes, qty : Int,
         cost : Nat, enforce : BOOLEAN, mode : {"by", "to"}, ref : Refs]

\* op names the kind of request; ahead is TRUE when the request locks all its
\* products before the first movement, as complete_sale does.
Ops == {"post", "import", "opening", "dispatch", "receive", "cancel", "adjust",
        "approve", "count", "idle"}
Posting == [op : {"post", "import", "opening"}, lines : Seq(Line), ahead : BOOLEAN]

ASSUME StockConstants ==
    /\ IsFiniteSet(Warehouses)
    /\ ProductOf \in [Items -> Products]
    /\ MeterParents \subseteq Items
    /\ Legacy \in [Warehouses \X MeterParents -> Int]
    /\ NoDoc \notin Docs
    /\ "block" \in Policies /\ Policies \subseteq {"block", "warn", "allow"}
    /\ Assignable \subseteq Warehouses \X Items
    /\ MaxMoves \in Nat
    /\ Postings \subseteq Posting
    /\ \A p \in Postings : \A k \in DOMAIN p.lines :
          /\ p.lines[k].ref = Direct
          /\ p.lines[k].mode = "to" => p.op = "import"
          /\ p.lines[k].enforce \/ p.lines[k].type = "count"

VARIABLES
    level,      \* StockLevel.quantity; 0 where there is no row
    stocked,    \* the locations that have a StockLevel row
    hist,       \* the StockMovement rows of each location, oldest first
    avg,        \* average_cost of the product or variant
    policy,     \* BusinessSettings.negative_stock_policy
    relaxed,    \* history variable: the policy has once not been "block"
    txn,        \* the request each session is executing
    pending,    \* movements written but not yet committed, per session
    newAvg      \* average costs written but not yet committed, per session

ledgerVars == <<level, stocked, hist, avg, policy, relaxed, txn, pending, newAvg>>

Idle == [op |-> "idle", doc |-> NoDoc, todo |-> <<>>, held |-> {}, seen |-> "unread",
         done |-> {}]
Txn == [op : Ops, doc : Docs \cup {NoDoc}, todo : Seq(Line), held : SUBSET Products,
        seen : Policies \cup {"unread"}, done : SUBSET Loc]
NothingPending == [l \in Loc |-> <<>>]
Unwritten == [i \in Items |-> -1]

\* A Meter parent may carry a balance from before its product had variants.
LegacyHistory(l) ==
    IF l[2] \in MeterParents /\ Legacy[l] # 0
    THEN << [type |-> "opening", qty |-> Legacy[l], cost |-> 0,
             balance |-> Legacy[l], ref |-> Direct] >>
    ELSE <<>>

InitLedger ==
    /\ hist = [l \in Loc |-> LegacyHistory(l)]
    /\ level = [l \in Loc |-> IF l[2] \in MeterParents THEN Legacy[l] ELSE 0]
    /\ stocked = {l \in Loc : LegacyHistory(l) # <<>>}
    /\ avg = [i \in Items |-> 0]
    /\ policy = "block"
    /\ relaxed = FALSE
    /\ txn = [s \in Sessions |-> Idle]
    /\ pending = [s \in Sessions |-> NothingPending]
    /\ newAvg = [s \in Sessions |-> Unwritten]

-----------------------------------------------------------------------------
(* What a session reads: its own writes over what is committed.            *)

View(s, l) == LET p == pending[s][l]
              IN  IF p = <<>> THEN level[l] ELSE p[Len(p)].balance

TotalStock(s, i) == MapThenSumSet(LAMBDA w : View(s, <<w, i>>), Warehouses)

AverageCost(s, i) == IF newAvg[s][i] = -1 THEN avg[i] ELSE newAvg[s][i]

\* business.settings is fetched once per request, at the latest when a movement
\* would go below zero, and cached on the business instance.
PolicySeen(s) == IF txn[s].seen = "unread" THEN policy ELSE txn[s].seen

\* select_for_update on the product: granted when no other session holds it.
CanLockNothing(s, p) == TRUE
CanLock(s, p) == \A r \in Sessions \ {s} : p \notin txn[r].held

-----------------------------------------------------------------------------
(* record_movement                                                         *)

Place(m) == <<m.wh, m.item>>
Delta(s, m) == IF m.mode = "to" THEN m.qty - View(s, Place(m)) ELSE m.qty

\* A Meter parent's balance may only be corrected, exactly to zero.
MeterParentAnyCorrection(s, m) ==
    m.item \in MeterParents /\ m.type \notin MeterParentRepairTypes
MeterParentRefused(s, m) ==
    /\ m.item \in MeterParents
    /\ ~ /\ View(s, Place(m)) # 0
         /\ View(s, Place(m)) + Delta(s, m) = 0
         /\ m.type \in MeterParentRepairTypes

\* The negative-stock policy is consulted.
ShortOfCommitted(s, m) ==
    /\ Delta(s, m) < 0
    /\ level[Place(m)] + Delta(s, m) < 0
    /\ m.enforce
    /\ m.type \notin NegativeAllowedTypes
Short(s, m) ==
    /\ Delta(s, m) < 0
    /\ View(s, Place(m)) + Delta(s, m) < 0
    /\ m.enforce
    /\ m.type \notin NegativeAllowedTypes

Refused(s, m) ==
    \/ Delta(s, m) = 0
    \/ MeterParentRefused(s, m)
    \/ Short(s, m) /\ PolicySeen(s) = "block"

\* An import skips a bad row, with its error, and goes on with the next one.
ImportSkips(s, m) ==
    /\ txn[s].op = "import"
    /\ \/ m.item \in MeterParents
       \/ m.qty < 0
       \/ Place(m) \in txn[s].done
       \/ Delta(s, m) = 0

Entry(s, m) == [type |-> m.type, qty |-> Delta(s, m), cost |-> m.cost,
                balance |-> View(s, Place(m)) + Delta(s, m), ref |-> m.ref]

\* ROUND_HALF_UP of a non-negative quotient to the money unit.
RoundHalfUp(n, d) == (2 * n + d) \div (2 * d)

\* _update_average_cost: total is the item's stock over all warehouses with the
\* movement already in it; stock below zero counts as none.
UnclampedAverage(total, inQty, old, inCost) ==
    IF total <= 0 THEN inCost
    ELSE RoundHalfUp((total - inQty) * old + inQty * inCost, total)
UpdatedAverage(total, inQty, old, inCost) ==
    LET existing == IF total - inQty < 0 THEN 0 ELSE total - inQty
    IN  IF existing + inQty <= 0 THEN inCost
        ELSE RoundHalfUp(existing * old + inQty * inCost, existing + inQty)

WrittenAverage(s, m) ==
    IF m.type \in InboundAveragesCost /\ Delta(s, m) > 0 /\ m.cost # 0
    THEN [newAvg EXCEPT ![s][m.item] =
            UpdatedAverage(TotalStock(s, m.item) + Delta(s, m), Delta(s, m),
                           AverageCost(s, m.item), m.cost)]
    ELSE newAvg

Current(s) == Head(txn[s].todo)

\* The row is dealt with; its product stays locked until the request ends.
Advance(s, m, seen) == [txn[s] EXCEPT !.todo = Tail(@),
                                      !.held = @ \cup {ProductOf[m.item]},
                                      !.done = @ \cup {Place(m)},
                                      !.seen = seen]

RecordMovement(s) ==
    /\ txn[s].todo # <<>>
    /\ LET m == Current(s)
       IN  /\ CanLock(s, ProductOf[m.item])
           /\ ~ ImportSkips(s, m)
           /\ ~ Refused(s, m)
           /\ pending' = [pending EXCEPT ![s][Place(m)] = Append(@, Entry(s, m))]
           /\ newAvg' = WrittenAverage(s, m)
           /\ txn' = [txn EXCEPT ![s] = Advance(s, m, IF Short(s, m) THEN PolicySeen(s)
                                                         ELSE txn[s].seen)]
    /\ UNCHANGED <<level, stocked, hist, avg, policy, relaxed>>

SkipImportRow(s) ==
    /\ txn[s].todo # <<>>
    /\ LET m == Current(s)
       IN  /\ CanLock(s, ProductOf[m.item])
           /\ ImportSkips(s, m)
           /\ txn' = [txn EXCEPT ![s] = Advance(s, m, txn[s].seen)]
    /\ UNCHANGED <<level, stocked, hist, avg, policy, relaxed, pending, newAvg>>

-----------------------------------------------------------------------------
(* Transactions                                                            *)

\* select_for_update on the document's row.
NoDocLock(d) == TRUE
DocUnlocked(d) == \A s \in Sessions : txn[s].doc # d

Begin(s, op, doc, lines, ahead) ==
    /\ txn[s].op = "idle"
    /\ doc # NoDoc => DocUnlocked(doc)
    /\ \A p \in ahead : CanLock(s, p)
    /\ \A k \in DOMAIN lines : Len(hist[Place(lines[k])]) < MaxMoves
    /\ \E seen \in {policy, "unread"} :
          txn' = [txn EXCEPT ![s] = [op |-> op, doc |-> doc, todo |-> lines,
                                     held |-> ahead, seen |-> seen, done |-> {}]]
    /\ UNCHANGED <<level, stocked, hist, avg, policy, relaxed, pending, newAvg>>

End(s) ==
    /\ txn' = [txn EXCEPT ![s] = Idle]
    /\ pending' = [pending EXCEPT ![s] = NothingPending]
    /\ newAvg' = [newAvg EXCEPT ![s] = Unwritten]

\* Every row of the request has been dealt with.
AnyTime(s) == TRUE
Finished(s) == txn[s].todo = <<>>

\* COMMIT: everything the request wrote becomes visible at once.
Publish(s) ==
    /\ txn[s].op # "idle"
    /\ Finished(s)
    /\ level' = [l \in Loc |-> View(s, l)]
    /\ hist' = [l \in Loc |-> hist[l] \o pending[s][l]]
    /\ stocked' = stocked \cup {l \in Loc : pending[s][l] # <<>>}
    /\ avg' = [i \in Items |-> AverageCost(s, i)]
    /\ End(s)
    /\ UNCHANGED <<policy, relaxed>>

Rollback(s) ==
    /\ txn[s].op # "idle"
    /\ End(s)
    /\ UNCHANGED <<level, stocked, hist, avg, policy, relaxed>>

\* record_movement raises, and the exception leaves transaction.atomic.
Refuse(s) ==
    /\ txn[s].todo # <<>>
    /\ CanLock(s, ProductOf[Current(s).item])
    /\ ~ ImportSkips(s, Current(s))
    /\ Refused(s, Current(s))
    /\ Rollback(s)

\* The session waits for a product lock that r holds.
WaitsFor(s, r) ==
    /\ s # r
    /\ txn[s].todo # <<>>
    /\ ProductOf[Current(s).item] \in txn[r].held

\* The database ends a cycle of waiting sessions by aborting one of them.
NoVictim(s) == FALSE
DeadlockVictim(s) ==
    /\ \E C \in SUBSET Sessions :
          /\ s \in C
          /\ \A x \in C : /\ \E y \in C : WaitsFor(x, y)
                         /\ \E y \in C : WaitsFor(y, x)
    /\ Rollback(s)

\* The worker dies or the connection is lost: the database rolls back.
Crash(s) == Rollback(s)

-----------------------------------------------------------------------------
(* Requests of the other components                                        *)

\* Sales, returns, voids, purchase receipts and returns, imports.
StartPosting(s) == \E p \in Postings :
    /\ p.op # "opening"
    /\ p.lines # <<>>
    /\ Begin(s, p.op, NoDoc, p.lines,
             IF p.ahead THEN {ProductOf[p.lines[k].item] : k \in DOMAIN p.lines} ELSE {})

\* ensure_branch_opening_stock, with the product locked by its callers: nothing
\* when the location already has a StockLevel row.
StartOpening(s) == \E p \in Postings :
    /\ p.op = "opening"
    /\ p.lines # <<>>
    /\ Place(p.lines[1]) \notin stocked
    /\ p.lines[1].qty > 0
    /\ Begin(s, p.op, NoDoc, p.lines, {ProductOf[p.lines[1].item]})

\* The same call with quantity 0 only creates the row.
AssignLocation == \E l \in Assignable \ stocked :
    /\ \A s \in Sessions : ProductOf[l[2]] \notin txn[s].held
    /\ stocked' = stocked \cup {l}
    /\ UNCHANGED <<level, hist, avg, policy, relaxed, txn, pending, newAvg>>

\* The owner saves the settings form.
SetPolicy == \E p \in Policies \ {policy} :
    /\ policy' = p
    /\ relaxed' = (relaxed \/ p # "block")
    /\ UNCHANGED <<level, stocked, hist, avg, txn, pending, newAvg>>

Commit(s) == txn[s].op \in {"post", "import", "opening"} /\ Publish(s)

NextLedger ==
    \/ \E s \in Sessions : \/ StartPosting(s) \/ StartOpening(s)
                           \/ RecordMovement(s) \/ SkipImportRow(s) \/ Refuse(s)
                           \/ Commit(s) \/ DeadlockVictim(s) \/ Crash(s)
    \/ AssignLocation
    \/ SetPolicy

Spec == InitLedger /\ [][NextLedger]_ledgerVars

-----------------------------------------------------------------------------
(* Properties                                                              *)

\* Costs are left to AverageWithinCosts.
TypeOK ==
    /\ level \in [Loc -> Int]
    /\ stocked \subseteq Loc
    /\ hist \in [Loc -> Seq(Movement)]
    /\ policy \in Policies
    /\ relaxed \in BOOLEAN
    /\ txn \in [Sessions -> Txn]
    /\ pending \in [Sessions -> [Loc -> Seq(Movement)]]

\* The balance a sequence of movements reaches and the balance it starts from.
Balance(h) == IF h = <<>> THEN 0 ELSE h[Len(h)].balance
Chained(h) == \A n \in DOMAIN h :
                 h[n].balance = (IF n = 1 THEN 0 ELSE h[n - 1].balance) + h[n].qty

\* The cached StockLevel always equals what the ledger says: every movement's
\* balance_after is the previous one plus its quantity, whatever requests
\* interleave, and the level is the last balance_after.
LedgerChain == \A l \in Loc : Chained(hist[l]) /\ level[l] = Balance(hist[l])

\* While the policy has always been "block", an item is below zero only if a
\* count correction was posted for it: no order of concurrent sales, transfers
\* or adjustments oversells it.  (Meter parents start from legacy balances.)
NoOversell ==
    ~relaxed => \A l \in Loc :
        (l[2] \notin MeterParents /\ level[l] < 0) =>
            \E n \in DOMAIN hist[l] : hist[l][n].type = "count"

\* A Meter parent's balance is the legacy one or zero, for ever.
MeterParentOnlyRepaired ==
    \A l \in Loc : l[2] \in MeterParents =>
        /\ level[l] \in {Legacy[l], 0}
        /\ Len(hist[l]) <= 2

\* The moving average stays between the cheapest and the dearest unit cost paid,
\* unless stock without a cost (returns, adjustments, transfers) was mixed in,
\* which can only pull it down.
AverageWithinCosts ==
    \A i \in Items :
        LET moves == UNION {{hist[<<w, i>>][n] : n \in DOMAIN hist[<<w, i>>]} :
                               w \in Warehouses}
            inbound == {m \in moves : m.qty > 0}
            paid == {m.cost : m \in {x \in inbound : x.type \in InboundAveragesCost}}
                    \ {0}
        IN  /\ paid = {} => avg[i] = 0
            /\ paid # {} => avg[i] <= Max(paid)
            /\ (/\ paid # {}
                /\ \A m \in inbound : m.cost # 0 /\ m.type \in InboundAveragesCost)
               => avg[i] >= Min(paid)

\* A request holds back what others may do, never for ever: each one ends.
RequestsEnd == \A s \in Sessions : (txn[s].op # "idle") ~> (txn[s].op = "idle")

=============================================================================
