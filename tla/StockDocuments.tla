---------------------------- MODULE StockDocuments ----------------------------
(***************************************************************************)
(* The documents of apps/inventory/workflows.py that move stock: transfers *)
(* between warehouses, adjustments (some waiting for approval) and         *)
(* physical counts with their snapshot, all posted through the ledger of   *)
(* StockLedger while other requests run.                                   *)
(*                                                                         *)
(* A workflow function locks its document (select_for_update), checks the  *)
(* status, calls record_movement once per row and saves the new status,    *)
(* all in one transaction.  The form that enters counted quantities is     *)
(* different: count_detail saves item by item, with no transaction and no  *)
(* lock, after one look at the status.                                     *)
(***************************************************************************)
EXTENDS StockLedger

CONSTANTS
    Transfers, Adjustments, Counts,     \* document identities
    Rows,           \* the item rows a form may submit
    Reasons,        \* adjustment reasons
    CountValues     \* quantities that may be entered for a counted item

Row == [item : Items, qty : Int]

ASSUME DocumentConstants ==
    /\ Transfers \subseteq Docs /\ Adjustments \subseteq Docs /\ Counts \subseteq Docs
    /\ Transfers \cap Adjustments = {} /\ Transfers \cap Counts = {}
    /\ Adjustments \cap Counts = {}
    /\ Rows \subseteq Seq(Row)
    /\ CountValues \subseteq Int

VARIABLES
    transfer,       \* StockTransfer with its items, or NoDoc
    adjustment,     \* StockAdjustment with its items, or NoDoc
    draft,          \* the adjustment a session is creating and has not committed
    count,          \* StockCount with its items, or NoDoc
    form            \* the counted quantities a session is saving, or NoDoc

docVars == <<transfer, adjustment, draft, count, form>>
vars == <<level, stocked, hist, avg, policy, relaxed, txn, pending, newAvg,
          transfer, adjustment, draft, count, form>>

TransferStatus == {"draft", "dispatched", "received", "cancelled"}
AdjustmentStatus == {"pending", "approved", "rejected"}
Transfer == [from : Warehouses, to : Warehouses, rows : Rows, status : TransferStatus]
Adjustment == [wh : Warehouses, reason : Reasons, rows : Rows, status : AdjustmentStatus]

\* The items on a count sheet are the domain of expected; counted holds those
\* that have been entered.
Sheet == UNION {[S -> Int] : S \in SUBSET Items}
Count == [wh : Warehouses, expected : Sheet, counted : Sheet, status : {"open", "approved"}]
Form == [count : Counts, values : Sheet, approve : BOOLEAN]

\* The mark of what does not exist is none of them.
ASSUME NothingIsNoDocument ==
    NoDoc \notin Transfer \cup Adjustment \cup Count \cup Form

Init ==
    /\ InitLedger
    /\ transfer = [t \in Transfers |-> NoDoc]
    /\ adjustment = [x \in Adjustments |-> NoDoc]
    /\ draft = [s \in Sessions |-> NoDoc]
    /\ count = [c \in Counts |-> NoDoc]
    /\ form = [s \in Sessions |-> NoDoc]

\* A session that is still saving a form has not started anything else.
Free(s) == form[s] = NoDoc

\* _lock_inventory_rows: all products of the rows, in primary key order.
ProductsOf(rows) == {ProductOf[rows[k].item] : k \in DOMAIN rows}
Unlocked(rows) == \A p \in ProductsOf(rows), s \in Sessions : p \notin txn[s].held

\* The calls of record_movement for the rows of a document.
LineOf(row, w, type, qty, enforce, d, leg, k) ==
    [wh |-> w, item |-> row.item, type |-> type, qty |-> qty, cost |-> 0,
     enforce |-> enforce, mode |-> "by", ref |-> [doc |-> d, leg |-> leg, row |-> k]]

-----------------------------------------------------------------------------
(* Transfers                                                               *)

CreateTransfer == \E t \in Transfers, from, to \in Warehouses, rows \in Rows :
    /\ transfer[t] = NoDoc
    /\ from # to
    /\ rows # <<>>
    /\ \A k \in DOMAIN rows : rows[k].item \notin MeterParents /\ rows[k].qty > 0
    /\ Unlocked(rows)
    /\ transfer' = [transfer EXCEPT ![t] = [from |-> from, to |-> to, rows |-> rows,
                                            status |-> "draft"]]
    /\ UNCHANGED <<ledgerVars, adjustment, draft, count, form>>

TransferLines(t, w, type, sign, leg) ==
    LET rows == transfer[t].rows
    IN  [k \in 1 .. Len(rows) |->
           LineOf(rows[k], w, type, sign * rows[k].qty, TRUE, t, leg, k)]

\* The lock on the transfer row is the doc of the session's transaction.
StatusOf(d) == IF d = NoDoc THEN "none" ELSE d.status

DispatchTransfer(s) == \E t \in Transfers :
    /\ Free(s)
    /\ StatusOf(transfer[t]) = "draft"
    /\ Begin(s, "dispatch", t,
             TransferLines(t, transfer[t].from, "transfer_out", -1, "out"), {})
    /\ UNCHANGED docVars

ReceiveTransfer(s) == \E t \in Transfers :
    /\ Free(s)
    /\ StatusOf(transfer[t]) = "dispatched"
    /\ Begin(s, "receive", t,
             TransferLines(t, transfer[t].to, "transfer_in", 1, "in"), {})
    /\ UNCHANGED docVars

\* Goods on their way go back to where they came from; a draft just ends.
NothingBack(t) == <<>>
CancelLines(t) ==
    IF transfer[t].status = "dispatched"
    THEN TransferLines(t, transfer[t].from, "transfer_in", 1, "back")
    ELSE <<>>

CancelTransfer(s) == \E t \in Transfers :
    /\ Free(s)
    /\ StatusOf(transfer[t]) \in {"draft", "dispatched"}
    /\ Begin(s, "cancel", t, CancelLines(t), {})
    /\ UNCHANGED docVars

NewStatus == [dispatch |-> "dispatched", receive |-> "received", cancel |-> "cancelled"]

CommitTransfer(s) ==
    /\ txn[s].op \in DOMAIN NewStatus
    /\ transfer' = [transfer EXCEPT ![txn[s].doc].status = NewStatus[txn[s].op]]
    /\ Publish(s)
    /\ UNCHANGED <<adjustment, draft, count, form>>

-----------------------------------------------------------------------------
(* Adjustments                                                             *)

AdjustMovement(reason) ==
    CASE reason = "damage" -> "damage"
      [] reason \in {"expiry", "wastage"} -> "wastage"
      [] reason \in {"internal", "sample"} -> "internal"
      [] reason = "count" -> "count"
      [] OTHER -> "adjust_out"

\* At creation a Meter parent's change must be minus its whole balance.
ParentRowsExact(w, rows) == \A k \in DOMAIN rows :
    rows[k].item \in MeterParents =>
        level[<<w, rows[k].item>>] # 0 /\ rows[k].qty = - level[<<w, rows[k].item>>]

\* _apply_adjustment: the rows in their order; those without a change post nothing.
WithChange(a) == {k \in DOMAIN a.rows : a.rows[k].qty # 0}
InOrder(K) == {order \in [1 .. Cardinality(K) -> K] :
                  \A m, n \in DOMAIN order : m < n => order[m] < order[n]}
AdjustmentLines(x, a, order) ==
    [n \in 1 .. Len(order) |->
       LET row == a.rows[order[n]]
       IN  LineOf(row, a.wh, IF row.qty > 0 THEN "adjust_in" ELSE AdjustMovement(a.reason),
                  row.qty, TRUE, x, "adjust", order[n])]

\* What create_adjustment accepts, with the products of the rows locked.
Accepted(status) == {a \in Adjustment :
    /\ a.status = status
    /\ a.rows # <<>>
    /\ Unlocked(a.rows)
    /\ ParentRowsExact(a.wh, a.rows)}

RequestAdjustment == \E x \in Adjustments, a \in Accepted("pending") :
    /\ adjustment[x] = NoDoc
    /\ DocUnlocked(x)
    /\ adjustment' = [adjustment EXCEPT ![x] = a]
    /\ UNCHANGED <<ledgerVars, transfer, draft, count, form>>

AdjustNow(s) == \E x \in Adjustments, a \in Accepted("approved") :
    /\ Free(s)
    /\ adjustment[x] = NoDoc
    /\ \E order \in InOrder(WithChange(a)) :
          Begin(s, "adjust", x, AdjustmentLines(x, a, order), ProductsOf(a.rows))
    /\ draft' = [draft EXCEPT ![s] = a]
    /\ UNCHANGED <<transfer, adjustment, count, form>>

ApproveAdjustment(s) == \E x \in Adjustments :
    /\ Free(s)
    /\ StatusOf(adjustment[x]) = "pending"
    /\ \E order \in InOrder(WithChange(adjustment[x])) :
          Begin(s, "approve", x, AdjustmentLines(x, adjustment[x], order), {})
    /\ UNCHANGED docVars

RejectAdjustment == \E x \in Adjustments :
    /\ StatusOf(adjustment[x]) = "pending"
    /\ DocUnlocked(x)
    /\ adjustment' = [adjustment EXCEPT ![x].status = "rejected"]
    /\ UNCHANGED <<ledgerVars, transfer, draft, count, form>>

CommitAdjustment(s) ==
    /\ \/ /\ txn[s].op = "adjust"
          /\ adjustment' = [adjustment EXCEPT ![txn[s].doc] = draft[s]]
       \/ /\ txn[s].op = "approve"
          /\ adjustment' = [adjustment EXCEPT ![txn[s].doc].status = "approved"]
    /\ draft' = [draft EXCEPT ![s] = NoDoc]
    /\ Publish(s)
    /\ UNCHANGED <<transfer, count, form>>

-----------------------------------------------------------------------------
(* Physical counts                                                         *)

\* The snapshot covers every StockLevel row of the warehouse, without a lock.
StartCount == \E c \in Counts, w \in Warehouses :
    /\ count[c] = NoDoc
    /\ count' = [count EXCEPT ![c] =
                    [wh |-> w, status |-> "open", counted |-> [i \in {} |-> 0],
                     expected |-> [i \in {j \in Items : <<w, j>> \in stocked} |->
                                      level[<<w, i>>]]]]
    /\ UNCHANGED <<ledgerVars, transfer, adjustment, draft, form>>

\* count_detail receives the form and looks at the status once.
SubmitCounts(s) == \E c \in Counts, approve \in BOOLEAN :
    /\ Free(s)
    /\ txn[s].op = "idle"
    /\ StatusOf(count[c]) = "open"
    /\ \E S \in SUBSET DOMAIN count[c].expected : \E v \in [S -> CountValues] :
          form' = [form EXCEPT ![s] = [count |-> c, values |-> v, approve |-> approve]]
    /\ UNCHANGED <<ledgerVars, transfer, adjustment, draft, count>>

\* ... then saves each entered quantity in an UPDATE of its own.
SaveCounted(s) ==
    /\ form[s] # NoDoc
    /\ \E i \in DOMAIN form[s].values :
          LET v == form[s].values
              counted == count[form[s].count].counted
          IN  /\ count' = [count EXCEPT ![form[s].count].counted =
                             [j \in DOMAIN counted \cup {i} |->
                                 IF j = i THEN v[i] ELSE counted[j]]]
              /\ form' = [form EXCEPT ![s].values = [j \in DOMAIN v \ {i} |-> v[j]]]
    /\ UNCHANGED <<ledgerVars, transfer, adjustment, draft>>

\* ... and answers, or goes on to approve_count, which may refuse by then.
FinishForm(s) ==
    /\ form[s] # NoDoc
    /\ DOMAIN form[s].values = {}
    /\ form[s].approve => StatusOf(count[form[s].count]) # "open"
    /\ form' = [form EXCEPT ![s] = NoDoc]
    /\ UNCHANGED <<ledgerVars, transfer, adjustment, draft, count>>

LoseForm(s) ==
    /\ form[s] # NoDoc
    /\ form' = [form EXCEPT ![s] = NoDoc]
    /\ UNCHANGED <<ledgerVars, transfer, adjustment, draft, count>>

\* Items that were counted and differ, in some order.
Variance(k, i) == k.counted[i] - k.expected[i]
Differing(k) == {i \in DOMAIN k.counted : Variance(k, i) # 0}
LinesAgainstLevel(c, order) ==
    [n \in 1 .. Len(order) |->
       LineOf([item |-> order[n], qty |-> 0], count[c].wh, "count",
              count[c].counted[order[n]] - level[<<count[c].wh, order[n]>>], FALSE, c,
              "count", 0)]
CountLines(c, order) ==
    [n \in 1 .. Len(order) |->
       LineOf([item |-> order[n], qty |-> 0], count[c].wh, "count",
              Variance(count[c], order[n]), FALSE, c, "count", 0)]

ApproveCount(s) ==
    /\ form[s] # NoDoc
    /\ DOMAIN form[s].values = {}
    /\ form[s].approve
    /\ LET c == form[s].count
       IN  /\ StatusOf(count[c]) = "open"
           /\ \E order \in [1 .. Cardinality(Differing(count[c])) -> Differing(count[c])] :
                 /\ \A i \in Differing(count[c]) : \E n \in DOMAIN order : order[n] = i
                 /\ Begin(s, "count", c, CountLines(c, order), {})
    /\ form' = [form EXCEPT ![s] = NoDoc]
    /\ UNCHANGED <<transfer, adjustment, draft, count>>

CommitCount(s) ==
    /\ txn[s].op = "count"
    /\ count' = [count EXCEPT ![txn[s].doc].status = "approved"]
    /\ Publish(s)
    /\ UNCHANGED <<transfer, adjustment, draft, form>>

-----------------------------------------------------------------------------
(* Everything together                                                     *)

\* A request of another component, or one movement of any request.
LedgerStep(s) ==
    /\ \/ Free(s) /\ (StartPosting(s) \/ StartOpening(s))
       \/ RecordMovement(s) \/ SkipImportRow(s)
       \/ Commit(s)
    /\ UNCHANGED docVars

\* An aborted request also loses the adjustment it was creating.
LosesDraft(s) ==
    /\ draft' = [draft EXCEPT ![s] = NoDoc]
    /\ UNCHANGED <<transfer, adjustment, count, form>>
AbortStep(s) == (Refuse(s) \/ DeadlockVictim(s) \/ Crash(s)) /\ LosesDraft(s)

Next ==
    \/ CreateTransfer \/ RequestAdjustment \/ RejectAdjustment \/ StartCount
    \/ (AssignLocation \/ SetPolicy) /\ UNCHANGED docVars
    \/ \E s \in Sessions :
          \/ LedgerStep(s) \/ AbortStep(s)
          \/ DispatchTransfer(s) \/ ReceiveTransfer(s) \/ CancelTransfer(s)
          \/ CommitTransfer(s)
          \/ AdjustNow(s) \/ ApproveAdjustment(s) \/ CommitAdjustment(s)
          \/ SubmitCounts(s) \/ SaveCounted(s) \/ FinishForm(s) \/ LoseForm(s)
          \/ ApproveCount(s) \/ CommitCount(s)

DocSpec == Init /\ [][Next]_vars

\* PostgreSQL queues lock waiters first come, first served, and finds deadlocks.
Proceed(s) ==
    \/ (RecordMovement(s) \/ SkipImportRow(s)) /\ UNCHANGED docVars
    \/ Refuse(s) /\ LosesDraft(s)
Conclude(s) ==
    (Commit(s) /\ UNCHANGED docVars) \/ CommitTransfer(s) \/ CommitAdjustment(s) \/ CommitCount(s)
FairSession(s) ==
    /\ SF_vars(Proceed(s))
    /\ WF_vars(Conclude(s))
    /\ WF_vars(DeadlockVictim(s) /\ LosesDraft(s))
FairDocSpec == DocSpec /\ \A s \in Sessions : FairSession(s)

-----------------------------------------------------------------------------
(* Properties                                                              *)

DocTypeOK ==
    /\ TypeOK
    /\ transfer \in [Transfers -> Transfer \cup {NoDoc}]
    /\ adjustment \in [Adjustments -> Adjustment \cup {NoDoc}]
    /\ draft \in [Sessions -> Adjustment \cup {NoDoc}]

\* The movement of leg leg for row k of document d at location l is in the ledger.
Posted(d, leg, k, l) == \E n \in DOMAIN hist[l] :
    hist[l][n].ref = [doc |-> d, leg |-> leg, row |-> k]

\* The ledger tells the same story as the transfer: nothing moves before
\* dispatch; goods leave once, and then are on their way, or arrived, or back.
TransferLegs(t) ==
    LET r == transfer[t]
    IN  \A k \in DOMAIN r.rows :
          LET src == <<r.from, r.rows[k].item>>
              dst == <<r.to, r.rows[k].item>>
              out == Posted(t, "out", k, src)
              in == Posted(t, "in", k, dst)
              back == Posted(t, "back", k, src)
          IN  CASE r.status = "draft" -> ~out /\ ~in /\ ~back
                [] r.status = "dispatched" -> out /\ ~in /\ ~back
                [] r.status = "received" -> out /\ in /\ ~back
                [] r.status = "cancelled" -> out = back /\ ~in
TransferMatchesLedger == \A t \in Transfers : transfer[t] # NoDoc => TransferLegs(t)

\* Goods are neither lost nor made by moving them: over all warehouses, stock
\* plus what is on its way is what came in and went out by other documents.
Sum(S, f(_)) == MapThenSumSet(f, S)
OnHand(i) == Sum(Warehouses, LAMBDA w : level[<<w, i>>])
RowQty(t, i) == LET r == transfer[t].rows
                IN  Sum(DOMAIN r, LAMBDA k : IF r[k].item = i THEN r[k].qty ELSE 0)
InTransit(i) == Sum({t \in Transfers : StatusOf(transfer[t]) = "dispatched"},
                    LAMBDA t : RowQty(t, i))
NetOther(l) == Sum({n \in DOMAIN hist[l] : hist[l][n].ref.doc \notin Transfers},
                   LAMBDA n : hist[l][n].qty)
TransfersConserveStock == \A i \in Items :
    OnHand(i) + InTransit(i) = Sum(Warehouses, LAMBDA w : NetOther(<<w, i>>))

\* Both hold while two requests dispatch, receive and cancel one transfer.
TransfersAddUp == TransferMatchesLedger /\ TransfersConserveStock

\* Each transfer moves its goods as one indivisible hand-over, although its rows
\* are posted one by one under locks while other requests run.
Custody == INSTANCE StockCustody WITH onHand <- level, doc <- transfer,
                                      Drafts <- {d \in Transfer : d.status = "draft"}
TransfersAreHandOvers == Custody!CustodySpec

\* A pending or rejected adjustment has not touched stock; an approved one has
\* applied each of its changes.
AdjustmentMatchesLedger == \A x \in Adjustments : adjustment[x] # NoDoc =>
    LET a == adjustment[x]
    IN  \A k \in DOMAIN a.rows :
          Posted(x, "adjust", k, <<a.wh, a.rows[k].item>>)
             <=> (a.status = "approved" /\ a.rows[k].qty # 0)

\* Approved count variances flow through the ledger: the difference an approved
\* count shows for an item is the difference that was posted.
ApprovedVarianceInLedger == \A c \in Counts : StatusOf(count[c]) = "approved" =>
    \A i \in DOMAIN count[c].counted :
        LET l == <<count[c].wh, i>>
            posted == {n \in DOMAIN hist[l] : hist[l][n].ref.doc = c}
        IN  Sum(posted, LAMBDA n : hist[l][n].qty) = Variance(count[c], i)

\* Nobody works at a count that another request is at, saving quantities or
\* posting.  The code does not see to it: count_detail may save a quantity after
\* another request has approved the count, and the sheet then shows a difference
\* that was never posted.
AtCount(s, c) == txn[s].doc = c \/ (form[s] # NoDoc /\ form[s].count = c)
CountsAlone == \A s, r \in Sessions, c \in Counts : s # r => ~ (AtCount(s, c) /\ AtCount(r, c))

\* Both hold while stock moves between counting, requesting and approving.
CorrectionsAddUp == AdjustmentMatchesLedger /\ ApprovedVarianceInLedger

\* Every status moves forward only: a transfer never leaves received or
\* cancelled, an adjustment never leaves approved or rejected, a count never
\* reopens, and none of them changes its rows.
DocumentsSettle == [][
    /\ \A t \in Transfers : StatusOf(transfer[t]) \in {"received", "cancelled"}
                               => transfer'[t] = transfer[t]
    /\ \A x \in Adjustments : StatusOf(adjustment[x]) \in {"approved", "rejected"}
                               => adjustment'[x] = adjustment[x]
    /\ \A c \in Counts : StatusOf(count[c]) = "approved"
                               => count'[c].status = "approved"]_vars
=============================================================================
