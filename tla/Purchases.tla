----------------------------- MODULE Purchases -----------------------------
(***************************************************************************)
(* A purchase and the account of its supplier: create, receive, pay,       *)
(* return and cancel of apps/purchases/services.py, the cheques that are   *)
(* paid later, and the profile form of apps/suppliers/services.py, which   *)
(* writes the balance it read.                                             *)
(*                                                                         *)
(* A quantity is a whole number of 1/Scale units and a cost is per unit,   *)
(* in the money unit, so that a part delivery has to be rounded.  There is *)
(* one supplier.  Stock movements are in StockLedger.                      *)
(***************************************************************************)
EXTENDS WebRequests, Integers, FiniteSetsExt, SequencesExt

CONSTANTS
    Supplier,           \* the row of the supplier
    PurchaseIds,        \* identities of purchases
    Orders,             \* what may be ordered: lines and charges
    Payable,            \* bound: amounts that are paid
    MaxPayments,        \* bound: payment rows of a purchase
    Scale               \* parts of a unit

Line == [qty : Nat \ {0}, cost : Nat]

ASSUME PurchaseConstants ==
    /\ Orders \subseteq [lines : Seq(Line), charges : Int]
    /\ Payable \subseteq Nat \ {0}
    /\ MaxPayments \in Nat
    /\ Scale \in Nat \ {0}
    /\ None \notin PurchaseIds
    /\ {Business, Supplier} \cup PurchaseIds \subseteq Lockable
    /\ Business # Supplier /\ {Business, Supplier} \cap PurchaseIds = {}

VARIABLES
    purchase,           \* Purchase with its items, payments and returns, or None
    owed                \* Supplier.balance

purchaseVars == <<purchase, owed>>
purchasesVars == <<webVars, purchaseVars>>

PurchaseStatus == {"ordered", "partial", "received", "cancelled"}
ChequeStatus == {"pending", "cleared", "bounced", "cancelled"}

\* A payment in cash, by card or by bank is settled at once.
SupplierPayment == [amount : Nat \ {0}, status : ChequeStatus \cup {"settled"}]

\* booked and takenBack are history: what receipts and returns did to the
\* balance of the supplier.  pieces counts the deliveries of each line.
Purchase == [lines : Seq(Line), charges : Int, status : PurchaseStatus,
             got : Seq(Nat), back : Seq(Nat), paid : Nat, payments : Seq(SupplierPayment),
             booked : Int, takenBack : Nat, pieces : Seq(Nat)]

\* An empty place is not a purchase.
ASSUME NoneIsNoPurchase == None \notin Purchase

\* money(): to the nearest money unit, halves away from zero.
Worth(qty, cost) == (2 * qty * cost + Scale) \div (2 * Scale)

Amounts(p) == [i \in DOMAIN p.payments |-> p.payments[i].amount]
PaidBy(p, statuses) ==
    SumFunctionOnSet(Amounts(p), {i \in DOMAIN p.payments : p.payments[i].status \in statuses})
PendingCheques(p) == PaidBy(p, {"pending"})

Subtotal(lines) == SumFunction([i \in DOMAIN lines |-> Worth(lines[i].qty, lines[i].cost)])
Total(p) == Subtotal(p.lines) + p.charges

PurchasesInit ==
    /\ WebInit
    /\ purchase = [p \in PurchaseIds |-> None]
    /\ owed = 0

-----------------------------------------------------------------------------
(* Requests and their locks                                                *)

\* Numbered documents lock the business first; cheques and cancellations
\* start at the purchase.
LocksFor(q) ==
    CASE q.op \in {"receive", "pay", "return"} -> << Business, q.id, Supplier >>
      [] q.op = "cheque" -> << q.id, Supplier >>
      [] q.op = "cancel" -> << q.id >>
      [] OTHER -> << Business, Supplier >>

RequestPurchase(s, q) ==
    /\ Begin(s, q, LocksFor(q))
    /\ UNCHANGED purchaseVars

Known == {p \in PurchaseIds : purchase[p] # None}

\* What may be entered for each line, and not zero for all of them.
Quantities(lines) ==
    {f \in [DOMAIN lines -> 0 .. Max({lines[i].qty : i \in DOMAIN lines})] :
        \E i \in DOMAIN f : f[i] > 0}

RequestCreate(s) == \E p \in PurchaseIds \ Known, o \in Orders :
    /\ \A r \in Sessions : req[r] # None /\ req[r].op = "create" => req[r].id # p
    /\ RequestPurchase(s, [op |-> "create", id |-> p, order |-> o])

RequestGoods(s) == \E p \in Known, op \in {"receive", "return"} :
    \E f \in Quantities(purchase[p].lines) :
        RequestPurchase(s, [op |-> op, id |-> p, qty |-> f])

RequestPay(s) == \E p \in Known, a \in Payable, m \in {"settled", "pending"} :
    /\ Len(purchase[p].payments) < MaxPayments
    /\ RequestPurchase(s, [op |-> "pay", id |-> p, amount |-> a, status |-> m])

RequestCheque(s) == \E p \in Known, to \in ChequeStatus :
    \E n \in DOMAIN purchase[p].payments :
        /\ purchase[p].payments[n].status # "settled"
        /\ RequestPurchase(s, [op |-> "cheque", id |-> p, row |-> n, to |-> to])

RequestCancel(s) == \E p \in Known : RequestPurchase(s, [op |-> "cancel", id |-> p])

RequestProfile(s) == RequestPurchase(s, [op |-> "profile"])

RowNow(row) ==
    IF row = Supplier THEN owed ELSE IF row = Business THEN None ELSE purchase[row]

LockPurchase(s) == ReadLocked(s, RowNow) /\ UNCHANGED purchaseVars

Mine(s) == seen[s][req[s].id]

-----------------------------------------------------------------------------
(* What a request decides from the purchase that it locked                 *)

\* Never more of a line than is pending, and of a purchase that stands.
Receivable(p, qty) ==
    /\ p.status # "cancelled"
    /\ \A i \in DOMAIN qty : p.got[i] + qty[i] <= p.lines[i].qty

Value(p, qty) == SumFunction([i \in DOMAIN qty |-> Worth(qty[i], p.lines[i].cost)])

ChargesWithEveryReceipt(p, got) == p.charges
ChargesDue(p, got) ==
    IF SumFunction(got) >= SumFunction([i \in DOMAIN p.lines |-> p.lines[i].qty])
    THEN p.charges ELSE 0

Received(p, qty) ==
    LET got == [i \in DOMAIN qty |-> p.got[i] + qty[i]]
        full == SumFunction(got) >= SumFunction([i \in DOMAIN p.lines |-> p.lines[i].qty])
    IN  [p EXCEPT !.got = got,
                  !.status = IF full THEN "received" ELSE "partial",
                  !.booked = @ + Value(p, qty) + ChargesDue(p, got),
                  !.pieces = [i \in DOMAIN qty |-> @[i] + (IF qty[i] > 0 THEN 1 ELSE 0)]]

PayableBesideCheques(p, amount) == p.status # "cancelled" /\ p.paid + amount <= Total(p)
PayableNow(p, amount) ==
    /\ p.status # "cancelled"
    /\ p.paid + PendingCheques(p) + amount <= Total(p)

Paid(p, amount, status) ==
    [p EXCEPT !.payments = Append(@, [amount |-> amount, status |-> status]),
              !.paid = IF status = "settled" THEN @ + amount ELSE @]

\* A status that is set again changes nothing; a decided cheque stays.
ChequeMoves(cheque, to) == cheque.status = "pending" /\ to # "pending"

ChequeMoved(p, n, to) ==
    [p EXCEPT !.payments[n].status = to,
              !.paid = IF to = "cleared" THEN @ + p.payments[n].amount ELSE @]

Returnable(p, qty) == \A i \in DOMAIN qty : qty[i] <= p.got[i] - p.back[i]

Returned(p, qty) ==
    [p EXCEPT !.back = [i \in DOMAIN qty |-> @[i] + qty[i]],
              !.takenBack = @ + Value(p, qty)]

Cancellable(p) ==
    /\ p.status # "cancelled"
    /\ \A i \in DOMAIN p.got : p.got[i] = 0
    /\ p.paid = 0 /\ PendingCheques(p) = 0

-----------------------------------------------------------------------------
(* Commits.  The balance is updated with F(), the profile form writes every *)
(* column as it was read.                                                   *)

Answered(s, op) == Ready(s) /\ req[s].op = op /\ End(s)

NewPurchase(order) ==
    LET none == [i \in DOMAIN order.lines |-> 0]
    IN  [lines |-> order.lines, charges |-> order.charges, status |-> "ordered",
         got |-> none, back |-> none, paid |-> 0, payments |-> <<>>,
         booked |-> 0, takenBack |-> 0, pieces |-> none]

CreatePurchase(s) ==
    /\ Answered(s, "create")
    /\ LET p == NewPurchase(req[s].order)
       IN  purchase' = [purchase EXCEPT ![req[s].id] = IF Total(p) >= 0 THEN p ELSE @]
    /\ UNCHANGED owed

ReceivePurchase(s) ==
    /\ Answered(s, "receive")
    /\ Receivable(Mine(s), req[s].qty)
    /\ LET p == Received(Mine(s), req[s].qty)
       IN  /\ purchase' = [purchase EXCEPT ![req[s].id] = p]
           /\ owed' = owed + p.booked - Mine(s).booked

RecordPurchasePayment(s) ==
    /\ Answered(s, "pay")
    /\ PayableNow(Mine(s), req[s].amount)
    /\ purchase' = [purchase EXCEPT ![req[s].id] =
                       Paid(Mine(s), req[s].amount, req[s].status)]
    /\ owed' = IF req[s].status = "settled" THEN owed - req[s].amount ELSE owed

UpdateChequeStatus(s) ==
    /\ Answered(s, "cheque")
    /\ LET cheque == Mine(s).payments[req[s].row]
       IN  /\ ChequeMoves(cheque, req[s].to)
           /\ owed' = IF req[s].to = "cleared" THEN owed - cheque.amount ELSE owed
    /\ purchase' = [purchase EXCEPT ![req[s].id] =
                       ChequeMoved(Mine(s), req[s].row, req[s].to)]

ReturnPurchase(s) ==
    /\ Answered(s, "return")
    /\ Returnable(Mine(s), req[s].qty)
    /\ purchase' = [purchase EXCEPT ![req[s].id] = Returned(Mine(s), req[s].qty)]
    /\ owed' = owed - Value(Mine(s), req[s].qty)

CancelPurchase(s) ==
    /\ Answered(s, "cancel")
    /\ Cancellable(Mine(s))
    /\ purchase' = [purchase EXCEPT ![req[s].id].status = "cancelled"]
    /\ UNCHANGED owed

SaveSupplier(s) ==
    /\ Answered(s, "profile")
    /\ owed' = seen[s][Supplier]
    /\ UNCHANGED purchase

\* A guard fails, the worker is lost, or the database breaks a deadlock.
AbandonPurchase(s) == RollBack(s) /\ UNCHANGED purchaseVars

PurchasesStep(s) ==
    \/ LockPurchase(s)
    \/ CreatePurchase(s) \/ ReceivePurchase(s) \/ RecordPurchasePayment(s)
    \/ UpdateChequeStatus(s) \/ ReturnPurchase(s) \/ CancelPurchase(s)
    \/ SaveSupplier(s)
    \/ AbandonPurchase(s)

PurchasesNext == \E s \in Sessions :
    \/ RequestCreate(s) \/ RequestGoods(s) \/ RequestPay(s) \/ RequestCheque(s)
    \/ RequestCancel(s) \/ RequestProfile(s)
    \/ PurchasesStep(s)

PurchasesSpec == PurchasesInit /\ [][PurchasesNext]_purchasesVars

-----------------------------------------------------------------------------
(* Properties                                                              *)

PurchasesTypeOK ==
    /\ purchase \in [PurchaseIds -> Purchase \cup {None}]
    /\ owed \in Int

\* The balance of the supplier is what receipts booked, less returns and what
\* was paid: receive, pay, return and a cleared cheque lose nothing to each
\* other or to the profile form.
DueFor(p) == p.booked - p.takenBack - p.paid
SupplierAddsUp == owed = SumFunction([i \in Known |-> DueFor(purchase[i])])

\* record_purchase_payments: "Paid plus Pending Cheques cannot exceed Purchase
\* Total", whatever became of the cheques, and amount_paid is exactly the sum
\* of the settled and cleared rows.
PaidWithinTotal == \A i \in Known :
    LET p == purchase[i]
    IN  /\ p.paid = PaidBy(p, {"settled", "cleared"})
        /\ p.paid + PendingCheques(p) <= Total(p)

\* No line is received beyond its order or returned beyond its receipts, and
\* a cancelled purchase has no goods and no money.
GoodsInOrder == \A i \in Known :
    LET p == purchase[i]
    IN  /\ \A n \in DOMAIN p.lines :
              /\ p.back[n] <= p.got[n] /\ p.got[n] <= p.lines[n].qty
              /\ p.lines[n].qty = p.got[n] => p.status \in {"partial", "received"}
        /\ p.status = "cancelled" => p.booked = 0 /\ p.paid = 0 /\ PendingCheques(p) = 0

\* "Supplier payable only increases when goods are received": when all of a
\* purchase has come, what its receipts booked is its total, charges included
\* once, up to half a money unit for each delivery of a line and its total.
FullReceiptBooksTotal == \A i \in Known :
    LET p == purchase[i]
        gap == p.booked - Total(p)
        halves == SumFunction([n \in DOMAIN p.lines |->
                                  IF p.pieces[n] = 1 THEN 0 ELSE p.pieces[n] + 1])
    IN  p.status = "received" => 2 * gap \in -halves .. halves

PurchasesAddUp == SupplierAddsUp /\ PaidWithinTotal /\ GoodsInOrder /\ FullReceiptBooksTotal
=============================================================================
