------------------------------ MODULE CashDrawer ------------------------------
(***************************************************************************)
(* Registers, cashier shifts and the cash that hangs on them: apps/        *)
(* registers/services.py, the cash that apps/sales/services.py and         *)
(* apps/customers/services.py take in a shift, and the expenses that       *)
(* apps/expenses/services.py pays out of a drawer.                         *)
(*                                                                         *)
(* A request that is refused changes nothing and is left out.  One that is *)
(* accepted takes all its row locks and decides in one step (Decide), and  *)
(* writes in a later one (Commit): in between others commit whatever its   *)
(* locks do not forbid.  Deadlocks are the subject of SalesLedger.  The    *)
(* unique constraint on open shifts is left out: the locks must do.        *)
(* Only cash is modelled; creating registers, inactive branches and        *)
(* permissions other than a manager's are left out.                        *)
(*                                                                         *)
(* A definition that no other one uses, just before one of the same shape, *)
(* is the slip that a property has to find out.                            *)
(***************************************************************************)
EXTENDS Integers, FiniteSetsExt

CONSTANTS
    Registers, Shifts, Sales, Expenses, Users,      \* identities of rows
    Managers,       \* users with registers.manage, shifts.* and expenses.approve
    Sites,
    Requests,       \* requests that may run at the same time
    NoRow,          \* an empty place
    CashAmounts,    \* bound: amounts of cash
    Floats,         \* bound: opening cash
    MostTaken,      \* bound: what one sale brings to a shift
    MostOther,      \* bound: what collections bring to a shift beyond its refunds
    MostReopened    \* bound: how often a shift is reopened

ASSUME DrawerConstants ==
    /\ Managers \subseteq Users
    /\ CashAmounts \subseteq Nat \ {0} /\ Floats \subseteq Nat
    /\ MostTaken \in Nat /\ MostOther \in Nat /\ MostReopened \in Nat
    /\ IsFiniteSet(Shifts) /\ IsFiniteSet(Sales) /\ IsFiniteSet(Expenses)
    /\ NoRow \notin Shifts

VARIABLES
    register,       \* state and branch of each register
    shift,          \* Shift, or NoRow
    sale,           \* status of each sale
    cash,           \* per shift: cash taken for each sale; collections less refunds
    cashExpense,    \* CashExpense, or NoRow
    task,           \* per session: the request it executes, or NoRow
    read            \* per session: drawer totals it computed, or NoRow

rows == <<register, shift, sale, cash, cashExpense>>
vars == <<register, shift, sale, cash, cashExpense, task, read>>

Register == [state : {"active", "archived", "deleted"}, branch : Sites]
Shift == [register : Registers, branch : Sites, cashier : Users,
          status : {"open", "closed", "approved"}, opening : Nat, expected : Int,
          reopened : 0 .. MostReopened]
SaleStatus == {"none", "sold", "voided", "returned"}
Cash == [taken : [Sales -> Nat], other : Int]
ExpenseStatus == {"submitted", "approved", "rejected", "cancelled"}
CashExpense == [status : ExpenseStatus, shift : Shifts \cup {NoRow}, amount : Nat]

ASSUME RowsAreNotNoRow ==
    /\ NoRow \notin Shift \cup CashExpense
    /\ \A S \in SUBSET Shifts : NoRow \notin [S -> Int]

TypeOK ==
    /\ register \in [Registers -> Register]
    /\ shift \in [Shifts -> Shift \cup {NoRow}]
    /\ sale \in [Sales -> SaleStatus]
    /\ cash \in [Shifts -> Cash]
    /\ cashExpense \in [Expenses -> CashExpense \cup {NoRow}]

Init ==
    /\ \E b \in Sites : register = [r \in Registers |-> [state |-> "active", branch |-> b]]
    /\ shift = [s \in Shifts |-> NoRow]
    /\ sale = [x \in Sales |-> "none"]
    /\ cash = [s \in Shifts |-> [taken |-> [x \in Sales |-> 0], other |-> 0]]
    /\ cashExpense = [e \in Expenses |-> NoRow]
    /\ task = [u \in Requests |-> NoRow]
    /\ read = [u \in Requests |-> NoRow]

-----------------------------------------------------------------------------
(* What requests look at                                                   *)

Opened == {s \in Shifts : shift[s] # NoRow}
Open == {s \in Opened : shift[s].status = "open"}
Closed == Opened \ Open
OpenOn(r) == {s \in Open : shift[s].register = r}
OpenBy(u) == {s \in Open : shift[s].cashier = u}

Spent(s, expenses) ==
    LET Paid == {e \in Expenses : /\ expenses[e] # NoRow
                                  /\ expenses[e].shift = s
                                  /\ expenses[e].status \notin {"rejected", "cancelled"}}
        amount == [e \in Paid |-> expenses[e].amount]
    IN  MapThenSumSet(LAMBDA e : amount[e], Paid)

\* shift_totals: expected_cash.  The payments of a voided sale do not count.
Drawer(s, expenses) ==
    shift[s].opening
    + MapThenSumSet(LAMBDA x : cash[s].taken[x], {x \in Sales : sale[x] # "voided"})
    + cash[s].other - Spent(s, expenses)

\* The drawer an expense is paid from, as a set.
DrawersOf(e) == IF cashExpense[e] = NoRow THEN {} ELSE {cashExpense[e].shift} \ {NoRow}
\* matching_open_drawer_shift: the actor's one unambiguous open drawer in the
\* branch of the expense, which is the branch of the shift.
OnlyDrawer(s, u) == {d \in OpenBy(u) : shift[d].branch = shift[s].branch} = {s}

\* Cash is only taken in or paid out by the cashier of an open shift.
Usable(s, u) == s \in Open /\ shift[s].cashier = u

\* The rows FOR UPDATE locks, the joined ones included.
BusinessRow == {"business"}
ShiftRows(s) == {s, shift[s].register, shift[s].branch, shift[s].cashier}
LocksOf(q) ==
    CASE q.op \in {"open", "archive", "reactivate", "delete"} ->
            {q.row, register[q.row].branch} \cup BusinessRow
      [] q.op = "edit" -> {q.branch, q.row, register[q.row].branch}
      [] q.op \in {"close", "approve", "reopen"} -> BusinessRow \cup ShiftRows(q.row)
      [] q.op = "sell" -> {"business", q.shift, shift[q.shift].register, shift[q.shift].branch}
      [] q.op \in {"pay", "refund"} -> {q.row, "business", q.shift}
      [] q.op = "void" -> {q.row, "business"}
      [] q.op = "collect" -> {"business", q.shift, shift[q.shift].branch}
      [] q.op \in {"spend", "amend"} ->
            {q.row} \cup UNION {ShiftRows(s) : s \in ({q.shift} \ {NoRow}) \cup DrawersOf(q.row)}
      [] q.op = "settle" -> {q.row} \cup DrawersOf(q.row)

Decided(u) == read[u] # NoRow
Free(u) == task[u] = NoRow /\ ~ Decided(u)

-----------------------------------------------------------------------------
(* What an accepted request changes                                        *)

\* The expenses as the request leaves them.
ExpensesAfter(q) ==
    CASE q.op \in {"spend", "amend"} ->
            [cashExpense EXCEPT ![q.row] = [status |-> q.status, shift |-> q.shift, amount |-> q.amount]]
      [] q.op = "settle" -> [cashExpense EXCEPT ![q.row].status = q.status]
      [] OTHER -> cashExpense

\* The closed shifts whose snapshot the request computes anew, old drawer and
\* new: _refresh_closed_shift_snapshots; and the one it closes.
NewDrawerOnly(q) == {q.shift} \cap Closed
Refreshed(q) == (({q.shift} \ {NoRow}) \cup DrawersOf(q.row)) \cap Closed
Counted(q) == CASE q.op = "close" -> {q.row}
                [] q.op = "spend" -> {}
                [] q.op = "amend" -> Refreshed(q)
                [] q.op = "settle" -> DrawersOf(q.row) \cap Closed
                [] OTHER -> {}

\* The request has its locks, decides and computes the totals it will write.
Decide(u, q) ==
    /\ \A v \in Requests \ {u} : Decided(v) => LocksOf(q) \cap LocksOf(task[v]) = {}
    /\ task' = [task EXCEPT ![u] = q]
    /\ read' = [read EXCEPT ![u] = [s \in Counted(q) |-> Drawer(s, ExpensesAfter(q))]]
    /\ UNCHANGED rows

Request(u, q) == Free(u) /\ Decide(u, q)

\* What an expense takes out of a drawer.
Taken(x, s) == IF x.shift = s /\ x.status \notin {"rejected", "cancelled"} THEN x.amount ELSE 0
ChangesClosed(q) == \E s \in Refreshed(q) :
    Taken(cashExpense[q.row], s) # Taken(ExpensesAfter(q)[q.row], s)

-----------------------------------------------------------------------------
(* Registers and shifts                                                    *)

OpenShift(u) == \E r \in Registers, s \in Shifts, by \in Users, a \in Floats :
    /\ shift[s] = NoRow
    /\ \A v \in Requests : Decided(v) => ~ (task[v].op = "open" /\ task[v].shift = s)
    /\ register[r].state = "active"
    /\ OpenOn(r) = {}
    /\ OpenBy(by) = {}
    /\ Request(u, [op |-> "open", row |-> r, shift |-> s, by |-> by, amount |-> a])

CloseShift(u) == \E s \in Open, by \in Users :
    /\ by = shift[s].cashier \/ by \in Managers
    /\ Request(u, [op |-> "close", row |-> s])

ApproveShift(u) == \E s \in Closed :
    /\ Managers # {}
    /\ shift[s].status = "closed"
    /\ Request(u, [op |-> "approve", row |-> s])

\* The register must be active and free; the cashier need not be.
AnyRegister(r) == register[r].state = "active"
FreeRegister(r) == register[r].state = "active" /\ OpenOn(r) = {}

ReopenShift(u) == \E s \in Closed :
    /\ Managers # {}
    /\ shift[s].reopened < MostReopened
    /\ FreeRegister(shift[s].register)
    /\ Request(u, [op |-> "reopen", row |-> s])

ArchiveRegister(u) == \E r \in Registers :
    /\ register[r].state = "active"
    /\ OpenOn(r) = {}
    /\ Request(u, [op |-> "archive", row |-> r])

ReactivateRegister(u) == \E r \in Registers :
    /\ register[r].state = "archived"
    /\ Request(u, [op |-> "reactivate", row |-> r])

DeleteRegister(u) == \E r \in Registers :
    /\ register[r].state # "deleted"
    /\ \A s \in Opened : shift[s].register # r
    /\ Request(u, [op |-> "delete", row |-> r])

\* RegisterForm.clean refuses another branch while a shift is open; save_register
\* locks the register later and does not look again.
FillRegisterForm(u) == \E r \in Registers, b \in Sites :
    /\ Free(u)
    /\ register[r].state # "deleted"
    /\ b # register[r].branch
    /\ OpenOn(r) = {}
    /\ task' = [task EXCEPT ![u] = [op |-> "edit", row |-> r, branch |-> b]]
    /\ UNCHANGED <<rows, read>>

SaveRegister(u) ==
    /\ task[u] # NoRow /\ ~ Decided(u)
    /\ register[task[u].row].state # "deleted"
    /\ Decide(u, task[u])

-----------------------------------------------------------------------------
(* Cash                                                                    *)

Sell(u) == \E x \in Sales, s \in Opened, by \in Users, a \in CashAmounts :
    /\ sale[x] = "none"
    /\ \A v \in Requests : Decided(v) => ~ (task[v].op = "sell" /\ task[v].row = x)
    /\ Usable(s, by)
    /\ register[shift[s].register] = [state |-> "active", branch |-> shift[s].branch]
    /\ Request(u, [op |-> "sell", row |-> x, shift |-> s, amount |-> a])

PayLater(u) == \E x \in Sales, s \in Opened, by \in Users, a \in CashAmounts :
    /\ sale[x] \in {"sold", "returned"}
    /\ Usable(s, by)
    /\ cash[s].taken[x] + a <= MostTaken
    /\ Request(u, [op |-> "pay", row |-> x, shift |-> s, amount |-> a])

Refund(u) == \E x \in Sales, s \in Opened, by \in Users, a \in CashAmounts :
    /\ sale[x] = "sold"
    /\ Usable(s, by)
    /\ Request(u, [op |-> "refund", row |-> x, shift |-> s, amount |-> a])

VoidSale(u) == \E x \in Sales :
    /\ sale[x] = "sold"
    /\ Request(u, [op |-> "void", row |-> x])

CollectPayment(u) == \E s \in Opened, by \in Users, a \in CashAmounts :
    /\ Usable(s, by)
    /\ cash[s].other + a <= MostOther
    /\ Request(u, [op |-> "collect", shift |-> s, amount |-> a])

\* A new expense, from the actor's drawer or from no drawer.  Above the threshold
\* a user who may not approve it only submits it.
FirstStatus(by) == IF by \in Managers THEN {"approved"} ELSE {"submitted", "approved"}

Spend(u) == \E e \in Expenses, s \in Open \cup {NoRow}, by \in Users, a \in CashAmounts :
    /\ cashExpense[e] = NoRow
    /\ \A v \in Requests : Decided(v) => ~ (task[v].op = "spend" /\ task[v].row = e)
    /\ s # NoRow => OnlyDrawer(s, by)
    /\ \E status \in FirstStatus(by) :
          Request(u, [op |-> "spend", row |-> e, shift |-> s, amount |-> a, status |-> status])

\* The views look at an expense, and fill the form from it, before the service
\* locks it, and the service does not look at its status again: whatever it was
\* then, it may be anything now.
\* An edit gives a new amount and decision, in the actor's drawer or none, or in
\* the closed drawer that the expense already has.
EditExpense(u) == \E e \in Expenses, s \in Shifts \cup {NoRow}, a \in CashAmounts, by \in Users :
    /\ cashExpense[e] # NoRow
    /\ \/ s = NoRow
       \/ s \in Open /\ OnlyDrawer(s, by)
       \/ s \in DrawersOf(e) \cap Closed
    /\ \E status \in FirstStatus(by) :
          LET q == [op |-> "amend", row |-> e, shift |-> s, amount |-> a, status |-> status]
          IN  /\ ChangesClosed(q) => by \in Managers
              /\ Request(u, q)

\* The correction of a decided expense moves it to another drawer, and writes
\* the amount and status of the form.
CorrectExpense(u) == \E e \in Expenses, s \in Opened \cup {NoRow}, a \in CashAmounts :
    /\ Managers # {}
    /\ cashExpense[e] # NoRow
    /\ \E status \in {"approved", "cancelled"} :
          Request(u, [op |-> "amend", row |-> e, shift |-> s, amount |-> a, status |-> status])

SettleExpense(u) == \E e \in Expenses, status \in {"approved", "rejected", "cancelled"} :
    /\ Managers # {}
    /\ cashExpense[e] # NoRow
    /\ Request(u, [op |-> "settle", row |-> e, status |-> status])

-----------------------------------------------------------------------------
(* What is written, and the end of a request                               *)

WriteRegister(q) == register' =
    CASE q.op = "archive" -> [register EXCEPT ![q.row].state = "archived"]
      [] q.op = "reactivate" -> [register EXCEPT ![q.row].state = "active"]
      [] q.op = "delete" -> [register EXCEPT ![q.row].state = "deleted"]
      [] q.op = "edit" -> [register EXCEPT ![q.row].branch = q.branch]
      [] OTHER -> register

\* totals: the expected cash of the shifts that are counted again.
WriteShift(q, totals) == shift' =
    CASE q.op = "open" ->
            [shift EXCEPT ![q.shift] =
               [register |-> q.row, branch |-> register[q.row].branch, cashier |-> q.by,
                status |-> "open", opening |-> q.amount, expected |-> 0, reopened |-> 0]]
      [] q.op = "approve" -> [shift EXCEPT ![q.row].status = "approved"]
      [] q.op = "reopen" -> [shift EXCEPT ![q.row].status = "open", ![q.row].reopened = @ + 1]
      [] OTHER -> [s \in Shifts |->
                     IF s \notin DOMAIN totals THEN shift[s]
                     ELSE [shift[s] EXCEPT !.expected = totals[s],
                                           !.status = IF q.op = "close" THEN "closed" ELSE @]]

WriteSale(q) == sale' =
    CASE q.op = "sell" -> [sale EXCEPT ![q.row] = "sold"]
      [] q.op = "refund" -> [sale EXCEPT ![q.row] = "returned"]
      [] q.op = "void" -> [sale EXCEPT ![q.row] = "voided"]
      [] OTHER -> sale

WriteCash(q) == cash' =
    CASE q.op \in {"sell", "pay"} -> [cash EXCEPT ![q.shift].taken[q.row] = @ + q.amount]
      [] q.op = "refund" -> [cash EXCEPT ![q.shift].other = @ - q.amount]
      [] q.op = "collect" -> [cash EXCEPT ![q.shift].other = @ + q.amount]
      [] OTHER -> cash

Done(u) ==
    /\ task' = [task EXCEPT ![u] = NoRow]
    /\ read' = [read EXCEPT ![u] = NoRow]

Commit(u) == LET q == task[u] IN
    /\ Decided(u)
    /\ WriteRegister(q)
    /\ WriteShift(q, read[u])
    /\ WriteSale(q)
    /\ WriteCash(q)
    /\ cashExpense' = ExpensesAfter(q)
    /\ Done(u)

\* An error, a deadlock, a lost connection, or a form that is never sent.
Abort(u) ==
    /\ task[u] # NoRow
    /\ Done(u)
    /\ UNCHANGED rows

RegisterRequest(u) ==
    \/ OpenShift(u) \/ CloseShift(u) \/ ApproveShift(u) \/ ReopenShift(u)
    \/ ArchiveRegister(u) \/ ReactivateRegister(u) \/ DeleteRegister(u)
    \/ FillRegisterForm(u) \/ SaveRegister(u)
CashRequest(u) ==
    \/ Sell(u) \/ PayLater(u) \/ Refund(u) \/ VoidSale(u) \/ CollectPayment(u)
    \/ Spend(u) \/ EditExpense(u) \/ CorrectExpense(u) \/ SettleExpense(u)

Next == \E u \in Requests :
    RegisterRequest(u) \/ CashRequest(u) \/ Commit(u) \/ Abort(u)

Spec == Init /\ [][Next]_vars

-----------------------------------------------------------------------------
(* Properties                                                              *)

\* A register has one open drawer, and it is not archived meanwhile: opening,
\* reopening and archiving at once never need the unique constraint on open
\* shifts (open_shift, reopen_shift, archive_register).
OneOpenShiftPerRegister == \A r \in Registers :
    /\ Cardinality(OpenOn(r)) <= 1
    /\ OpenOn(r) # {} => register[r].state = "active"

\* A cashier opens one drawer at a time ("You already have an open shift on
\* another register."); only a shift that a manager reopened may come on top.
OneOpenShiftPerCashier == \A c \in Users :
    Cardinality({s \in OpenBy(c) : shift[s].reopened = 0}) <= 1

\* What close_shift stored as expected cash is what the drawer's movements add
\* up to, whatever is paid, refunded, spent or corrected later; the one
\* difference it may show is the cash of sales that have been voided.
ClosedShiftExplained == \A s \in Closed : \E V \in SUBSET {x \in Sales : sale[x] = "voided"} :
    shift[s].expected = Drawer(s, cashExpense) + MapThenSumSet(LAMBDA x : cash[s].taken[x], V)

\* There is one open drawer for a register and one for a cashier, and what was
\* stored of a closed one stays explained.
DrawersAddUp == OneOpenShiftPerRegister /\ OneOpenShiftPerCashier /\ ClosedShiftExplained

\* A register keeps its branch while a shift is open on it (registers/forms.py:
\* "Close the register's open shift before changing its branch.").  False: the form
\* looks for the shift without a lock, and save_register does not look again.
OpenShiftInItsBranch == \A s \in Open : register[shift[s].register].branch = shift[s].branch
=============================================================================
