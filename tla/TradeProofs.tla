----------------------------- MODULE TradeProofs -----------------------------
(***************************************************************************)
(* Theorems about the drawer, the expenses, purchases and the checkout.    *)
(***************************************************************************)
EXTENDS Purchases, Checkout, ExpenseFlow, CashDrawer, SumTheorems

-----------------------------------------------------------------------------
(* The drawer: the inductive invariant.                                    *)

RegisterOps == {"open", "archive", "reactivate", "delete"}
ShiftOps == {"close", "approve", "reopen"}
SaleOps == {"sell", "pay", "refund"}
SpendOps == {"spend", "amend"}

EditRequest == [op : {"edit"}, row : Registers, branch : Sites]
DrawerRequest ==
    [op : {"open"}, row : Registers, shift : Shifts, by : Users, amount : Nat]
    \cup [op : {"archive", "reactivate", "delete"}, row : Registers]
    \cup EditRequest
    \cup [op : ShiftOps, row : Shifts]
    \cup [op : SaleOps, row : Sales, shift : Shifts, amount : Nat]
    \cup [op : {"void"}, row : Sales]
    \cup [op : {"collect"}, shift : Shifts, amount : Nat]
    \cup [op : SpendOps, row : Expenses, shift : Shifts \cup {NoRow}, amount : Nat,
          status : ExpenseStatus]
    \cup [op : {"settle"}, row : Expenses, status : ExpenseStatus]

TasksOK ==
    /\ task = [u \in Requests |-> task[u]] /\ read = [u \in Requests |-> read[u]]
    /\ \A u \in Requests :
         /\ Decided(u) => task[u] \in DrawerRequest
         /\ task[u] # NoRow /\ ~ Decided(u) => task[u] \in EditRequest

\* An expense is paid from a drawer that has been opened, or from none.
PaidFromOpened == \A e \in Expenses : DrawersOf(e) \subseteq Opened

\* The locks of requests that have decided do not meet.
Apart == \A u, v \in Requests :
    u # v /\ Decided(u) /\ Decided(v) => LocksOf(task[u]) \cap LocksOf(task[v]) = {}

\* What a request decided on stays so until it commits.
Fits(q) ==
    /\ q.op = "open" => /\ shift[q.shift] = NoRow /\ register[q.row].state = "active"
                        /\ OpenOn(q.row) = {} /\ OpenBy(q.by) = {}
    /\ q.op = "close" => q.row \in Open
    /\ q.op = "approve" => q.row \in Closed
    /\ q.op = "reopen" => /\ q.row \in Closed /\ shift[q.row].reopened < MostReopened
                          /\ register[shift[q.row].register].state = "active"
                          /\ OpenOn(shift[q.row].register) = {}
    /\ q.op = "archive" => OpenOn(q.row) = {}
    /\ q.op = "delete" => \A s \in Opened : shift[s].register # q.row
    /\ q.op = "sell" => sale[q.row] = "none"
    /\ q.op = "refund" => sale[q.row] = "sold"
    /\ q.op \in SaleOps \cup {"collect"} => q.shift \in Open
    /\ q.op = "spend" => cashExpense[q.row] = NoRow /\ q.shift \in Open \cup {NoRow}
    /\ q.op = "amend" => cashExpense[q.row] # NoRow /\ q.shift \in Opened \cup {NoRow}
    /\ q.op = "settle" => cashExpense[q.row] # NoRow
Prepared == \A u \in Requests : Decided(u) => Fits(task[u])

\* What was counted of a drawer is what its movements add up to, with the cash of
\* sales that were voided since.
NotVoided == {x \in Sales : sale[x] # "voided"}
Explained(s, total, expenses) == \E W \in SUBSET Sales :
    /\ NotVoided \subseteq W
    /\ total = shift[s].opening + SumOf(cash[s].taken, W) + cash[s].other - Spent(s, expenses)
Computed == \A u \in Requests : Decided(u) =>
    /\ read[u] \in [Counted(task[u]) -> Int]
    /\ \A s \in Counted(task[u]) : Explained(s, read[u][s], ExpensesAfter(task[u]))

OneDrawer == \A s \in Open :
    /\ register[shift[s].register].state = "active"
    /\ \A t \in Open : shift[s].register = shift[t].register => s = t
OneCashier == \A s, t \in Open :
    shift[s].cashier = shift[t].cashier /\ shift[s].reopened = 0 /\ shift[t].reopened = 0 => s = t
Explains == \A s \in Closed : Explained(s, shift[s].expected, cashExpense)

DrawerInv ==
    /\ TypeOK /\ TasksOK /\ PaidFromOpened /\ Apart /\ Prepared /\ Computed
    /\ OneDrawer /\ OneCashier /\ Explains

-----------------------------------------------------------------------------
(* What the definitions of the model give.                                 *)

\* Expected cash as a sum over the sales that are not voided.
LEMMA DrawerIsSum ==
    ASSUME NEW s, NEW expenses
    PROVE  Drawer(s, expenses) =
             shift[s].opening + SumOf(cash[s].taken, NotVoided) + cash[s].other - Spent(s, expenses)
BY DEF Drawer, SumOf, NotVoided, MapThenSumSet, MapThenFoldSet

LEMMA SpentType ==
    ASSUME NEW s, NEW expenses \in [Expenses -> CashExpense \cup {NoRow}]
    PROVE  Spent(s, expenses) \in Int
<1> DEFINE PaidFrom == {e \in Expenses : /\ expenses[e] # NoRow
                                         /\ expenses[e].shift = s
                                         /\ expenses[e].status \notin {"rejected", "cancelled"}}
           amount == [e \in PaidFrom |-> expenses[e].amount]
<1>1. Spent(s, expenses) = SumOf(amount, PaidFrom)
  BY DEF Spent, SumOf, MapThenSumSet, MapThenFoldSet
<1>2. IsFiniteSet(PaidFrom)
  BY DrawerConstants, FS_Subset
<1>3. \A e \in PaidFrom : amount[e] \in Int
  BY DEF CashExpense
<1> HIDE DEF PaidFrom, amount
<1> QED BY <1>1, <1>2, <1>3, SumType

\* What a drawer has paid depends on its own expenses alone.
LEMMA SpentSame ==
    ASSUME NEW s, NEW E, NEW F,
           \A e \in Expenses :
              \/ E[e] = F[e]
              \/ /\ E[e] = NoRow \/ E[e].shift # s
                 /\ F[e] = NoRow \/ F[e].shift # s
    PROVE  Spent(s, E) = Spent(s, F)
<1> DEFINE PaidFrom(X) == {e \in Expenses : /\ X[e] # NoRow
                                            /\ X[e].shift = s
                                            /\ X[e].status \notin {"rejected", "cancelled"}}
           amount(X) == [e \in PaidFrom(X) |-> X[e].amount]
<1>1. PaidFrom(E) = PaidFrom(F)
  OBVIOUS
<1>2. amount(E) = amount(F)
  BY <1>1
<1>3. ASSUME NEW X PROVE Spent(s, X) = SumOf(amount(X), PaidFrom(X))
  BY DEF Spent, SumOf, MapThenSumSet, MapThenFoldSet
<1> HIDE DEF PaidFrom, amount
<1> QED BY <1>1, <1>2, <1>3

LEMMA DrawerType ==
    ASSUME TypeOK, NEW s \in Opened, NEW expenses \in [Expenses -> CashExpense \cup {NoRow}]
    PROVE  /\ Drawer(s, expenses) \in Int
           /\ Explained(s, Drawer(s, expenses), expenses)
<1>1. IsFiniteSet(NotVoided)
  BY DrawerConstants, FS_Subset DEF NotVoided
<1>2. \A x \in NotVoided : cash[s].taken[x] \in Int
  BY DEF NotVoided, TypeOK, Opened, Cash
<1>3. SumOf(cash[s].taken, NotVoided) \in Int
  BY <1>1, <1>2, SumType
<1>4. shift[s].opening \in Int /\ cash[s].other \in Int
  BY DEF TypeOK, Opened, Cash, Shift
<1>5. Drawer(s, expenses) \in Int
  BY <1>3, <1>4, SpentType, DrawerIsSum
<1>6. NotVoided \in SUBSET Sales
  BY DEF NotVoided
<1> QED BY <1>5, <1>6, DrawerIsSum DEF Explained

\* The rows that the kinds of requests lock.
LEMMA LockSets ==
    ASSUME NEW q \in DrawerRequest
    PROVE  /\ q.op \in RegisterOps => {q.row, "business"} \subseteq LocksOf(q)
           /\ q.op = "edit" => q.row \in LocksOf(q)
           /\ q.op \in ShiftOps => {q.row, "business"} \subseteq LocksOf(q)
           /\ q.op \in SaleOps => {q.shift, "business"} \subseteq LocksOf(q)
           /\ q.op = "void" => {"business"} \subseteq LocksOf(q)
           /\ q.op = "collect" => {q.shift, "business"} \subseteq LocksOf(q)
           /\ q.op \in SpendOps =>
                {q.row} \cup ({q.shift} \ {NoRow}) \cup DrawersOf(q.row) \subseteq LocksOf(q)
           /\ q.op = "settle" => {q.row} \cup DrawersOf(q.row) \subseteq LocksOf(q)
<1>1. CASE q.op \in RegisterOps
  BY <1>1 DEF RegisterOps, LocksOf, BusinessRow, ShiftOps, SaleOps, SpendOps
<1>2. CASE q.op = "edit"
  BY <1>2 DEF RegisterOps, LocksOf, BusinessRow, ShiftOps, SaleOps, SpendOps
<1>3. CASE q.op \in ShiftOps
  BY <1>3 DEF RegisterOps, LocksOf, BusinessRow, ShiftRows, ShiftOps, SaleOps, SpendOps
<1>4. CASE q.op \in SaleOps
  BY <1>4 DEF RegisterOps, LocksOf, BusinessRow, ShiftRows, ShiftOps, SaleOps, SpendOps
<1>5. CASE q.op = "void"
  BY <1>5 DEF RegisterOps, LocksOf, BusinessRow, ShiftOps, SaleOps, SpendOps
<1>6. CASE q.op = "collect"
  BY <1>6 DEF RegisterOps, LocksOf, BusinessRow, ShiftOps, SaleOps, SpendOps
<1>7. CASE q.op \in SpendOps
  BY <1>7 DEF RegisterOps, LocksOf, BusinessRow, ShiftRows, ShiftOps, SaleOps, SpendOps
<1>8. CASE q.op = "settle"
  BY <1>8 DEF RegisterOps, LocksOf, BusinessRow, ShiftOps, SaleOps, SpendOps
<1> QED BY <1>1, <1>2, <1>3, <1>4, <1>5, <1>6, <1>7, <1>8
        DEF DrawerRequest, EditRequest, RegisterOps, ShiftOps, SaleOps, SpendOps

\* The shifts whose rows a request locks.
ShiftsOf(q) ==
    CASE q.op \in ShiftOps -> {q.row}
      [] q.op \in SaleOps \cup {"collect"} -> {q.shift}
      [] q.op \in SpendOps -> ({q.shift} \ {NoRow}) \cup DrawersOf(q.row)
      [] OTHER -> {}

\* A request keeps the locks it has while the rows that lead to them stay.
LEMMA LocksStay ==
    ASSUME NEW q \in DrawerRequest,
           q.op \in RegisterOps \cup {"edit"} => register'[q.row].branch = register[q.row].branch,
           \A s \in ShiftsOf(q) : /\ shift'[s].register = shift[s].register
                                  /\ shift'[s].branch = shift[s].branch
                                  /\ shift'[s].cashier = shift[s].cashier,
           q.op \in SpendOps \cup {"settle"} => cashExpense'[q.row] = cashExpense[q.row]
    PROVE  LocksOf(q)' = LocksOf(q)
<1>1. CASE q.op \in RegisterOps
  BY <1>1 DEF RegisterOps, LocksOf, BusinessRow, ShiftOps, SaleOps, SpendOps
<1>2. CASE q.op = "edit"
  BY <1>2 DEF RegisterOps, LocksOf, BusinessRow, ShiftOps, SaleOps, SpendOps
<1>3. CASE q.op \in ShiftOps
  BY <1>3 DEF RegisterOps, LocksOf, BusinessRow, ShiftRows, ShiftOps, SaleOps, SpendOps, ShiftsOf
<1>4. CASE q.op \in SaleOps
  BY <1>4 DEF RegisterOps, LocksOf, BusinessRow, ShiftRows, ShiftOps, SaleOps, SpendOps, ShiftsOf
<1>5. CASE q.op = "void"
  BY <1>5 DEF RegisterOps, LocksOf, BusinessRow, ShiftOps, SaleOps, SpendOps
<1>6. CASE q.op = "collect"
  BY <1>6 DEF RegisterOps, LocksOf, BusinessRow, ShiftOps, SaleOps, SpendOps, ShiftsOf
<1>7. CASE q.op \in SpendOps
  <2>1. DrawersOf(q.row)' = DrawersOf(q.row)
    BY <1>7 DEF DrawersOf
  <2> DEFINE D == ({q.shift} \ {NoRow}) \cup DrawersOf(q.row)
  <2>2. LocksOf(q) = {q.row} \cup UNION {ShiftRows(s) : s \in D}
    BY <1>7 DEF LocksOf, SpendOps
  <2>3. LocksOf(q)' = {q.row} \cup UNION {{s, shift'[s].register, shift'[s].branch, shift'[s].cashier} : s \in D}
    BY <1>7, <2>1 DEF LocksOf, SpendOps, ShiftRows
  <2>4. \A s \in D : {s, shift'[s].register, shift'[s].branch, shift'[s].cashier} = ShiftRows(s)
    BY <1>7 DEF ShiftsOf, ShiftRows, SpendOps, ShiftOps, SaleOps
  <2> HIDE DEF D
  <2> QED BY <2>2, <2>3, <2>4
<1>8. CASE q.op = "settle"
  BY <1>8 DEF RegisterOps, LocksOf, BusinessRow, ShiftOps, SaleOps, SpendOps, DrawersOf
<1> QED BY <1>1, <1>2, <1>3, <1>4, <1>5, <1>6, <1>7, <1>8
        DEF DrawerRequest, EditRequest, RegisterOps, ShiftOps, SaleOps, SpendOps

\* The shifts whose totals a request computes are opened ones that it has locked.
LEMMA CountedIsLocked ==
    ASSUME NEW q \in DrawerRequest, TypeOK, Fits(q)
    PROVE  /\ Counted(q) \subseteq Opened
           /\ Counted(q) \subseteq LocksOf(q)
           /\ q.op # "close" => Counted(q) \subseteq Closed
           /\ Counted(q) # {} => q.op \in {"close", "amend", "settle"}
<1>1. CASE q.op = "close"
  BY <1>1, LockSets DEF Counted, Fits, Open, ShiftOps
<1>2. CASE q.op = "amend"
  BY <1>2, LockSets DEF Counted, Refreshed, Closed, SpendOps
<1>3. CASE q.op = "settle"
  BY <1>3, LockSets DEF Counted, Closed
<1>4. CASE q.op \notin {"close", "amend", "settle"}
  BY <1>4 DEF Counted
<1> QED BY <1>1, <1>2, <1>3, <1>4

\* The expenses that a request leaves.
LEMMA ExpensesAfterType ==
    ASSUME NEW q \in DrawerRequest, TypeOK, Fits(q)
    PROVE  ExpensesAfter(q) \in [Expenses -> CashExpense \cup {NoRow}]
<1>1. CASE q.op \in SpendOps
  <2>1. q.row \in Expenses /\ [status |-> q.status, shift |-> q.shift, amount |-> q.amount] \in CashExpense
    BY <1>1 DEF DrawerRequest, EditRequest, RegisterOps, ShiftOps, SaleOps, SpendOps, CashExpense
  <2> QED BY <1>1, <2>1 DEF ExpensesAfter, SpendOps, TypeOK
<1>2. CASE q.op = "settle"
  <2>1. q.row \in Expenses /\ q.status \in ExpenseStatus
    BY <1>2 DEF DrawerRequest, EditRequest, RegisterOps, ShiftOps, SaleOps, SpendOps
  <2>2. cashExpense[q.row] \in CashExpense
    BY <1>2, <2>1 DEF Fits, TypeOK
  <2> QED BY <1>2, <2>1, <2>2 DEF ExpensesAfter, SpendOps, TypeOK, CashExpense
<1>3. CASE q.op \notin SpendOps \cup {"settle"}
  BY <1>3 DEF ExpensesAfter, SpendOps, TypeOK
<1> QED BY <1>1, <1>2, <1>3

-----------------------------------------------------------------------------
(* A request that decides.                                                 *)

LEMMA RowsStay ==
    ASSUME UNCHANGED rows
    PROVE  /\ TypeOK <=> TypeOK'
           /\ \A s, total, expenses : Explained(s, total, expenses)' <=> Explained(s, total, expenses)
           /\ \A q : LocksOf(q)' = LocksOf(q)
           /\ \A q : Fits(q)' <=> Fits(q)
           /\ \A q : Counted(q)' = Counted(q) /\ ExpensesAfter(q)' = ExpensesAfter(q)
           /\ PaidFromOpened <=> PaidFromOpened'
           /\ OneDrawer <=> OneDrawer'
           /\ OneCashier <=> OneCashier'
           /\ Explains <=> Explains'
<1>1. /\ register' = register /\ shift' = shift /\ sale' = sale /\ cash' = cash
      /\ cashExpense' = cashExpense
  BY DEF rows
<1>2. Opened' = Opened /\ Open' = Open /\ Closed' = Closed
  BY <1>1 DEF Opened, Open, Closed
<1>3. \A r : OpenOn(r)' = OpenOn(r) /\ OpenBy(r)' = OpenBy(r)
  BY <1>1, <1>2 DEF OpenOn, OpenBy
<1>4. \A e : DrawersOf(e)' = DrawersOf(e)
  BY <1>1 DEF DrawersOf
<1>5. (TypeOK <=> TypeOK') /\ (PaidFromOpened <=> PaidFromOpened')
  BY <1>1, <1>2, <1>4 DEF TypeOK, PaidFromOpened
<1>6. \A s, total, expenses : Explained(s, total, expenses)' <=> Explained(s, total, expenses)
  BY <1>1 DEF Explained, NotVoided
<1>7. \A q : LocksOf(q)' = LocksOf(q)
  BY <1>1, <1>4 DEF LocksOf, ShiftRows, BusinessRow
<1>8. \A q : Fits(q)' <=> Fits(q)
  BY <1>1, <1>2, <1>3 DEF Fits
<1>9. \A q : Counted(q)' = Counted(q) /\ ExpensesAfter(q)' = ExpensesAfter(q)
  BY <1>1, <1>2, <1>4 DEF Counted, Refreshed, ExpensesAfter
<1>10. (OneDrawer <=> OneDrawer') /\ (OneCashier <=> OneCashier')
  BY <1>1, <1>2 DEF OneDrawer, OneCashier
<1>11. Explains <=> Explains'
  BY <1>1, <1>2 DEF Explains, Explained, NotVoided
<1> QED BY <1>5, <1>6, <1>7, <1>8, <1>9, <1>10, <1>11

LEMMA DecideKeeps ==
    ASSUME DrawerInv, NEW u \in Requests, NEW q \in DrawerRequest, Fits(q), Decide(u, q)
    PROVE  DrawerInv'
<1> USE DEF DrawerInv
<1>1. UNCHANGED rows
  BY DEF Decide
<1>2. /\ task' = [task EXCEPT ![u] = q]
      /\ read' = [read EXCEPT ![u] = [s \in Counted(q) |-> Drawer(s, ExpensesAfter(q))]]
  BY DEF Decide
<1>3. \A s \in Counted(q) : /\ Drawer(s, ExpensesAfter(q)) \in Int
                            /\ Explained(s, Drawer(s, ExpensesAfter(q)), ExpensesAfter(q))
  BY CountedIsLocked, ExpensesAfterType, DrawerType
<1>4. /\ task'[u] = q /\ read'[u] \in [Counted(q) -> Int]
      /\ \A s \in Counted(q) : Explained(s, read'[u][s], ExpensesAfter(q))
      /\ \A v \in Requests \ {u} : task'[v] = task[v] /\ read'[v] = read[v]
  BY <1>2, <1>3 DEF TasksOK
<1>5. \A v \in Requests \ {u} : Decided(v)' <=> Decided(v)
  BY <1>4 DEF Decided
<1>6. Decided(u)'
  <2>1. Counted(q) \in SUBSET Shifts
    BY CountedIsLocked DEF Opened
  <2> QED BY <2>1, <1>4, RowsAreNotNoRow DEF Decided
<1>7. TasksOK'
  BY <1>2, <1>4, <1>5, <1>6 DEF TasksOK
<1>8. Apart'
  <2>1. \A v \in Requests \ {u} : Decided(v) => LocksOf(q) \cap LocksOf(task[v]) = {}
    BY DEF Decide
  <2>2. \A p : LocksOf(p)' = LocksOf(p)
    BY <1>1, RowsStay
  <2> SUFFICES ASSUME NEW v \in Requests, NEW w \in Requests, v # w, Decided(v)', Decided(w)'
               PROVE  LocksOf(task[v])' \cap LocksOf(task[w])' = {}
    BY DEF Apart
  <2>3. PICK a : a = task'[v]
    OBVIOUS
  <2>4. PICK b : b = task'[w]
    OBVIOUS
  <2>5. LocksOf(a) \cap LocksOf(b) = {}
    BY <2>1, <2>3, <2>4, <1>4, <1>5 DEF Apart
  <2>6. LocksOf(task[v])' = LocksOf(a)' /\ LocksOf(task[w])' = LocksOf(b)'
    BY <2>3, <2>4
  <2> QED BY <2>5, <2>2, <2>6
<1>9. Prepared'
  <2> SUFFICES ASSUME NEW v \in Requests, Decided(v)'
               PROVE  Fits(task[v])'
    BY DEF Prepared
  <2>1. PICK p : p = task'[v]
    OBVIOUS
  <2>2. Fits(p)
    BY <2>1, <1>4, <1>5 DEF Prepared
  <2> QED BY <2>1, <2>2, <1>1, RowsStay
<1>10. Computed'
  <2> SUFFICES ASSUME NEW v \in Requests, Decided(v)'
               PROVE  /\ read'[v] \in [Counted(task[v])' -> Int]
                      /\ \A s \in Counted(task[v])' : Explained(s, read[v][s], ExpensesAfter(task[v]))'
    BY DEF Computed
  <2>1. PICK p : p = task'[v]
    OBVIOUS
  <2>2. PICK r : r = read'[v]
    OBVIOUS
  <2>3. r \in [Counted(p) -> Int] /\ \A s \in Counted(p) : Explained(s, r[s], ExpensesAfter(p))
    BY <2>1, <2>2, <1>4, <1>5 DEF Computed
  <2>4. PICK E : E = ExpensesAfter(p)
    OBVIOUS
  <2>5. Counted(p)' = Counted(p) /\ ExpensesAfter(p)' = E
    BY <1>1, <2>4, RowsStay
  <2>6. \A s \in Counted(p) : Explained(s, r[s], E)'
    BY <1>1, <2>3, <2>4, RowsStay
  <2>7. \A s \in Counted(p) : Explained(s, r[s], ExpensesAfter(p))'
    BY <2>5, <2>6 DEF Explained
  <2> QED BY <2>1, <2>2, <2>3, <2>5, <2>7 DEF Explained
<1> QED BY <1>1, <1>7, <1>8, <1>9, <1>10, RowsStay

-----------------------------------------------------------------------------
(* A request that commits.                                                 *)

\* The rows that the commit of request q, which counted totals, leaves.
Writes(q, totals) ==
    /\ WriteRegister(q) /\ WriteShift(q, totals) /\ WriteSale(q) /\ WriteCash(q)
    /\ cashExpense' = ExpensesAfter(q)

\* What it must leave alone of what another request p looked at.
LeavesAlone(p) ==
    /\ LocksOf(p)' = LocksOf(p)
    /\ Fits(p)'
    /\ Counted(p)' = Counted(p)
    /\ \A s \in Counted(p) :
         /\ shift'[s].opening = shift[s].opening /\ cash'[s] = cash[s]
         /\ Spent(s, ExpensesAfter(p)') = Spent(s, ExpensesAfter(p))

LEMMA ExplainedStays ==
    ASSUME NEW s, NEW total, NEW E, NEW F, Explained(s, total, E),
           NotVoided' \subseteq NotVoided,
           shift'[s].opening = shift[s].opening, cash'[s] = cash[s], Spent(s, E) = Spent(s, F)
    PROVE  Explained(s, total, F)'
<1>1. PICK W \in SUBSET Sales :
        /\ NotVoided \subseteq W
        /\ total = shift[s].opening + SumOf(cash[s].taken, W) + cash[s].other - Spent(s, E)
  BY DEF Explained
<1>2. /\ NotVoided' \subseteq W
      /\ total = shift'[s].opening + SumOf(cash'[s].taken, W) + cash'[s].other - Spent(s, F)
  BY <1>1
<1> QED BY <1>2 DEF Explained

LEMMA OthersKeep ==
    ASSUME DrawerInv, NEW u \in Requests, Decided(u), Done(u),
           NotVoided' \subseteq NotVoided,
           \A p \in DrawerRequest :
               Fits(p) /\ LocksOf(p) \cap LocksOf(task[u]) = {} => LeavesAlone(p)
    PROVE  TasksOK' /\ Apart' /\ Prepared' /\ Computed'
<1> USE DEF DrawerInv
<1>1. /\ task' = [task EXCEPT ![u] = NoRow] /\ read' = [read EXCEPT ![u] = NoRow]
  BY DEF Done
<1>2. /\ ~ Decided(u)' /\ task'[u] = NoRow
      /\ \A v \in Requests \ {u} : /\ task'[v] = task[v] /\ read'[v] = read[v]
                                   /\ Decided(v)' <=> Decided(v)
  BY <1>1 DEF TasksOK, Decided
<1>3. ASSUME NEW v \in Requests, Decided(v)'
      PROVE  /\ v # u /\ Decided(v) /\ task[v] \in DrawerRequest
             /\ Fits(task[v]) /\ LocksOf(task[v]) \cap LocksOf(task[u]) = {}
  BY <1>2, <1>3 DEF TasksOK, Prepared, Apart
<1>4. TasksOK'
  BY <1>1, <1>2 DEF TasksOK
<1>5. Apart'
  <2> SUFFICES ASSUME NEW v \in Requests, NEW w \in Requests, v # w, Decided(v)', Decided(w)'
               PROVE  LocksOf(task[v])' \cap LocksOf(task[w])' = {}
    BY DEF Apart
  <2>1. PICK a : a = task[v]
    OBVIOUS
  <2>2. PICK b : b = task[w]
    OBVIOUS
  <2>3. LocksOf(a)' = LocksOf(a) /\ LocksOf(b)' = LocksOf(b)
    BY <2>1, <2>2, <1>3 DEF LeavesAlone
  <2>4. LocksOf(a) \cap LocksOf(b) = {}
    BY <2>1, <2>2, <1>3 DEF Apart
  <2>5. LocksOf(task[v])' = LocksOf(a)' /\ LocksOf(task[w])' = LocksOf(b)'
    BY <2>1, <2>2, <1>2, <1>3
  <2> QED BY <2>3, <2>4, <2>5
<1>6. Prepared'
  <2> SUFFICES ASSUME NEW v \in Requests, Decided(v)' PROVE Fits(task[v])'
    BY DEF Prepared
  <2>1. PICK p : p = task[v]
    OBVIOUS
  <2>2. Fits(p)' /\ p = task'[v]
    BY <2>1, <1>2, <1>3 DEF LeavesAlone
  <2> QED BY <2>2
<1>7. Computed'
  <2> SUFFICES ASSUME NEW v \in Requests, Decided(v)'
               PROVE  /\ read'[v] \in [Counted(task[v])' -> Int]
                      /\ \A s \in Counted(task[v])' : Explained(s, read[v][s], ExpensesAfter(task[v]))'
    BY DEF Computed
  <2>1. PICK p : p = task[v]
    OBVIOUS
  <2>2. PICK r : r = read[v]
    OBVIOUS
  <2>3. LeavesAlone(p) /\ p = task'[v] /\ r = read'[v]
    BY <2>1, <2>2, <1>2, <1>3
  <2>4. r \in [Counted(p) -> Int] /\ \A s \in Counted(p) : Explained(s, r[s], ExpensesAfter(p))
    BY <2>1, <2>2, <1>3 DEF Computed
  <2>5. ASSUME NEW s \in Counted(p) PROVE Explained(s, r[s], ExpensesAfter(p))'
    <3>1. PICK E : E = ExpensesAfter(p)
      OBVIOUS
    <3>2. PICK F : F = ExpensesAfter(p)'
      OBVIOUS
    <3>3. Spent(s, E) = Spent(s, F)
      BY <2>3, <2>5, <3>1, <3>2 DEF LeavesAlone
    <3>4. Explained(s, r[s], F)'
      BY <2>3, <2>4, <2>5, <3>1, <3>3, ExplainedStays DEF LeavesAlone
    <3> QED BY <3>2, <3>4 DEF Explained
  <2> QED BY <2>3, <2>4, <2>5 DEF LeavesAlone, Explained
<1> QED BY <1>4, <1>5, <1>6, <1>7

RowsKept(q) ==
    /\ TypeOK' /\ PaidFromOpened' /\ NotVoided' \subseteq NotVoided
    /\ OneDrawer' /\ OneCashier' /\ Explains'
    /\ \A p \in DrawerRequest : Fits(p) /\ LocksOf(p) \cap LocksOf(q) = {} => LeavesAlone(p)

\* Registers.
LEMMA RegisterCommit ==
    ASSUME DrawerInv, NEW q \in DrawerRequest, Fits(q), NEW totals, Writes(q, totals),
           q.op \in {"archive", "reactivate", "delete", "edit"}, DOMAIN totals = Counted(q)
    PROVE  RowsKept(q)
<1> USE DEF DrawerInv
<1>1. q.row \in Registers /\ (q.op = "edit" => q.branch \in Sites)
  BY DEF DrawerRequest, EditRequest, RegisterOps, ShiftOps, SaleOps, SpendOps
<1>2. /\ shift' = shift /\ sale' = sale /\ cash' = cash /\ cashExpense' = cashExpense
  <2>1. Counted(q) = {}
    BY DEF Counted
  <2>2. shift' = [s \in Shifts |-> shift[s]]
    BY <2>1 DEF Writes, WriteShift
  <2> QED BY <2>2 DEF Writes, WriteSale, WriteCash, ExpensesAfter, TypeOK
<1>3. /\ \A r \in Registers \ {q.row} : register'[r] = register[r]
      /\ q.op = "edit" => register'[q.row] = [register[q.row] EXCEPT !.branch = q.branch]
      /\ q.op = "archive" => register'[q.row] = [register[q.row] EXCEPT !.state = "archived"]
      /\ q.op = "reactivate" => register'[q.row] = [register[q.row] EXCEPT !.state = "active"]
      /\ q.op = "delete" => register'[q.row] = [register[q.row] EXCEPT !.state = "deleted"]
      /\ register' \in [Registers -> Register]
  BY <1>1 DEF Writes, WriteRegister, TypeOK, Register
<1>4. /\ Opened' = Opened /\ Open' = Open /\ Closed' = Closed
      /\ \A r : OpenOn(r)' = OpenOn(r) /\ OpenBy(r)' = OpenBy(r) /\ DrawersOf(r)' = DrawersOf(r)
      /\ NotVoided' = NotVoided
  BY <1>2 DEF Opened, Open, Closed, OpenOn, OpenBy, DrawersOf, NotVoided
<1>5. TypeOK' /\ PaidFromOpened'
  BY <1>2, <1>3, <1>4 DEF TypeOK, PaidFromOpened
<1>6. OneDrawer'
  <2>1. ASSUME NEW s \in Open, shift[s].register = q.row PROVE q.op \in {"edit", "reactivate"}
    BY <2>1 DEF Fits, OpenOn, Open
  <2>2. \A s \in Open : shift[s].register \in Registers
    BY DEF TypeOK, Shift, Open, Opened
  <2>3. \A s \in Open : register'[shift[s].register].state = "active"
    BY <2>1, <2>2, <1>1, <1>3 DEF OneDrawer, TypeOK, Register
  <2> QED BY <2>3, <1>2, <1>4 DEF OneDrawer
<1>7. OneCashier' /\ Explains'
  BY <1>2, <1>4 DEF OneCashier, Explains, Explained
<1>8. ASSUME NEW p \in DrawerRequest, Fits(p), LocksOf(p) \cap LocksOf(q) = {}
      PROVE  LeavesAlone(p)
  <2>1. p.op \in RegisterOps \cup {"edit"} => p.row # q.row /\ p.row \in Registers
    BY <1>8, LockSets DEF DrawerRequest, EditRequest, RegisterOps, ShiftOps, SaleOps, SpendOps
  <2>2. LocksOf(p)' = LocksOf(p)
    BY <2>1, <1>2, <1>3, LocksStay
  <2>3. p.op = "reopen" => q.op = "edit"
    BY <1>8, LockSets DEF RegisterOps, ShiftOps
  <2>4. p.op = "reopen" => register'[shift[p.row].register].state = register[shift[p.row].register].state
    <3>1. p.op = "reopen" => shift[p.row].register \in Registers
      BY <1>8 DEF Fits, Closed, Opened, TypeOK, Shift
    <3>2. q.op = "edit" => \A r \in Registers : register'[r].state = register[r].state
      BY <1>1, <1>3 DEF TypeOK, Register
    <3> QED BY <3>1, <3>2, <2>3
  <2>5. Fits(p)'
    <3>1. p.op = "open" => register'[p.row] = register[p.row]
      BY <2>1, <1>3 DEF RegisterOps
    <3> QED BY <1>8, <3>1, <2>4, <1>2, <1>4 DEF Fits
  <2>6. Counted(p)' = Counted(p) /\ ExpensesAfter(p)' = ExpensesAfter(p)
    BY <1>2, <1>4 DEF Counted, Refreshed, ExpensesAfter
  <2> QED BY <2>2, <2>5, <2>6, <1>2 DEF LeavesAlone
<1> QED BY <1>4, <1>5, <1>6, <1>7, <1>8 DEF RowsKept

\* Beside a request that locks the business only register forms and expenses go on.
LEMMA BesideBusiness ==
    ASSUME NEW p \in DrawerRequest, NEW q \in DrawerRequest, LocksOf(p) \cap LocksOf(q) = {},
           q.op \in RegisterOps \cup ShiftOps \cup SaleOps \cup {"void", "collect"}
    PROVE  p.op \in {"edit", "spend", "amend", "settle"}
<1>1. "business" \in LocksOf(q)
  BY LockSets
<1>2. "business" \notin LocksOf(p)
  BY <1>1
<1> QED BY <1>2, LockSets DEF DrawerRequest, EditRequest, RegisterOps, ShiftOps, SaleOps, SpendOps

\* Opening a shift.
LEMMA OpenCommit ==
    ASSUME DrawerInv, NEW q \in DrawerRequest, Fits(q), NEW totals, Writes(q, totals),
           q.op = "open"
    PROVE  RowsKept(q)
<1> USE DEF DrawerInv
<1>1. q.row \in Registers /\ q.shift \in Shifts /\ q.by \in Users /\ q.amount \in Nat
  BY DEF DrawerRequest, EditRequest, RegisterOps, ShiftOps, SaleOps, SpendOps
<1>2. /\ register' = register /\ sale' = sale /\ cash' = cash /\ cashExpense' = cashExpense
  BY DEF Writes, WriteRegister, WriteSale, WriteCash, ExpensesAfter
<1> DEFINE new == [register |-> q.row, branch |-> register[q.row].branch, cashier |-> q.by,
                   status |-> "open", opening |-> q.amount, expected |-> 0, reopened |-> 0]
<1>3. new \in Shift /\ new # NoRow
  BY <1>1, RowsAreNotNoRow, DrawerConstants DEF TypeOK, Register, Shift
<1>4. /\ shift' = [shift EXCEPT ![q.shift] = new]
      /\ shift'[q.shift] = new /\ \A s \in Shifts \ {q.shift} : shift'[s] = shift[s]
  BY <1>1 DEF Writes, WriteShift, TypeOK
<1>5. /\ Opened' = Opened \cup {q.shift} /\ Open' = Open \cup {q.shift} /\ Closed' = Closed
      /\ q.shift \notin Opened /\ NotVoided' = NotVoided
      /\ \A s \in Opened : shift'[s] = shift[s]
      /\ \A e : DrawersOf(e)' = DrawersOf(e)
  BY <1>1, <1>2, <1>3, <1>4 DEF Opened, Open, Closed, Fits, NotVoided, DrawersOf
<1>6. TypeOK' /\ PaidFromOpened'
  BY <1>1, <1>2, <1>3, <1>4, <1>5 DEF TypeOK, PaidFromOpened
<1>7. OneDrawer'
  <2>1. \A s \in Open : shift[s].register # q.row
    BY DEF Fits, OpenOn
  <2> QED BY <2>1, <1>2, <1>4, <1>5 DEF OneDrawer, Fits, Open
<1>8. OneCashier'
  <2>1. \A s \in Open : shift[s].cashier # q.by
    BY DEF Fits, OpenBy
  <2> QED BY <2>1, <1>2, <1>4, <1>5 DEF OneCashier, Open
<1>9. Explains'
  BY <1>2, <1>5 DEF Explains, Explained, Closed
<1>10. ASSUME NEW p \in DrawerRequest, Fits(p), LocksOf(p) \cap LocksOf(q) = {}
       PROVE  LeavesAlone(p)
  <2>1. p.op \in {"edit", "spend", "amend", "settle"}
    BY <1>10, BesideBusiness DEF RegisterOps
  <2>2. ShiftsOf(p) \subseteq Opened
    <3>1. p.op \in SpendOps => p.row \in Expenses
      BY DEF DrawerRequest, EditRequest, RegisterOps, ShiftOps, SaleOps, SpendOps
    <3> QED BY <1>10, <2>1, <3>1
        DEF ShiftsOf, PaidFromOpened, Fits, Open, ShiftOps, SaleOps, SpendOps
  <2>3. LocksOf(p)' = LocksOf(p)
    BY <2>2, <1>2, <1>5, LocksStay
  <2>4. Fits(p)'
    BY <1>10, <2>1, <1>2, <1>5 DEF Fits, ShiftOps, SaleOps
  <2>5. Counted(p)' = Counted(p) /\ ExpensesAfter(p)' = ExpensesAfter(p) /\ Counted(p) \subseteq Opened
    <3>1. ExpensesAfter(p)' = ExpensesAfter(p) /\ Counted(p)' = Counted(p)
      BY <1>2, <1>5 DEF Counted, Refreshed, ExpensesAfter
    <3> QED BY <3>1, <1>10, CountedIsLocked
  <2> QED BY <2>3, <2>4, <2>5, <1>2, <1>5 DEF LeavesAlone
<1> QED BY <1>5, <1>6, <1>7, <1>8, <1>9, <1>10 DEF RowsKept

\* Approving, reopening and closing one.
LEMMA ShiftCommit ==
    ASSUME DrawerInv, NEW q \in DrawerRequest, Fits(q),
           NEW totals \in [Counted(q) -> Int], Writes(q, totals),
           \A s \in Counted(q) : Explained(s, totals[s], ExpensesAfter(q)),
           q.op \in ShiftOps
    PROVE  RowsKept(q)
<1> USE DEF DrawerInv
<1>1. q.row \in Shifts /\ q.row \in Opened
  BY DEF DrawerRequest, EditRequest, RegisterOps, ShiftOps, SaleOps, SpendOps, Fits, Open, Closed
<1>2. /\ register' = register /\ sale' = sale /\ cash' = cash /\ cashExpense' = cashExpense
      /\ ExpensesAfter(q) = cashExpense
  BY DEF Writes, WriteRegister, WriteSale, WriteCash, ExpensesAfter, ShiftOps
<1>3. /\ \A s \in Shifts \ {q.row} : shift'[s] = shift[s]
      /\ shift'[q.row] \in Shift /\ shift'[q.row] # NoRow
      /\ shift' = [s \in Shifts |-> shift'[s]]
      /\ shift'[q.row].register = shift[q.row].register
      /\ shift'[q.row].branch = shift[q.row].branch
      /\ shift'[q.row].cashier = shift[q.row].cashier
      /\ shift'[q.row].opening = shift[q.row].opening
      /\ q.op # "close" => shift'[q.row].expected = shift[q.row].expected
      /\ q.op = "approve" => shift'[q.row].status = "approved"
      /\ q.op = "reopen" => shift'[q.row].status = "open" /\ shift'[q.row].reopened # 0
      /\ q.op = "close" => shift'[q.row].status = "closed" /\ shift'[q.row].expected = totals[q.row]
  <2>1. shift[q.row] \in Shift
    BY <1>1 DEF Opened, TypeOK
  <2>2. CASE q.op = "approve"
    <3>1. shift' = [shift EXCEPT ![q.row].status = "approved"]
      BY <2>2 DEF Writes, WriteShift
    <3> QED BY <3>1, <2>1, <2>2, <1>1, RowsAreNotNoRow DEF TypeOK, Shift
  <2>3. CASE q.op = "reopen"
    <3>1. shift' = [shift EXCEPT ![q.row].status = "open", ![q.row].reopened = @ + 1]
      BY <2>3 DEF Writes, WriteShift
    <3>2. shift[q.row].reopened < MostReopened /\ shift[q.row].reopened \in Nat
      BY <2>1, <2>3, DrawerConstants DEF Fits, Shift
    <3> QED BY <3>1, <3>2, <2>1, <2>3, <1>1, RowsAreNotNoRow, DrawerConstants DEF TypeOK, Shift
  <2>4. CASE q.op = "close"
    <3>1. Counted(q) = {q.row}
      BY <2>4 DEF Counted
    <3>2. shift' = [s \in Shifts |->
             IF s # q.row THEN shift[s]
             ELSE [shift[s] EXCEPT !.expected = totals[s], !.status = "closed"]]
      BY <2>4, <3>1 DEF Writes, WriteShift
    <3>3. totals[q.row] \in Int
      BY <3>1
    <3> QED BY <3>2, <3>3, <2>1, <2>4, <1>1, RowsAreNotNoRow DEF TypeOK, Shift
  <2> QED BY <2>2, <2>3, <2>4 DEF ShiftOps
<1>4. /\ Opened' = Opened /\ NotVoided' = NotVoided /\ \A e : DrawersOf(e)' = DrawersOf(e)
      /\ \A s \in Opened : /\ shift'[s].register = shift[s].register
                           /\ shift'[s].branch = shift[s].branch
                           /\ shift'[s].cashier = shift[s].cashier
                           /\ shift'[s].opening = shift[s].opening
      /\ \A s \in Opened \ {q.row} : shift'[s] = shift[s]
  BY <1>1, <1>2, <1>3 DEF Opened, NotVoided, DrawersOf
<1>5. /\ Open' \ {q.row} = Open \ {q.row}
      /\ q.row \in Open' <=> q.op = "reopen"
      /\ Closed' \ {q.row} = Closed \ {q.row}
  BY <1>1, <1>3, <1>4 DEF Open, Closed, ShiftOps
<1>6. TypeOK' /\ PaidFromOpened'
  BY <1>2, <1>3, <1>4 DEF TypeOK, PaidFromOpened
<1>7. OneDrawer'
  <2>1. CASE q.op = "reopen"
    <3>1. \A s \in Open : shift[s].register # shift[q.row].register
      BY <2>1 DEF Fits, OpenOn
    <3>2. register[shift[q.row].register].state = "active"
      BY <2>1 DEF Fits
    <3> QED BY <3>1, <3>2, <1>1, <1>2, <1>4, <1>5 DEF OneDrawer, Open
  <2>2. CASE q.op # "reopen"
    BY <2>2, <1>2, <1>4, <1>5 DEF OneDrawer, Open
  <2> QED BY <2>1, <2>2
<1>8. OneCashier'
  BY <1>3, <1>4, <1>5 DEF OneCashier, Open
<1>9. Explains'
  <2> SUFFICES ASSUME NEW s \in Closed' PROVE Explained(s, shift[s].expected, cashExpense)'
    BY DEF Explains
  <2>0. PICK n : n = shift'[s].expected
    OBVIOUS
  <2>1. CASE s # q.row
    <3>1. s \in Closed /\ n = shift[s].expected
      BY <2>0, <2>1, <1>4, <1>5 DEF Closed
    <3> QED BY <3>1, <2>0, <2>1, <1>2, <1>4 DEF Explains, Explained, Closed
  <2>2. CASE s = q.row /\ q.op = "close"
    <3>1. s \in Counted(q)
      BY <2>2 DEF Counted
    <3>2. Explained(s, n, cashExpense)
      BY <3>1, <2>0, <2>2, <1>2, <1>3
    <3> QED BY <3>2, <2>0, <2>2, <1>1, <1>2, <1>4 DEF Explained
  <2>3. CASE s = q.row /\ q.op # "close"
    <3>1. s \in Closed /\ n = shift[s].expected
      BY <2>0, <2>3, <1>3 DEF Fits, ShiftOps
    <3>2. Explained(s, n, cashExpense)
      BY <3>1 DEF Explains
    <3> QED BY <3>2, <2>0, <2>3, <1>1, <1>2, <1>4 DEF Explained
  <2> QED BY <2>1, <2>2, <2>3
<1>10. ASSUME NEW p \in DrawerRequest, Fits(p), LocksOf(p) \cap LocksOf(q) = {}
       PROVE  LeavesAlone(p)
  <2>1. p.op \in {"edit", "spend", "amend", "settle"}
    BY <1>10, BesideBusiness
  <2>2. q.row \notin LocksOf(p)
    BY <1>10, LockSets
  <2>3. /\ p.op \in SpendOps => p.row \in Expenses /\ p.shift # q.row /\ q.row \notin DrawersOf(p.row)
        /\ p.op = "settle" => p.row \in Expenses /\ q.row \notin DrawersOf(p.row)
    <3>1. NoRow # q.row
      BY <1>1, DrawerConstants
    <3> QED BY <3>1, <2>2, LockSets DEF DrawerRequest, EditRequest, RegisterOps, ShiftOps, SaleOps, SpendOps
  <2>4. ShiftsOf(p) \subseteq Opened
    BY <1>10, <2>1, <2>3 DEF ShiftsOf, PaidFromOpened, Fits, Open, ShiftOps, SaleOps, SpendOps
  <2>5. LocksOf(p)' = LocksOf(p)
    BY <2>4, <1>2, <1>4, LocksStay
  <2>6. Fits(p)'
    BY <1>10, <2>1, <2>3, <1>2, <1>4, <1>5 DEF Fits, ShiftOps, SaleOps, SpendOps
  <2>7. Counted(p)' = Counted(p) /\ ExpensesAfter(p)' = ExpensesAfter(p)
    <3>1. p.op = "amend" => Refreshed(p)' = Refreshed(p)
      BY <2>3, <1>4, <1>5 DEF Refreshed, SpendOps
    <3>2. p.op = "settle" => (DrawersOf(p.row) \cap Closed)' = DrawersOf(p.row) \cap Closed
      BY <2>3, <1>4, <1>5
    <3> QED BY <2>1, <3>1, <3>2, <1>2 DEF Counted, ExpensesAfter
  <2>8. Counted(p) \subseteq Opened \ {q.row}
    BY <1>10, <2>2, CountedIsLocked
  <2> QED BY <2>5, <2>6, <2>7, <2>8, <1>2, <1>4 DEF LeavesAlone
<1> QED BY <1>4, <1>6, <1>7, <1>8, <1>9, <1>10 DEF RowsKept

\* Cash that a sale or a customer brings or takes.
LEMMA CashCommit ==
    ASSUME DrawerInv, NEW q \in DrawerRequest, Fits(q),
           NEW totals \in [Counted(q) -> Int], Writes(q, totals),
           q.op \in SaleOps \cup {"void", "collect"}
    PROVE  RowsKept(q)
<1> USE DEF DrawerInv
<1>1. /\ q.op \in SaleOps \cup {"void"} => q.row \in Sales
      /\ q.op \in SaleOps \cup {"collect"} => q.shift \in Open /\ q.shift \in Shifts /\ q.amount \in Nat
  BY DEF DrawerRequest, EditRequest, RegisterOps, ShiftOps, SaleOps, SpendOps, Fits
<1>2. /\ register' = register /\ shift' = shift /\ cashExpense' = cashExpense
  <2>1. Counted(q) = {}
    BY DEF Counted, SaleOps
  <2>2. shift' = [s \in Shifts |-> shift[s]]
    BY <2>1 DEF Writes, WriteShift, SaleOps
  <2> QED BY <2>2 DEF Writes, WriteRegister, ExpensesAfter, TypeOK, SaleOps
<1>3. sale' \in [Sales -> SaleStatus] /\ NotVoided' \subseteq NotVoided
  <2>1. CASE q.op = "void"
    BY <2>1, <1>1 DEF Writes, WriteSale, TypeOK, SaleStatus, NotVoided
  <2>2. CASE q.op = "sell"
    BY <2>2, <1>1 DEF Writes, WriteSale, TypeOK, SaleStatus, NotVoided, Fits, SaleOps
  <2>3. CASE q.op = "refund"
    BY <2>3, <1>1 DEF Writes, WriteSale, TypeOK, SaleStatus, NotVoided, Fits, SaleOps
  <2>4. CASE q.op \in {"pay", "collect"}
    BY <2>4 DEF Writes, WriteSale, TypeOK, NotVoided
  <2> QED BY <2>1, <2>2, <2>3, <2>4 DEF SaleOps
<1>4. /\ cash' \in [Shifts -> Cash]
      /\ q.op = "void" => cash' = cash
      /\ q.op # "void" => \A s \in Shifts \ {q.shift} : cash'[s] = cash[s]
  <2>1. CASE q.op \in {"sell", "pay"}
    <3>1. cash' = [cash EXCEPT ![q.shift].taken[q.row] = @ + q.amount]
      BY <2>1 DEF Writes, WriteCash
    <3>2. cash[q.shift] \in Cash /\ cash[q.shift].taken[q.row] + q.amount \in Nat
      BY <2>1, <1>1 DEF TypeOK, Cash, SaleOps
    <3> QED BY <2>1, <3>1, <3>2, <1>1 DEF TypeOK, Cash, SaleOps
  <2>2. CASE q.op \in {"refund", "collect"}
    <3>1. cash[q.shift] \in Cash /\ q.shift \in Shifts
      BY <2>2, <1>1 DEF TypeOK, SaleOps
    <3>2. /\ q.op = "refund" => cash' = [cash EXCEPT ![q.shift].other = @ - q.amount]
          /\ q.op = "collect" => cash' = [cash EXCEPT ![q.shift].other = @ + q.amount]
      BY <2>2 DEF Writes, WriteCash
    <3>3. cash[q.shift].other - q.amount \in Int /\ cash[q.shift].other + q.amount \in Int
      BY <2>2, <3>1, <1>1 DEF Cash, SaleOps
    <3>4. ASSUME NEW n \in Int, cash' = [cash EXCEPT ![q.shift].other = n]
          PROVE  cash' \in [Shifts -> Cash] /\ \A s \in Shifts \ {q.shift} : cash'[s] = cash[s]
      BY <3>1, <3>4 DEF TypeOK, Cash
    <3> QED BY <2>2, <3>2, <3>3, <3>4
  <2>3. CASE q.op = "void"
    BY <2>3 DEF Writes, WriteCash, TypeOK
  <2> QED BY <2>1, <2>2, <2>3 DEF SaleOps
<1>5. /\ Opened' = Opened /\ Open' = Open /\ Closed' = Closed
      /\ \A e : DrawersOf(e)' = DrawersOf(e)
      /\ \A s \in Closed : cash'[s] = cash[s]
  <2>1. /\ Opened' = Opened /\ Open' = Open /\ Closed' = Closed
        /\ \A e : DrawersOf(e)' = DrawersOf(e)
    BY <1>2 DEF Opened, Open, Closed, DrawersOf
  <2>2. \A s \in Closed : cash'[s] = cash[s]
    BY <1>1, <1>4 DEF Closed, Opened, SaleOps
  <2> QED BY <2>1, <2>2
<1>6. TypeOK' /\ PaidFromOpened' /\ OneDrawer' /\ OneCashier'
  BY <1>2, <1>3, <1>4, <1>5 DEF TypeOK, PaidFromOpened, OneDrawer, OneCashier
<1>7. Explains'
  <2> SUFFICES ASSUME NEW s \in Closed PROVE Explained(s, shift[s].expected, cashExpense)'
    BY <1>5 DEF Explains
  <2>1. PICK n : n = shift[s].expected
    OBVIOUS
  <2>2. PICK E : E = cashExpense
    OBVIOUS
  <2>3. Explained(s, n, E)
    BY <2>1, <2>2 DEF Explains
  <2>4. Explained(s, n, E)'
    BY <2>3, <1>2, <1>3, <1>5, ExplainedStays
  <2> QED BY <2>1, <2>2, <2>4, <1>2 DEF Explained
<1>8. ASSUME NEW p \in DrawerRequest, Fits(p), LocksOf(p) \cap LocksOf(q) = {}
      PROVE  LeavesAlone(p)
  <2>1. p.op \in {"edit", "spend", "amend", "settle"}
    BY <1>8, BesideBusiness
  <2>2. q.op # "void" => q.shift \notin LocksOf(p)
    BY <1>8, LockSets DEF SaleOps
  <2>3. LocksOf(p)' = LocksOf(p)
    BY <1>2, LocksStay
  <2>4. Fits(p)'
    BY <1>8, <2>1, <1>2, <1>5 DEF Fits, SaleOps
  <2>5. Counted(p)' = Counted(p) /\ ExpensesAfter(p)' = ExpensesAfter(p)
    BY <1>2, <1>5 DEF Counted, Refreshed, ExpensesAfter
  <2>6. \A s \in Counted(p) : cash'[s] = cash[s]
    BY <1>8, <2>2, <1>4, CountedIsLocked DEF Opened
  <2> QED BY <2>3, <2>4, <2>5, <2>6, <1>2 DEF LeavesAlone
<1> QED BY <1>3, <1>6, <1>7, <1>8 DEF RowsKept

\* The expenses, and the closed shifts counted again.
LEMMA ExpenseCommit ==
    ASSUME DrawerInv, NEW q \in DrawerRequest, Fits(q),
           NEW totals \in [Counted(q) -> Int], Writes(q, totals),
           \A s \in Counted(q) : Explained(s, totals[s], ExpensesAfter(q)),
           q.op \in SpendOps \cup {"settle"}
    PROVE  RowsKept(q)
<1> USE DEF DrawerInv
<1>1. /\ q.row \in Expenses
      /\ q.op \in SpendOps => q.shift \in Opened \cup {NoRow}
  BY DEF DrawerRequest, EditRequest, RegisterOps, ShiftOps, SaleOps, SpendOps, Fits, Open
<1>2. /\ register' = register /\ sale' = sale /\ cash' = cash
      /\ cashExpense' = ExpensesAfter(q) /\ cashExpense' \in [Expenses -> CashExpense \cup {NoRow}]
      /\ NotVoided' = NotVoided
  BY ExpensesAfterType DEF Writes, WriteRegister, WriteSale, WriteCash, NotVoided, SpendOps
<1>3. /\ Counted(q) \subseteq Closed /\ Counted(q) \subseteq Shifts
  BY CountedIsLocked DEF SpendOps, Closed, Opened
<1>4. /\ shift' = [s \in Shifts |-> shift'[s]]
      /\ \A s \in Shifts \ Counted(q) : shift'[s] = shift[s]
      /\ \A s \in Counted(q) : shift'[s] = [shift[s] EXCEPT !.expected = totals[s]]
  <2>1. shift' = [s \in Shifts |-> IF s \notin Counted(q) THEN shift[s]
                      ELSE [shift[s] EXCEPT !.expected = totals[s], !.status = @]]
    BY DEF Writes, WriteShift, SpendOps
  <2>2. \A s \in Counted(q) : shift[s] \in Shift
    BY <1>3 DEF TypeOK, Closed, Opened
  <2>3. \A s \in Counted(q) : [shift[s] EXCEPT !.expected = totals[s], !.status = @]
                              = [shift[s] EXCEPT !.expected = totals[s]]
    BY <2>2 DEF Shift
  <2> QED BY <1>3, <2>1, <2>3
<1>5. /\ shift' \in [Shifts -> Shift \cup {NoRow}]
      /\ \A s \in Counted(q) : shift'[s] \in Shift /\ shift'[s].expected = totals[s]
      /\ \A s \in Shifts : /\ shift[s] = NoRow <=> shift'[s] = NoRow
                           /\ shift[s] # NoRow =>
                               /\ shift'[s].register = shift[s].register
                               /\ shift'[s].branch = shift[s].branch
                               /\ shift'[s].cashier = shift[s].cashier
                               /\ shift'[s].status = shift[s].status
                               /\ shift'[s].opening = shift[s].opening
                               /\ shift'[s].reopened = shift[s].reopened
  <2>1. \A s \in Counted(q) : shift[s] \in Shift /\ totals[s] \in Int
    BY <1>3 DEF TypeOK, Closed, Opened
  <2>2. ASSUME NEW s \in Counted(q)
        PROVE  /\ shift[s] # NoRow /\ shift'[s] # NoRow
               /\ shift'[s] \in Shift /\ shift'[s].expected = totals[s]
               /\ shift'[s].register = shift[s].register
               /\ shift'[s].branch = shift[s].branch
               /\ shift'[s].cashier = shift[s].cashier
               /\ shift'[s].status = shift[s].status
               /\ shift'[s].opening = shift[s].opening
               /\ shift'[s].reopened = shift[s].reopened
    <3>1. PICK old : old = shift[s] /\ old \in Shift
      BY <2>1
    <3>2. PICK n \in Int : n = totals[s]
      BY <2>1
    <3>3. PICK new : new = [old EXCEPT !.expected = n]
      OBVIOUS
    <3>4. shift'[s] = new
      BY <3>1, <3>2, <3>3, <1>4
    <3>5. /\ new \in Shift /\ new.expected = n /\ new.register = old.register
          /\ new.branch = old.branch /\ new.cashier = old.cashier /\ new.status = old.status
          /\ new.opening = old.opening /\ new.reopened = old.reopened
      BY <3>1, <3>2, <3>3 DEF Shift
    <3> QED BY <3>1, <3>2, <3>4, <3>5, RowsAreNotNoRow
  <2>3. shift' \in [Shifts -> Shift \cup {NoRow}]
    BY <2>2, <1>4 DEF TypeOK
  <2> QED BY <2>2, <2>3, <1>4
<1>6. /\ Opened' = Opened /\ Open' = Open /\ Closed' = Closed
  BY <1>5 DEF Opened, Open, Closed
<1>7. \A r : OpenOn(r)' = OpenOn(r) /\ OpenBy(r)' = OpenBy(r)
  BY <1>5, <1>6 DEF OpenOn, OpenBy, Open, Opened
<1>8. /\ \A e \in Expenses \ {q.row} : cashExpense'[e] = cashExpense[e] /\ DrawersOf(e)' = DrawersOf(e)
      /\ DrawersOf(q.row)' \subseteq (IF q.op = "settle" THEN DrawersOf(q.row) ELSE {q.shift} \ {NoRow})
  <2>1. \A e \in Expenses \ {q.row} : cashExpense'[e] = cashExpense[e]
    BY <1>1, <1>2 DEF ExpensesAfter, SpendOps, TypeOK
  <2>2. CASE q.op = "settle"
    <3>1. cashExpense[q.row] \in CashExpense
      BY <2>2, <1>1 DEF Fits, TypeOK
    <3>2. cashExpense'[q.row].shift = cashExpense[q.row].shift
      BY <2>2, <3>1, <1>1, <1>2 DEF ExpensesAfter, TypeOK, CashExpense
    <3> QED BY <2>1, <2>2, <3>2, <1>1 DEF DrawersOf, Fits
  <2>3. CASE q.op \in SpendOps
    <3>1. cashExpense'[q.row].shift = q.shift
      BY <2>3, <1>1, <1>2 DEF ExpensesAfter, TypeOK, SpendOps
    <3> QED BY <2>1, <2>3, <3>1 DEF DrawersOf, SpendOps
  <2> QED BY <2>2, <2>3
\* The expense touches no drawer that its request has not locked.
<1>9. ASSUME NEW s \in Shifts, s \notin DrawersOf(q.row), q.op # "settle" => s # q.shift
      PROVE  /\ cashExpense[q.row] = NoRow \/ cashExpense[q.row].shift # s
             /\ cashExpense'[q.row] = NoRow \/ cashExpense'[q.row].shift # s
  <2>1. s # NoRow
    BY DrawerConstants
  <2>2. s \notin DrawersOf(q.row)'
    BY <1>8, <1>9
  <2> QED BY <1>9, <2>1, <2>2 DEF DrawersOf
<1>10. TypeOK'
  BY <1>2, <1>5 DEF TypeOK
<1>11. PaidFromOpened'
  <2>1. DrawersOf(q.row)' \subseteq Opened
    BY <1>1, <1>8 DEF PaidFromOpened, SpendOps
  <2> QED BY <2>1, <1>6, <1>8 DEF PaidFromOpened
<1>12. OneDrawer' /\ OneCashier'
  BY <1>2, <1>5, <1>6 DEF OneDrawer, OneCashier, Open, Opened
<1>13. Explains'
  <2> SUFFICES ASSUME NEW s \in Closed PROVE Explained(s, shift[s].expected, cashExpense)'
    BY <1>6 DEF Explains
  <2>0. PICK n : n = shift'[s].expected
    OBVIOUS
  <2>1. PICK E : E = ExpensesAfter(q)
    OBVIOUS
  <2>2. s \in Shifts /\ shift[s] # NoRow
    BY DEF Closed, Opened
  <2>3. CASE s \in Counted(q)
    <3>1. Explained(s, n, E)
      BY <2>0, <2>1, <2>3, <1>5
    <3> QED BY <3>1, <2>0, <2>1, <2>2, <1>2, <1>5 DEF Explained
  <2>4. CASE s \notin Counted(q)
    <3>1. PICK F : F = cashExpense
      OBVIOUS
    <3>2. s \notin DrawersOf(q.row) /\ (q.op # "settle" => s # q.shift)
      <4>1. CASE q.op = "spend"
        BY <4>1, <2>2, DrawerConstants DEF Fits, DrawersOf, Closed
      <4>2. CASE q.op = "amend"
        BY <4>2, <2>2, <2>4, DrawerConstants DEF Counted, Refreshed
      <4>3. CASE q.op = "settle"
        BY <4>3, <2>4 DEF Counted
      <4> QED BY <4>1, <4>2, <4>3 DEF SpendOps
    <3>3. Spent(s, F) = Spent(s, E)
      <4>1. \A e \in Expenses :
              \/ F[e] = E[e]
              \/ /\ F[e] = NoRow \/ F[e].shift # s
                 /\ E[e] = NoRow \/ E[e].shift # s
        BY <3>1, <3>2, <2>1, <2>2, <1>2, <1>8, <1>9
      <4> QED BY <4>1, SpentSame
    <3>4. Explained(s, n, F)
      BY <2>0, <2>2, <2>4, <3>1, <1>4 DEF Explains
    <3>5. Explained(s, n, E)'
      BY <3>3, <3>4, <2>2, <1>2, <1>5, ExplainedStays
    <3> QED BY <3>5, <2>0, <2>1, <1>2 DEF Explained
  <2> QED BY <2>3, <2>4
<1>14. ASSUME NEW p \in DrawerRequest, Fits(p), LocksOf(p) \cap LocksOf(q) = {}
       PROVE  LeavesAlone(p)
  <2>1. q.row \notin LocksOf(p) /\ DrawersOf(q.row) \cap LocksOf(p) = {}
        /\ (q.op # "settle" => q.shift \notin LocksOf(p) \/ q.shift = NoRow)
    BY <1>14, LockSets DEF SpendOps
  <2>2. p.op \in SpendOps \cup {"settle"} =>
           /\ p.row \in Expenses \ {q.row} /\ DrawersOf(p.row)' = DrawersOf(p.row)
           /\ cashExpense'[p.row] = cashExpense[p.row]
    <3>1. p.op \in SpendOps \cup {"settle"} => p.row \in Expenses /\ p.row \in LocksOf(p)
      BY LockSets DEF DrawerRequest, EditRequest, RegisterOps, ShiftOps, SaleOps, SpendOps
    <3> QED BY <3>1, <2>1, <1>8
  <2>3. ShiftsOf(p) \subseteq Opened
    BY <1>14, <2>2 DEF ShiftsOf, PaidFromOpened, Fits, Open, Closed, ShiftOps, SaleOps, SpendOps
  <2>4. LocksOf(p)' = LocksOf(p)
    BY <2>2, <2>3, <1>2, <1>5, LocksStay DEF Opened
  <2>5. Fits(p)'
    <3>1. p.op = "open" => p.shift \in Shifts
      BY DEF DrawerRequest, EditRequest, RegisterOps, ShiftOps, SaleOps, SpendOps
    <3>2. p.op = "reopen" => /\ p.row \in Shifts /\ shift[p.row] # NoRow
      BY <1>14 DEF Fits, Closed, Opened
    <3>3. p.op = "delete" => \A s \in Opened : shift'[s].register # p.row
      BY <1>14, <1>5 DEF Fits, Opened
    <3>4. p.op = "reopen" => /\ shift'[p.row].reopened < MostReopened
                             /\ shift'[p.row].register = shift[p.row].register
      BY <1>14, <3>2, <1>5 DEF Fits
    <3> QED BY <1>14, <2>2, <3>1, <3>3, <3>4, <1>2, <1>5, <1>6, <1>7 DEF Fits, SpendOps
  <2>6. Counted(p)' = Counted(p)
    <3>1. p.op = "amend" => Refreshed(p)' = Refreshed(p)
      BY <2>2, <1>6 DEF Refreshed, SpendOps
    <3> QED BY <2>2, <3>1, <1>6 DEF Counted
  <2>7. ASSUME NEW s \in Counted(p)
        PROVE  /\ shift'[s].opening = shift[s].opening
               /\ Spent(s, ExpensesAfter(p)') = Spent(s, ExpensesAfter(p))
    <3>1. s \in Opened /\ s \in LocksOf(p) /\ s \in Shifts /\ s # NoRow
      BY <1>14, <2>7, CountedIsLocked, DrawerConstants DEF Opened
    <3>2. /\ cashExpense[q.row] = NoRow \/ cashExpense[q.row].shift # s
          /\ cashExpense'[q.row] = NoRow \/ cashExpense'[q.row].shift # s
      BY <3>1, <2>1, <1>9
    <3>3. PICK E : E = ExpensesAfter(p)'
      OBVIOUS
    <3>4. PICK F : F = ExpensesAfter(p)
      OBVIOUS
    <3>5. ASSUME NEW e \in Expenses
          PROVE  \/ E[e] = F[e]
                 \/ /\ E[e] = NoRow \/ E[e].shift # s
                    /\ F[e] = NoRow \/ F[e].shift # s
      <4>1. CASE p.op \in SpendOps
        BY <4>1, <2>2, <3>2, <3>3, <3>4, <1>2, <1>8 DEF ExpensesAfter, SpendOps, TypeOK
      <4>2. CASE p.op = "settle"
        BY <4>2, <2>2, <3>2, <3>3, <3>4, <1>2, <1>8 DEF ExpensesAfter, SpendOps, TypeOK
      <4>3. CASE p.op \notin SpendOps \cup {"settle"}
        BY <4>3, <3>2, <3>3, <3>4, <1>8 DEF ExpensesAfter, SpendOps
      <4> QED BY <4>1, <4>2, <4>3
    <3>6. Spent(s, E) = Spent(s, F)
      BY <3>5, SpentSame
    <3> QED BY <3>1, <3>3, <3>4, <3>6, <1>5 DEF Opened
  <2> QED BY <2>4, <2>5, <2>6, <2>7, <1>2 DEF LeavesAlone
<1> QED BY <1>2, <1>10, <1>11, <1>12, <1>13, <1>14 DEF RowsKept

LEMMA CommitKeeps ==
    ASSUME DrawerInv, NEW u \in Requests, Commit(u)
    PROVE  DrawerInv'
<1> USE DEF DrawerInv
<1>1. PICK q : q = task[u]
  OBVIOUS
<1>2. PICK totals : totals = read[u]
  OBVIOUS
<1>3. Decided(u) /\ q \in DrawerRequest /\ Fits(q)
  BY <1>1 DEF Commit, TasksOK, Prepared
<1>4. totals \in [Counted(q) -> Int] /\ \A s \in Counted(q) : Explained(s, totals[s], ExpensesAfter(q))
  BY <1>1, <1>2, <1>3 DEF Computed
<1>5. Writes(q, totals) /\ Done(u)
  BY <1>1, <1>2 DEF Commit, Writes
<1>6. RowsKept(q)
  <2>1. q.op \in RegisterOps \cup {"edit"} \cup ShiftOps \cup SaleOps \cup {"void", "collect"}
                \cup SpendOps \cup {"settle"}
    BY <1>3 DEF DrawerRequest, EditRequest, RegisterOps, ShiftOps, SaleOps, SpendOps
  <2>2. CASE q.op = "open"
    BY <2>2, <1>3, <1>5, OpenCommit
  <2>3. CASE q.op \in {"archive", "reactivate", "delete", "edit"}
    BY <2>3, <1>3, <1>4, <1>5, RegisterCommit
  <2>4. CASE q.op \in ShiftOps
    BY <2>4, <1>3, <1>4, <1>5, ShiftCommit
  <2>5. CASE q.op \in SaleOps \cup {"void", "collect"}
    BY <2>5, <1>3, <1>4, <1>5, CashCommit
  <2>6. CASE q.op \in SpendOps \cup {"settle"}
    BY <2>6, <1>3, <1>4, <1>5, ExpenseCommit
  <2> QED BY <2>1, <2>2, <2>3, <2>4, <2>5, <2>6 DEF RegisterOps
<1>7. TasksOK' /\ Apart' /\ Prepared' /\ Computed'
  <2>1. \A p \in DrawerRequest :
           Fits(p) /\ LocksOf(p) \cap LocksOf(task[u]) = {} => LeavesAlone(p)
    BY <1>1, <1>6 DEF RowsKept
  <2>2. NotVoided' \subseteq NotVoided
    BY <1>6 DEF RowsKept
  <2> QED BY <2>1, <2>2, <1>3, <1>5, OthersKeep
<1> QED BY <1>6, <1>7 DEF RowsKept

\* Rows that stay, and requests that stay or end.
LEMMA SameRequestsKeep ==
    ASSUME DrawerInv, UNCHANGED rows, TasksOK',
           \A v \in Requests : Decided(v)' =>
               Decided(v) /\ task'[v] = task[v] /\ read'[v] = read[v]
    PROVE  DrawerInv'
<1> USE DEF DrawerInv
<1>1. Apart'
  <2> SUFFICES ASSUME NEW v \in Requests, NEW w \in Requests, v # w, Decided(v)', Decided(w)'
               PROVE  LocksOf(task[v])' \cap LocksOf(task[w])' = {}
    BY DEF Apart
  <2>1. PICK a : a = task[v]
    OBVIOUS
  <2>2. PICK b : b = task[w]
    OBVIOUS
  <2>3. LocksOf(a) \cap LocksOf(b) = {}
    BY <2>1, <2>2 DEF Apart
  <2>4. LocksOf(a)' = LocksOf(a) /\ LocksOf(b)' = LocksOf(b)
    BY RowsStay
  <2>5. LocksOf(task[v])' = LocksOf(a)' /\ LocksOf(task[w])' = LocksOf(b)'
    BY <2>1, <2>2
  <2> QED BY <2>3, <2>4, <2>5
<1>2. Prepared'
  <2> SUFFICES ASSUME NEW v \in Requests, Decided(v)' PROVE Fits(task[v])'
    BY DEF Prepared
  <2>1. PICK p : p = task[v]
    OBVIOUS
  <2>2. Fits(p)'
    BY <2>1, RowsStay DEF Prepared
  <2>3. p = task'[v]
    BY <2>1
  <2> QED BY <2>2, <2>3
<1>3. Computed'
  <2> SUFFICES ASSUME NEW v \in Requests, Decided(v)'
               PROVE  /\ read'[v] \in [Counted(task[v])' -> Int]
                      /\ \A s \in Counted(task[v])' : Explained(s, read[v][s], ExpensesAfter(task[v]))'
    BY DEF Computed
  <2>1. PICK p : p = task[v]
    OBVIOUS
  <2>2. PICK r : r = read[v]
    OBVIOUS
  <2>3. r \in [Counted(p) -> Int] /\ \A s \in Counted(p) : Explained(s, r[s], ExpensesAfter(p))
    BY <2>1, <2>2 DEF Computed
  <2>4. PICK E : E = ExpensesAfter(p)
    OBVIOUS
  <2>5. Counted(p)' = Counted(p) /\ ExpensesAfter(p)' = E
    BY <2>4, RowsStay
  <2>6. \A s \in Counted(p) : Explained(s, r[s], E)'
    BY <2>3, <2>4, RowsStay
  <2>7. \A s \in Counted(p) : Explained(s, r[s], ExpensesAfter(p))'
    BY <2>5, <2>6 DEF Explained
  <2>8. p = task'[v] /\ r = read'[v]
    BY <2>1, <2>2
  <2> QED BY <2>3, <2>5, <2>7, <2>8 DEF Explained
<1> QED BY <1>1, <1>2, <1>3, RowsStay

\* One that is given up.
LEMMA GivenUpKeeps ==
    ASSUME DrawerInv, NEW u \in Requests, Abort(u)
    PROVE  DrawerInv'
<1> USE DEF DrawerInv
<1>1. UNCHANGED rows /\ Done(u)
  BY DEF Abort
<1>2. /\ task' = [task EXCEPT ![u] = NoRow] /\ read' = [read EXCEPT ![u] = NoRow]
  BY <1>1 DEF Done
<1>3. /\ ~ Decided(u)' /\ task'[u] = NoRow
      /\ \A v \in Requests \ {u} : /\ task'[v] = task[v] /\ read'[v] = read[v]
                                   /\ Decided(v)' <=> Decided(v)
  BY <1>2 DEF TasksOK, Decided
<1>4. TasksOK'
  BY <1>2, <1>3 DEF TasksOK
<1>5. ASSUME NEW v \in Requests, Decided(v)'
      PROVE  v # u /\ Decided(v) /\ task'[v] = task[v] /\ read'[v] = read[v]
  BY <1>3, <1>5
<1> QED BY <1>1, <1>4, <1>5, SameRequestsKeep

-----------------------------------------------------------------------------
(* The requests.                                                           *)

LEMMA FormKeeps ==
    ASSUME DrawerInv, NEW u \in Requests, FillRegisterForm(u) \/ SaveRegister(u)
    PROVE  DrawerInv'
<1> USE DEF DrawerInv
<1>1. CASE FillRegisterForm(u)
  <2>1. PICK r \in Registers, b \in Sites :
          /\ Free(u) /\ UNCHANGED <<rows, read>>
          /\ task' = [task EXCEPT ![u] = [op |-> "edit", row |-> r, branch |-> b]]
    BY <1>1 DEF FillRegisterForm
  <2>2. [op |-> "edit", row |-> r, branch |-> b] \in EditRequest
    BY DEF EditRequest
  <2>3. ~ Decided(u)' /\ \A v \in Requests : Decided(v)' <=> Decided(v)
    BY <2>1 DEF Decided, Free
  <2>4. task'[u] \in EditRequest /\ \A v \in Requests \ {u} : task'[v] = task[v]
    BY <2>1, <2>2 DEF TasksOK
  <2>5. TasksOK'
    BY <2>1, <2>3, <2>4 DEF TasksOK
  <2>6. \A v \in Requests : Decided(v)' => Decided(v) /\ task'[v] = task[v] /\ read'[v] = read[v]
    BY <2>1, <2>3, <2>4
  <2> QED BY <2>1, <2>5, <2>6, SameRequestsKeep
<1>2. CASE SaveRegister(u)
  <2>1. PICK q : q = task[u]
    OBVIOUS
  <2>2. q \in EditRequest /\ Decide(u, q)
    BY <1>2, <2>1 DEF SaveRegister, TasksOK
  <2>3. q \in DrawerRequest /\ Fits(q)
    BY <2>2 DEF EditRequest, DrawerRequest, Fits, SaleOps
  <2> QED BY <2>2, <2>3, DecideKeeps
<1> QED BY <1>1, <1>2

LEMMA RegisterKeeps ==
    ASSUME DrawerInv, NEW u \in Requests, RegisterRequest(u)
    PROVE  DrawerInv'
<1>1. ASSUME NEW q \in DrawerRequest, Fits(q), Request(u, q) PROVE DrawerInv'
  BY <1>1, DecideKeeps DEF Request
<1> USE DEF ShiftOps, SaleOps
<1>2. CASE OpenShift(u)
  <2>1. PICK r \in Registers, s \in Shifts, by \in Users, a \in Floats :
          /\ shift[s] = NoRow /\ register[r].state = "active"
          /\ OpenOn(r) = {} /\ OpenBy(by) = {}
          /\ Request(u, [op |-> "open", row |-> r, shift |-> s, by |-> by, amount |-> a])
    BY <1>2 DEF OpenShift
  <2>2. a \in Nat
    BY DrawerConstants
  <2>3. [op |-> "open", row |-> r, shift |-> s, by |-> by, amount |-> a] \in DrawerRequest
    BY <2>2 DEF DrawerRequest
  <2> QED BY <2>1, <2>3, <1>1 DEF Fits
<1>3. CASE CloseShift(u)
  <2>1. PICK s \in Open : Request(u, [op |-> "close", row |-> s])
    BY <1>3 DEF CloseShift
  <2>2. [op |-> "close", row |-> s] \in DrawerRequest
    BY DEF DrawerRequest, Open, Opened
  <2> QED BY <2>1, <2>2, <1>1 DEF Fits
<1>4. CASE ApproveShift(u)
  <2>1. PICK s \in Closed : Request(u, [op |-> "approve", row |-> s])
    BY <1>4 DEF ApproveShift
  <2>2. [op |-> "approve", row |-> s] \in DrawerRequest
    BY DEF DrawerRequest, Closed, Opened
  <2> QED BY <2>1, <2>2, <1>1 DEF Fits
<1>5. CASE ReopenShift(u)
  <2>1. PICK s \in Closed : /\ shift[s].reopened < MostReopened
                            /\ FreeRegister(shift[s].register)
                            /\ Request(u, [op |-> "reopen", row |-> s])
    BY <1>5 DEF ReopenShift
  <2>2. [op |-> "reopen", row |-> s] \in DrawerRequest
    BY DEF DrawerRequest, Closed, Opened
  <2> QED BY <2>1, <2>2, <1>1 DEF Fits, FreeRegister
<1>6. CASE ArchiveRegister(u)
  <2>1. PICK r \in Registers : OpenOn(r) = {} /\ Request(u, [op |-> "archive", row |-> r])
    BY <1>6 DEF ArchiveRegister
  <2>2. [op |-> "archive", row |-> r] \in DrawerRequest
    BY DEF DrawerRequest
  <2> QED BY <2>1, <2>2, <1>1 DEF Fits
<1>7. CASE ReactivateRegister(u)
  <2>1. PICK r \in Registers : Request(u, [op |-> "reactivate", row |-> r])
    BY <1>7 DEF ReactivateRegister
  <2>2. [op |-> "reactivate", row |-> r] \in DrawerRequest
    BY DEF DrawerRequest
  <2> QED BY <2>1, <2>2, <1>1 DEF Fits
<1>8. CASE DeleteRegister(u)
  <2>1. PICK r \in Registers : /\ \A s \in Opened : shift[s].register # r
                               /\ Request(u, [op |-> "delete", row |-> r])
    BY <1>8 DEF DeleteRegister
  <2>2. [op |-> "delete", row |-> r] \in DrawerRequest
    BY DEF DrawerRequest
  <2> QED BY <2>1, <2>2, <1>1 DEF Fits
<1> QED BY <1>2, <1>3, <1>4, <1>5, <1>6, <1>7, <1>8, FormKeeps DEF RegisterRequest

LEMMA CashKeeps ==
    ASSUME DrawerInv, NEW u \in Requests, CashRequest(u)
    PROVE  DrawerInv'
<1>1. ASSUME NEW q \in DrawerRequest, Fits(q), Request(u, q) PROVE DrawerInv'
  BY <1>1, DecideKeeps DEF Request
<1> USE DEF ShiftOps, SaleOps
<1>2. \A a \in CashAmounts : a \in Nat
  BY DrawerConstants
<1>3. ASSUME NEW s, NEW by, Usable(s, by) PROVE s \in Open /\ s \in Shifts
  BY <1>3 DEF Usable, Open, Opened
<1>4. CASE Sell(u)
  <2>1. PICK x \in Sales, s \in Opened, by \in Users, a \in CashAmounts :
          /\ sale[x] = "none" /\ Usable(s, by)
          /\ Request(u, [op |-> "sell", row |-> x, shift |-> s, amount |-> a])
    BY <1>4 DEF Sell
  <2>2. [op |-> "sell", row |-> x, shift |-> s, amount |-> a] \in DrawerRequest
    BY <2>1, <1>2, <1>3 DEF DrawerRequest
  <2> QED BY <2>1, <2>2, <1>1, <1>3 DEF Fits
<1>5. CASE PayLater(u)
  <2>1. PICK x \in Sales, s \in Opened, by \in Users, a \in CashAmounts :
          /\ Usable(s, by)
          /\ Request(u, [op |-> "pay", row |-> x, shift |-> s, amount |-> a])
    BY <1>5 DEF PayLater
  <2>2. [op |-> "pay", row |-> x, shift |-> s, amount |-> a] \in DrawerRequest
    BY <2>1, <1>2, <1>3 DEF DrawerRequest
  <2> QED BY <2>1, <2>2, <1>1, <1>3 DEF Fits
<1>6. CASE Refund(u)
  <2>1. PICK x \in Sales, s \in Opened, by \in Users, a \in CashAmounts :
          /\ sale[x] = "sold" /\ Usable(s, by)
          /\ Request(u, [op |-> "refund", row |-> x, shift |-> s, amount |-> a])
    BY <1>6 DEF Refund
  <2>2. [op |-> "refund", row |-> x, shift |-> s, amount |-> a] \in DrawerRequest
    BY <2>1, <1>2, <1>3 DEF DrawerRequest
  <2> QED BY <2>1, <2>2, <1>1, <1>3 DEF Fits
<1>7. CASE VoidSale(u)
  <2>1. PICK x \in Sales : Request(u, [op |-> "void", row |-> x])
    BY <1>7 DEF VoidSale
  <2>2. [op |-> "void", row |-> x] \in DrawerRequest
    BY DEF DrawerRequest
  <2> QED BY <2>1, <2>2, <1>1 DEF Fits
<1>8. CASE CollectPayment(u)
  <2>1. PICK s \in Opened, by \in Users, a \in CashAmounts :
          /\ Usable(s, by)
          /\ Request(u, [op |-> "collect", shift |-> s, amount |-> a])
    BY <1>8 DEF CollectPayment
  <2>2. [op |-> "collect", shift |-> s, amount |-> a] \in DrawerRequest
    BY <2>1, <1>2, <1>3 DEF DrawerRequest
  <2> QED BY <2>1, <2>2, <1>1, <1>3 DEF Fits
<1>9. ASSUME NEW by, NEW status \in FirstStatus(by) PROVE status \in ExpenseStatus
  BY <1>9 DEF FirstStatus, ExpenseStatus
<1>10. CASE Spend(u)
  <2>1. PICK e \in Expenses, s \in Open \cup {NoRow}, by \in Users, a \in CashAmounts,
             status \in ExpenseStatus :
          /\ cashExpense[e] = NoRow
          /\ Request(u, [op |-> "spend", row |-> e, shift |-> s, amount |-> a, status |-> status])
    BY <1>9, <1>10 DEF Spend
  <2>2. s \in Shifts \cup {NoRow}
    BY DEF Open, Opened
  <2>3. [op |-> "spend", row |-> e, shift |-> s, amount |-> a, status |-> status] \in DrawerRequest
    BY <2>2, <1>2, <1>9 DEF DrawerRequest, SpendOps
  <2> QED BY <2>1, <2>3, <1>1 DEF Fits
<1>11. ASSUME NEW e \in Expenses, cashExpense[e] # NoRow, NEW s \in Opened \cup {NoRow},
              NEW a \in CashAmounts, NEW status \in ExpenseStatus,
              Request(u, [op |-> "amend", row |-> e, shift |-> s, amount |-> a, status |-> status])
       PROVE  DrawerInv'
  <2>1. s \in Shifts \cup {NoRow}
    BY DEF Opened
  <2>2. [op |-> "amend", row |-> e, shift |-> s, amount |-> a, status |-> status] \in DrawerRequest
    BY <2>1, <1>2 DEF DrawerRequest, SpendOps
  <2> QED BY <1>11, <2>2, <1>1 DEF Fits
<1>12. CASE EditExpense(u)
  <2>1. PICK e \in Expenses, s \in Shifts \cup {NoRow}, a \in CashAmounts,
             status \in ExpenseStatus :
          /\ cashExpense[e] # NoRow
          /\ s = NoRow \/ s \in Open \/ s \in Closed
          /\ Request(u, [op |-> "amend", row |-> e, shift |-> s, amount |-> a, status |-> status])
    BY <1>9, <1>12 DEF EditExpense
  <2>2. s \in Opened \cup {NoRow}
    BY <2>1 DEF Open, Closed
  <2> QED BY <2>1, <2>2, <1>11
<1>13. CASE CorrectExpense(u)
  BY <1>13, <1>11 DEF CorrectExpense, ExpenseStatus
<1>14. CASE SettleExpense(u)
  <2>1. PICK e \in Expenses, status \in {"approved", "rejected", "cancelled"} :
          /\ cashExpense[e] # NoRow
          /\ Request(u, [op |-> "settle", row |-> e, status |-> status])
    BY <1>14 DEF SettleExpense
  <2>2. [op |-> "settle", row |-> e, status |-> status] \in DrawerRequest
    BY DEF DrawerRequest, ExpenseStatus
  <2> QED BY <2>1, <2>2, <1>1 DEF Fits
<1> QED BY <1>4, <1>5, <1>6, <1>7, <1>8, <1>10, <1>12, <1>13, <1>14 DEF CashRequest

-----------------------------------------------------------------------------
(* The theorems.                                                           *)

LEMMA DrawerInit ==
    Init => DrawerInv
<1> SUFFICES ASSUME Init PROVE DrawerInv
  OBVIOUS
<1>1. Opened = {} /\ Open = {} /\ Closed = {}
  BY DEF Init, Opened, Open, Closed
<1>2. \A u \in Requests : ~ Decided(u) /\ task[u] = NoRow
  BY DEF Init, Decided
<1>3. TypeOK
  <2>1. \A x \in Sales : "none" \in SaleStatus
    BY DEF SaleStatus
  <2>2. [taken |-> [x \in Sales |-> 0], other |-> 0] \in Cash
    BY DEF Cash
  <2> QED BY <2>1, <2>2 DEF Init, TypeOK, Register
<1>4. PaidFromOpened
  BY DEF Init, PaidFromOpened, DrawersOf
<1>5. TasksOK
  BY <1>2 DEF Init, TasksOK
<1> QED BY <1>1, <1>2, <1>3, <1>4, <1>5
    DEF DrawerInv, Apart, Prepared, Computed, OneDrawer, OneCashier, Explains

\* Nothing happens to the drawers that breaks the invariant.
THEOREM DrawerInvariant ==
    Spec => []DrawerInv
<1>1. DrawerInv /\ [Next]_vars => DrawerInv'
  <2> SUFFICES ASSUME DrawerInv, [Next]_vars PROVE DrawerInv'
    OBVIOUS
  <2>1. CASE Next
    BY <2>1, RegisterKeeps, CashKeeps, CommitKeeps, GivenUpKeeps DEF Next
  <2>2. CASE UNCHANGED vars
    <3>1. UNCHANGED rows /\ task' = task /\ read' = read
      BY <2>2 DEF vars, rows
    <3>2. TasksOK' /\ \A v \in Requests : Decided(v)' => Decided(v)
      BY <3>1 DEF DrawerInv, TasksOK, Decided
    <3> QED BY <3>1, <3>2, SameRequestsKeep
  <2> QED BY <2>1, <2>2
<1> QED BY <1>1, DrawerInit, PTL DEF Spec

LEMMA AtMostOne ==
    ASSUME NEW S, \A x, y \in S : x = y
    PROVE  Cardinality(S) <= 1
<1>1. CASE S = {}
  BY <1>1, FS_EmptySet
<1>2. CASE S # {}
  <2>1. PICK x \in S : S = {x}
    BY <1>2
  <2> QED BY <2>1, FS_Singleton
<1> QED BY <1>1, <1>2

LEMMA DrawerInvExplains ==
    DrawerInv => DrawersAddUp
<1> SUFFICES ASSUME DrawerInv PROVE DrawersAddUp
  OBVIOUS
<1> USE DEF DrawerInv
<1>1. OneOpenShiftPerRegister
  <2> SUFFICES ASSUME NEW r \in Registers
               PROVE  /\ Cardinality(OpenOn(r)) <= 1
                      /\ OpenOn(r) # {} => register[r].state = "active"
    BY DEF OneOpenShiftPerRegister
  <2>1. /\ \A s, t \in OpenOn(r) : s = t
        /\ OpenOn(r) # {} => register[r].state = "active"
    BY DEF OneDrawer, OpenOn
  <2> QED BY <2>1, AtMostOne
<1>2. OneOpenShiftPerCashier
  <2> SUFFICES ASSUME NEW c \in Users
               PROVE  Cardinality({s \in OpenBy(c) : shift[s].reopened = 0}) <= 1
    BY DEF OneOpenShiftPerCashier
  <2>1. \A s, t \in {x \in OpenBy(c) : shift[x].reopened = 0} : s = t
    BY DEF OneCashier, OpenBy
  <2> QED BY <2>1, AtMostOne
<1>3. ClosedShiftExplained
  <2> SUFFICES ASSUME NEW s \in Closed
               PROVE  \E V \in SUBSET {x \in Sales : sale[x] = "voided"} :
                        shift[s].expected = Drawer(s, cashExpense) + SumOf(cash[s].taken, V)
    BY DEF ClosedShiftExplained, SumOf, MapThenSumSet, MapThenFoldSet
  <2>1. PICK W \in SUBSET Sales :
          /\ NotVoided \subseteq W
          /\ shift[s].expected = shift[s].opening + SumOf(cash[s].taken, W) + cash[s].other
                                 - Spent(s, cashExpense)
    BY DEF Explains, Explained
  <2>2. PICK V : V = W \ NotVoided
    OBVIOUS
  <2>3. /\ IsFiniteSet(V) /\ IsFiniteSet(NotVoided) /\ V \cap NotVoided = {}
        /\ W = NotVoided \cup V /\ V \in SUBSET {x \in Sales : sale[x] = "voided"}
    BY <2>1, <2>2, DrawerConstants, FS_Subset DEF NotVoided
  <2>4. \A x \in Sales : cash[s].taken[x] \in Int
    BY DEF TypeOK, Closed, Opened, Cash
  <2>5. SumOf(cash[s].taken, W) = SumOf(cash[s].taken, NotVoided) + SumOf(cash[s].taken, V)
    BY <2>1, <2>3, <2>4, SumUnion
  <2>6. SumOf(cash[s].taken, NotVoided) \in Int /\ SumOf(cash[s].taken, V) \in Int
    BY <2>1, <2>3, <2>4, SumType
  <2>7. shift[s].opening \in Int /\ cash[s].other \in Int /\ Spent(s, cashExpense) \in Int
    BY SpentType DEF TypeOK, Closed, Opened, Cash, Shift
  <2>8. shift[s].expected = Drawer(s, cashExpense) + SumOf(cash[s].taken, V)
    BY <2>1, <2>5, <2>6, <2>7, DrawerIsSum
  <2> QED BY <2>3, <2>8
<1> QED BY <1>1, <1>2, <1>3 DEF DrawersAddUp

\* Whatever requests run at once, for any number of registers, shifts, sales and
\* expenses: one open drawer for a register and for a cashier, and the expected
\* cash that close_shift stored stays explained by the movements of its drawer.
THEOREM DrawersExplained ==
    Spec => []DrawersAddUp
BY DrawerInvariant, DrawerInvExplains, PTL

-----------------------------------------------------------------------------
(* Requests that lock rows: what is true of any of them.                   *)

WebInv ==
    /\ req = [s \in Sessions |-> req[s]] /\ want = [s \in Sessions |-> want[s]]
    /\ held = [s \in Sessions |-> held[s]] /\ seen = [s \in Sessions |-> seen[s]]
    /\ Exclusive
    /\ \A s \in Sessions : DOMAIN seen[s] = held[s]

LEMMA WebInitInv ==
    WebInit => WebInv
BY DEF WebInit, InitLocks, WebInv, Exclusive, NothingSeen

LEMMA BeginKeeps ==
    ASSUME WebInv, NEW s \in Sessions, NEW q, NEW asked, Begin(s, q, asked)
    PROVE  /\ WebInv' /\ held' = held /\ seen' = seen
           /\ req'[s] = q /\ want'[s] = asked
           /\ \A r \in Sessions \ {s} : req'[r] = req[r] /\ want'[r] = want[r]
BY DEF WebInv, Begin, Ask, Exclusive

\* A lock that is granted: f is what the request has read then.
LEMMA TakeKeeps ==
    ASSUME WebInv, NEW s \in Sessions, Take(s), NEW f, seen' = [seen EXCEPT ![s] = f],
           DOMAIN f = DOMAIN seen[s] \cup {Head(want[s])}, UNCHANGED req
    PROVE  /\ WebInv' /\ held'[s] = held[s] \cup {Head(want[s])} /\ want'[s] = Tail(want[s])
           /\ seen'[s] = f
           /\ \A r \in Sessions \ {s} :
                held'[r] = held[r] /\ want'[r] = want[r] /\ seen'[r] = seen[r]
<1>1. /\ held'[s] = held[s] \cup {Head(want[s])} /\ want'[s] = Tail(want[s]) /\ seen'[s] = f
      /\ \A r \in Sessions \ {s} :
           held'[r] = held[r] /\ want'[r] = want[r] /\ seen'[r] = seen[r]
  BY DEF WebInv, Take
<1>2. Exclusive'
  BY <1>1 DEF WebInv, Exclusive, Take, Granted
<1>3. /\ held' = [r \in Sessions |-> held'[r]] /\ want' = [r \in Sessions |-> want'[r]]
      /\ seen' = [r \in Sessions |-> seen'[r]]
  BY DEF WebInv, Take
<1> QED BY <1>1, <1>2, <1>3 DEF WebInv

LEMMA EndKeeps ==
    ASSUME WebInv, NEW s \in Sessions, End(s)
    PROVE  /\ WebInv' /\ req'[s] = None /\ held'[s] = {} /\ want'[s] = <<>>
           /\ \A r \in Sessions \ {s} : /\ req'[r] = req[r] /\ want'[r] = want[r]
                                        /\ held'[r] = held[r] /\ seen'[r] = seen[r]
<1>1. DOMAIN NothingSeen = {}
  BY DEF NothingSeen
<1>2. /\ req'[s] = None /\ held'[s] = {} /\ want'[s] = <<>> /\ seen'[s] = NothingSeen
      /\ \A r \in Sessions \ {s} : /\ req'[r] = req[r] /\ want'[r] = want[r]
                                   /\ held'[r] = held[r] /\ seen'[r] = seen[r]
  BY DEF WebInv, End, Release
<1>3. /\ held' = [r \in Sessions |-> held'[r]] /\ want' = [r \in Sessions |-> want'[r]]
      /\ seen' = [r \in Sessions |-> seen'[r]] /\ req' = [r \in Sessions |-> req'[r]]
  BY DEF WebInv, End, Release
<1>4. Exclusive'
  BY <1>2 DEF WebInv, Exclusive
<1>5. \A r \in Sessions : DOMAIN seen'[r] = held'[r]
  BY <1>1, <1>2 DEF WebInv
<1> QED BY <1>2, <1>3, <1>4, <1>5 DEF WebInv

-----------------------------------------------------------------------------
(* Expenses.                                                               *)

ByRight(x) == x.status = "approved" /\ Threshold > 0 /\ x.amount >= Threshold =>
                  x.by \in Approvers \/ x.amount = x.default

EntryRequest ==
    [op : {"enter"}, id : ExpenseIds, actor : Actors, amount : Costs]
    \cup [op : {"edit"}, id : ExpenseIds \cup Generated, actor : Actors, amount : Costs,
          copy : Expense]
    \cup [op : {"medium"}, id : ExpenseIds \cup Generated, copy : Expense]
    \cup [op : {"decide"}, id : ExpenseIds \cup Generated, actor : Approvers,
          to : {"approved", "rejected", "cancelled"}]
TemplateRequest ==
    [op : {"template"}, id : FixedIds, row : Template]
    \cup [op : {"active"}, id : FixedIds, on : BOOLEAN]
    \cup [op : {"delete"}, id : FixedIds]
MonthRequest == [op : {"month"}, month : Months]

\* An expense never goes once it is there; a request about a template has its
\* lock when it is ready; and a copy was approved by right when it was read.
SoundRequest(s) ==
    /\ req[s] \in EntryRequest \cup TemplateRequest \cup MonthRequest
    /\ req[s].op \in {"edit", "medium", "decide"} => expense[req[s].id] # None
    /\ req[s].op = "medium" => ByRight(req[s].copy)
    /\ req[s] \in TemplateRequest =>
         want[s] = << req[s].id >> \/ (want[s] = <<>> /\ req[s].id \in held[s])
SeenAsItIs == \A s \in Sessions, f \in FixedIds : f \in held[s] => seen[s][f] = template[f]
EveryByRight == \A e \in Entered : ByRight(expense[e])

ExpenseInv ==
    /\ ExpensesTypeOK /\ WebInv /\ SeenAsItIs
    /\ \A s \in Sessions : req[s] # None => SoundRequest(s)
    /\ EveryByRight /\ HistoryKeepsTemplate

LEMMA AskingKeeps ==
    ASSUME ExpenseInv, NEW s \in Sessions, NEW q, NEW asked, Begin(s, q, asked),
           UNCHANGED <<expense, template>>, templatesMade' \subseteq FixedIds,
           q \in EntryRequest \cup TemplateRequest \cup MonthRequest,
           q.op \in {"edit", "medium", "decide"} => expense[q.id] # None,
           q.op = "medium" => ByRight(q.copy),
           q \in TemplateRequest => asked = << q.id >>
    PROVE  ExpenseInv'
<1> USE DEF ExpenseInv
<1>1. /\ WebInv' /\ held' = held /\ seen' = seen
      /\ req'[s] = q /\ want'[s] = asked
      /\ \A r \in Sessions \ {s} : req'[r] = req[r] /\ want'[r] = want[r]
  BY BeginKeeps
<1>2. ExpensesTypeOK' /\ SeenAsItIs' /\ EveryByRight' /\ HistoryKeepsTemplate'
  BY <1>1 DEF ExpensesTypeOK, SeenAsItIs, EveryByRight, HistoryKeepsTemplate, Entered
<1>3. ASSUME NEW r \in Sessions, req'[r] # None PROVE SoundRequest(r)'
  <2>1. CASE r = s
    BY <2>1, <1>1 DEF SoundRequest
  <2>2. CASE r # s
    BY <2>2, <1>1, <1>3 DEF SoundRequest
  <2> QED BY <2>1, <2>2
<1> QED BY <1>1, <1>2, <1>3

LEMMA EntryRows ==
    ASSUME ExpensesTypeOK
    PROVE  \A e \in Entered : e \in ExpenseIds \cup Generated /\ expense[e] \in Expense
BY DEF ExpensesTypeOK, Entered

LEMMA EntriesStart ==
    ASSUME ExpenseInv, NEW s \in Sessions,
           RequestEntry(s) \/ RequestEdit(s) \/ RequestMedium(s) \/ RequestDecision(s)
    PROVE  ExpenseInv'
<1> USE DEF ExpenseInv
<1>0. /\ \A e \in Entered : e \in ExpenseIds \cup Generated /\ expense[e] \in Expense
      /\ templatesMade \subseteq FixedIds
  BY EntryRows DEF ExpensesTypeOK
<1>1. ASSUME NEW q \in EntryRequest, NEW asked, RequestExpense(s, q, asked),
             q.op \in {"edit", "medium", "decide"} => expense[q.id] # None,
             q.op = "medium" => ByRight(q.copy)
      PROVE  ExpenseInv'
  <2>1. q \notin TemplateRequest
    BY DEF EntryRequest, TemplateRequest
  <2> QED BY <1>0, <1>1, <2>1, AskingKeeps DEF RequestExpense, expenseVars
<1>2. CASE RequestEntry(s)
  <2>1. PICK e \in ExpenseIds, a \in Actors, c \in Costs :
          RequestExpense(s, [op |-> "enter", id |-> e, actor |-> a, amount |-> c], <<>>)
    BY <1>2 DEF RequestEntry
  <2> QED BY <2>1, <1>1 DEF EntryRequest
<1>3. CASE RequestEdit(s)
  <2>1. PICK e \in Entered, a \in Actors, c \in Costs :
          RequestExpense(s, [op |-> "edit", id |-> e, actor |-> a, amount |-> c,
                             copy |-> expense[e]], << e >>)
    BY <1>3 DEF RequestEdit
  <2>2. [op |-> "edit", id |-> e, actor |-> a, amount |-> c, copy |-> expense[e]] \in EntryRequest
    BY <1>0 DEF EntryRequest
  <2>3. expense[e] # None
    BY DEF Entered
  <2> QED BY <2>1, <2>2, <2>3, <1>1
<1>4. CASE RequestMedium(s)
  <2>1. PICK e \in Entered :
          RequestExpense(s, [op |-> "medium", id |-> e, copy |-> expense[e]], << e >>)
    BY <1>4 DEF RequestMedium
  <2>2. [op |-> "medium", id |-> e, copy |-> expense[e]] \in EntryRequest
    BY <1>0 DEF EntryRequest
  <2>3. expense[e] # None /\ ByRight(expense[e])
    BY DEF Entered, EveryByRight
  <2> QED BY <2>1, <2>2, <2>3, <1>1
<1>5. CASE RequestDecision(s)
  <2>1. PICK e \in Entered, a \in Approvers, to \in {"approved", "rejected", "cancelled"} :
          RequestExpense(s, [op |-> "decide", id |-> e, actor |-> a, to |-> to], << e >>)
    BY <1>5 DEF RequestDecision
  <2>2. [op |-> "decide", id |-> e, actor |-> a, to |-> to] \in EntryRequest
    BY <1>0 DEF EntryRequest
  <2>3. expense[e] # None
    BY DEF Entered
  <2> QED BY <2>1, <2>2, <2>3, <1>1
<1> QED BY <1>2, <1>3, <1>4, <1>5

LEMMA TemplatesStart ==
    ASSUME ExpenseInv, NEW s \in Sessions,
           RequestTemplate(s) \/ RequestActive(s) \/ RequestDelete(s) \/ RequestMonth(s)
    PROVE  ExpenseInv'
<1> USE DEF ExpenseInv
<1>0. templatesMade \subseteq FixedIds /\ Fixed \subseteq FixedIds
      /\ \A f \in Fixed : template[f] \in Template
  BY DEF ExpensesTypeOK, Fixed
<1>1. ASSUME NEW q \in TemplateRequest, Begin(s, q, << q.id >>),
             UNCHANGED <<expense, template>>, templatesMade' \subseteq FixedIds
      PROVE  ExpenseInv'
  BY <1>1, AskingKeeps DEF TemplateRequest
<1>2. CASE RequestTemplate(s)
  <2>1. PICK f \in FixedIds, c \in Costs, ms \in SUBSET Months \ {{}} :
          \/ /\ templatesMade' = templatesMade \cup {f}
             /\ Begin(s, [op |-> "template", id |-> f,
                          row |-> [amount |-> c, active |-> TRUE, months |-> ms]], << f >>)
             /\ UNCHANGED <<expense, template>>
          \/ /\ f \in Fixed
             /\ RequestExpense(s, [op |-> "template", id |-> f,
                   row |-> [template[f] EXCEPT !.amount = c, !.months = ms]], << f >>)
    BY <1>2 DEF RequestTemplate
  <2>2. [amount |-> c, active |-> TRUE, months |-> ms] \in Template
    BY DEF Template
  <2>3. f \in Fixed => [template[f] EXCEPT !.amount = c, !.months = ms] \in Template
    BY <1>0 DEF Template
  <2>4. \A row \in Template : [op |-> "template", id |-> f, row |-> row] \in TemplateRequest
    BY DEF TemplateRequest
  <2> QED BY <2>1, <2>2, <2>3, <2>4, <1>0, <1>1 DEF RequestExpense, expenseVars
<1>3. CASE RequestActive(s)
  <2>1. PICK f \in Fixed, on \in BOOLEAN :
          RequestExpense(s, [op |-> "active", id |-> f, on |-> on], << f >>)
    BY <1>3 DEF RequestActive
  <2>2. [op |-> "active", id |-> f, on |-> on] \in TemplateRequest
    BY <1>0 DEF TemplateRequest
  <2> QED BY <2>1, <2>2, <1>0, <1>1 DEF RequestExpense, expenseVars
<1>4. CASE RequestDelete(s)
  <2>1. PICK f \in Fixed : RequestExpense(s, [op |-> "delete", id |-> f], << f >>)
    BY <1>4 DEF RequestDelete
  <2>2. [op |-> "delete", id |-> f] \in TemplateRequest
    BY <1>0 DEF TemplateRequest
  <2> QED BY <2>1, <2>2, <1>0, <1>1 DEF RequestExpense, expenseVars
<1>5. CASE RequestMonth(s)
  <2>1. PICK m, due : m \in Months /\ RequestExpense(s, [op |-> "month", month |-> m], due)
    BY <1>5 DEF RequestMonth
  <2>2. /\ [op |-> "month", month |-> m] \in MonthRequest
        /\ [op |-> "month", month |-> m] \notin TemplateRequest
    BY <2>1 DEF MonthRequest, TemplateRequest
  <2> QED BY <2>1, <2>2, <1>0, AskingKeeps DEF RequestExpense, expenseVars
<1> QED BY <1>2, <1>3, <1>4, <1>5

LEMMA LockingKeeps ==
    ASSUME ExpenseInv, NEW s \in Sessions, LockExpense(s)
    PROVE  ExpenseInv'
<1> USE DEF ExpenseInv
<1> DEFINE row == Head(want[s])
           f == [x \in DOMAIN seen[s] \cup {row} |-> IF x = row THEN RowOf(x) ELSE seen[s][x]]
<1>1. /\ Take(s) /\ seen' = [seen EXCEPT ![s] = f] /\ req' = req
      /\ expense' = expense /\ template' = template /\ templatesMade' = templatesMade
  BY DEF LockExpense, ReadLocked, expenseVars
<1>2. /\ WebInv' /\ held'[s] = held[s] \cup {row} /\ want'[s] = Tail(want[s]) /\ seen'[s] = f
      /\ \A r \in Sessions \ {s} :
           held'[r] = held[r] /\ want'[r] = want[r] /\ seen'[r] = seen[r]
  <2>1. DOMAIN f = DOMAIN seen[s] \cup {Head(want[s])}
    OBVIOUS
  <2> HIDE DEF f
  <2> QED BY <1>1, <2>1, TakeKeeps
<1>3. ExpensesTypeOK' /\ EveryByRight' /\ HistoryKeepsTemplate'
  BY <1>1 DEF ExpensesTypeOK, EveryByRight, HistoryKeepsTemplate, Entered
<1>4. SeenAsItIs'
  BY <1>1, <1>2 DEF SeenAsItIs, RowOf, WebInv
<1>5. ASSUME NEW r \in Sessions, req'[r] # None PROVE SoundRequest(r)'
  <2>1. CASE r # s
    BY <2>1, <1>1, <1>2, <1>5 DEF SoundRequest
  <2>2. CASE r = s
    <3>1. req[s] \in TemplateRequest => want'[s] = <<>> /\ req[s].id \in held'[s]
      <4>1. want[s] # <<>>
        BY <1>1 DEF Take
      <4>2. req[s] \in TemplateRequest => want[s] = << req[s].id >>
        BY <4>1, <1>1, <1>5, <2>2 DEF SoundRequest
      <4>3. \A x : Head(<< x >>) = x /\ Tail(<< x >>) = <<>>
        OBVIOUS
      <4> QED BY <4>2, <4>3, <1>2
    <3> QED BY <2>2, <3>1, <1>1, <1>5 DEF SoundRequest
  <2> QED BY <2>1, <2>2
<1> QED BY <1>2, <1>3, <1>4, <1>5

\* What is true before a commit of s, and what remains true of the others.
LEMMA EndingKeeps ==
    ASSUME ExpenseInv, NEW s \in Sessions, End(s),
           ExpensesTypeOK', EveryByRight', HistoryKeepsTemplate',
           \A e \in Entered : expense'[e] # None,
           \A f \in FixedIds : f \notin held[s] => template'[f] = template[f]
    PROVE  ExpenseInv'
<1> USE DEF ExpenseInv
<1>1. /\ WebInv' /\ req'[s] = None /\ held'[s] = {}
      /\ \A r \in Sessions \ {s} : /\ req'[r] = req[r] /\ want'[r] = want[r]
                                   /\ held'[r] = held[r] /\ seen'[r] = seen[r]
  BY EndKeeps
<1>2. SeenAsItIs'
  BY <1>1 DEF SeenAsItIs, WebInv, Exclusive
<1>3. ASSUME NEW r \in Sessions, req'[r] # None PROVE SoundRequest(r)'
  <2>1. r # s /\ SoundRequest(r)
    BY <1>1, <1>3
  <2>2. req[r].op \in {"edit", "medium", "decide"} => req[r].id \in Entered
    <3>1. req[r].op \in {"edit", "medium", "decide"} => req[r].id \in ExpenseIds \cup Generated
      BY <2>1 DEF SoundRequest, EntryRequest, TemplateRequest, MonthRequest
    <3> QED BY <2>1, <3>1 DEF SoundRequest, Entered, ExpensesTypeOK
  <2> QED BY <2>1, <2>2, <1>1 DEF SoundRequest
<1> QED BY <1>1, <1>2, <1>3

LEMMA EntriesKeep ==
    ASSUME ExpenseInv, NEW s \in Sessions,
           SaveEntry(s) \/ SaveEdit(s) \/ SaveMedium(s) \/ SetExpenseStatus(s)
    PROVE  ExpenseInv'
<1> USE DEF ExpenseInv
<1>0. PICK q : q = req[s]
  OBVIOUS
<1>1. /\ End(s) /\ template' = template /\ templatesMade' = templatesMade
      /\ q # None /\ SoundRequest(s)
  BY <1>0 DEF SaveEntry, SaveEdit, SaveMedium, SetExpenseStatus, Answers, Ready
<1>2. ASSUME NEW e \in ExpenseIds \cup Generated, NEW x \in Expense, ByRight(x),
             expense' = [expense EXCEPT ![e] = x], e \in Generated => expense[e] # None
      PROVE  ExpenseInv'
  <2>1. x # None
    BY NoneIsNoExpense
  <2>2. expense'[e] = x /\ \A y \in (ExpenseIds \cup Generated) \ {e} : expense'[y] = expense[y]
    BY <1>2 DEF ExpensesTypeOK
  <2>3. ExpensesTypeOK' /\ EveryByRight'
    BY <1>1, <1>2, <2>2 DEF ExpensesTypeOK, EveryByRight, Entered
  <2>4. HistoryKeepsTemplate'
    BY <1>1, <1>2, <2>2 DEF ExpensesTypeOK, HistoryKeepsTemplate, Entered
  <2>5. \A y \in Entered : expense'[y] # None
    BY <2>1, <2>2 DEF Entered, ExpensesTypeOK
  <2> QED BY <1>1, <2>3, <2>4, <2>5, EndingKeeps
<1>3. ASSUME NEW copy \in Expense \cup {Blank}, NEW row, NEW actor \in Actors, NEW amount \in Costs
      PROVE  Saved(row, copy, amount, actor) \in Expense /\ ByRight(Saved(row, copy, amount, actor))
  <2>1. PICK x : x = Saved(row, copy, amount, actor)
    OBVIOUS
  <2>0. /\ copy = [amount |-> copy.amount, status |-> copy.status, by |-> copy.by,
                   default |-> copy.default]
        /\ copy.by \in Actors \cup {None} /\ copy.default \in Costs \cup {None}
    <3>1. CASE copy \in Expense
      BY <3>1 DEF Expense
    <3>2. CASE copy = Blank
      BY <3>2 DEF Blank
    <3> QED BY <3>1, <3>2
  <2>2. CASE NeedsApproval(actor, amount)
    <3>1. x = [copy EXCEPT !.amount = amount, !.status = "submitted"]
      BY <2>1, <2>2 DEF Saved
    <3>2. x = [amount |-> amount, status |-> "submitted", by |-> copy.by, default |-> copy.default]
      BY <2>0, <3>1
    <3>3. x \in Expense /\ x.status = "submitted"
      BY <2>0, <3>2 DEF Expense
    <3> QED BY <2>1, <3>3 DEF ByRight
  <2>3. CASE ~ NeedsApproval(actor, amount)
    <3>1. x = [copy EXCEPT !.amount = amount, !.status = "approved", !.by = actor]
      BY <2>1, <2>3 DEF Saved
    <3>2. x = [amount |-> amount, status |-> "approved", by |-> actor, default |-> copy.default]
      BY <2>0, <3>1
    <3>3. x \in Expense /\ x.amount = amount /\ x.by = actor
      BY <2>0, <3>2 DEF Expense
    <3> QED BY <2>1, <2>3, <3>3 DEF ByRight, NeedsApproval
  <2> QED BY <2>2, <2>3
<1>4. CASE SaveEntry(s)
  <2>1. /\ q \in EntryRequest /\ q.op = "enter"
        /\ expense' = [expense EXCEPT ![q.id] = Saved(Blank, Blank, q.amount, q.actor)]
    BY <1>0, <1>1, <1>4 DEF SaveEntry, Answers, SoundRequest, TemplateRequest, MonthRequest
  <2>2. q.id \in ExpenseIds /\ q.actor \in Actors /\ q.amount \in Costs
    BY <2>1 DEF EntryRequest
  <2>3. q.id \notin Generated
    BY <2>2, ExpenseConstants
  <2> QED BY <2>1, <2>2, <2>3, <1>2, <1>3
<1>5. CASE SaveEdit(s)
  <2>1. PICK row : row = seen[s][q.id]
    OBVIOUS
  <2>2. /\ q \in EntryRequest /\ q.op = "edit" /\ expense[q.id] # None
        /\ expense' = [expense EXCEPT ![q.id] = Saved(row, q.copy, q.amount, q.actor)]
    BY <2>1, <1>0, <1>1, <1>5 DEF SaveEdit, Answers, SoundRequest, TemplateRequest, MonthRequest
  <2>3. /\ q.id \in ExpenseIds \cup Generated /\ q.actor \in Actors /\ q.amount \in Costs
        /\ q.copy \in Expense
    BY <2>2 DEF EntryRequest
  <2> QED BY <2>2, <2>3, <1>2, <1>3
<1>6. CASE SaveMedium(s)
  <2>1. /\ q \in EntryRequest /\ q.op = "medium" /\ expense[q.id] # None /\ ByRight(q.copy)
        /\ expense' = [expense EXCEPT ![q.id] = q.copy]
    BY <1>0, <1>1, <1>6 DEF SaveMedium, Answers, SoundRequest, TemplateRequest, MonthRequest
  <2>2. q.id \in ExpenseIds \cup Generated /\ q.copy \in Expense
    BY <2>1 DEF EntryRequest
  <2> QED BY <2>1, <2>2, <1>2
<1>7. CASE SetExpenseStatus(s)
  <2>1. /\ q \in EntryRequest /\ q.op = "decide" /\ expense[q.id] # None
        /\ expense' = [expense EXCEPT ![q.id].status = q.to,
                                      ![q.id].by = IF q.to = "cancelled" THEN @ ELSE q.actor]
    BY <1>0, <1>1, <1>7 DEF SetExpenseStatus, Answers, SoundRequest, TemplateRequest, MonthRequest
  <2>2. /\ q.id \in ExpenseIds \cup Generated /\ q.actor \in Approvers
        /\ q.to \in {"approved", "rejected", "cancelled"}
    BY <2>1 DEF EntryRequest
  <2>3. PICK old \in Expense : old = expense[q.id]
    BY <2>1, <2>2 DEF ExpensesTypeOK
  <2>4. PICK x : x = [old EXCEPT !.status = q.to,
                                 !.by = IF q.to = "cancelled" THEN old.by ELSE q.actor]
    OBVIOUS
  <2>5. x \in Expense /\ ByRight(x)
    BY <2>2, <2>3, <2>4, ExpenseConstants DEF Expense, ByRight
  <2>6. expense' = [expense EXCEPT ![q.id] = x]
    BY <2>1, <2>2, <2>3, <2>4 DEF ExpensesTypeOK, Expense
  <2> QED BY <2>1, <2>2, <2>5, <2>6, <1>2
<1> QED BY <1>4, <1>5, <1>6, <1>7

LEMMA TemplatesKeep ==
    ASSUME ExpenseInv, NEW s \in Sessions,
           SaveTemplate(s) \/ SetActive(s) \/ DeleteTemplate(s)
    PROVE  ExpenseInv'
<1> USE DEF ExpenseInv
<1>0. PICK q : q = req[s]
  OBVIOUS
<1>1. /\ End(s) /\ expense' = expense /\ templatesMade' = templatesMade
      /\ q \in TemplateRequest /\ q.id \in FixedIds /\ q.id \in held[s]
  <2>1. /\ End(s) /\ expense' = expense /\ templatesMade' = templatesMade
        /\ q.op \in {"template", "active", "delete"} /\ want[s] = <<>> /\ SoundRequest(s)
    BY <1>0 DEF SaveTemplate, SetActive, DeleteTemplate, Answers, Ready
  <2>2. q \in TemplateRequest
    BY <2>1, <1>0 DEF SoundRequest, EntryRequest, MonthRequest
  <2>3. \A x : << x >> # <<>>
    OBVIOUS
  <2> QED BY <2>1, <2>2, <2>3, <1>0 DEF SoundRequest, TemplateRequest
<1>2. ASSUME NEW x \in Template \cup {None}, template' = [template EXCEPT ![q.id] = x],
             x = None => HistoryOf(q.id) = {}
      PROVE  ExpenseInv'
  <2>1. template'[q.id] = x /\ \A f \in FixedIds \ {q.id} : template'[f] = template[f]
    BY <1>1, <1>2 DEF ExpensesTypeOK
  <2>2. ExpensesTypeOK' /\ EveryByRight'
    BY <1>1, <1>2 DEF ExpensesTypeOK, EveryByRight, Entered
  <2>3. HistoryKeepsTemplate'
    <3>1. \A e \in Generated : e[1] \in FixedIds
      BY DEF Generated
    <3> QED BY <1>1, <1>2, <2>1, <3>1 DEF HistoryKeepsTemplate, HistoryOf, Entered
  <2>4. \A e \in Entered : expense'[e] # None
    BY <1>1 DEF Entered
  <2> QED BY <1>1, <2>1, <2>2, <2>3, <2>4, EndingKeeps
<1>3. CASE SaveTemplate(s)
  <2>1. q.row \in Template /\ q.row # None
    BY <1>0, <1>1, <1>3, NoneIsNoExpense DEF SaveTemplate, Answers, TemplateRequest
  <2> QED BY <2>1, <1>0, <1>2, <1>3 DEF SaveTemplate
<1>4. CASE SetActive(s)
  <2>1. template[q.id] \in Template /\ q.on \in BOOLEAN
    BY <1>0, <1>1, <1>4 DEF SetActive, Answers, SeenAsItIs, ExpensesTypeOK, TemplateRequest
  <2>2. PICK x : x = [template[q.id] EXCEPT !.active = q.on]
    OBVIOUS
  <2>3. x \in Template /\ x # None /\ template' = [template EXCEPT ![q.id] = x]
    BY <2>1, <2>2, <1>0, <1>4, NoneIsNoExpense DEF SetActive, Template
  <2> QED BY <2>3, <1>2
<1>5. CASE DeleteTemplate(s)
  BY <1>0, <1>2, <1>5 DEF DeleteTemplate
<1> QED BY <1>3, <1>4, <1>5

LEMMA MonthKeeps ==
    ASSUME ExpenseInv, NEW s \in Sessions, GenerateMonth(s)
    PROVE  ExpenseInv'
<1> USE DEF ExpenseInv
<1> DEFINE New(e) == /\ e \in Generated /\ expense[e] = None
                     /\ e[2] = req[s].month /\ e[1] \in DOMAIN seen[s]
                     /\ seen[s][e[1]] # None
                     /\ seen[s][e[1]].active /\ e[2] \in seen[s][e[1]].months
           row(e) == [amount |-> seen[s][e[1]].amount, status |-> "approved", by |-> None,
                      default |-> seen[s][e[1]].amount]
<1>1. /\ End(s) /\ template' = template /\ templatesMade' = templatesMade
      /\ expense' = [e \in ExpenseIds \cup Generated |-> IF New(e) THEN row(e) ELSE expense[e]]
  BY DEF GenerateMonth, Answers, ExpensesTypeOK
<1>2. ASSUME NEW e \in ExpenseIds \cup Generated, New(e)
      PROVE  row(e) \in Expense /\ ByRight(row(e)) /\ template[e[1]] # None
  <2>1. e[1] \in FixedIds
    BY <1>2 DEF Generated
  <2>2. seen[s][e[1]] = template[e[1]]
    BY <1>2, <2>1 DEF SeenAsItIs, WebInv
  <2>3. template[e[1]] \in Template
    BY <1>2, <2>1, <2>2 DEF ExpensesTypeOK
  <2> QED BY <1>2, <2>2, <2>3 DEF Template, Expense, ByRight
<1> HIDE DEF New, row
<1>3. ExpensesTypeOK'
  BY <1>1, <1>2 DEF ExpensesTypeOK
<1>4. \A e \in ExpenseIds \cup Generated : expense'[e] = IF New(e) THEN row(e) ELSE expense[e]
  BY <1>1
<1>5. EveryByRight'
  BY <1>2, <1>3, <1>4 DEF ExpensesTypeOK, EveryByRight, Entered
<1>6. HistoryKeepsTemplate'
  BY <1>1, <1>2, <1>3, <1>4 DEF ExpensesTypeOK, HistoryKeepsTemplate, Entered
<1>7. \A e \in Entered : expense'[e] # None
  BY <1>2, <1>4, NoneIsNoExpense DEF Entered, ExpensesTypeOK
<1> QED BY <1>1, <1>3, <1>5, <1>6, <1>7, EndingKeeps

LEMMA AbandonKeeps ==
    ASSUME ExpenseInv, NEW s \in Sessions, AbandonExpense(s)
    PROVE  ExpenseInv'
<1>1. End(s) /\ UNCHANGED <<expense, template, templatesMade>>
  BY DEF AbandonExpense, RollBack, expenseVars
<1> QED BY <1>1, EndingKeeps
    DEF ExpenseInv, ExpensesTypeOK, EveryByRight, HistoryKeepsTemplate, Entered

\* Whatever copies are saved late: who may not approve never gets more approved
\* than the threshold, and a generated expense keeps its template.
THEOREM ExpensesInvariant ==
    ExpensesSpec => []ExpenseInv
<1>1. ExpensesInit => ExpenseInv
  <2> SUFFICES ASSUME ExpensesInit PROVE ExpenseInv
    OBVIOUS
  <2>1. ExpensesTypeOK /\ Entered = {}
    BY DEF ExpensesInit, ExpensesTypeOK, Entered
  <2>2. WebInv /\ \A s \in Sessions : held[s] = {} /\ req[s] = None
    BY WebInitInv DEF ExpensesInit, WebInit, InitLocks
  <2> QED BY <2>1, <2>2 DEF ExpenseInv, SeenAsItIs, EveryByRight, HistoryKeepsTemplate
<1>2. ExpenseInv /\ [ExpensesNext]_allExpenseVars => ExpenseInv'
  <2> SUFFICES ASSUME ExpenseInv, [ExpensesNext]_allExpenseVars PROVE ExpenseInv'
    OBVIOUS
  <2>1. CASE ExpensesNext
    BY <2>1, EntriesStart, TemplatesStart, LockingKeeps, EntriesKeep, TemplatesKeep, MonthKeeps,
       AbandonKeeps DEF ExpensesNext, ExpensesStep
  <2>2. CASE UNCHANGED allExpenseVars
    BY <2>2 DEF allExpenseVars, webVars, expenseVars, ExpenseInv, ExpensesTypeOK, WebInv,
       Exclusive, SeenAsItIs, EveryByRight, HistoryKeepsTemplate, SoundRequest, Entered
  <2> QED BY <2>1, <2>2
<1> QED BY <1>1, <1>2, PTL DEF ExpensesSpec

THEOREM ExpensesApprovedByRight ==
    ExpensesSpec => []ExpensesAreApproved
<1>1. ExpenseInv => ExpensesAreApproved
  BY DEF ExpenseInv, EveryByRight, ByRight, ExpensesAreApproved, ApprovedByRight
<1> QED BY <1>1, ExpensesInvariant, PTL

-----------------------------------------------------------------------------
(* Purchases: rounding.                                                    *)

\* What the receipts of a line booked: b in k deliveries of got parts.
LineBooked(b, got, cost, k) ==
    /\ k = 0 => got = 0 /\ b = 0
    /\ k = 1 => b = Worth(got, cost)
    /\ 2 * (Scale * b) <= 2 * (got * cost) + Scale * k
    /\ 2 * (got * cost) - Scale * k <= 2 * (Scale * b)

LEMMA BoundGrows ==
    ASSUME NEW d \in Nat, NEW x \in Nat, NEW y \in Nat, y + 1 <= x
    PROVE  d * y + d <= d * x
  <1>1. PICK k \in Nat : x = y + 1 + k
    <2>1. x - y - 1 \in Nat /\ x = y + 1 + (x - y - 1)
      OBVIOUS
    <2> QED BY <2>1
  <1>2. d * x = d * y + d + d * k /\ d * k \in Nat /\ d * y \in Nat
    BY <1>1
  <1> QED BY <1>2

LEMMA WorthNear ==
    ASSUME NEW q \in Nat, NEW c \in Nat
    PROVE  /\ Worth(q, c) \in Nat
           /\ 2 * (Scale * Worth(q, c)) <= 2 * (q * c) + Scale
           /\ 2 * (q * c) - Scale <= 2 * (Scale * Worth(q, c))
           /\ q = 0 => Worth(q, c) = 0
<1>0. Scale \in Nat /\ Scale > 0
  BY PurchaseConstants
<1>1. PICK n \in Nat : n = q * c /\ (q = 0 => n = 0)
  OBVIOUS
<1>2. 2 * q * c = 2 * n
  BY <1>1
<1>3. PICK d \in Nat : d = 2 * Scale /\ d > 0
  BY <1>0
<1>4. PICK x \in Nat : x = 2 * n + Scale
  BY <1>0
<1>5. PICK r : r = x \div d
  OBVIOUS
<1>6. r \in Nat /\ d * r <= x /\ x < d * r + d
  BY <1>3, <1>5
<1>7. r = Worth(q, c)
  BY <1>2, <1>3, <1>4, <1>5 DEF Worth
<1>8. PICK m \in Nat : m = Scale * r
  BY <1>0, <1>6
<1>9. d * r = 2 * m
  BY <1>0, <1>3, <1>6, <1>8
<1>10. 2 * m <= 2 * n + Scale /\ 2 * n - Scale <= 2 * m
  BY <1>0, <1>3, <1>4, <1>6, <1>8, <1>9
<1>11. q = 0 => r = 0
  <2>1. SUFFICES ASSUME q = 0, r >= 1 PROVE FALSE
    BY <1>6
  <2>2. d * r >= d
    <3>1. PICK k \in Nat : r = k + 1
      <4>1. r - 1 \in Nat /\ r = (r - 1) + 1
        BY <1>6, <2>1
      <4> QED BY <4>1
    <3>2. d * r = d * k + d /\ d * k \in Nat
      BY <3>1, <1>3
    <3> QED BY <3>2, <1>3
  <2> QED BY <2>1, <2>2, <1>0, <1>1, <1>3, <1>4, <1>6
<1> QED BY <1>1, <1>6, <1>7, <1>8, <1>10, <1>11

\* One more delivery of q parts, or none of this line.
LEMMA LineGrows ==
    ASSUME NEW b \in Int, NEW got \in Nat, NEW c \in Nat, NEW k \in Nat, NEW q \in Nat,
           LineBooked(b, got, c, k)
    PROVE  LineBooked(b + Worth(q, c), got + q, c, k + (IF q > 0 THEN 1 ELSE 0))
<1>0. Scale \in Nat
  BY PurchaseConstants
<1>1. PICK w \in Nat : /\ w = Worth(q, c) /\ (q = 0 => w = 0)
                       /\ 2 * (Scale * w) <= 2 * (q * c) + Scale
                       /\ 2 * (q * c) - Scale <= 2 * (Scale * w)
  BY WorthNear
<1>2. CASE q = 0
  BY <1>1, <1>2
<1>3. CASE q > 0
  <2>1. PICK s1 \in Int, s2 \in Nat : s1 = Scale * b /\ s2 = Scale * w
    BY <1>0, <1>1
  <2>2. Scale * (b + w) = s1 + s2
    BY <1>0, <1>1, <2>1
  <2>3. PICK g1 \in Nat, g2 \in Nat : g1 = got * c /\ g2 = q * c
    OBVIOUS
  <2>4. (got + q) * c = g1 + g2
    BY <2>3
  <2>5. PICK k1 \in Nat : k1 = Scale * k
    BY <1>0
  <2>6. Scale * (k + 1) = k1 + Scale
    BY <1>0, <2>5
  <2>7. 2 * s1 <= 2 * g1 + k1 /\ 2 * g1 - k1 <= 2 * s1
    BY <2>1, <2>3, <2>5 DEF LineBooked
  <2>8. 2 * s2 <= 2 * g2 + Scale /\ 2 * g2 - Scale <= 2 * s2
    BY <1>1, <2>1, <2>3
  <2>9. /\ 2 * (s1 + s2) <= 2 * (g1 + g2) + (k1 + Scale)
        /\ 2 * (g1 + g2) - (k1 + Scale) <= 2 * (s1 + s2)
    BY <1>0, <2>7, <2>8
  <2>10. k + 1 = 1 => b + w = Worth(got + q, c)
    <3>1. k + 1 = 1 => b = 0 /\ got = 0
      BY DEF LineBooked
    <3> QED BY <3>1, <1>1
  <2>11. k + (IF q > 0 THEN 1 ELSE 0) = k + 1 /\ k + 1 # 0
    BY <1>3
  <2>12. LineBooked(b + w, got + q, c, k + 1)
    BY <2>2, <2>4, <2>6, <2>9, <2>10, <2>11 DEF LineBooked
  <2> QED BY <1>1, <2>11, <2>12
<1> QED BY <1>2, <1>3

\* A line that has come is booked up to half a unit for each delivery and one
\* for the line itself.
LEMMA LineGap ==
    ASSUME NEW b \in Int, NEW got \in Nat \ {0}, NEW c \in Nat, NEW k \in Nat,
           LineBooked(b, got, c, k), NEW h, h = IF k = 1 THEN 0 ELSE k + 1
    PROVE  /\ 2 * (b - Worth(got, c)) <= h
           /\ - h <= 2 * (b - Worth(got, c))
<1>0. Scale \in Nat /\ Scale > 0
  BY PurchaseConstants
<1>1. PICK w \in Nat : /\ w = Worth(got, c)
                       /\ 2 * (Scale * w) <= 2 * (got * c) + Scale
                       /\ 2 * (got * c) - Scale <= 2 * (Scale * w)
  BY WorthNear
<1>2. CASE k = 1
  BY <1>1, <1>2 DEF LineBooked
<1>3. CASE k # 1
  <2>1. PICK s1 \in Int, s2 \in Nat, g \in Nat, k1 \in Nat :
           s1 = Scale * b /\ s2 = Scale * w /\ g = got * c /\ k1 = Scale * k
    BY <1>0, <1>1
  <2>2. 2 * s1 <= 2 * g + k1 /\ 2 * g - k1 <= 2 * s1
    BY <2>1 DEF LineBooked
  <2>3. 2 * (s1 - s2) <= k1 + Scale /\ - (k1 + Scale) <= 2 * (s1 - s2)
    BY <2>2, <1>0, <1>1, <2>1
  <2>4. k1 + Scale = Scale * (k + 1)
    BY <1>0, <2>1
  <2>5. ASSUME NEW d \in Nat, Scale * d <= Scale * (k + 1) PROVE d <= k + 1
    <3>1. CASE d <= k + 1
      BY <3>1
    <3>2. CASE (k + 1) + 1 <= d
      <4>1. Scale * (k + 1) + Scale <= Scale * d
        BY <3>2, <1>0, BoundGrows
      <4>2. Scale * (k + 1) \in Nat /\ Scale * d \in Nat
        BY <1>0
      <4> QED BY <4>1, <4>2, <2>5, <1>0
    <3> QED BY <3>1, <3>2
  <2>6. CASE b >= w
    <3>1. PICK d \in Nat : d = 2 * (b - w)
      BY <2>6, <1>1
    <3>2. Scale * d = 2 * (s1 - s2)
      BY <3>1, <2>1, <1>0, <1>1
    <3> QED BY <3>1, <3>2, <2>3, <2>4, <2>5, <1>1, <1>3
  <2>7. CASE b < w
    <3>1. PICK d \in Nat : d = 2 * (w - b)
      BY <2>7, <1>1
    <3>2. Scale * d = 2 * (s2 - s1)
      BY <3>1, <2>1, <1>0, <1>1
    <3>3. Scale * d <= Scale * (k + 1)
      BY <3>2, <2>3, <2>4, <2>1, <1>0
    <3> QED BY <3>1, <3>3, <2>5, <1>1, <1>3
  <2> QED BY <2>6, <2>7, <1>1
<1> QED BY <1>2, <1>3

-----------------------------------------------------------------------------
(* Purchases: what is true of each one.                                    *)

LEMMA SumFunctionIs ==
    ASSUME NEW f, NEW S
    PROVE  SumFunctionOnSet(f, S) = SumOf(f, S) /\ SumFunction(f) = SumOf(f, DOMAIN f)
BY DEF SumFunction, SumFunctionOnSet, FoldFunctionOnSet, SumOf, MapThenSumSet

LEMMA LinesAreFinite ==
    ASSUME NEW T, NEW q \in Seq(T)
    PROVE  IsFiniteSet(DOMAIN q) /\ DOMAIN q = 1 .. Len(q) /\ Len(q) \in Nat
<1>1. DOMAIN q = 1 .. Len(q) /\ Len(q) \in Nat
  OBVIOUS
<1>2. PICK n \in Nat : n = Len(q)
  BY <1>1
<1>3. IsFiniteSet(1 .. n)
  BY FS_Interval
<1> QED BY <1>1, <1>2, <1>3

LEMMA SequenceHas ==
    ASSUME NEW q \in Seq(Nat), NEW i \in DOMAIN q
    PROVE  q[i] \in Nat
OBVIOUS

LEMMA RowIsSequence ==
    ASSUME NEW n \in Nat, NEW f \in [1 .. n -> Nat]
    PROVE  f \in Seq(Nat) /\ DOMAIN f = 1 .. n
OBVIOUS

\* When nothing is beyond what it is compared with, and the sums say that
\* everything is there, then each is.
LEMMA SumFull ==
    ASSUME NEW f, NEW g, NEW S, IsFiniteSet(S),
           \A x \in S : f[x] \in Int /\ g[x] \in Int /\ f[x] <= g[x],
           SumOf(f, S) >= SumOf(g, S)
    PROVE  \A x \in S : f[x] = g[x]
<1> SUFFICES ASSUME NEW a \in S, f[a] < g[a] PROVE FALSE
  OBVIOUS
<1>1. IsFiniteSet(S \ {a})
  BY FS_RemoveElement
<1>2. SumOf(f, S) = f[a] + SumOf(f, S \ {a})
  BY SumRemove
<1>3. SumOf(g, S) = g[a] + SumOf(g, S \ {a})
  BY SumRemove
<1>4. SumOf(f, S \ {a}) <= SumOf(g, S \ {a})
  BY <1>1, SumMonotonic
<1>5. SumOf(f, S \ {a}) \in Int /\ SumOf(g, S \ {a}) \in Int
  BY <1>1, SumType
<1> QED BY <1>2, <1>3, <1>4, <1>5

LineWorths(p) == [n \in DOMAIN p.lines |-> Worth(p.lines[n].qty, p.lines[n].cost)]
Ordered(p) == [n \in DOMAIN p.lines |-> p.lines[n].qty]
Charged(p) == IF p.status = "received" THEN p.charges ELSE 0

\* What the receipts booked is found line by line.
BookedByLine(p) == \E b \in [DOMAIN p.lines -> Int] :
    /\ p.booked = SumOf(b, DOMAIN p.lines) + Charged(p)
    /\ \A n \in DOMAIN p.lines : LineBooked(b[n], p.got[n], p.lines[n].cost, p.pieces[n])

Shaped(p) == DOMAIN p.got = DOMAIN p.lines /\ DOMAIN p.back = DOMAIN p.lines
             /\ DOMAIN p.pieces = DOMAIN p.lines

PaidInOrder(p) ==
    /\ p.paid = PaidBy(p, {"settled", "cleared"})
    /\ p.paid + PendingCheques(p) <= Total(p)

GoodsCounted(p) ==
    /\ \A n \in DOMAIN p.lines : p.back[n] <= p.got[n] /\ p.got[n] <= p.lines[n].qty
    /\ p.status \in {"ordered", "cancelled"} => \A n \in DOMAIN p.lines : p.got[n] = 0
    /\ p.status \in {"ordered", "cancelled"} => p.booked = 0
    /\ p.status \in {"partial", "received"} => \E n \in DOMAIN p.lines : p.got[n] # 0
    /\ p.status = "partial" => \E n \in DOMAIN p.lines : p.got[n] < p.lines[n].qty
    /\ p.status = "received" => \A n \in DOMAIN p.lines : p.got[n] = p.lines[n].qty
    /\ p.status = "cancelled" => p.paid = 0 /\ PendingCheques(p) = 0

BoughtSound(p) ==
    p \in Purchase /\ Shaped(p) /\ PaidInOrder(p) /\ GoodsCounted(p) /\ BookedByLine(p)

LEMMA PurchaseFields ==
    ASSUME NEW p \in Purchase
    PROVE  /\ p.lines \in Seq(Line) /\ p.charges \in Int /\ p.status \in PurchaseStatus
           /\ p.got \in Seq(Nat) /\ p.back \in Seq(Nat) /\ p.pieces \in Seq(Nat)
           /\ p.paid \in Nat /\ p.payments \in Seq(SupplierPayment)
           /\ p.booked \in Int /\ p.takenBack \in Nat
           /\ IsFiniteSet(DOMAIN p.lines)
           /\ \A n \in DOMAIN p.lines : p.lines[n].qty \in Nat \ {0} /\ p.lines[n].cost \in Nat
<1>1. /\ p.lines \in Seq(Line) /\ p.charges \in Int /\ p.status \in PurchaseStatus
      /\ p.got \in Seq(Nat) /\ p.back \in Seq(Nat) /\ p.pieces \in Seq(Nat)
      /\ p.paid \in Nat /\ p.payments \in Seq(SupplierPayment)
      /\ p.booked \in Int /\ p.takenBack \in Nat
  BY DEF Purchase
<1>2. IsFiniteSet(DOMAIN p.lines)
  BY <1>1, LinesAreFinite
<1>3. \A n \in DOMAIN p.lines : p.lines[n] \in Line
  BY <1>1
<1> QED BY <1>1, <1>2, <1>3 DEF Line

LEMMA LineWorthType ==
    ASSUME NEW p \in Purchase
    PROVE  /\ \A n \in DOMAIN p.lines : LineWorths(p)[n] \in Nat
           /\ Subtotal(p.lines) = SumOf(LineWorths(p), DOMAIN p.lines)
           /\ Subtotal(p.lines) \in Int /\ Total(p) \in Int
<1>0. /\ IsFiniteSet(DOMAIN p.lines) /\ p.charges \in Int
      /\ \A n \in DOMAIN p.lines : p.lines[n].qty \in Nat \ {0} /\ p.lines[n].cost \in Nat
  BY PurchaseFields
<1>1. \A n \in DOMAIN p.lines : LineWorths(p)[n] \in Nat
  BY <1>0, WorthNear DEF LineWorths
<1>2. Subtotal(p.lines) = SumOf(LineWorths(p), DOMAIN p.lines)
  <2>1. DOMAIN LineWorths(p) = DOMAIN p.lines
    BY DEF LineWorths
  <2> QED BY <2>1, SumFunctionIs DEF Subtotal, LineWorths
<1>3. \A n \in DOMAIN p.lines : LineWorths(p)[n] \in Int
  BY <1>1
<1>4. SumOf(LineWorths(p), DOMAIN p.lines) \in Int
  BY <1>0, <1>3, SumType
<1> QED BY <1>0, <1>1, <1>2, <1>4 DEF Total

\* A delivery is worth something or nothing.
LEMMA ValueType ==
    ASSUME NEW p \in Purchase, NEW qty \in Seq(Nat), DOMAIN qty = DOMAIN p.lines
    PROVE  /\ Value(p, qty) \in Nat
           /\ Value(p, qty) = SumOf([n \in DOMAIN p.lines |-> Worth(qty[n], p.lines[n].cost)],
                                    DOMAIN p.lines)
<1> DEFINE v == [n \in DOMAIN p.lines |-> Worth(qty[n], p.lines[n].cost)]
<1>0. /\ IsFiniteSet(DOMAIN p.lines)
      /\ \A n \in DOMAIN p.lines : p.lines[n].cost \in Nat /\ qty[n] \in Nat
  BY PurchaseFields
<1>1. \A n \in DOMAIN p.lines : v[n] \in Nat
  BY <1>0, WorthNear
<1>2. Value(p, qty) = SumOf(v, DOMAIN p.lines)
  BY SumFunctionIs DEF Value
<1> HIDE DEF v
<1>3. \A n \in DOMAIN p.lines : v[n] \in Int /\ v[n] >= 0
  BY <1>1
<1>4. SumOf(v, DOMAIN p.lines) \in Int /\ SumOf(v, DOMAIN p.lines) >= 0
  BY <1>0, <1>3, SumType
<1> QED BY <1>2, <1>4 DEF v

\* The payments of a purchase that have one of some statuses.
RowsIn(p, st) == {i \in DOMAIN p.payments : p.payments[i].status \in st}

LEMMA PaidByIs ==
    ASSUME NEW p, p.payments \in Seq(SupplierPayment), NEW st
    PROVE  /\ PaidBy(p, st) = SumOf(Amounts(p), RowsIn(p, st))
           /\ IsFiniteSet(RowsIn(p, st)) /\ PaidBy(p, st) \in Nat
           /\ \A i \in DOMAIN p.payments :
                Amounts(p)[i] = p.payments[i].amount /\ Amounts(p)[i] \in Nat \ {0}
<1>1. PaidBy(p, st) = SumOf(Amounts(p), RowsIn(p, st))
  BY SumFunctionIs DEF PaidBy, RowsIn
<1>2. IsFiniteSet(DOMAIN p.payments)
  BY LinesAreFinite
<1>3. IsFiniteSet(RowsIn(p, st))
  BY <1>2, FS_Subset DEF RowsIn
<1>4. \A i \in DOMAIN p.payments : p.payments[i] \in SupplierPayment
  OBVIOUS
<1>5. \A i \in DOMAIN p.payments :
        Amounts(p)[i] = p.payments[i].amount /\ Amounts(p)[i] \in Nat \ {0}
  BY <1>4 DEF Amounts, SupplierPayment
<1>6. \A i \in RowsIn(p, st) : Amounts(p)[i] \in Int /\ Amounts(p)[i] >= 0
  BY <1>5 DEF RowsIn
<1>7. SumOf(Amounts(p), RowsIn(p, st)) \in Int /\ SumOf(Amounts(p), RowsIn(p, st)) >= 0
  BY <1>3, <1>6, SumType
<1> QED BY <1>1, <1>3, <1>5, <1>7

LEMMA PaymentIsAdded ==
    ASSUME NEW p, NEW x, NEW st, p.payments \in Seq(SupplierPayment),
           NEW row \in SupplierPayment, x.payments = Append(p.payments, row)
    PROVE  /\ x.payments \in Seq(SupplierPayment)
           /\ row.status \in st => PaidBy(x, st) = PaidBy(p, st) + row.amount
           /\ row.status \notin st => PaidBy(x, st) = PaidBy(p, st)
<1>0. PICK n \in Nat : n = Len(p.payments) + 1
  OBVIOUS
<1>1. /\ x.payments \in Seq(SupplierPayment) /\ DOMAIN x.payments = DOMAIN p.payments \cup {n}
      /\ n \notin DOMAIN p.payments /\ x.payments[n] = row
      /\ \A i \in DOMAIN p.payments : x.payments[i] = p.payments[i]
  BY <1>0
<1>2. /\ PaidBy(p, st) = SumOf(Amounts(p), RowsIn(p, st)) /\ IsFiniteSet(RowsIn(p, st))
      /\ \A i \in DOMAIN p.payments :
           Amounts(p)[i] = p.payments[i].amount /\ Amounts(p)[i] \in Nat \ {0}
  BY PaidByIs
<1>3. /\ PaidBy(x, st) = SumOf(Amounts(x), RowsIn(x, st))
      /\ \A i \in DOMAIN x.payments :
           Amounts(x)[i] = x.payments[i].amount /\ Amounts(x)[i] \in Nat \ {0}
  BY <1>1, PaidByIs
<1>4. SumOf(Amounts(x), RowsIn(p, st)) = SumOf(Amounts(p), RowsIn(p, st))
  <2>1. \A i \in RowsIn(p, st) : Amounts(x)[i] = Amounts(p)[i]
    BY <1>1, <1>2, <1>3 DEF RowsIn
  <2> QED BY <2>1, <1>2, SumSame
<1>5. CASE row.status \in st
  <2>1. RowsIn(x, st) = RowsIn(p, st) \cup {n} /\ n \notin RowsIn(p, st)
    BY <1>1, <1>5 DEF RowsIn
  <2>2. \A i \in RowsIn(p, st) \cup {n} : Amounts(x)[i] \in Int
    BY <1>1, <1>3 DEF RowsIn
  <2>3. SumOf(Amounts(x), RowsIn(p, st) \cup {n}) = Amounts(x)[n] + SumOf(Amounts(x), RowsIn(p, st))
    BY <1>2, <2>1, <2>2, SumAdd
  <2>4. Amounts(x)[n] = row.amount /\ PaidBy(p, st) \in Nat /\ row.amount \in Nat
    BY <1>1, <1>3, PaidByIs DEF SupplierPayment
  <2> QED BY <1>1, <1>2, <1>3, <1>4, <1>5, <2>1, <2>3, <2>4
<1>6. CASE row.status \notin st
  <2>1. RowsIn(x, st) = RowsIn(p, st)
    BY <1>1, <1>6 DEF RowsIn
  <2> QED BY <1>1, <1>2, <1>3, <1>4, <1>6, <2>1
<1> QED BY <1>5, <1>6

\* A cheque that was pending is decided.
LEMMA ChequeIsDecided ==
    ASSUME NEW p, NEW x, NEW st, p.payments \in Seq(SupplierPayment),
           NEW n \in DOMAIN p.payments, NEW to \in ChequeStatus, to # "pending",
           p.payments[n].status = "pending", x.payments = [p.payments EXCEPT ![n].status = to]
    PROVE  /\ x.payments \in Seq(SupplierPayment) /\ Len(x.payments) = Len(p.payments)
           /\ "pending" \in st /\ to \notin st => PaidBy(x, st) = PaidBy(p, st) - p.payments[n].amount
           /\ "pending" \notin st /\ to \in st => PaidBy(x, st) = PaidBy(p, st) + p.payments[n].amount
           /\ "pending" \notin st /\ to \notin st => PaidBy(x, st) = PaidBy(p, st)
<1>0. p.payments[n] \in SupplierPayment
  OBVIOUS
<1>1. PICK row : row = [p.payments[n] EXCEPT !.status = to]
  OBVIOUS
<1>2. row \in SupplierPayment /\ row.status = to /\ row.amount = p.payments[n].amount
  BY <1>0, <1>1 DEF SupplierPayment
<1>3. x.payments = [p.payments EXCEPT ![n] = row]
  BY <1>1
<1>4. /\ x.payments \in Seq(SupplierPayment) /\ DOMAIN x.payments = DOMAIN p.payments
      /\ Len(x.payments) = Len(p.payments) /\ x.payments[n] = row
      /\ \A i \in DOMAIN p.payments \ {n} : x.payments[i] = p.payments[i]
  BY <1>2, <1>3
<1>5. /\ PaidBy(p, st) = SumOf(Amounts(p), RowsIn(p, st)) /\ IsFiniteSet(RowsIn(p, st))
      /\ PaidBy(p, st) \in Nat
      /\ \A i \in DOMAIN p.payments :
           Amounts(p)[i] = p.payments[i].amount /\ Amounts(p)[i] \in Nat \ {0}
  BY PaidByIs
<1>6. /\ PaidBy(x, st) = SumOf(Amounts(x), RowsIn(x, st)) /\ PaidBy(x, st) \in Nat
      /\ IsFiniteSet(RowsIn(x, st))
      /\ \A i \in DOMAIN x.payments :
           Amounts(x)[i] = x.payments[i].amount /\ Amounts(x)[i] \in Nat \ {0}
  BY <1>4, PaidByIs
<1>7. \A i \in DOMAIN p.payments : Amounts(x)[i] = Amounts(p)[i]
  BY <1>2, <1>4, <1>5, <1>6
<1>8. SumOf(Amounts(x), RowsIn(x, st)) = SumOf(Amounts(p), RowsIn(x, st))
  <2>1. \A i \in RowsIn(x, st) : Amounts(x)[i] = Amounts(p)[i]
    BY <1>4, <1>7 DEF RowsIn
  <2> QED BY <2>1, <1>6, SumSame
<1>9. PICK m \in Nat \ {0} : m = p.payments[n].amount /\ m = Amounts(p)[n]
  BY <1>5
<1>10. ASSUME "pending" \in st, to \notin st PROVE PaidBy(x, st) = PaidBy(p, st) - m
  <2>1. RowsIn(x, st) = RowsIn(p, st) \ {n} /\ n \in RowsIn(p, st)
    BY <1>2, <1>4, <1>10 DEF RowsIn
  <2>2. \A i \in RowsIn(p, st) : Amounts(p)[i] \in Int
    BY <1>5 DEF RowsIn
  <2>3. SumOf(Amounts(p), RowsIn(p, st)) = Amounts(p)[n] + SumOf(Amounts(p), RowsIn(p, st) \ {n})
    <3>1. PICK f, T : f = Amounts(p) /\ T = RowsIn(p, st)
      OBVIOUS
    <3>2. IsFiniteSet(T) /\ n \in T /\ \A i \in T : f[i] \in Int
      BY <1>5, <2>1, <2>2, <3>1
    <3>3. SumOf(f, T) = f[n] + SumOf(f, T \ {n})
      BY <3>2, SumRemove
    <3> QED BY <3>1, <3>3
  <2> QED BY <1>5, <1>6, <1>8, <1>9, <2>1, <2>3
<1>11. ASSUME "pending" \notin st, to \in st PROVE PaidBy(x, st) = PaidBy(p, st) + m
  <2>1. RowsIn(x, st) = RowsIn(p, st) \cup {n} /\ n \notin RowsIn(p, st)
    BY <1>2, <1>4, <1>11 DEF RowsIn
  <2>2. \A i \in RowsIn(p, st) \cup {n} : Amounts(p)[i] \in Int
    BY <1>5 DEF RowsIn
  <2>3. SumOf(Amounts(p), RowsIn(p, st) \cup {n}) = Amounts(p)[n] + SumOf(Amounts(p), RowsIn(p, st))
    BY <1>5, <2>1, <2>2, SumAdd
  <2> QED BY <1>5, <1>6, <1>8, <1>9, <2>1, <2>3
<1>12. ASSUME "pending" \notin st, to \notin st PROVE PaidBy(x, st) = PaidBy(p, st)
  <2>1. RowsIn(x, st) = RowsIn(p, st)
    BY <1>2, <1>4, <1>12 DEF RowsIn
  <2> QED BY <1>5, <1>6, <1>8, <2>1
<1> QED BY <1>4, <1>9, <1>10, <1>11, <1>12

\* The money side of a purchase is its lines, charges, payments and amount_paid.
LEMMA MoneyKept ==
    ASSUME NEW p, NEW x, x.lines = p.lines, x.charges = p.charges, x.payments = p.payments,
           x.paid = p.paid, PaidInOrder(p)
    PROVE  PaidInOrder(x) /\ PendingCheques(x) = PendingCheques(p)
BY DEF PaidInOrder, PendingCheques, PaidBy, Amounts, Total, Subtotal

LEMMA NewIsSound ==
    ASSUME NEW o \in Orders, NEW x, x = NewPurchase(o), Total(x) >= 0
    PROVE  BoughtSound(x) /\ DueFor(x) = 0
<1>1. o.lines \in Seq(Line) /\ o.charges \in Int
  BY PurchaseConstants
<1>2. PICK n \in Nat : DOMAIN o.lines = 1 .. n
  BY <1>1, LinesAreFinite
<1>3. PICK none : none = [i \in DOMAIN o.lines |-> 0]
  OBVIOUS
<1>4. none \in Seq(Nat) /\ DOMAIN none = DOMAIN o.lines /\ \A i \in DOMAIN o.lines : none[i] = 0
  BY <1>2, <1>3
<1>5. x = [lines |-> o.lines, charges |-> o.charges, status |-> "ordered",
           got |-> none, back |-> none, paid |-> 0, payments |-> <<>>,
           booked |-> 0, takenBack |-> 0, pieces |-> none]
  BY <1>3 DEF NewPurchase
<1>6. <<>> \in Seq(SupplierPayment) /\ "ordered" \in PurchaseStatus
  BY DEF PurchaseStatus
<1>7. x \in Purchase
  BY <1>1, <1>4, <1>5, <1>6 DEF Purchase
<1>8. /\ x.lines = o.lines /\ x.got = none /\ x.back = none /\ x.pieces = none
      /\ x.status = "ordered" /\ x.paid = 0 /\ x.payments = <<>> /\ x.booked = 0
      /\ x.takenBack = 0
  BY <1>5
<1>9. Shaped(x) /\ GoodsCounted(x)
  <2>1. \A i \in DOMAIN x.lines : x.lines[i].qty \in Nat
    BY <1>7, PurchaseFields
  <2> QED BY <1>4, <1>8, <2>1 DEF Shaped, GoodsCounted
<1>10. PaidInOrder(x)
  <2>1. ASSUME NEW st PROVE PaidBy(x, st) = 0
    <3>1. RowsIn(x, st) = {}
      BY <1>8 DEF RowsIn
    <3>2. PaidBy(x, st) = SumOf(Amounts(x), {})
      BY <3>1, <1>6, <1>8, PaidByIs
    <3> QED BY <3>2, FS_EmptySet, SumZero
  <2>2. Total(x) \in Int
    BY <1>7, LineWorthType
  <2> QED BY <2>1, <2>2, <1>8 DEF PaidInOrder, PendingCheques
<1>11. BookedByLine(x)
  <2>1. none \in [DOMAIN x.lines -> Int]
    BY <1>3, <1>8
  <2>2. SumOf(none, DOMAIN x.lines) = 0
    BY <1>4, <1>7, <1>8, PurchaseFields, SumZero
  <2>3. Charged(x) = 0
    BY <1>8 DEF Charged
  <2>4. ASSUME NEW i \in DOMAIN x.lines
        PROVE  LineBooked(none[i], x.got[i], x.lines[i].cost, x.pieces[i])
    <3>1. PICK c \in Nat : c = x.lines[i].cost
      BY <1>7, PurchaseFields
    <3>2. Scale \in Nat
      BY PurchaseConstants
    <3>3. none[i] = 0 /\ x.got[i] = 0 /\ x.pieces[i] = 0
      BY <1>4, <1>8
    <3>4. LineBooked(0, 0, c, 0)
      BY <3>2 DEF LineBooked
    <3> QED BY <3>1, <3>3, <3>4
  <2> QED BY <2>1, <2>2, <2>3, <2>4, <1>8 DEF BookedByLine
<1> QED BY <1>7, <1>8, <1>9, <1>10, <1>11 DEF BoughtSound, DueFor

LEMMA PaidIsSound ==
    ASSUME NEW p, BoughtSound(p), NEW a \in Nat \ {0}, NEW st \in {"settled", "pending"},
           PayableNow(p, a), NEW x, x = Paid(p, a, st)
    PROVE  /\ BoughtSound(x) /\ x.lines = p.lines /\ Len(x.payments) = Len(p.payments) + 1
           /\ st = "settled" => DueFor(x) = DueFor(p) - a
           /\ st = "pending" => DueFor(x) = DueFor(p)
<1>0. p \in Purchase /\ Shaped(p) /\ PaidInOrder(p) /\ GoodsCounted(p) /\ BookedByLine(p)
  BY DEF BoughtSound
<1>1. PICK row : row = [amount |-> a, status |-> st]
  OBVIOUS
<1>2. row \in SupplierPayment /\ row.status = st /\ row.amount = a
  BY <1>1 DEF SupplierPayment, ChequeStatus
<1>3. PICK q \in Seq(SupplierPayment) : q = Append(p.payments, row)
  <2>1. p.payments \in Seq(SupplierPayment)
    BY <1>0, PurchaseFields
  <2>2. Append(p.payments, row) \in Seq(SupplierPayment)
    BY <2>1, <1>2
  <2> QED BY <2>2
<1>4. PICK m \in Nat : m = (IF st = "settled" THEN p.paid + a ELSE p.paid)
  BY <1>0, PurchaseFields
<1>5. x = [p EXCEPT !.payments = q, !.paid = m]
  BY <1>0, <1>1, <1>3, <1>4 DEF Paid, Purchase
<1>6. /\ x \in Purchase /\ x.payments = q /\ x.paid = m
      /\ x.lines = p.lines /\ x.charges = p.charges /\ x.status = p.status /\ x.got = p.got
      /\ x.back = p.back /\ x.booked = p.booked /\ x.takenBack = p.takenBack
      /\ x.pieces = p.pieces
  BY <1>0, <1>5 DEF Purchase
<1>7. p.payments \in Seq(SupplierPayment) /\ x.payments = Append(p.payments, row)
  BY <1>0, <1>3, <1>6, PurchaseFields
<1>8. Total(x) = Total(p) /\ Total(p) \in Int
  BY <1>0, <1>6, LineWorthType DEF Total
<1>9. PaidInOrder(x)
  <2>1. /\ st = "settled" => PaidBy(x, {"settled", "cleared"}) = PaidBy(p, {"settled", "cleared"}) + a
        /\ st # "settled" => PaidBy(x, {"settled", "cleared"}) = PaidBy(p, {"settled", "cleared"})
    BY <1>2, <1>7, PaymentIsAdded
  <2>2. /\ st = "pending" => PendingCheques(x) = PendingCheques(p) + a
        /\ st # "pending" => PendingCheques(x) = PendingCheques(p)
    BY <1>2, <1>7, PaymentIsAdded DEF PendingCheques
  <2>3. PendingCheques(p) \in Nat /\ p.paid \in Nat /\ p.paid + PendingCheques(p) + a <= Total(p)
    BY <1>0, <1>7, PaidByIs, PurchaseFields DEF PendingCheques, PayableNow
  <2> QED BY <2>1, <2>2, <2>3, <1>0, <1>4, <1>6, <1>8 DEF PaidInOrder
<1>10. Shaped(x)
  BY <1>0, <1>6 DEF Shaped
<1>11. GoodsCounted(x)
  BY <1>0, <1>6 DEF GoodsCounted, PayableNow
<1>12. BookedByLine(x)
  BY <1>0, <1>6 DEF BookedByLine, Charged
<1>13. Len(x.payments) = Len(p.payments) + 1
  BY <1>7
<1>14. p.booked \in Int /\ p.takenBack \in Nat /\ p.paid \in Nat
  BY <1>0, PurchaseFields
<1> QED BY <1>4, <1>6, <1>9, <1>10, <1>11, <1>12, <1>13, <1>14 DEF BoughtSound, DueFor

LEMMA ChequeIsSound ==
    ASSUME NEW p, BoughtSound(p), NEW n \in DOMAIN p.payments, NEW to \in ChequeStatus,
           ChequeMoves(p.payments[n], to), NEW x, x = ChequeMoved(p, n, to)
    PROVE  /\ BoughtSound(x) /\ x.lines = p.lines /\ Len(x.payments) = Len(p.payments)
           /\ p.payments[n].amount \in Nat
           /\ to = "cleared" => DueFor(x) = DueFor(p) - p.payments[n].amount
           /\ to # "cleared" => DueFor(x) = DueFor(p)
<1>0. p \in Purchase /\ Shaped(p) /\ PaidInOrder(p) /\ GoodsCounted(p) /\ BookedByLine(p)
  BY DEF BoughtSound
<1>1. p.payments \in Seq(SupplierPayment) /\ p.payments[n] \in SupplierPayment
  BY <1>0, PurchaseFields
<1>2. PICK a \in Nat \ {0} : a = p.payments[n].amount
  BY <1>1 DEF SupplierPayment
<1>3. PICK q : q = [p.payments EXCEPT ![n].status = to]
  OBVIOUS
<1>4. PICK m \in Nat : m = (IF to = "cleared" THEN p.paid + a ELSE p.paid)
  BY <1>0, <1>2, PurchaseFields
<1>5. x = [p EXCEPT !.payments = q, !.paid = m]
  BY <1>0, <1>2, <1>3, <1>4 DEF ChequeMoved, Purchase
<1>6. p.payments[n].status = "pending" /\ to # "pending"
  BY DEF ChequeMoves
<1>7. q \in Seq(SupplierPayment)
  <2>1. PICK row : row = [p.payments[n] EXCEPT !.status = to]
    OBVIOUS
  <2>2. row \in SupplierPayment
    BY <2>1, <1>1 DEF SupplierPayment
  <2>3. q = [p.payments EXCEPT ![n] = row]
    BY <2>1, <1>3
  <2> QED BY <2>2, <2>3, <1>1
<1>8. /\ x \in Purchase /\ x.payments = q /\ x.paid = m
      /\ x.lines = p.lines /\ x.charges = p.charges /\ x.status = p.status /\ x.got = p.got
      /\ x.back = p.back /\ x.booked = p.booked /\ x.takenBack = p.takenBack
      /\ x.pieces = p.pieces
  BY <1>0, <1>5, <1>7 DEF Purchase
<1>9. Total(x) = Total(p) /\ Total(p) \in Int
  BY <1>0, <1>8, LineWorthType DEF Total
<1>10. Len(x.payments) = Len(p.payments)
  BY <1>1, <1>3, <1>6, <1>8, ChequeIsDecided
<1>11. PendingCheques(x) = PendingCheques(p) - a
  <2>1. x.payments = [p.payments EXCEPT ![n].status = to]
    BY <1>3, <1>8
  <2>2. "pending" \in {"pending"} /\ to \notin {"pending"}
    BY <1>6
  <2>3. PaidBy(x, {"pending"}) = PaidBy(p, {"pending"}) - p.payments[n].amount
    BY <2>1, <2>2, <1>1, <1>6, ChequeIsDecided
  <2> QED BY <2>3, <1>2 DEF PendingCheques
<1>12. /\ to = "cleared" => PaidBy(x, {"settled", "cleared"}) = PaidBy(p, {"settled", "cleared"}) + a
       /\ to # "cleared" => PaidBy(x, {"settled", "cleared"}) = PaidBy(p, {"settled", "cleared"})
  <2>1. to # "settled"
    BY DEF ChequeStatus
  <2> QED BY <2>1, <1>1, <1>2, <1>3, <1>6, <1>8, ChequeIsDecided
<1>13. PendingCheques(p) \in Nat /\ p.paid \in Nat /\ PendingCheques(x) \in Nat
  BY <1>0, <1>1, <1>7, <1>8, PaidByIs, PurchaseFields DEF PendingCheques
<1>14. PaidInOrder(x)
  BY <1>0, <1>4, <1>8, <1>9, <1>11, <1>12, <1>13 DEF PaidInOrder
<1>15. Shaped(x)
  BY <1>0, <1>8 DEF Shaped
<1>16. GoodsCounted(x)
  <2>1. p.status # "cancelled"
    BY <1>0, <1>2, <1>11, <1>13 DEF GoodsCounted
  <2> QED BY <2>1, <1>0, <1>8 DEF GoodsCounted
<1>17. BookedByLine(x)
  BY <1>0, <1>8 DEF BookedByLine, Charged
<1>18. p.booked \in Int /\ p.takenBack \in Nat
  BY <1>0, PurchaseFields
<1>19. BoughtSound(x)
  BY <1>8, <1>14, <1>15, <1>16, <1>17 DEF BoughtSound
<1>20. /\ to = "cleared" => DueFor(x) = DueFor(p) - a
       /\ to # "cleared" => DueFor(x) = DueFor(p)
  BY <1>4, <1>8, <1>13, <1>18 DEF DueFor
<1> QED BY <1>2, <1>8, <1>10, <1>19, <1>20

LEMMA ReturnedIsSound ==
    ASSUME NEW p, BoughtSound(p), NEW qty \in Seq(Nat), DOMAIN qty = DOMAIN p.lines,
           Returnable(p, qty), NEW x, x = Returned(p, qty)
    PROVE  /\ BoughtSound(x) /\ x.lines = p.lines /\ x.payments = p.payments
           /\ Value(p, qty) \in Nat /\ DueFor(x) = DueFor(p) - Value(p, qty)
<1>0. p \in Purchase /\ Shaped(p) /\ PaidInOrder(p) /\ GoodsCounted(p) /\ BookedByLine(p)
  BY DEF BoughtSound
<1>1. PICK v \in Nat : v = Value(p, qty)
  BY <1>0, ValueType
<1>2. PICK back : back = [i \in DOMAIN qty |-> p.back[i] + qty[i]]
  OBVIOUS
<1>3. /\ p.back \in Seq(Nat) /\ p.got \in Seq(Nat) /\ p.takenBack \in Nat /\ p.booked \in Int
      /\ p.paid \in Nat
  BY <1>0, PurchaseFields
<1>4. PICK n \in Nat : DOMAIN qty = 1 .. n
  BY LinesAreFinite
<1>5. \A i \in DOMAIN qty : p.back[i] \in Nat /\ qty[i] \in Nat /\ p.got[i] \in Nat
  <2>1. \A i \in DOMAIN p.back : p.back[i] \in Nat
    BY <1>3, SequenceHas
  <2>2. \A i \in DOMAIN p.got : p.got[i] \in Nat
    BY <1>3, SequenceHas
  <2>3. \A i \in DOMAIN qty : qty[i] \in Nat
    OBVIOUS
  <2> QED BY <2>1, <2>2, <2>3, <1>0 DEF Shaped
<1>6. /\ back \in Seq(Nat) /\ DOMAIN back = DOMAIN p.lines
      /\ \A i \in DOMAIN p.lines : back[i] = p.back[i] + qty[i]
  BY <1>2, <1>4, <1>5
<1>7. x = [p EXCEPT !.back = back, !.takenBack = p.takenBack + v]
  BY <1>0, <1>1, <1>2 DEF Returned, Purchase
<1>8. /\ x \in Purchase /\ x.back = back /\ x.takenBack = p.takenBack + v
      /\ x.lines = p.lines /\ x.charges = p.charges /\ x.status = p.status /\ x.got = p.got
      /\ x.booked = p.booked /\ x.paid = p.paid /\ x.payments = p.payments
      /\ x.pieces = p.pieces
  <2>1. p.takenBack + v \in Nat
    BY <1>3
  <2> QED BY <2>1, <1>0, <1>6, <1>7 DEF Purchase
<1>9. PaidInOrder(x) /\ PendingCheques(x) = PendingCheques(p)
  BY <1>0, <1>8, MoneyKept
<1>10. Shaped(x)
  BY <1>0, <1>6, <1>8 DEF Shaped
<1>11. \A i \in DOMAIN x.lines : x.back[i] <= x.got[i]
  <2>1. ASSUME NEW i \in DOMAIN qty PROVE back[i] <= p.got[i]
    <3>1. PICK m \in Nat, k \in Nat, g \in Nat : m = p.back[i] /\ k = qty[i] /\ g = p.got[i]
      BY <1>5
    <3>2. k <= g - m
      BY <3>1 DEF Returnable
    <3>3. back[i] = m + k
      BY <3>1, <1>6
    <3> QED BY <3>1, <3>2, <3>3
  <2> QED BY <2>1, <1>8
<1>12. GoodsCounted(x)
  BY <1>0, <1>8, <1>9, <1>11 DEF GoodsCounted
<1>13. BookedByLine(x)
  BY <1>0, <1>8 DEF BookedByLine, Charged
<1>14. BoughtSound(x)
  BY <1>8, <1>9, <1>10, <1>12, <1>13 DEF BoughtSound
<1>15. DueFor(x) = DueFor(p) - v
  BY <1>3, <1>8 DEF DueFor
<1> QED BY <1>1, <1>8, <1>14, <1>15

LEMMA CancelledIsSound ==
    ASSUME NEW p, BoughtSound(p), Cancellable(p), NEW x, x = [p EXCEPT !.status = "cancelled"]
    PROVE  BoughtSound(x) /\ x.lines = p.lines /\ x.payments = p.payments /\ DueFor(x) = DueFor(p)
<1>0. p \in Purchase /\ Shaped(p) /\ PaidInOrder(p) /\ GoodsCounted(p) /\ BookedByLine(p)
  BY DEF BoughtSound
<1>1. /\ x \in Purchase /\ x.status = "cancelled" /\ x.back = p.back /\ x.takenBack = p.takenBack
      /\ x.lines = p.lines /\ x.charges = p.charges /\ x.got = p.got
      /\ x.booked = p.booked /\ x.paid = p.paid /\ x.payments = p.payments
      /\ x.pieces = p.pieces
  BY <1>0 DEF Purchase, PurchaseStatus
<1>2. PaidInOrder(x) /\ PendingCheques(x) = PendingCheques(p)
  BY <1>0, <1>1, MoneyKept
<1>3. Shaped(x)
  BY <1>0, <1>1 DEF Shaped
<1>4. p.status = "ordered"
  BY <1>0, PurchaseFields DEF GoodsCounted, Cancellable, Shaped, PurchaseStatus
<1>5. GoodsCounted(x)
  BY <1>0, <1>1, <1>2, <1>4 DEF GoodsCounted, Cancellable
<1>6. BookedByLine(x)
  BY <1>0, <1>1, <1>4 DEF BookedByLine, Charged
<1> QED BY <1>1, <1>2, <1>3, <1>5, <1>6 DEF BoughtSound, DueFor

LEMMA ReceivedIsSound ==
    ASSUME NEW p, BoughtSound(p), NEW qty \in Seq(Nat), DOMAIN qty = DOMAIN p.lines,
           NEW some \in DOMAIN qty, qty[some] > 0,
           Receivable(p, qty), NEW x, x = Received(p, qty)
    PROVE  /\ BoughtSound(x) /\ x.lines = p.lines /\ x.payments = p.payments
           /\ DueFor(x) = DueFor(p) + x.booked - p.booked
<1>0. p \in Purchase /\ Shaped(p) /\ PaidInOrder(p) /\ GoodsCounted(p) /\ BookedByLine(p)
  BY DEF BoughtSound
<1>1. PICK S : S = DOMAIN p.lines /\ IsFiniteSet(S) /\ DOMAIN qty = S
  BY <1>0, PurchaseFields
<1>2. PICK v \in Nat : v = Value(p, qty)
  BY <1>0, ValueType
<1>3. PICK got : got = [i \in DOMAIN qty |-> p.got[i] + qty[i]]
  OBVIOUS
<1>4. PICK pieces : pieces = [i \in DOMAIN qty |-> p.pieces[i] + (IF qty[i] > 0 THEN 1 ELSE 0)]
  OBVIOUS
<1>5. /\ p.got \in Seq(Nat) /\ p.pieces \in Seq(Nat) /\ p.takenBack \in Nat /\ p.booked \in Int
      /\ p.paid \in Nat /\ p.charges \in Int /\ p.status \in PurchaseStatus
  BY <1>0, PurchaseFields
<1>6. PICK n \in Nat : S = 1 .. n
  BY <1>1, LinesAreFinite
<1>7. \A i \in S : p.got[i] \in Nat /\ qty[i] \in Nat /\ p.pieces[i] \in Nat
  <2>1. \A i \in DOMAIN p.got : p.got[i] \in Nat
    BY <1>5, SequenceHas
  <2>2. \A i \in DOMAIN p.pieces : p.pieces[i] \in Nat
    BY <1>5, SequenceHas
  <2>3. \A i \in DOMAIN qty : qty[i] \in Nat
    OBVIOUS
  <2> QED BY <2>1, <2>2, <2>3, <1>0, <1>1 DEF Shaped
<1>8. /\ got \in Seq(Nat) /\ DOMAIN got = S /\ pieces \in Seq(Nat) /\ DOMAIN pieces = S
      /\ \A i \in S : got[i] = p.got[i] + qty[i]
      /\ \A i \in S : pieces[i] = p.pieces[i] + (IF qty[i] > 0 THEN 1 ELSE 0)
  <2>1. DOMAIN got = S /\ \A i \in S : got[i] = p.got[i] + qty[i]
    BY <1>1, <1>3
  <2>2. DOMAIN pieces = S
    BY <1>1, <1>4
  <2>3. \A i \in S : pieces[i] = p.pieces[i] + (IF qty[i] > 0 THEN 1 ELSE 0)
    BY <1>1, <1>4
  <2>4. \A i \in S : got[i] \in Nat
    BY <2>1, <1>7
  <2>5. ASSUME NEW i \in S PROVE pieces[i] \in Nat
    <3>1. CASE qty[i] > 0
      <4>1. pieces[i] = p.pieces[i] + 1
        BY <2>3, <3>1
      <4> QED BY <4>1, <1>7
    <3>2. CASE ~ (qty[i] > 0)
      <4>1. pieces[i] = p.pieces[i] + 0
        BY <2>3, <3>2
      <4> QED BY <4>1, <1>7
    <3> QED BY <3>1, <3>2
  <2>6. got = [i \in S |-> got[i]] /\ pieces = [i \in S |-> pieces[i]]
    BY <2>1, <2>2, <1>1, <1>3, <1>4
  <2>7. got \in [1 .. n -> Nat]
    BY <2>4, <2>6, <1>6
  <2>8. pieces \in [1 .. n -> Nat]
    BY <2>5, <2>6, <1>6
  <2>9. got \in Seq(Nat) /\ pieces \in Seq(Nat)
    BY <2>7, <2>8, RowIsSequence
  <2> QED BY <2>1, <2>2, <2>3, <2>9
<1>9. PICK full \in {0, 1} :
         full = (IF SumFunction(got) >= SumFunction(Ordered(p)) THEN 1 ELSE 0)
  OBVIOUS
<1>10. /\ \A i \in S : got[i] \in Nat /\ Ordered(p)[i] \in Nat /\ Ordered(p)[i] = p.lines[i].qty
       /\ \A i \in S : got[i] <= Ordered(p)[i]
       /\ DOMAIN Ordered(p) = S
  <2>1. \A i \in S : p.lines[i].qty \in Nat
    BY <1>0, <1>1, PurchaseFields
  <2>2. DOMAIN Ordered(p) = S /\ \A i \in S : Ordered(p)[i] = p.lines[i].qty
    BY <1>1 DEF Ordered
  <2>3. \A i \in S : got[i] = p.got[i] + qty[i]
    BY <1>8
  <2>4. \A i \in S : got[i] \in Nat
    BY <2>3, <1>7
  <2>5. \A i \in S : p.got[i] + qty[i] <= p.lines[i].qty
    BY <1>1 DEF Receivable
  <2>6. \A i \in S : got[i] <= Ordered(p)[i]
    BY <2>2, <2>3, <2>5
  <2> QED BY <2>1, <2>2, <2>4, <2>6
<1>11. SumFunction(got) = SumOf(got, S) /\ SumFunction(Ordered(p)) = SumOf(Ordered(p), S)
  BY <1>8, <1>10, SumFunctionIs
<1>12. full = 1 <=> \A i \in S : got[i] = p.lines[i].qty
  <2>1. PICK o : o = Ordered(p)
    OBVIOUS
  <2>2. \A i \in S : got[i] \in Int /\ o[i] \in Int /\ got[i] <= o[i]
    BY <2>1, <1>10
  <2>3. ASSUME full = 1 PROVE \A i \in S : got[i] = o[i]
    <3>1. SumOf(got, S) >= SumOf(o, S)
      BY <2>1, <2>3, <1>9, <1>11
    <3> QED BY <3>1, <2>2, <1>1, SumFull
  <2>4. ASSUME \A i \in S : got[i] = o[i] PROVE full = 1
    <3>1. SumOf(got, S) = SumOf(o, S)
      BY <2>4, <1>1, SumSame
    <3>2. SumOf(o, S) \in Int
      BY <2>2, <1>1, SumType
    <3> QED BY <3>1, <3>2, <2>1, <1>9, <1>11
  <2> QED BY <2>1, <2>3, <2>4, <1>10
<1>13. p.got[some] < p.lines[some].qty /\ p.status \notin {"received", "cancelled"}
  <2>1. PICK m \in Nat, k \in Nat \ {0}, o \in Nat :
           m = p.got[some] /\ k = qty[some] /\ o = p.lines[some].qty
    <3>1. some \in S
      BY <1>1
    <3>2. p.lines[some].qty \in Nat
      BY <3>1, <1>0, <1>1, PurchaseFields
    <3>3. p.got[some] \in Nat /\ qty[some] \in Nat \ {0}
      BY <3>1, <1>7
    <3> QED BY <3>2, <3>3
  <2>2. m + k <= o
    BY <2>1 DEF Receivable
  <2>3. p.got[some] < p.lines[some].qty
    BY <2>1, <2>2
  <2>4. p.status # "received"
    BY <2>1, <2>2, <1>0, <1>1 DEF GoodsCounted
  <2> QED BY <2>3, <2>4 DEF Receivable
<1>14. PICK c \in Int : c = (IF full = 1 THEN p.charges ELSE 0)
  BY <1>5
<1>15. PICK st \in PurchaseStatus : st = (IF full = 1 THEN "received" ELSE "partial")
  BY DEF PurchaseStatus
<1>16. ChargesDue(p, got) = c
  BY <1>9, <1>14 DEF ChargesDue, Ordered
<1>17. x = [p EXCEPT !.got = got, !.status = st, !.booked = p.booked + v + c, !.pieces = pieces]
  <2>1. x = [p EXCEPT !.got = got, !.status = st, !.booked = @ + v + ChargesDue(p, got),
                      !.pieces = [i \in DOMAIN qty |-> @[i] + (IF qty[i] > 0 THEN 1 ELSE 0)]]
    <3>1. st = (IF SumFunction(got) >= SumFunction([i \in DOMAIN p.lines |-> p.lines[i].qty])
                THEN "received" ELSE "partial")
      <4>1. Ordered(p) = [i \in DOMAIN p.lines |-> p.lines[i].qty]
        BY DEF Ordered
      <4> QED BY <4>1, <1>9, <1>15
    <3>2. x = [p EXCEPT !.got = got,
                        !.status = IF SumFunction(got)
                                        >= SumFunction([i \in DOMAIN p.lines |-> p.lines[i].qty])
                                   THEN "received" ELSE "partial",
                        !.booked = @ + Value(p, qty) + ChargesDue(p, got),
                        !.pieces = [i \in DOMAIN qty |-> @[i] + (IF qty[i] > 0 THEN 1 ELSE 0)]]
      BY <1>3 DEF Received
    <3> QED BY <3>1, <3>2, <1>2
  <2> QED BY <2>1, <1>0, <1>4, <1>16 DEF Purchase
<1>18. /\ x \in Purchase /\ x.back = p.back /\ x.takenBack = p.takenBack
       /\ x.lines = p.lines /\ x.charges = p.charges /\ x.status = st /\ x.got = got
       /\ x.booked = p.booked + v + c /\ x.paid = p.paid /\ x.payments = p.payments
       /\ x.pieces = pieces
  <2>1. p.booked + v + c \in Int
    BY <1>5
  <2> QED BY <2>1, <1>0, <1>8, <1>17 DEF Purchase
<1>19. PaidInOrder(x) /\ PendingCheques(x) = PendingCheques(p)
  BY <1>0, <1>18, MoneyKept
<1>20. Shaped(x)
  BY <1>0, <1>1, <1>8, <1>18 DEF Shaped
<1>21. GoodsCounted(x)
  <2>1. \A i \in S : p.back[i] <= got[i]
    <3>1. ASSUME NEW i \in S PROVE p.back[i] <= got[i]
      <4>1. p.back[i] <= p.got[i] /\ p.back[i] \in Nat
        <5>1. p.back \in Seq(Nat) /\ DOMAIN p.back = S
          BY <1>0, <1>1, PurchaseFields DEF Shaped
        <5> QED BY <5>1, <1>0, <1>1 DEF GoodsCounted
      <4>2. PICK m \in Nat, k \in Nat, g \in Nat : m = p.back[i] /\ k = qty[i] /\ g = p.got[i]
        BY <4>1, <1>7
      <4>3. got[i] = g + k
        BY <4>2, <1>8
      <4> QED BY <4>1, <4>2, <4>3
    <3> QED BY <3>1
  <2>2. \A i \in S : got[i] <= p.lines[i].qty /\ got[i] \in Nat /\ p.lines[i].qty \in Nat
    BY <1>10
  <2>3. got[some] # 0
    <3>1. PICK m \in Nat, k \in Nat \ {0} : m = p.got[some] /\ k = qty[some]
      BY <1>1, <1>7
    <3>2. got[some] = m + k
      BY <3>1, <1>1, <1>8
    <3> QED BY <3>1, <3>2
  <2>4. full # 1 => \E i \in S : got[i] < p.lines[i].qty
    <3>1. ASSUME full # 1 PROVE \E i \in S : got[i] # p.lines[i].qty
      BY <3>1, <1>12
    <3> QED BY <3>1, <2>2
  <2> QED BY <2>1, <2>2, <2>3, <2>4, <1>1, <1>12, <1>15, <1>18 DEF GoodsCounted
<1>22. BookedByLine(x)
  <2>1. PICK b \in [S -> Int] :
          /\ p.booked = SumOf(b, S) + Charged(p)
          /\ \A i \in S : LineBooked(b[i], p.got[i], p.lines[i].cost, p.pieces[i])
    BY <1>0, <1>1 DEF BookedByLine
  <2>2. Charged(p) = 0
    BY <1>13 DEF Charged
  <2>3. PICK w : w = [i \in S |-> Worth(qty[i], p.lines[i].cost)]
    OBVIOUS
  <2>4. v = SumOf(w, S)
    BY <2>3, <1>0, <1>1, <1>2, ValueType
  <2>5. \A i \in S : p.lines[i].cost \in Nat
    BY <1>0, <1>1, PurchaseFields
  <2>6. \A i \in S : w[i] \in Int /\ w[i] = Worth(qty[i], p.lines[i].cost)
    <3>1. ASSUME NEW i \in S PROVE Worth(qty[i], p.lines[i].cost) \in Nat
      BY <2>5, <1>7, WorthNear
    <3> QED BY <3>1, <2>3
  <2>7. PICK d : d = [i \in S |-> b[i] + w[i]]
    OBVIOUS
  <2>8. d \in [S -> Int] /\ \A i \in S : d[i] = b[i] + w[i] /\ b[i] \in Int
    BY <2>1, <2>6, <2>7
  <2>9. SumOf(d, S) = SumOf(b, S) + SumOf(w, S)
    <3>1. \A i \in S : b[i] \in Int /\ w[i] \in Int /\ d[i] = b[i] + w[i]
      BY <2>6, <2>8
    <3> QED BY <3>1, <1>1, SumPlus
  <2>10. SumOf(b, S) \in Int /\ SumOf(w, S) \in Int
    BY <2>6, <2>8, <1>1, SumType
  <2>11. Charged(x) = c
    BY <1>14, <1>15, <1>18 DEF Charged
  <2>12. x.booked = SumOf(d, S) + Charged(x)
    BY <2>1, <2>2, <2>4, <2>9, <2>10, <2>11, <1>18
  <2>13. ASSUME NEW i \in S
         PROVE  LineBooked(d[i], got[i], p.lines[i].cost, pieces[i])
    <3>1. LineBooked(b[i] + Worth(qty[i], p.lines[i].cost), p.got[i] + qty[i], p.lines[i].cost,
                     p.pieces[i] + (IF qty[i] > 0 THEN 1 ELSE 0))
      BY <2>1, <2>5, <2>8, <1>7, LineGrows
    <3> QED BY <3>1, <2>6, <2>8, <1>8
  <2> QED BY <2>8, <2>12, <2>13, <1>1, <1>18 DEF BookedByLine
<1>23. BoughtSound(x)
  BY <1>18, <1>19, <1>20, <1>21, <1>22 DEF BoughtSound
<1> QED BY <1>5, <1>18, <1>23 DEF DueFor

-----------------------------------------------------------------------------
(* Purchases: the inductive invariant.                                     *)

GoodsRequest == [op : {"receive", "return"}, id : PurchaseIds, qty : Seq(Nat)]
BuyRequest ==
    [op : {"create"}, id : PurchaseIds, order : Orders]
    \cup GoodsRequest
    \cup [op : {"pay"}, id : PurchaseIds, amount : Payable, status : {"settled", "pending"}]
    \cup [op : {"cheque"}, id : PurchaseIds, row : Nat, to : ChequeStatus]
    \cup [op : {"cancel"}, id : PurchaseIds]
    \cup [op : {"profile"}]
KnownOps == {"receive", "return", "pay", "cheque", "cancel"}

\* A request fits the purchase that it is about: lines and payments never go.
FitsPurchase(q) ==
    /\ q \in BuyRequest
    /\ q.op = "create" => purchase[q.id] = None
    /\ q.op \in KnownOps => purchase[q.id] # None
    /\ q.op \in {"receive", "return"} =>
         DOMAIN q.qty = DOMAIN purchase[q.id].lines /\ \E i \in DOMAIN q.qty : q.qty[i] > 0
    /\ q.op = "cheque" => q.row \in DOMAIN purchase[q.id].payments

Rows(w) == {w[i] : i \in DOMAIN w}
BuySound(s) == FitsPurchase(req[s]) /\ Rows(LocksFor(req[s])) \subseteq held[s] \cup Rows(want[s])

\* No request waits for a purchase that is not there, or has a place that
\* another creates.
BuyLocks == \A s \in Sessions :
    /\ want[s] \in Seq(Lockable)
    /\ \A row \in (held[s] \cup Rows(want[s])) \cap PurchaseIds : purchase[row] # None
BuySeen == \A s \in Sessions, row \in PurchaseIds \cup {Supplier} :
    row \in held[s] => seen[s][row] = RowNow(row)
CreatesDiffer == \A s, r \in Sessions :
    /\ s # r /\ req[s] # None /\ req[r] # None
    /\ req[s].op = "create" /\ req[r].op = "create"
    => req[s].id # req[r].id

Dues == [i \in Known |-> DueFor(purchase[i])]
AccountSound ==
    /\ IsFiniteSet(Known) /\ owed = SumOf(Dues, Known)
    /\ \A i \in Known : BoughtSound(purchase[i])

PurchaseInv ==
    /\ PurchasesTypeOK /\ WebInv /\ BuyLocks /\ BuySeen /\ CreatesDiffer /\ AccountSound
    /\ \A s \in Sessions : req[s] # None => BuySound(s)

LEMMA RowsTaken ==
    ASSUME NEW T, NEW w \in Seq(T), w # <<>>
    PROVE  /\ Rows(w) = {Head(w)} \cup Rows(Tail(w)) /\ Tail(w) \in Seq(T)
           /\ Head(w) \in T
<1>1. PICK n \in Nat : n = Len(w) /\ n >= 1 /\ DOMAIN w = 1 .. n
  OBVIOUS
<1>2. /\ Tail(w) \in Seq(T) /\ Head(w) \in T /\ Head(w) = w[1]
      /\ DOMAIN Tail(w) = 1 .. (n - 1) /\ \A i \in 1 .. (n - 1) : Tail(w)[i] = w[i + 1]
  BY <1>1
<1>3. ASSUME NEW x \in Rows(w) PROVE x \in {Head(w)} \cup Rows(Tail(w))
  <2>1. PICK i \in 1 .. n : x = w[i]
    BY <1>1, <1>3 DEF Rows
  <2>2. CASE i = 1
    BY <2>1, <2>2, <1>2
  <2>3. CASE i # 1
    <3>1. i - 1 \in 1 .. (n - 1) /\ (i - 1) + 1 = i
      BY <2>3, <1>1
    <3>2. Tail(w)[i - 1] = x
      BY <3>1, <2>1, <1>2
    <3> QED BY <3>1, <3>2, <1>2 DEF Rows
  <2> QED BY <2>2, <2>3
<1>4. ASSUME NEW x \in {Head(w)} \cup Rows(Tail(w)) PROVE x \in Rows(w)
  <2>1. CASE x = Head(w)
    <3>1. 1 \in DOMAIN w
      BY <1>1
    <3> QED BY <3>1, <2>1, <1>2 DEF Rows
  <2>2. CASE x \in Rows(Tail(w))
    <3>1. PICK i \in 1 .. (n - 1) : x = Tail(w)[i]
      BY <2>2, <1>2 DEF Rows
    <3>2. i + 1 \in DOMAIN w /\ x = w[i + 1]
      BY <3>1, <1>1, <1>2
    <3> QED BY <3>2 DEF Rows
  <2> QED BY <2>1, <2>2, <1>4
<1> QED BY <1>2, <1>3, <1>4

LEMMA RowsOf ==
    /\ Rows(<<>>) = {}
    /\ \A a : Rows(<< a >>) = {a}
    /\ \A a, b : Rows(<< a, b >>) = {a, b}
    /\ \A a, b, c : Rows(<< a, b, c >>) = {a, b, c}
<1>1. Rows(<<>>) = {}
  BY DEF Rows
<1>2. \A a : Rows(<< a >>) = {a}
  <2>1. \A a : DOMAIN << a >> = {1} /\ << a >>[1] = a
    OBVIOUS
  <2> QED BY <2>1 DEF Rows
<1>3. \A a, b : Rows(<< a, b >>) = {a, b}
  <2>1. \A a, b : DOMAIN << a, b >> = {1, 2} /\ << a, b >>[1] = a /\ << a, b >>[2] = b
    OBVIOUS
  <2> QED BY <2>1 DEF Rows
<1>4. \A a, b, c : Rows(<< a, b, c >>) = {a, b, c}
  <2>1. \A a, b, c : /\ DOMAIN << a, b, c >> = {1, 2, 3} /\ << a, b, c >>[1] = a
                     /\ << a, b, c >>[2] = b /\ << a, b, c >>[3] = c
    OBVIOUS
  <2> QED BY <2>1 DEF Rows
<1> QED BY <1>1, <1>2, <1>3, <1>4

\* The rows that a request locks: of purchases only the one that it is about.
LEMMA LocksAre ==
    ASSUME NEW q, q \in BuyRequest
    PROVE  /\ LocksFor(q) \in Seq(Lockable)
           /\ \A row \in Rows(LocksFor(q)) \cap PurchaseIds : q.op \in KnownOps /\ row = q.id
           /\ q.op \in KnownOps => q.id \in Rows(LocksFor(q))
           /\ q.op \notin {"cancel"} => Supplier \in Rows(LocksFor(q))
<1>0. /\ Business \in Lockable /\ Supplier \in Lockable /\ PurchaseIds \subseteq Lockable
      /\ Business \notin PurchaseIds /\ Supplier \notin PurchaseIds
  BY PurchaseConstants
<1>1. CASE q.op \in {"receive", "pay", "return"}
  <2>1. LocksFor(q) = << Business, q.id, Supplier >> /\ q.id \in PurchaseIds
    BY <1>1 DEF LocksFor, BuyRequest, GoodsRequest
  <2>2. Rows(LocksFor(q)) = {Business, q.id, Supplier}
    BY <2>1, RowsOf
  <2>3. LocksFor(q) \in Seq(Lockable)
    BY <2>1, <1>0
  <2> QED BY <2>1, <2>2, <2>3, <1>0, <1>1 DEF KnownOps
<1>2. CASE q.op = "cheque"
  <2>1. LocksFor(q) = << q.id, Supplier >> /\ q.id \in PurchaseIds
    BY <1>2 DEF LocksFor, BuyRequest, GoodsRequest
  <2>2. Rows(LocksFor(q)) = {q.id, Supplier}
    BY <2>1, RowsOf
  <2>3. LocksFor(q) \in Seq(Lockable)
    BY <2>1, <1>0
  <2> QED BY <2>1, <2>2, <2>3, <1>0, <1>2 DEF KnownOps
<1>3. CASE q.op = "cancel"
  <2>1. LocksFor(q) = << q.id >> /\ q.id \in PurchaseIds
    BY <1>3 DEF LocksFor, BuyRequest, GoodsRequest
  <2>2. Rows(LocksFor(q)) = {q.id}
    BY <2>1, RowsOf
  <2>3. LocksFor(q) \in Seq(Lockable)
    BY <2>1, <1>0
  <2> QED BY <2>1, <2>2, <2>3, <1>0, <1>3 DEF KnownOps
<1>4. CASE q.op \in {"create", "profile"}
  <2>1. LocksFor(q) = << Business, Supplier >>
    BY <1>4 DEF LocksFor
  <2>2. Rows(LocksFor(q)) = {Business, Supplier}
    BY <2>1, RowsOf
  <2>3. LocksFor(q) \in Seq(Lockable)
    BY <2>1, <1>0
  <2> QED BY <2>1, <2>2, <2>3, <1>0, <1>4 DEF KnownOps
<1> QED BY <1>1, <1>2, <1>3, <1>4 DEF BuyRequest, GoodsRequest

LEMMA BuyingStarts ==
    ASSUME PurchaseInv, NEW s \in Sessions, NEW q, RequestPurchase(s, q), FitsPurchase(q),
           q.op = "create" =>
               \A r \in Sessions : req[r] # None /\ req[r].op = "create" => req[r].id # q.id
    PROVE  PurchaseInv'
<1> USE DEF PurchaseInv
<1>1. Begin(s, q, LocksFor(q)) /\ purchase' = purchase /\ owed' = owed
  BY DEF RequestPurchase, purchaseVars
<1>2. /\ WebInv' /\ held' = held /\ seen' = seen
      /\ req'[s] = q /\ want'[s] = LocksFor(q) /\ req[s] = None
      /\ \A r \in Sessions \ {s} : req'[r] = req[r] /\ want'[r] = want[r]
  BY <1>1, BeginKeeps DEF Begin
<1>3. /\ q \in BuyRequest /\ LocksFor(q) \in Seq(Lockable)
      /\ \A row \in Rows(LocksFor(q)) \cap PurchaseIds : purchase[row] # None
  BY LocksAre DEF FitsPurchase
<1>4. PurchasesTypeOK' /\ AccountSound'
  BY <1>1 DEF PurchasesTypeOK, AccountSound, Known, Dues
<1>5. BuyLocks'
  <2>1. ASSUME NEW r \in Sessions
        PROVE  /\ want'[r] \in Seq(Lockable)
               /\ \A row \in (held[r] \cup Rows(want'[r])) \cap PurchaseIds : purchase[row] # None
    <3>1. CASE r = s
      BY <3>1, <1>2, <1>3 DEF BuyLocks
    <3>2. CASE r # s
      BY <3>2, <1>2 DEF BuyLocks
    <3> QED BY <3>1, <3>2
  <2>2. \A r \in Sessions : Rows(want[r])' = Rows(want'[r])
    BY DEF Rows
  <2> QED BY <2>1, <2>2, <1>1, <1>2 DEF BuyLocks
<1>6. BuySeen'
  BY <1>1, <1>2 DEF BuySeen, RowNow
<1>7. CreatesDiffer'
  BY <1>2 DEF CreatesDiffer
<1>8. ASSUME NEW r \in Sessions, req'[r] # None PROVE BuySound(r)'
  <2>1. BuySound(r)' <=> FitsPurchase(req'[r]) /\ Rows(LocksFor(req'[r])) \subseteq held[r] \cup Rows(want'[r])
    BY <1>1, <1>2 DEF BuySound, FitsPurchase, Rows, LocksFor
  <2>2. CASE r = s
    BY <2>1, <2>2, <1>2
  <2>3. CASE r # s
    BY <2>1, <2>3, <1>2, <1>8 DEF BuySound
  <2> QED BY <2>2, <2>3
<1> QED BY <1>2, <1>4, <1>5, <1>6, <1>7, <1>8

\* What may be entered of each line.
LEMMA QuantitiesAre ==
    ASSUME NEW p \in Purchase, NEW qty \in Quantities(p.lines)
    PROVE  /\ qty \in Seq(Nat) /\ DOMAIN qty = DOMAIN p.lines
           /\ \E i \in DOMAIN qty : qty[i] > 0
<1> DEFINE all == {p.lines[i].qty : i \in DOMAIN p.lines}
<1>1. /\ qty \in [DOMAIN p.lines -> 0 .. Max(all)]
      /\ \E i \in DOMAIN qty : qty[i] > 0
  BY DEF Quantities
<1>2. PICK n \in Nat : DOMAIN p.lines = 1 .. n
  BY PurchaseFields, LinesAreFinite
<1>3. all \subseteq Nat
  BY PurchaseFields
<1>4. IsFiniteSet(all)
  <2>1. PICK f : f = [i \in DOMAIN p.lines |-> p.lines[i].qty]
    OBVIOUS
  <2>2. f \in Surjection(DOMAIN p.lines, all)
    BY <2>1 DEF Surjection
  <2>3. IsFiniteSet(DOMAIN p.lines)
    BY PurchaseFields
  <2> QED BY <2>2, <2>3, FS_Surjection
<1>5. all # {}
  BY <1>1
<1>6. Max(all) \in Nat
  <2> HIDE DEF all
  <2>1. all \subseteq Int
    BY <1>3
  <2>2. Max(all) \in all
    BY <2>1, <1>4, <1>5, FiniteHasMax
  <2> QED BY <2>2, <1>3
<1>7. PICK m \in Nat : m = Max(all)
  BY <1>6
<1>8. qty \in [1 .. n -> 0 .. m]
  BY <1>1, <1>2, <1>7
<1>9. qty \in [1 .. n -> Nat]
  BY <1>8
<1> QED BY <1>1, <1>2, <1>9, RowIsSequence

LEMMA BuyingsStart ==
    ASSUME PurchaseInv, NEW s \in Sessions,
           \/ RequestCreate(s) \/ RequestGoods(s) \/ RequestPay(s) \/ RequestCheque(s)
           \/ RequestCancel(s) \/ RequestProfile(s)
    PROVE  PurchaseInv'
<1>0. \A i \in Known : i \in PurchaseIds /\ purchase[i] # None /\ purchase[i] \in Purchase
  BY DEF PurchaseInv, PurchasesTypeOK, Known
<1>1. CASE RequestCreate(s)
  <2>1. PICK i \in PurchaseIds \ Known, o \in Orders :
          /\ \A r \in Sessions : req[r] # None /\ req[r].op = "create" => req[r].id # i
          /\ RequestPurchase(s, [op |-> "create", id |-> i, order |-> o])
    BY <1>1 DEF RequestCreate
  <2>2. PICK q : q = [op |-> "create", id |-> i, order |-> o]
    OBVIOUS
  <2>3. FitsPurchase(q)
    <3>1. q \in BuyRequest
      BY <2>2 DEF BuyRequest
    <3>2. purchase[i] = None
      BY DEF Known
    <3> QED BY <3>1, <3>2, <2>2 DEF FitsPurchase, KnownOps
  <2>4. q.id = i
    BY <2>2
  <2> QED BY <2>1, <2>2, <2>3, <2>4, BuyingStarts
<1>2. ASSUME NEW q, RequestPurchase(s, q), FitsPurchase(q), q.op # "create"
      PROVE  PurchaseInv'
  BY <1>2, BuyingStarts
<1>3. CASE RequestGoods(s)
  <2>1. PICK i \in Known, op \in {"receive", "return"} : \E f \in Quantities(purchase[i].lines) :
          RequestPurchase(s, [op |-> op, id |-> i, qty |-> f])
    BY <1>3 DEF RequestGoods
  <2>2. PICK f \in Quantities(purchase[i].lines) :
          RequestPurchase(s, [op |-> op, id |-> i, qty |-> f])
    BY <2>1
  <2>3. /\ f \in Seq(Nat) /\ DOMAIN f = DOMAIN purchase[i].lines
        /\ \E j \in DOMAIN f : f[j] > 0
    BY <1>0, QuantitiesAre
  <2>4. PICK q : q = [op |-> op, id |-> i, qty |-> f]
    OBVIOUS
  <2>5. q \in BuyRequest /\ q.op = op /\ q.id = i /\ q.qty = f
    BY <2>3, <2>4, <1>0 DEF BuyRequest, GoodsRequest
  <2>6. FitsPurchase(q)
    BY <2>3, <2>5, <1>0 DEF FitsPurchase
  <2> QED BY <2>2, <2>4, <2>5, <2>6, <1>2
<1>4. CASE RequestPay(s)
  <2>1. PICK i \in Known, a \in Payable, m \in {"settled", "pending"} :
          RequestPurchase(s, [op |-> "pay", id |-> i, amount |-> a, status |-> m])
    BY <1>4 DEF RequestPay
  <2>2. PICK q : q = [op |-> "pay", id |-> i, amount |-> a, status |-> m]
    OBVIOUS
  <2>3. q \in BuyRequest /\ q.op = "pay" /\ q.id = i
    BY <2>2, <1>0 DEF BuyRequest
  <2> QED BY <2>1, <2>2, <2>3, <1>0, <1>2 DEF FitsPurchase
<1>5. CASE RequestCheque(s)
  <2>1. PICK i \in Known, to \in ChequeStatus : \E n \in DOMAIN purchase[i].payments :
          RequestPurchase(s, [op |-> "cheque", id |-> i, row |-> n, to |-> to])
    BY <1>5 DEF RequestCheque
  <2>2. PICK n \in DOMAIN purchase[i].payments :
          RequestPurchase(s, [op |-> "cheque", id |-> i, row |-> n, to |-> to])
    BY <2>1
  <2>3. PICK q : q = [op |-> "cheque", id |-> i, row |-> n, to |-> to]
    OBVIOUS
  <2>4. n \in Nat
    <3>1. purchase[i].payments \in Seq(SupplierPayment)
      BY <1>0, PurchaseFields
    <3> QED BY <3>1, LinesAreFinite
  <2>5. q \in BuyRequest /\ q.op = "cheque" /\ q.id = i /\ q.row = n
    BY <2>3, <2>4, <1>0 DEF BuyRequest
  <2> QED BY <2>2, <2>3, <2>5, <1>0, <1>2 DEF FitsPurchase
<1>6. CASE RequestCancel(s)
  <2>1. PICK i \in Known : RequestPurchase(s, [op |-> "cancel", id |-> i])
    BY <1>6 DEF RequestCancel
  <2>2. PICK q : q = [op |-> "cancel", id |-> i]
    OBVIOUS
  <2>3. q \in BuyRequest /\ q.op = "cancel" /\ q.id = i
    BY <2>2, <1>0 DEF BuyRequest
  <2> QED BY <2>1, <2>2, <2>3, <1>0, <1>2 DEF FitsPurchase
<1>7. CASE RequestProfile(s)
  <2>1. PICK q : q = [op |-> "profile"] /\ RequestPurchase(s, q)
    BY <1>7 DEF RequestProfile
  <2>2. q \in BuyRequest /\ q.op = "profile"
    BY <2>1 DEF BuyRequest
  <2> QED BY <2>1, <2>2, <1>2 DEF FitsPurchase, KnownOps
<1> QED BY <1>1, <1>3, <1>4, <1>5, <1>6, <1>7

LEMMA BuyingLocks ==
    ASSUME PurchaseInv, NEW s \in Sessions, LockPurchase(s)
    PROVE  PurchaseInv'
<1> USE DEF PurchaseInv
<1> DEFINE row == Head(want[s])
           f == [x \in DOMAIN seen[s] \cup {row} |-> IF x = row THEN RowNow(x) ELSE seen[s][x]]
<1>1. /\ Take(s) /\ seen' = [seen EXCEPT ![s] = f] /\ req' = req
      /\ purchase' = purchase /\ owed' = owed
  BY DEF LockPurchase, ReadLocked, purchaseVars
<1>2. /\ WebInv' /\ held'[s] = held[s] \cup {row} /\ want'[s] = Tail(want[s]) /\ seen'[s] = f
      /\ \A r \in Sessions \ {s} :
           held'[r] = held[r] /\ want'[r] = want[r] /\ seen'[r] = seen[r]
  <2>1. DOMAIN f = DOMAIN seen[s] \cup {Head(want[s])}
    OBVIOUS
  <2> HIDE DEF f
  <2> QED BY <1>1, <2>1, TakeKeeps
<1>3. PurchasesTypeOK' /\ AccountSound' /\ CreatesDiffer'
  BY <1>1 DEF PurchasesTypeOK, AccountSound, Known, Dues, CreatesDiffer
<1>4. BuySeen'
  BY <1>1, <1>2 DEF BuySeen, RowNow, WebInv
<1>5. /\ Rows(want[s]) = {row} \cup Rows(want'[s]) /\ want'[s] \in Seq(Lockable)
  <2>1. want[s] # <<>> /\ want[s] \in Seq(Lockable)
    BY <1>1 DEF Take, BuyLocks
  <2> QED BY <2>1, <1>2, RowsTaken
<1>6. \A r \in Sessions : /\ held'[r] \cup Rows(want'[r]) = held[r] \cup Rows(want[r])
                          /\ want'[r] \in Seq(Lockable)
  BY <1>2, <1>5 DEF BuyLocks
<1>7. BuyLocks'
  <2>1. \A r \in Sessions : Rows(want[r])' = Rows(want'[r])
    BY DEF Rows
  <2> HIDE DEF row
  <2> QED BY <2>1, <1>1, <1>6 DEF BuyLocks
<1>8. ASSUME NEW r \in Sessions, req'[r] # None PROVE BuySound(r)'
  <2>1. BuySound(r)' <=> FitsPurchase(req[r]) /\ Rows(LocksFor(req[r])) \subseteq held'[r] \cup Rows(want'[r])
    BY <1>1 DEF BuySound, FitsPurchase, Rows, LocksFor
  <2> HIDE DEF row
  <2> QED BY <2>1, <1>1, <1>6, <1>8 DEF BuySound
<1> QED BY <1>2, <1>3, <1>4, <1>7, <1>8

\* What a commit of s leaves to the others: what they have locked, lines and
\* payments, and places that they do not create.
LEMMA BuyingEnds ==
    ASSUME PurchaseInv, NEW s \in Sessions, End(s), req[s] # None,
           PurchasesTypeOK', AccountSound',
           \A i \in Known : /\ purchase'[i] # None /\ purchase'[i].lines = purchase[i].lines
                            /\ DOMAIN purchase[i].payments \subseteq DOMAIN purchase'[i].payments
                            /\ i \in held[s] \/ purchase'[i] = purchase[i],
           \A i \in PurchaseIds \ Known :
               purchase'[i] = None \/ (req[s].op = "create" /\ req[s].id = i),
           owed' # owed => Supplier \in held[s]
    PROVE  PurchaseInv'
<1> USE DEF PurchaseInv
<1>1. /\ WebInv' /\ req'[s] = None /\ held'[s] = {} /\ want'[s] = <<>>
      /\ \A r \in Sessions \ {s} : /\ req'[r] = req[r] /\ want'[r] = want[r]
                                   /\ held'[r] = held[r] /\ seen'[r] = seen[r]
  BY EndKeeps
<1>2. \A r \in Sessions : Rows(want[r])' = Rows(want'[r])
  BY DEF Rows
<1>3. Supplier \notin PurchaseIds /\ Business \notin PurchaseIds /\ Business # Supplier
  BY PurchaseConstants
<1>4. \A r \in Sessions \ {s} : held[r] \cap held[s] = {}
  BY DEF WebInv, Exclusive
<1>5. BuyLocks'
  <2>1. ASSUME NEW r \in Sessions
        PROVE  /\ want'[r] \in Seq(Lockable)
               /\ \A row \in (held'[r] \cup Rows(want'[r])) \cap PurchaseIds : purchase'[row] # None
    <3>1. CASE r = s
      <4>1. want'[r] = <<>> /\ held'[r] = {} /\ Rows(want'[r]) = {}
        BY <3>1, <1>1, RowsOf
      <4> QED BY <4>1
    <3>2. CASE r # s
      <4>1. \A row \in (held[r] \cup Rows(want[r])) \cap PurchaseIds : row \in Known
        BY DEF BuyLocks, Known
      <4> QED BY <4>1, <3>2, <1>1 DEF BuyLocks
    <3> QED BY <3>1, <3>2
  <2> QED BY <2>1, <1>2 DEF BuyLocks
<1>6. BuySeen'
  <2>1. ASSUME NEW r \in Sessions, NEW row \in PurchaseIds \cup {Supplier}, row \in held'[r]
        PROVE  seen'[r][row] = RowNow(row)'
    <3>1. r # s /\ row \in held[r] /\ row \notin held[s] /\ seen'[r] = seen[r]
      BY <2>1, <1>1, <1>4
    <3>2. seen[r][row] = RowNow(row)
      BY <3>1 DEF BuySeen
    <3>3. CASE row = Supplier
      BY <3>1, <3>2, <3>3 DEF RowNow
    <3>4. CASE row \in PurchaseIds
      <4>1. row \in Known
        BY <3>1, <3>4 DEF BuyLocks, Known
      <4>2. purchase'[row] = purchase[row]
        BY <4>1, <3>1
      <4> QED BY <4>2, <3>1, <3>2, <3>4, <1>3 DEF RowNow
    <3> QED BY <3>3, <3>4
  <2> QED BY <2>1 DEF BuySeen
<1>7. CreatesDiffer'
  BY <1>1 DEF CreatesDiffer
<1>8. ASSUME NEW r \in Sessions, req'[r] # None PROVE BuySound(r)'
  <2>1. r # s /\ req'[r] = req[r] /\ held'[r] = held[r] /\ want'[r] = want[r] /\ BuySound(r)
    BY <1>1, <1>8
  <2>2. PICK q : q = req[r]
    OBVIOUS
  <2>3. FitsPurchase(q) /\ Rows(LocksFor(q)) \subseteq held[r] \cup Rows(want[r])
    BY <2>1, <2>2 DEF BuySound
  <2>4. q.op = "create" => purchase'[q.id] = None
    <3>1. ASSUME q.op = "create" PROVE purchase'[q.id] = None
      <4>1. q.id \in PurchaseIds \ Known
        BY <3>1, <2>3 DEF FitsPurchase, BuyRequest, GoodsRequest, Known
      <4>2. ~ (req[s].op = "create" /\ req[s].id = q.id)
        BY <3>1, <2>1, <2>2, <1>8 DEF CreatesDiffer
      <4> QED BY <4>1, <4>2
    <3> QED BY <3>1
  <2>5. q.op \in KnownOps => /\ purchase'[q.id] # None /\ purchase'[q.id].lines = purchase[q.id].lines
                             /\ DOMAIN purchase[q.id].payments \subseteq DOMAIN purchase'[q.id].payments
    <3>1. q.op \in KnownOps => q.id \in Known
      BY <2>3 DEF FitsPurchase, BuyRequest, GoodsRequest, Known, KnownOps
    <3> QED BY <3>1
  <2>6. FitsPurchase(q)'
    BY <2>3, <2>4, <2>5 DEF FitsPurchase, KnownOps
  <2>7. BuySound(r)' <=> FitsPurchase(q)' /\ Rows(LocksFor(q)) \subseteq held[r] \cup Rows(want[r])
    BY <2>1, <2>2 DEF BuySound, FitsPurchase, Rows, LocksFor
  <2> QED BY <2>3, <2>6, <2>7
<1> QED BY <1>1, <1>5, <1>6, <1>7, <1>8

\* A purchase that s has locked is changed, and the balance with it.
LEMMA ChangeKeeps ==
    ASSUME PurchaseInv, NEW s \in Sessions, End(s), req[s] # None,
           NEW i \in Known, i \in held[s], NEW x, BoughtSound(x),
           x.lines = purchase[i].lines, DOMAIN purchase[i].payments \subseteq DOMAIN x.payments,
           purchase' = [purchase EXCEPT ![i] = x],
           owed' = owed + (DueFor(x) - DueFor(purchase[i])),
           owed' # owed => Supplier \in held[s]
    PROVE  PurchaseInv'
<1> USE DEF PurchaseInv
<1>1. /\ i \in PurchaseIds /\ x \in Purchase /\ x # None
      /\ purchase'[i] = x /\ \A j \in PurchaseIds \ {i} : purchase'[j] = purchase[j]
  BY NoneIsNoPurchase DEF PurchasesTypeOK, Known, BoughtSound
<1>2. Known' = Known
  BY <1>1 DEF Known
<1>3. \A p \in Purchase : DueFor(p) \in Int
  BY PurchaseFields DEF DueFor
<1>4. PICK d, e : d = Dues /\ e = Dues'
  OBVIOUS
<1>5. /\ \A j \in Known : d[j] = DueFor(purchase[j]) /\ e[j] = DueFor(purchase'[j])
      /\ \A j \in Known : purchase[j] \in Purchase /\ purchase'[j] \in Purchase
  <2>1. \A j \in Known : purchase[j] \in Purchase /\ purchase'[j] \in Purchase
    BY <1>1 DEF PurchasesTypeOK, Known
  <2>2. e = [j \in Known |-> DueFor(purchase'[j])]
    BY <1>2, <1>4 DEF Dues, DueFor
  <2> QED BY <2>1, <2>2, <1>4 DEF Dues
<1>6. /\ \A j \in Known : d[j] \in Int /\ e[j] \in Int
      /\ \A j \in Known \ {i} : e[j] = d[j]
  BY <1>1, <1>3, <1>5 DEF Known
<1>7. SumOf(e, Known) = SumOf(d, Known) + (e[i] - d[i])
  <2>1. IsFiniteSet(Known)
    BY DEF AccountSound
  <2> QED BY <2>1, <1>6, SumChange
<1>8. SumOf(Dues, Known)' = SumOf(e, Known)
  BY <1>2, <1>4
<1>9. owed = SumOf(d, Known) /\ owed \in Int
  BY <1>4 DEF AccountSound, PurchasesTypeOK
<1>10. AccountSound'
  <2>1. owed' = SumOf(Dues, Known)'
    BY <1>1, <1>5, <1>7, <1>8, <1>9
  <2>2. \A j \in Known : BoughtSound(purchase[j])'
    <3>1. ASSUME NEW j \in Known PROVE BoughtSound(purchase'[j])
      BY <1>1 DEF AccountSound, Known
    <3> QED BY <3>1 DEF BoughtSound
  <2> QED BY <2>1, <2>2, <1>2 DEF AccountSound
<1>11. PurchasesTypeOK'
  <2>1. owed' \in Int
    BY <1>1, <1>5, <1>6, <1>9
  <2> QED BY <2>1, <1>1 DEF PurchasesTypeOK
<1>12. \A j \in Known : /\ purchase'[j] # None /\ purchase'[j].lines = purchase[j].lines
                        /\ DOMAIN purchase[j].payments \subseteq DOMAIN purchase'[j].payments
                        /\ j \in held[s] \/ purchase'[j] = purchase[j]
  BY <1>1 DEF Known
<1>13. \A j \in PurchaseIds \ Known : purchase'[j] = None
  BY <1>1 DEF Known
<1> QED BY <1>10, <1>11, <1>12, <1>13, BuyingEnds

LEMMA NothingKeeps ==
    ASSUME PurchaseInv, NEW s \in Sessions, End(s), req[s] # None,
           purchase' = purchase, owed' = owed
    PROVE  PurchaseInv'
<1>1. PurchasesTypeOK' /\ AccountSound'
  BY DEF PurchaseInv, PurchasesTypeOK, AccountSound, Known, Dues
<1>2. \A j \in PurchaseIds \ Known : purchase'[j] = None
  BY DEF Known
<1>3. \A j \in Known : purchase'[j] # None
  BY DEF Known
<1> QED BY <1>1, <1>2, <1>3, BuyingEnds

\* With every lock held, a request has read its purchase as it is.
LEMMA ReadsItsPurchase ==
    ASSUME PurchaseInv, NEW s \in Sessions, Answered(s, req[s].op)
    PROVE  /\ End(s) /\ req[s] # None /\ FitsPurchase(req[s]) /\ req[s] \in BuyRequest
           /\ req[s].op # "cancel" => Supplier \in held[s]
           /\ req[s].op \in KnownOps => /\ req[s].id \in Known /\ req[s].id \in held[s]
                                        /\ Mine(s) = purchase[req[s].id]
                                        /\ BoughtSound(Mine(s))
<1> USE DEF PurchaseInv
<1>1. PICK q : q = req[s]
  OBVIOUS
<1>2. End(s) /\ q # None /\ want[s] = <<>> /\ FitsPurchase(q) /\ Rows(LocksFor(q)) \subseteq held[s]
  BY <1>1, RowsOf DEF Answered, Ready, BuySound
<1>3. q \in BuyRequest
  BY <1>2 DEF FitsPurchase
<1>4. q.op # "cancel" => Supplier \in held[s]
  BY <1>2, <1>3, LocksAre
<1>5. q.op \in KnownOps => q.id \in PurchaseIds /\ q.id \in held[s] /\ q.id \in Known
  <2>1. q.op \in KnownOps => q.id \in PurchaseIds
    BY <1>3 DEF BuyRequest, GoodsRequest, KnownOps
  <2> QED BY <2>1, <1>2, <1>3, LocksAre DEF FitsPurchase, Known
<1>6. q.op \in KnownOps => Mine(s) = purchase[q.id]
  <2>1. ASSUME q.op \in KnownOps PROVE Mine(s) = purchase[q.id]
    <3>1. RowNow(q.id) = purchase[q.id]
      BY <2>1, <1>5, PurchaseConstants DEF RowNow
    <3>2. seen[s][q.id] = RowNow(q.id)
      BY <2>1, <1>5 DEF BuySeen
    <3> QED BY <3>1, <3>2, <1>1 DEF Mine
  <2> QED BY <2>1
<1> QED BY <1>1, <1>2, <1>3, <1>4, <1>5, <1>6 DEF AccountSound

LEMMA CreateKeeps ==
    ASSUME PurchaseInv, NEW s \in Sessions, CreatePurchase(s)
    PROVE  PurchaseInv'
<1>1. PICK q : q = req[s]
  OBVIOUS
<1>2. /\ End(s) /\ req[s] # None /\ FitsPurchase(q) /\ q \in BuyRequest /\ q.op = "create"
      /\ owed' = owed
  BY <1>1, ReadsItsPurchase DEF CreatePurchase, Answered
<1>3. PICK i : i = q.id /\ i \in PurchaseIds /\ purchase[i] = None /\ q.order \in Orders
  BY <1>2 DEF FitsPurchase, BuyRequest, GoodsRequest
<1>4. PICK x : x = NewPurchase(q.order)
  OBVIOUS
<1>5. purchase' = [purchase EXCEPT ![i] = IF Total(x) >= 0 THEN x ELSE None]
  BY <1>1, <1>3, <1>4 DEF CreatePurchase, PurchaseInv, PurchasesTypeOK
<1>6. CASE ~ (Total(x) >= 0)
  <2>1. purchase' = purchase
    BY <1>3, <1>5, <1>6 DEF PurchaseInv, PurchasesTypeOK
  <2> QED BY <2>1, <1>2, NothingKeeps
<1>7. CASE Total(x) >= 0
  <2>1. BoughtSound(x) /\ DueFor(x) = 0 /\ x \in Purchase /\ x # None
    BY <1>3, <1>4, <1>7, NewIsSound, NoneIsNoPurchase DEF BoughtSound
  <2>2. purchase'[i] = x /\ \A j \in PurchaseIds \ {i} : purchase'[j] = purchase[j]
    BY <1>3, <1>5, <1>7 DEF PurchaseInv, PurchasesTypeOK
  <2>3. Known' = Known \cup {i} /\ i \notin Known
    BY <2>1, <2>2, <1>3 DEF Known
  <2>4. PurchasesTypeOK'
    BY <2>1, <1>2, <1>5, <1>7 DEF PurchaseInv, PurchasesTypeOK
  <2>5. PICK d, e : d = Dues /\ e = Dues'
    OBVIOUS
  <2>6. /\ \A j \in Known : d[j] = DueFor(purchase[j])
        /\ \A j \in Known \cup {i} : e[j] = DueFor(purchase'[j])
    <3>1. e = [j \in Known \cup {i} |-> DueFor(purchase'[j])]
      BY <2>3, <2>5 DEF Dues, DueFor
    <3> QED BY <3>1, <2>5 DEF Dues
  <2>7. /\ \A j \in Known : e[j] = d[j] /\ d[j] \in Int
        /\ e[i] = 0
    <3>1. \A j \in Known : purchase[j] \in Purchase /\ purchase'[j] = purchase[j]
      BY <2>2, <2>3 DEF PurchaseInv, PurchasesTypeOK, Known
    <3>2. \A p \in Purchase : DueFor(p) \in Int
      BY PurchaseFields DEF DueFor
    <3> QED BY <3>1, <3>2, <2>1, <2>2, <2>6
  <2>8. SumOf(e, Known \cup {i}) = SumOf(d, Known)
    <3>1. IsFiniteSet(Known)
      BY DEF PurchaseInv, AccountSound
    <3>2. \A j \in Known \cup {i} : e[j] \in Int
      BY <2>7
    <3>3. SumOf(e, Known \cup {i}) = e[i] + SumOf(e, Known)
      BY <3>1, <3>2, <2>3, SumAdd
    <3>4. SumOf(e, Known) = SumOf(d, Known)
      BY <3>1, <2>7, SumSame
    <3>5. SumOf(d, Known) \in Int
      BY <3>1, <2>7, SumType
    <3> QED BY <3>3, <3>4, <3>5, <2>7
  <2>9. SumOf(Dues, Known)' = SumOf(e, Known \cup {i})
    BY <2>3, <2>5
  <2>10. AccountSound'
    <3>1. IsFiniteSet(Known) /\ owed = SumOf(d, Known)
      BY <2>5 DEF PurchaseInv, AccountSound
    <3>2. IsFiniteSet(Known \cup {i})
      BY <3>1, FS_AddElement
    <3>3. \A j \in Known \cup {i} : BoughtSound(purchase'[j])
      BY <2>1, <2>2, <2>3 DEF PurchaseInv, AccountSound, Known
    <3>4. \A j \in Known' : BoughtSound(purchase[j])'
      BY <3>3, <2>3 DEF BoughtSound
    <3> QED BY <3>1, <3>2, <3>4, <2>3, <2>8, <2>9, <1>2 DEF AccountSound
  <2>11. \A j \in Known : purchase'[j] = purchase[j] /\ purchase'[j] # None
    BY <2>2, <2>3 DEF Known
  <2>12. \A j \in PurchaseIds \ Known : purchase'[j] = None \/ (req[s].op = "create" /\ req[s].id = j)
    BY <2>2, <1>1, <1>2, <1>3 DEF Known
  <2> QED BY <2>4, <2>10, <2>11, <2>12, <1>2, BuyingEnds
<1> QED BY <1>6, <1>7

LEMMA ReceiveKeeps ==
    ASSUME PurchaseInv, NEW s \in Sessions, ReceivePurchase(s)
    PROVE  PurchaseInv'
<1>1. PICK q, p, x : q = req[s] /\ p = Mine(s) /\ x = Received(p, q.qty)
  OBVIOUS
<1>2. /\ End(s) /\ req[s] # None /\ FitsPurchase(q) /\ q \in BuyRequest /\ q.op = "receive"
      /\ Supplier \in held[s] /\ q.id \in Known /\ q.id \in held[s] /\ p = purchase[q.id]
      /\ BoughtSound(p)
  BY <1>1, ReadsItsPurchase DEF ReceivePurchase, Answered, KnownOps
<1>3. /\ q.qty \in Seq(Nat) /\ DOMAIN q.qty = DOMAIN p.lines
      /\ \E i \in DOMAIN q.qty : q.qty[i] > 0
  BY <1>2 DEF FitsPurchase, BuyRequest, GoodsRequest
<1>4. /\ BoughtSound(x) /\ x.lines = p.lines /\ x.payments = p.payments
      /\ DueFor(x) = DueFor(p) + x.booked - p.booked
  <2>1. PICK qty \in Seq(Nat) : qty = q.qty
    BY <1>3
  <2>2. PICK i \in DOMAIN qty : qty[i] > 0
    BY <2>1, <1>3
  <2>3. Receivable(p, qty)
    BY <2>1, <1>1 DEF ReceivePurchase
  <2>4. x = Received(p, qty)
    BY <2>1, <1>1
  <2> QED BY <2>1, <2>2, <2>3, <2>4, <1>2, <1>3, ReceivedIsSound
<1>5. /\ purchase' = [purchase EXCEPT ![q.id] = x]
      /\ owed' = owed + x.booked - p.booked
  BY <1>1 DEF ReceivePurchase
<1>6. owed \in Int /\ x.booked \in Int /\ p.booked \in Int /\ DueFor(p) \in Int
  <2>1. p \in Purchase /\ x \in Purchase
    BY <1>2, <1>4 DEF BoughtSound
  <2> QED BY <2>1, PurchaseFields DEF PurchaseInv, PurchasesTypeOK, DueFor
<1>7. owed' = owed + (DueFor(x) - DueFor(p))
  BY <1>4, <1>5, <1>6
<1> QED BY <1>2, <1>4, <1>5, <1>7, ChangeKeeps

LEMMA PayKeeps ==
    ASSUME PurchaseInv, NEW s \in Sessions, RecordPurchasePayment(s)
    PROVE  PurchaseInv'
<1>1. PICK q, p, x : q = req[s] /\ p = Mine(s) /\ x = Paid(p, q.amount, q.status)
  OBVIOUS
<1>2. /\ End(s) /\ req[s] # None /\ q \in BuyRequest /\ q.op = "pay"
      /\ Supplier \in held[s] /\ q.id \in Known /\ q.id \in held[s] /\ p = purchase[q.id]
      /\ BoughtSound(p)
  BY <1>1, ReadsItsPurchase DEF RecordPurchasePayment, Answered, KnownOps
<1>3. PICK a \in Nat \ {0}, st \in {"settled", "pending"} : a = q.amount /\ st = q.status
  BY <1>2, PurchaseConstants DEF BuyRequest, GoodsRequest
<1>4. /\ BoughtSound(x) /\ x.lines = p.lines /\ Len(x.payments) = Len(p.payments) + 1
      /\ st = "settled" => DueFor(x) = DueFor(p) - a
      /\ st = "pending" => DueFor(x) = DueFor(p)
  <2>1. PayableNow(p, a) /\ x = Paid(p, a, st)
    BY <1>1, <1>3 DEF RecordPurchasePayment
  <2> QED BY <2>1, <1>2, PaidIsSound
<1>5. /\ purchase' = [purchase EXCEPT ![q.id] = x]
      /\ owed' = IF st = "settled" THEN owed - a ELSE owed
  BY <1>1, <1>3 DEF RecordPurchasePayment
<1>6. /\ owed \in Int /\ DueFor(p) \in Int
      /\ p.payments \in Seq(SupplierPayment) /\ x.payments \in Seq(SupplierPayment)
  <2>1. p \in Purchase /\ x \in Purchase
    BY <1>2, <1>4 DEF BoughtSound
  <2> QED BY <2>1, PurchaseFields DEF PurchaseInv, PurchasesTypeOK, DueFor
<1>7. owed' = owed + (DueFor(x) - DueFor(p))
  BY <1>4, <1>5, <1>6
<1>8. DOMAIN p.payments \subseteq DOMAIN x.payments
  <2>1. PICK m \in Nat : DOMAIN p.payments = 1 .. m /\ DOMAIN x.payments = 1 .. (m + 1)
    BY <1>4, <1>6, LinesAreFinite
  <2> QED BY <2>1
<1> QED BY <1>2, <1>4, <1>5, <1>7, <1>8, ChangeKeeps

LEMMA ChequeKeeps ==
    ASSUME PurchaseInv, NEW s \in Sessions, UpdateChequeStatus(s)
    PROVE  PurchaseInv'
<1>1. PICK q, p, x : q = req[s] /\ p = Mine(s) /\ x = ChequeMoved(p, q.row, q.to)
  OBVIOUS
<1>2. /\ End(s) /\ req[s] # None /\ FitsPurchase(q) /\ q \in BuyRequest /\ q.op = "cheque"
      /\ Supplier \in held[s] /\ q.id \in Known /\ q.id \in held[s] /\ p = purchase[q.id]
      /\ BoughtSound(p)
  BY <1>1, ReadsItsPurchase DEF UpdateChequeStatus, Answered, KnownOps
<1>3. q.row \in DOMAIN p.payments /\ q.to \in ChequeStatus
  BY <1>2 DEF FitsPurchase, BuyRequest, GoodsRequest
<1>4. PICK n \in DOMAIN p.payments, to \in ChequeStatus : n = q.row /\ to = q.to
  BY <1>3
<1>5. PICK a : a = p.payments[n].amount
  OBVIOUS
<1>6. /\ ChequeMoves(p.payments[n], to)
      /\ owed' = IF to = "cleared" THEN owed - a ELSE owed
      /\ purchase' = [purchase EXCEPT ![q.id] = x]
  BY <1>1, <1>4, <1>5 DEF UpdateChequeStatus
<1>7. /\ BoughtSound(x) /\ x.lines = p.lines /\ Len(x.payments) = Len(p.payments)
      /\ a \in Nat
      /\ to = "cleared" => DueFor(x) = DueFor(p) - a
      /\ to # "cleared" => DueFor(x) = DueFor(p)
  <2>1. x = ChequeMoved(p, n, to)
    BY <1>1, <1>4
  <2> QED BY <2>1, <1>2, <1>5, <1>6, ChequeIsSound
<1>8. /\ owed \in Int /\ DueFor(p) \in Int
      /\ p.payments \in Seq(SupplierPayment) /\ x.payments \in Seq(SupplierPayment)
  <2>1. p \in Purchase /\ x \in Purchase
    BY <1>2, <1>7 DEF BoughtSound
  <2> QED BY <2>1, PurchaseFields DEF PurchaseInv, PurchasesTypeOK, DueFor
<1>9. owed' = owed + (DueFor(x) - DueFor(p))
  BY <1>6, <1>7, <1>8
<1>10. DOMAIN p.payments \subseteq DOMAIN x.payments
  BY <1>7, <1>8, LinesAreFinite
<1> QED BY <1>2, <1>6, <1>7, <1>9, <1>10, ChangeKeeps

LEMMA ReturnKeeps ==
    ASSUME PurchaseInv, NEW s \in Sessions, ReturnPurchase(s)
    PROVE  PurchaseInv'
<1>1. PICK q, p, x : q = req[s] /\ p = Mine(s) /\ x = Returned(p, q.qty)
  OBVIOUS
<1>2. /\ End(s) /\ req[s] # None /\ FitsPurchase(q) /\ q \in BuyRequest /\ q.op = "return"
      /\ Supplier \in held[s] /\ q.id \in Known /\ q.id \in held[s] /\ p = purchase[q.id]
      /\ BoughtSound(p)
  BY <1>1, ReadsItsPurchase DEF ReturnPurchase, Answered, KnownOps
<1>3. q.qty \in Seq(Nat) /\ DOMAIN q.qty = DOMAIN p.lines
  BY <1>2 DEF FitsPurchase, BuyRequest, GoodsRequest
<1>4. PICK v : v = Value(p, q.qty)
  OBVIOUS
<1>5. /\ BoughtSound(x) /\ x.lines = p.lines /\ x.payments = p.payments
      /\ v \in Nat /\ DueFor(x) = DueFor(p) - v
  <2>1. Returnable(p, q.qty)
    BY <1>1 DEF ReturnPurchase
  <2> QED BY <2>1, <1>1, <1>2, <1>3, <1>4, ReturnedIsSound
<1>6. purchase' = [purchase EXCEPT ![q.id] = x] /\ owed' = owed - v
  BY <1>1, <1>4 DEF ReturnPurchase
<1>7. owed \in Int /\ DueFor(p) \in Int
  <2>1. p \in Purchase
    BY <1>2 DEF BoughtSound
  <2> QED BY <2>1, PurchaseFields DEF PurchaseInv, PurchasesTypeOK, DueFor
<1>8. owed' = owed + (DueFor(x) - DueFor(p))
  BY <1>5, <1>6, <1>7
<1> QED BY <1>2, <1>5, <1>6, <1>8, ChangeKeeps

LEMMA CancelKeeps ==
    ASSUME PurchaseInv, NEW s \in Sessions, CancelPurchase(s)
    PROVE  PurchaseInv'
<1>1. PICK q, p, x : q = req[s] /\ p = Mine(s) /\ x = [p EXCEPT !.status = "cancelled"]
  OBVIOUS
<1>2. /\ End(s) /\ req[s] # None /\ q.op = "cancel"
      /\ q.id \in Known /\ q.id \in held[s] /\ p = purchase[q.id] /\ BoughtSound(p)
  BY <1>1, ReadsItsPurchase DEF CancelPurchase, Answered, KnownOps
<1>3. BoughtSound(x) /\ x.lines = p.lines /\ x.payments = p.payments /\ DueFor(x) = DueFor(p)
  BY <1>1, <1>2, CancelledIsSound DEF CancelPurchase
<1>4. purchase' = [purchase EXCEPT ![q.id] = x] /\ owed' = owed
  BY <1>1, <1>2 DEF CancelPurchase
<1>5. owed \in Int /\ DueFor(p) \in Int
  <2>1. p \in Purchase
    BY <1>2 DEF BoughtSound
  <2> QED BY <2>1, PurchaseFields DEF PurchaseInv, PurchasesTypeOK, DueFor
<1>6. owed' = owed + (DueFor(x) - DueFor(p))
  BY <1>3, <1>4, <1>5
<1> QED BY <1>2, <1>3, <1>4, <1>6, ChangeKeeps

\* The profile form writes the balance that it read under the lock.
LEMMA ProfileKeeps ==
    ASSUME PurchaseInv, NEW s \in Sessions, SaveSupplier(s) \/ AbandonPurchase(s)
    PROVE  PurchaseInv'
<1>1. CASE SaveSupplier(s)
  <2>1. End(s) /\ req[s] # None /\ Supplier \in held[s] /\ purchase' = purchase
    BY <1>1, ReadsItsPurchase DEF SaveSupplier, Answered
  <2>2. seen[s][Supplier] = owed
    BY <2>1 DEF PurchaseInv, BuySeen, RowNow
  <2> QED BY <2>1, <2>2, <1>1, NothingKeeps DEF SaveSupplier
<1>2. CASE AbandonPurchase(s)
  BY <1>2, NothingKeeps DEF AbandonPurchase, RollBack, purchaseVars
<1> QED BY <1>1, <1>2

\* Whatever requests run at once: the account, the payments, the goods and the
\* booked value of each purchase stay what they are in PurchaseInv.
THEOREM PurchasesInvariant ==
    PurchasesSpec => []PurchaseInv
<1>1. PurchasesInit => PurchaseInv
  <2> SUFFICES ASSUME PurchasesInit PROVE PurchaseInv
    OBVIOUS
  <2>1. PurchasesTypeOK /\ Known = {}
    BY DEF PurchasesInit, PurchasesTypeOK, Known
  <2>2. /\ WebInv /\ \A s \in Sessions : held[s] = {} /\ req[s] = None /\ want[s] = <<>>
    BY WebInitInv DEF PurchasesInit, WebInit, InitLocks
  <2>3. BuyLocks
    <3>1. \A s \in Sessions : Rows(want[s]) = {} /\ want[s] \in Seq(Lockable)
      <4>1. <<>> \in Seq(Lockable)
        OBVIOUS
      <4> QED BY <4>1, <2>2, RowsOf
    <3> QED BY <2>2, <3>1 DEF BuyLocks
  <2>4. AccountSound
    <3>1. SumOf(Dues, {}) = 0
      BY FS_EmptySet, SumZero
    <3> QED BY <2>1, <3>1, FS_EmptySet DEF AccountSound, PurchasesInit
  <2> QED BY <2>1, <2>2, <2>3, <2>4 DEF PurchaseInv, BuySeen, CreatesDiffer
<1>2. PurchaseInv /\ [PurchasesNext]_purchasesVars => PurchaseInv'
  <2> SUFFICES ASSUME PurchaseInv, [PurchasesNext]_purchasesVars PROVE PurchaseInv'
    OBVIOUS
  <2>1. CASE PurchasesNext
    BY <2>1, BuyingsStart, BuyingLocks, CreateKeeps, ReceiveKeeps, PayKeeps, ChequeKeeps,
       ReturnKeeps, CancelKeeps, ProfileKeeps DEF PurchasesNext, PurchasesStep
  <2>2. CASE UNCHANGED purchasesVars
    <3>1. /\ want' = want /\ held' = held /\ req' = req /\ seen' = seen
          /\ purchase' = purchase /\ owed' = owed
      BY <2>2 DEF purchasesVars, webVars, purchaseVars
    <3>2. PurchasesTypeOK' /\ WebInv' /\ CreatesDiffer' /\ AccountSound'
      BY <3>1 DEF PurchaseInv, PurchasesTypeOK, WebInv, Exclusive, CreatesDiffer, AccountSound,
         Known, Dues
    <3>3. BuyLocks' /\ BuySeen'
      BY <3>1 DEF PurchaseInv, BuyLocks, BuySeen, Rows, RowNow
    <3>4. \A s \in Sessions : req'[s] # None => BuySound(s)'
      BY <3>1 DEF PurchaseInv, BuySound, FitsPurchase, Rows, LocksFor
    <3> QED BY <3>2, <3>3, <3>4 DEF PurchaseInv
  <2> QED BY <2>1, <2>2
<1> QED BY <1>1, <1>2, PTL DEF PurchasesSpec

\* When all of a purchase has come, its lines are booked up to half a unit for
\* each delivery and for the line: the gap is the sum of theirs.
LEMMA GapIsBounded ==
    ASSUME NEW p, BoughtSound(p), p.status = "received",
           NEW h, h = [n \in DOMAIN p.lines |-> IF p.pieces[n] = 1 THEN 0 ELSE p.pieces[n] + 1]
    PROVE  2 * (p.booked - Total(p)) \in - SumFunction(h) .. SumFunction(h)
<1>1. p \in Purchase /\ Shaped(p) /\ GoodsCounted(p) /\ BookedByLine(p)
  BY DEF BoughtSound
<1>2. PICK S : S = DOMAIN p.lines /\ IsFiniteSet(S)
  BY <1>1, PurchaseFields
<1>3. PICK b \in [S -> Int] :
        /\ p.booked = SumOf(b, S) + Charged(p)
        /\ \A i \in S : LineBooked(b[i], p.got[i], p.lines[i].cost, p.pieces[i])
  BY <1>1, <1>2 DEF BookedByLine
<1>4. PICK w : w = LineWorths(p)
  OBVIOUS
<1>5. /\ \A i \in S : w[i] \in Nat /\ w[i] = Worth(p.lines[i].qty, p.lines[i].cost)
      /\ Total(p) = SumOf(w, S) + p.charges /\ p.charges \in Int
  BY <1>1, <1>2, <1>4, LineWorthType, PurchaseFields DEF Total, LineWorths
<1>6. Charged(p) = p.charges
  BY DEF Charged
<1>7. PICK d : d = [i \in S |-> b[i] - w[i]]
  OBVIOUS
<1>8. \A i \in S : b[i] \in Int /\ w[i] \in Int /\ d[i] \in Int /\ d[i] = b[i] - w[i]
  BY <1>3, <1>5, <1>7
<1>9. PICK e : e = [i \in S |-> d[i] + d[i]]
  OBVIOUS
<1>10. PICK z : z = [i \in S |-> e[i] + h[i]]
  OBVIOUS
<1>11. \A i \in S : p.pieces[i] \in Nat /\ p.got[i] \in Nat /\ p.lines[i].cost \in Nat
                    /\ p.lines[i].qty \in Nat \ {0}
  <2>1. p.pieces \in Seq(Nat) /\ p.got \in Seq(Nat) /\ DOMAIN p.pieces = S /\ DOMAIN p.got = S
    BY <1>1, <1>2, PurchaseFields DEF Shaped
  <2>2. \A i \in S : p.pieces[i] \in Nat
    BY <2>1, SequenceHas
  <2>3. \A i \in S : p.got[i] \in Nat
    BY <2>1, SequenceHas
  <2>4. \A i \in S : p.lines[i].cost \in Nat /\ p.lines[i].qty \in Nat \ {0}
    BY <1>1, <1>2, PurchaseFields
  <2> QED BY <2>2, <2>3, <2>4
<1>12. \A i \in S : h[i] = (IF p.pieces[i] = 1 THEN 0 ELSE p.pieces[i] + 1)
  BY <1>2
<1>13. ASSUME NEW i \in S
       PROVE  /\ h[i] \in Int /\ e[i] \in Int /\ z[i] \in Int /\ e[i] <= h[i] /\ z[i] >= 0
              /\ e[i] = d[i] + d[i] /\ z[i] = e[i] + h[i]
  <2>1. PICK k \in Nat, got \in Nat \ {0}, c \in Nat :
          k = p.pieces[i] /\ got = p.got[i] /\ c = p.lines[i].cost /\ got = p.lines[i].qty
    <3>1. p.got[i] = p.lines[i].qty
      BY <1>1, <1>2 DEF GoodsCounted
    <3> QED BY <3>1, <1>11
  <2>2. LineBooked(b[i], got, c, k)
    BY <2>1, <1>3
  <2>3. h[i] = (IF k = 1 THEN 0 ELSE k + 1)
    BY <2>1, <1>12
  <2>4. h[i] \in Int
    BY <2>3
  <2>5. PICK y \in Int : y = b[i] /\ w[i] = Worth(got, c)
    BY <2>1, <1>5, <1>8
  <2>6. 2 * (y - Worth(got, c)) <= h[i] /\ - h[i] <= 2 * (y - Worth(got, c))
    BY <2>2, <2>3, <2>5, LineGap
  <2>7. e[i] = d[i] + d[i] /\ z[i] = e[i] + h[i] /\ d[i] = y - w[i]
    BY <2>5, <1>8, <1>9, <1>10
  <2> QED BY <2>4, <2>5, <2>6, <2>7, <1>8
<1>14. SumOf(b, S) = SumOf(d, S) + SumOf(w, S)
  <2>1. \A i \in S : d[i] \in Int /\ w[i] \in Int /\ b[i] = d[i] + w[i]
    BY <1>8
  <2> QED BY <2>1, <1>2, SumPlus
<1>15. SumOf(e, S) = SumOf(d, S) + SumOf(d, S)
  <2>1. \A i \in S : d[i] \in Int /\ d[i] \in Int /\ e[i] = d[i] + d[i]
    BY <1>8, <1>13
  <2> QED BY <2>1, <1>2, SumPlus
<1>16. SumOf(z, S) = SumOf(e, S) + SumOf(h, S)
  <2>1. \A i \in S : e[i] \in Int /\ h[i] \in Int /\ z[i] = e[i] + h[i]
    BY <1>13
  <2> QED BY <2>1, <1>2, SumPlus
<1>17. SumOf(e, S) <= SumOf(h, S)
  <2>1. \A i \in S : e[i] \in Int /\ h[i] \in Int /\ e[i] <= h[i]
    BY <1>13
  <2> QED BY <2>1, <1>2, SumMonotonic
<1>18. SumOf(z, S) >= 0 /\ SumOf(z, S) \in Int
  <2>1. \A i \in S : z[i] \in Int /\ z[i] >= 0
    BY <1>13
  <2> QED BY <2>1, <1>2, SumType
<1>19. SumOf(d, S) \in Int /\ SumOf(w, S) \in Int /\ SumOf(h, S) \in Int /\ SumOf(e, S) \in Int
  <2>1. SumOf(d, S) \in Int
    BY <1>2, <1>8, SumType
  <2>2. SumOf(w, S) \in Int
    BY <1>2, <1>8, SumType
  <2>3. SumOf(h, S) \in Int
    BY <1>2, <1>13, SumType
  <2> QED BY <2>1, <2>2, <2>3, <1>15
<1>20. SumFunction(h) = SumOf(h, S)
  BY <1>2, SumFunctionIs
<1>21. p.booked - Total(p) = SumOf(d, S)
  BY <1>3, <1>5, <1>6, <1>14, <1>19
<1> QED BY <1>15, <1>16, <1>17, <1>18, <1>19, <1>20, <1>21

\* For any suppliers' orders, any scale of a unit and any requests at once: the
\* balance of the supplier is what was booked less what was returned and paid,
\* nothing is paid beyond a total, no line is received or returned beyond what
\* there is, and a purchase that has come is booked at its total.
THEOREM PurchasesAreSettled ==
    PurchasesSpec => []PurchasesAddUp
<1>1. PurchaseInv => PurchasesAddUp
  <2> SUFFICES ASSUME PurchaseInv PROVE PurchasesAddUp
    OBVIOUS
  <2>1. \A i \in Known : BoughtSound(purchase[i])
    BY DEF PurchaseInv, AccountSound
  <2>2. SupplierAddsUp
    <3>1. SumFunction(Dues) = SumOf(Dues, Known)
      BY SumFunctionIs DEF Dues
    <3> QED BY <3>1 DEF PurchaseInv, AccountSound, SupplierAddsUp, Dues
  <2>3. PaidWithinTotal
    BY <2>1 DEF BoughtSound, PaidInOrder, PaidWithinTotal
  <2>4. GoodsInOrder
    <3> SUFFICES ASSUME NEW p, BoughtSound(p)
                 PROVE  /\ \A n \in DOMAIN p.lines :
                              /\ p.back[n] <= p.got[n] /\ p.got[n] <= p.lines[n].qty
                              /\ p.lines[n].qty = p.got[n] => p.status \in {"partial", "received"}
                        /\ p.status = "cancelled" => p.booked = 0 /\ p.paid = 0 /\ PendingCheques(p) = 0
      BY <2>1 DEF GoodsInOrder
    <3>1. p \in Purchase /\ GoodsCounted(p)
      BY DEF BoughtSound
    <3>2. /\ p.status \in PurchaseStatus
          /\ \A n \in DOMAIN p.lines : p.lines[n].qty # 0
      BY <3>1, PurchaseFields
    <3> QED BY <3>1, <3>2 DEF GoodsCounted, PurchaseStatus
  <2>5. FullReceiptBooksTotal
    <3>1. ASSUME NEW p, BoughtSound(p), p.status = "received"
          PROVE  2 * (p.booked - Total(p)) \in
                   - SumFunction([n \in DOMAIN p.lines |->
                                     IF p.pieces[n] = 1 THEN 0 ELSE p.pieces[n] + 1])
                   .. SumFunction([n \in DOMAIN p.lines |->
                                     IF p.pieces[n] = 1 THEN 0 ELSE p.pieces[n] + 1])
      BY <3>1, GapIsBounded
    <3> QED BY <3>1, <2>1 DEF FullReceiptBooksTotal
  <2> QED BY <2>2, <2>3, <2>4, <2>5 DEF PurchasesAddUp
<1> QED BY <1>1, PurchasesInvariant, PTL

-----------------------------------------------------------------------------
(* The checkout: the inductive invariant.                                  *)

HeldSale == [cart : Carts, token : Token, cashier : {CashierOf[t] : t \in Tills},
             branch : Branches]
NumberBase == Seq(InvoicePrefixes \cup Branches \cup {"INV"})
GivenNumber == NumberBase \X (Nat \ {0}) \X (Branches \cup {None})

CheckoutTypeOK ==
    /\ sales \in SUBSET Sale /\ IsFiniteSet(sales)
    /\ parked \in [HeldIds -> HeldSale \cup {None, Gone}]
    /\ prefix \in [Branches -> InvoicePrefixes]
    /\ sequence \in [Branches \cup {None} -> Nat]
    /\ till \in [Tills -> Till]

Stages == {"replay", "held", "sell", "number", "insert"}
CheckoutRequest ==
    [op : Stages, till : Tills, cart : Carts, token : Token, resumed : HeldIds \cup {None},
     number : GivenNumber \cup {None}]

\* A cart that is resumed, and that has been checked, is locked and carries the
\* token of its request; the number that a request was given is still free.
SoundCheckout(s) ==
    LET h == req[s].resumed IN
    /\ req[s] \in CheckoutRequest
    /\ h # None => parked[h] # None
    /\ req[s].op = "held" =>
         /\ h # None
         /\ want[s] = << h >> \/ (want[s] = <<>> /\ h \in held[s] /\ seen[s][h] = parked[h])
    /\ req[s].op \in {"sell", "number", "insert"} /\ h # None =>
         h \in held[s] /\ Parked(h) /\ parked[h].token = req[s].token
    /\ req[s].op = "number" =>
         want[s] = << Business >> \/ (want[s] = <<>> /\ Business \in held[s])
    /\ req[s].op = "insert" =>
         /\ want[s] = <<>> /\ Business \in held[s]
         /\ SoldUnder(req[s].token) = {} /\ req[s].number \in GivenNumber
         /\ \A x \in sales : x.number # << req[s].number[1], req[s].number[2] >>

ResumedIsThere == \A t \in Tills : till[t].resumed # None => parked[till[t].resumed] # None
NumbersDiffer == \A x, y \in sales : x.number = y.number => x = y

CheckoutInv ==
    /\ CheckoutTypeOK /\ WebInv
    /\ \A s \in Sessions : req[s] # None => SoundCheckout(s)
    /\ ResumedIsThere /\ OneSalePerToken /\ NumbersDiffer /\ AnswersAreOwn

\* The step of HeldLeavesWithSale.
HeldStep == \A h \in HeldIds : Parked(h) /\ parked'[h] = Gone =>
    \/ \E x \in sales' : x.token = parked[h].token
    \/ \E t \in Tills : DeleteHeld(t, h)

\* The tab: what it shows and parks.
LEMMA TabKeeps ==
    ASSUME CheckoutInv, NEW t \in Tills,
           UNCHANGED <<webVars, sales, renames, sequence, posts>>,
           CheckoutTypeOK', ResumedIsThere', AnswersAreOwn',
           \A h \in HeldIds : \/ parked'[h] = parked[h]
                              \/ parked[h] = None
                              \/ DeleteHeld(t, h) /\ parked'[h] = Gone
    PROVE  CheckoutInv' /\ HeldStep
<1> USE DEF CheckoutInv
<1>1. /\ want' = want /\ held' = held /\ req' = req /\ seen' = seen /\ sales' = sales
  BY DEF webVars
<1>2. WebInv' /\ OneSalePerToken' /\ NumbersDiffer'
  BY <1>1 DEF WebInv, Exclusive, OneSalePerToken, NumbersDiffer
<1>3. ASSUME NEW s \in Sessions, req'[s] # None PROVE SoundCheckout(s)'
  <2>0. PICK h : h = req[s].resumed
    OBVIOUS
  <2>1. SoundCheckout(s) /\ h \in HeldIds \cup {None}
    BY <2>0, <1>1, <1>3 DEF SoundCheckout, CheckoutRequest
  <2>2. h # None => h \in HeldIds /\ parked[h] # None /\ parked'[h] # None
    BY <2>0, <2>1, CheckoutConstants DEF SoundCheckout
  <2>3. h # None /\ h \in held[s] => parked'[h] = parked[h]
    BY <2>2 DEF DeleteHeld, HeldIsFree
  <2> QED BY <2>0, <2>1, <2>2, <2>3, <1>1 DEF SoundCheckout, Parked, SoldUnder
<1>4. HeldStep
  BY DEF HeldStep, Parked
<1> QED BY <1>1, <1>2, <1>3, <1>4

LEMMA TabSteps ==
    ASSUME CheckoutInv, NEW t \in Tills,
           EditCart(t) \/ NewSale(t) \/ HoldSale(t) \/ ResumeHeld(t) \/ NetworkError(t)
           \/ (\E h \in HeldIds : DeleteHeld(t, h))
    PROVE  CheckoutInv' /\ HeldStep
<1> USE DEF CheckoutInv
<1>0. /\ till[t] \in Till /\ till \in [Tills -> Till]
      /\ till[t].cart \in Carts /\ till[t].token \in Token /\ till[t].drawn \in Nat \ {0}
      /\ till[t].drawn < MaxToken => till[t].drawn + 1 \in 1 .. MaxToken
      /\ AnyCart \in Carts /\ CashierOf[t] \in {CashierOf[u] : u \in Tills} /\ BranchOf[t] \in Branches
  BY CheckoutConstants DEF CheckoutTypeOK, Till, AnyCart
\* A tab that shows another row, and parked carts that stay.
<1>1. ASSUME NEW row \in Till, till' = [till EXCEPT ![t] = row],
             UNCHANGED <<webVars, sales, renames, sequence, posts, prefix>>,
             parked' \in [HeldIds -> HeldSale \cup {None, Gone}],
             row.resumed # None => parked'[row.resumed] # None,
             row.told = None \/ row.told = till[t].told,
             \A h \in HeldIds : parked'[h] = parked[h] \/ parked[h] = None
      PROVE  CheckoutInv' /\ HeldStep
  <2>1. till'[t] = row /\ \A u \in Tills \ {t} : till'[u] = till[u]
    BY <1>0, <1>1
  <2>2. CheckoutTypeOK'
    BY <1>0, <1>1 DEF CheckoutTypeOK
  <2>3. ResumedIsThere'
    BY <1>1, <2>1, <1>0 DEF ResumedIsThere, Till, CheckoutTypeOK
  <2>4. AnswersAreOwn'
    BY <1>1, <2>1 DEF AnswersAreOwn
  <2> QED BY <1>1, <2>2, <2>3, <2>4, TabKeeps
<1>2. CASE EditCart(t)
  <2>1. PICK c \in Carts : /\ till' = [till EXCEPT ![t].cart = c]
                           /\ UNCHANGED <<webVars, sales, parked, prefix, renames, sequence, posts>>
    BY <1>2 DEF EditCart
  <2>2. PICK row : row = [till[t] EXCEPT !.cart = c]
    OBVIOUS
  <2>3. /\ row \in Till /\ till' = [till EXCEPT ![t] = row]
        /\ row.resumed = till[t].resumed /\ row.told = till[t].told
    BY <2>1, <2>2, <1>0 DEF Till
  <2> QED BY <2>1, <2>3, <1>1 DEF ResumedIsThere, CheckoutTypeOK
<1>3. ASSUME till[t].drawn < MaxToken
      PROVE  /\ Emptied(t) \in Till /\ Emptied(t).resumed = None /\ Emptied(t).told = None
  <2>1. << t, till[t].drawn + 1 >> \in Token
    BY <1>3, <1>0 DEF Token
  <2> QED BY <2>1, <1>0, <1>3 DEF Emptied, Till
<1>4. CASE NewSale(t)
  BY <1>1, <1>3, <1>4 DEF NewSale, CheckoutTypeOK
<1>5. CASE HoldSale(t)
  <2>1. PICK h \in HeldIds :
          /\ parked[h] = None /\ till[t].drawn < MaxToken
          /\ parked' = [parked EXCEPT ![h] =
                           [cart |-> till[t].cart, token |-> till[t].token,
                            cashier |-> CashierOf[t], branch |-> BranchOf[t]]]
          /\ till' = [till EXCEPT ![t] = Emptied(t)]
          /\ UNCHANGED <<webVars, sales, prefix, renames, sequence, posts>>
    BY <1>5 DEF HoldSale
  <2>2. [cart |-> till[t].cart, token |-> till[t].token,
         cashier |-> CashierOf[t], branch |-> BranchOf[t]] \in HeldSale
    BY <1>0 DEF HeldSale
  <2>3. /\ parked' \in [HeldIds -> HeldSale \cup {None, Gone}]
        /\ \A x \in HeldIds : parked'[x] = parked[x] \/ parked[x] = None
    BY <2>1, <2>2 DEF CheckoutTypeOK
  <2> QED BY <2>1, <2>3, <1>1, <1>3
<1>6. CASE ResumeHeld(t)
  <2>1. PICK h \in HeldIds :
          /\ Parked(h)
          /\ till' = [till EXCEPT ![t].cart = parked[h].cart, ![t].token = parked[h].token,
                                  ![t].resumed = h, ![t].told = None]
          /\ UNCHANGED <<webVars, sales, parked, prefix, renames, sequence, posts>>
    BY <1>6 DEF ResumeHeld
  <2>2. parked[h] \in HeldSale /\ parked[h] # None
    BY <2>1 DEF Parked, CheckoutTypeOK
  <2>3. PICK row : row = [till[t] EXCEPT !.cart = parked[h].cart, !.token = parked[h].token,
                                         !.resumed = h, !.told = None]
    OBVIOUS
  <2>4. /\ row \in Till /\ till' = [till EXCEPT ![t] = row]
        /\ row.resumed = h /\ row.told = None
    BY <2>1, <2>2, <2>3, <1>0 DEF Till, HeldSale
  <2> QED BY <2>1, <2>2, <2>4, <1>1 DEF CheckoutTypeOK
<1>7. CASE NetworkError(t)
  <2>1. PICK row : row = [till[t] EXCEPT !.waits = None]
    OBVIOUS
  <2>2. /\ row \in Till /\ till' = [till EXCEPT ![t] = row]
        /\ row.resumed = till[t].resumed /\ row.told = till[t].told
    BY <2>1, <1>0, <1>7 DEF Till, NetworkError
  <2> QED BY <2>2, <1>1, <1>7 DEF NetworkError, ResumedIsThere, CheckoutTypeOK
<1>8. CASE \E h \in HeldIds : DeleteHeld(t, h)
  <2>1. PICK h \in HeldIds : DeleteHeld(t, h)
    BY <1>8
  <2>2. /\ parked' = [parked EXCEPT ![h] = Gone]
        /\ UNCHANGED <<webVars, sales, prefix, renames, sequence, till, posts>>
    BY <2>1 DEF DeleteHeld
  <2>3. parked'[h] = Gone /\ \A x \in HeldIds \ {h} : parked'[x] = parked[x]
    BY <2>2 DEF CheckoutTypeOK
  <2>4. CheckoutTypeOK' /\ AnswersAreOwn'
    BY <2>2 DEF CheckoutTypeOK, AnswersAreOwn
  <2>5. ResumedIsThere'
    BY <2>2, <2>3, CheckoutConstants DEF ResumedIsThere, CheckoutTypeOK, Till
  <2> QED BY <2>1, <2>2, <2>3, <2>4, <2>5, TabKeeps
<1> QED BY <1>2, <1>4, <1>5, <1>6, <1>7, <1>8

OwnAnswer(t, a, X) ==
    /\ a \in [sale : Sale, token : Token, cart : Carts]
    /\ a.sale \in X
    /\ a.sale.token = a.token /\ a.sale.cart.customer = a.cart.customer
    /\ a.sale.cashier = CashierOf[t] /\ a.sale.branch = BranchOf[t]
TabsKept ==
    /\ till' \in [Tills -> Till] /\ AnswersAreOwn'
    /\ \A t \in Tills : till'[t].resumed = till[t].resumed

LEMMA TellKeeps ==
    ASSUME CheckoutInv, NEW s \in Sessions, req[s].till \in Tills, NEW answer, Tell(s, answer),
           answer = None \/ OwnAnswer(req[s].till, answer, sales'), sales \subseteq sales'
    PROVE  TabsKept
<1> USE DEF CheckoutInv
<1>1. PICK t \in Tills : t = req[s].till
  OBVIOUS
<1>2. CASE till[t].waits = s
  <2>1. till' = [till EXCEPT ![t].waits = None, ![t].told = answer]
    BY <1>1, <1>2 DEF Tell
  <2>2. till[t] \in Till /\ answer \in {None} \cup [sale : Sale, token : Token, cart : Carts]
    BY <1>1 DEF CheckoutTypeOK, OwnAnswer
  <2>3. PICK row : row = [till[t] EXCEPT !.waits = None, !.told = answer]
    OBVIOUS
  <2>4. /\ row \in Till /\ row.resumed = till[t].resumed /\ row.told = answer
        /\ till'[t] = row /\ \A u \in Tills \ {t} : till'[u] = till[u]
        /\ till' \in [Tills -> Till]
    BY <2>1, <2>2, <2>3 DEF Till, CheckoutTypeOK
  <2>5. AnswersAreOwn'
    BY <2>4, <1>1 DEF AnswersAreOwn, OwnAnswer
  <2> QED BY <2>4, <2>5 DEF TabsKept
<1>3. CASE till[t].waits # s
  <2>1. till' = till
    BY <1>1, <1>3 DEF Tell
  <2> QED BY <2>1 DEF TabsKept, AnswersAreOwn, CheckoutTypeOK
<1> QED BY <1>2, <1>3

LEMMA ReplayKeeps ==
    ASSUME CheckoutInv, NEW s \in Sessions, SoundCheckout(s), NEW x \in SoldUnder(req[s].token),
           Replay(s, x), sales' = sales
    PROVE  TabsKept
<1> USE DEF CheckoutInv
<1>1. req[s] \in CheckoutRequest /\ req[s].till \in Tills
  BY DEF SoundCheckout, CheckoutRequest
<1>2. CASE OwnSale(s, x)
  <2>1. OwnAnswer(req[s].till, Sold(s, x), sales')
    BY <1>1, <1>2 DEF OwnAnswer, Sold, SoldUnder, OwnSale, Cashier, BranchOfTill, CheckoutTypeOK,
                      CheckoutRequest
  <2> QED BY <1>1, <1>2, <2>1, TellKeeps DEF Replay
<1>3. CASE ~ OwnSale(s, x)
  BY <1>1, <1>3, TellKeeps DEF Replay
<1> QED BY <1>2, <1>3

\* A request that ends.
LEMMA CheckoutEnds ==
    ASSUME CheckoutInv, NEW s \in Sessions, End(s), TabsKept, prefix' = prefix,
           sequence' \in [Branches \cup {None} -> Nat],
           sales' \in SUBSET Sale, IsFiniteSet(sales'), OneSalePerToken', NumbersDiffer',
           sales' = sales \/ Business \in held[s],
           parked' \in [HeldIds -> HeldSale \cup {None, Gone}],
           \A h \in HeldIds :
              \/ parked'[h] = parked[h]
              \/ /\ parked'[h] = Gone
                 /\ \A r \in Sessions \ {s} : h \notin held[r]
                 /\ Parked(h) => \E x \in sales' : x.token = parked[h].token
    PROVE  CheckoutInv' /\ HeldStep
<1> USE DEF CheckoutInv
<1>1. /\ WebInv' /\ req'[s] = None
      /\ \A r \in Sessions \ {s} : /\ req'[r] = req[r] /\ want'[r] = want[r]
                                   /\ held'[r] = held[r] /\ seen'[r] = seen[r]
  BY EndKeeps
<1>2. CheckoutTypeOK'
  BY DEF CheckoutTypeOK, TabsKept
<1>3. \A h \in HeldIds : parked[h] # None => parked'[h] # None
  BY CheckoutConstants
<1>4. ResumedIsThere' /\ AnswersAreOwn'
  BY <1>3 DEF ResumedIsThere, TabsKept, CheckoutTypeOK, Till
<1>5. ASSUME NEW r \in Sessions, req'[r] # None PROVE SoundCheckout(r)'
  <2>1. r # s /\ SoundCheckout(r)
    BY <1>1, <1>5
  <2>2. PICK h : h = req[r].resumed
    OBVIOUS
  <2>3. h \in HeldIds \cup {None}
    BY <2>1, <2>2 DEF SoundCheckout, CheckoutRequest
  <2>4. h # None => parked'[h] # None
    BY <2>1, <2>2, <2>3, <1>3 DEF SoundCheckout
  <2>5. h # None /\ h \in held[r] => parked'[h] = parked[h]
    BY <2>1, <2>3
  <2>6. Business \in held[r] => sales' = sales
    BY <2>1 DEF WebInv, Exclusive
  <2>7. req[r].op = "insert" => sales' = sales
    BY <2>1, <2>6 DEF SoundCheckout
  <2> QED BY <2>1, <2>2, <2>4, <2>5, <2>7, <1>1 DEF SoundCheckout, Parked, SoldUnder
<1>6. HeldStep
  BY DEF HeldStep, Parked
<1> QED BY <1>1, <1>2, <1>4, <1>5, <1>6

\* One that goes on: everything else stays.
LEMMA CheckoutGoesOn ==
    ASSUME CheckoutInv, NEW s \in Sessions, UNCHANGED <<sales, parked, prefix, sequence>>,
           WebInv', CheckoutTypeOK', ResumedIsThere', AnswersAreOwn',
           \A r \in Sessions \ {s} : /\ req'[r] = req[r] /\ want'[r] = want[r]
                                     /\ held'[r] = held[r] /\ seen'[r] = seen[r],
           req'[s] # None => SoundCheckout(s)'
    PROVE  CheckoutInv' /\ HeldStep
<1> USE DEF CheckoutInv
<1>1. ASSUME NEW r \in Sessions \ {s}, req'[r] # None PROVE SoundCheckout(r)'
  BY <1>1 DEF SoundCheckout, Parked, SoldUnder
<1>2. OneSalePerToken' /\ NumbersDiffer' /\ HeldStep
  <2>1. HeldStep
    BY DEF HeldStep, Parked
  <2> QED BY <2>1 DEF OneSalePerToken, NumbersDiffer
<1> QED BY <1>1, <1>2

LEMMA PostKeeps ==
    ASSUME CheckoutInv, NEW t \in Tills, NEW s \in Sessions, Post(t, s)
    PROVE  CheckoutInv' /\ HeldStep
<1> USE DEF CheckoutInv
<1>1. PICK h : h = till[t].resumed
  OBVIOUS
<1>2. PICK stage : stage = (CASE SoldUnder(till[t].token) # {} -> "replay"
                              [] h # None -> "held"
                              [] OTHER -> "sell")
  OBVIOUS
<1>3. PICK asked : asked = (CASE stage = "replay" -> <<>>
                            [] stage = "held" -> <<h>>
                            [] OTHER -> <<BranchOf[t]>>)
  OBVIOUS
<1>4. PICK q : q = [op |-> stage, till |-> t, cart |-> till[t].cart,
                    token |-> till[t].token, resumed |-> h, number |-> None]
  OBVIOUS
<1>5. /\ Begin(s, q, asked) /\ till' = [till EXCEPT ![t].waits = s]
      /\ UNCHANGED <<sales, parked, prefix, sequence>>
  BY <1>1, <1>2, <1>3, <1>4 DEF Post
<1>6. /\ stage \in {"replay", "held", "sell"}
      /\ stage = "held" => h # None /\ asked = << h >>
      /\ stage = "sell" => h = None
  BY <1>2, <1>3
<1>7. /\ WebInv' /\ held' = held /\ seen' = seen
      /\ req'[s] = q /\ want'[s] = asked
      /\ \A r \in Sessions \ {s} : req'[r] = req[r] /\ want'[r] = want[r]
  BY <1>5, BeginKeeps
<1>8. till[t] \in Till
  BY DEF CheckoutTypeOK
<1>9. /\ till' \in [Tills -> Till]
      /\ \A u \in Tills : till'[u].resumed = till[u].resumed /\ till'[u].told = till[u].told
  BY <1>5, <1>8 DEF CheckoutTypeOK, Till
<1>10. CheckoutTypeOK' /\ ResumedIsThere' /\ AnswersAreOwn'
  BY <1>5, <1>9 DEF CheckoutTypeOK, ResumedIsThere, AnswersAreOwn
<1>11. SoundCheckout(s)'
  <2>1. q \in CheckoutRequest
    BY <1>1, <1>4, <1>6, <1>8 DEF CheckoutRequest, Till, Stages
  <2>2. h # None => parked[h] # None
    BY <1>1 DEF ResumedIsThere
  <2>3. q.op = stage /\ q.resumed = h
    BY <1>4
  <2> QED BY <2>1, <2>2, <2>3, <1>5, <1>6, <1>7 DEF SoundCheckout
<1> QED BY <1>5, <1>7, <1>10, <1>11, CheckoutGoesOn

LEMMA CheckoutLocks ==
    ASSUME CheckoutInv, NEW s \in Sessions, LockCheckout(s)
    PROVE  CheckoutInv' /\ HeldStep
<1> USE DEF CheckoutInv
<1> DEFINE row == Head(want[s])
           f == [x \in DOMAIN seen[s] \cup {row} |->
                    IF x = row THEN CheckoutRow(x) ELSE seen[s][x]]
<1>1. Take(s) /\ seen' = [seen EXCEPT ![s] = f] /\ req' = req /\ UNCHANGED checkoutVars
  BY DEF LockCheckout, ReadLocked
<1>2. /\ WebInv' /\ held'[s] = held[s] \cup {row} /\ want'[s] = Tail(want[s]) /\ seen'[s] = f
      /\ \A r \in Sessions \ {s} :
           held'[r] = held[r] /\ want'[r] = want[r] /\ seen'[r] = seen[r]
  <2>1. DOMAIN f = DOMAIN seen[s] \cup {Head(want[s])}
    OBVIOUS
  <2> HIDE DEF f
  <2> QED BY <1>1, <2>1, TakeKeeps
<1>3. CheckoutTypeOK' /\ ResumedIsThere' /\ AnswersAreOwn'
  BY <1>1 DEF checkoutVars, CheckoutTypeOK, ResumedIsThere, AnswersAreOwn
<1>4. ASSUME req'[s] # None PROVE SoundCheckout(s)'
  <2>0. PICK h : h = req[s].resumed
    OBVIOUS
  <2>1. SoundCheckout(s) /\ h \in HeldIds \cup {None} /\ want[s] # <<>>
    BY <2>0, <1>1, <1>4 DEF SoundCheckout, CheckoutRequest, Take
  <2>2. \A x : Head(<< x >>) = x /\ Tail(<< x >>) = <<>>
    OBVIOUS
  <2>3. req[s].op = "held" => /\ h \in HeldIds /\ row = h /\ want'[s] = <<>>
                              /\ h \in held'[s] /\ seen'[s][h] = parked[h]
    <3>1. req[s].op = "held" => h \in HeldIds /\ want[s] = << h >>
      BY <2>0, <2>1 DEF SoundCheckout
    <3>2. req[s].op = "held" => row = h /\ Tail(want[s]) = <<>>
      BY <3>1, <2>2
    <3>3. \A x : x \in HeldIds /\ x = row => f[x] = parked[x]
      BY DEF CheckoutRow
    <3> HIDE DEF f
    <3> QED BY <3>1, <3>2, <3>3, <1>2
  <2>4. req[s].op = "number" => want'[s] = <<>> /\ Business \in held'[s]
    <3>1. req[s].op = "number" => want[s] = << Business >>
      BY <2>1 DEF SoundCheckout
    <3> QED BY <3>1, <2>2, <1>2
  <2>5. req[s].op # "insert"
    BY <2>1 DEF SoundCheckout
  <2> HIDE DEF row, f
  <2> QED BY <2>0, <2>1, <2>3, <2>4, <2>5, <1>1, <1>2 DEF SoundCheckout, checkoutVars, Parked
<1> QED BY <1>1, <1>2, <1>3, <1>4, CheckoutGoesOn DEF checkoutVars

\* A cart that leaves with a sale: Without(h), where no other request holds h.
LEMMA WithoutCart ==
    ASSUME CheckoutInv, NEW s \in Sessions, NEW h \in HeldIds \cup {None},
           parked' = Without(h),
           h # None => \A r \in Sessions \ {s} : h \notin held[r],
           h # None => \E x \in sales' : x.token = parked[h].token
    PROVE  /\ parked' \in [HeldIds -> HeldSale \cup {None, Gone}]
           /\ \A x \in HeldIds :
                \/ parked'[x] = parked[x]
                \/ /\ parked'[x] = Gone
                   /\ \A r \in Sessions \ {s} : x \notin held[r]
                   /\ Parked(x) => \E y \in sales' : y.token = parked[x].token
BY CheckoutConstants DEF CheckoutInv, CheckoutTypeOK, Without

LEMMA FindSaleKeeps ==
    ASSUME CheckoutInv, NEW s \in Sessions, FindSale(s)
    PROVE  CheckoutInv' /\ HeldStep
<1> USE DEF CheckoutInv
<1>1. PICK x \in SoldUnder(req[s].token) :
        /\ Replay(s, x)
        /\ LET h == req[s].resumed
           IN  IF h # None /\ OwnSale(s, x) /\ Carried(s, h)
               THEN HeldIsFree(h) /\ parked' = Without(h)
               ELSE UNCHANGED parked
  BY DEF FindSale
<1>2. /\ End(s) /\ UNCHANGED <<sales, prefix, renames, sequence, posts>>
      /\ SoundCheckout(s) /\ req[s] \in CheckoutRequest
  BY DEF FindSale, Ready, SoundCheckout
<1>3. PICK h \in HeldIds \cup {None} : h = req[s].resumed
  BY <1>2 DEF CheckoutRequest
<1>4. TabsKept
  BY <1>1, <1>2, ReplayKeeps
<1>5. /\ parked' \in [HeldIds -> HeldSale \cup {None, Gone}]
      /\ \A y \in HeldIds :
           \/ parked'[y] = parked[y]
           \/ /\ parked'[y] = Gone
              /\ \A r \in Sessions \ {s} : y \notin held[r]
              /\ Parked(y) => \E z \in sales' : z.token = parked[y].token
  <2>1. CASE h # None /\ OwnSale(s, x) /\ Carried(s, h)
    <3>1. parked' = Without(h) /\ \A r \in Sessions : h \notin held[r]
      BY <1>1, <1>3, <2>1 DEF HeldIsFree
    <3>2. x \in sales' /\ x.token = parked[h].token
      BY <1>2, <1>3, <2>1 DEF SoldUnder, Carried
    <3> QED BY <3>1, <3>2, WithoutCart
  <2>2. CASE ~ (h # None /\ OwnSale(s, x) /\ Carried(s, h))
    BY <1>1, <1>3, <2>2 DEF CheckoutTypeOK
  <2> QED BY <2>1, <2>2
<1>6. sales' \in SUBSET Sale /\ IsFiniteSet(sales') /\ OneSalePerToken' /\ NumbersDiffer'
      /\ sequence' \in [Branches \cup {None} -> Nat]
  BY <1>2 DEF CheckoutTypeOK, OneSalePerToken, NumbersDiffer
<1> QED BY <1>2, <1>4, <1>5, <1>6, CheckoutEnds

\* The checks behind the locks find a sale of the token.
LEMMA FoundAgainKeeps ==
    ASSUME CheckoutInv, NEW s \in Sessions, req[s] # None, req[s].op \in {"sell", "number"},
           NEW x \in SoldUnder(req[s].token), Replay(s, x),
           parked' = IF OwnSale(s, x) THEN Without(req[s].resumed) ELSE parked,
           End(s), UNCHANGED <<sales, prefix, renames, sequence, posts>>
    PROVE  CheckoutInv' /\ HeldStep
<1> USE DEF CheckoutInv
<1>2. SoundCheckout(s) /\ req[s] \in CheckoutRequest
  BY DEF SoundCheckout
<1>3. PICK h \in HeldIds \cup {None} : h = req[s].resumed
  BY <1>2 DEF CheckoutRequest
<1>4. TabsKept
  BY <1>2, ReplayKeeps
<1>5. /\ parked' \in [HeldIds -> HeldSale \cup {None, Gone}]
      /\ \A y \in HeldIds :
           \/ parked'[y] = parked[y]
           \/ /\ parked'[y] = Gone
              /\ \A r \in Sessions \ {s} : y \notin held[r]
              /\ Parked(y) => \E z \in sales' : z.token = parked[y].token
  <2>1. CASE OwnSale(s, x)
    <3>1. h # None => h \in held[s] /\ parked[h].token = req[s].token
      BY <1>2, <1>3 DEF SoundCheckout
    <3>2. x \in sales' /\ x.token = req[s].token
      BY DEF SoldUnder
    <3>3. h # None => \A r \in Sessions \ {s} : h \notin held[r]
      BY <3>1 DEF WebInv, Exclusive
    <3>4. parked' = Without(h)
      BY <2>1, <1>3
    <3> QED BY <3>1, <3>2, <3>3, <3>4, WithoutCart
  <2>2. CASE ~ OwnSale(s, x)
    BY <2>2 DEF CheckoutTypeOK
  <2> QED BY <2>1, <2>2
<1>6. sales' \in SUBSET Sale /\ IsFiniteSet(sales') /\ OneSalePerToken' /\ NumbersDiffer'
      /\ sequence' \in [Branches \cup {None} -> Nat]
  BY DEF CheckoutTypeOK, OneSalePerToken, NumbersDiffer
<1> QED BY <1>4, <1>5, <1>6, CheckoutEnds

LEMMA TokenCollisionKeeps ==
    ASSUME CheckoutInv, NEW s \in Sessions, TokenCollision(s)
    PROVE  CheckoutInv' /\ HeldStep
BY FoundAgainKeeps DEF TokenCollision, Ready

LEMMA RefuseSaleKeeps ==
    ASSUME CheckoutInv, NEW s \in Sessions, RefuseSale(s)
    PROVE  CheckoutInv' /\ HeldStep
<1> USE DEF CheckoutInv
<1>1. /\ req[s].till \in Tills /\ Tell(s, None) /\ End(s)
      /\ UNCHANGED <<sales, parked, prefix, renames, sequence, posts>>
  BY DEF RefuseSale, SoundCheckout, CheckoutRequest
<1>2. TabsKept
  BY <1>1, TellKeeps
<1> QED BY <1>1, <1>2, CheckoutEnds DEF CheckoutTypeOK, OneSalePerToken, NumbersDiffer

\* One that goes on with another row to lock.
LEMMA AdvanceKeeps ==
    ASSUME CheckoutInv, NEW s \in Sessions, NEW stage, NEW asked, Advance(s, stage, asked)
    PROVE  /\ WebInv' /\ req'[s] = [req[s] EXCEPT !.op = stage] /\ want'[s] = asked
           /\ held' = held /\ seen' = seen
           /\ \A r \in Sessions \ {s} : req'[r] = req[r] /\ want'[r] = want[r]
BY DEF CheckoutInv, WebInv, Advance, Ask, Exclusive

LEMMA CheckHeldKeeps ==
    ASSUME CheckoutInv, NEW s \in Sessions, CheckHeld(s)
    PROVE  CheckoutInv' /\ HeldStep
<1> USE DEF CheckoutInv
<1>1. /\ Ready(s) /\ req[s].op = "held" /\ UNCHANGED <<sales, parked, prefix, renames, sequence, posts>>
      /\ SoundCheckout(s) /\ req[s] \in CheckoutRequest
  BY DEF CheckHeld, Ready, SoundCheckout
<1>2. PICK h \in HeldIds \cup {None} : h = req[s].resumed
  BY <1>1 DEF CheckoutRequest
<1>3. PICK c : c = seen[s][h]
  OBVIOUS
<1>4. h # None /\ parked[h] # None /\ h \in held[s] /\ c = parked[h]
  BY <1>1, <1>2, <1>3 DEF SoundCheckout, Ready
<1>5. PICK mine : mine = (c # Gone /\ c.cashier = Cashier(s))
  OBVIOUS
<1>6. PICK own : own = {x \in SoldUnder(req[s].token) : OwnSale(s, x)}
  OBVIOUS
<1>7. \/ /\ mine /\ c.branch = BranchOfTill(s) /\ c.token = req[s].token
         /\ Advance(s, "sell", <<BranchOfTill(s)>>) /\ UNCHANGED till
      \/ /\ End(s)
         /\ \/ own # {} /\ Tell(s, Sold(s, CHOOSE x \in own : TRUE))
            \/ Tell(s, None)
  BY <1>2, <1>3, <1>5, <1>6 DEF CheckHeld
<1>8. CASE /\ mine /\ c.branch = BranchOfTill(s) /\ c.token = req[s].token
           /\ Advance(s, "sell", <<BranchOfTill(s)>>) /\ UNCHANGED till
  <2>1. /\ WebInv' /\ req'[s] = [req[s] EXCEPT !.op = "sell"]
        /\ held' = held /\ seen' = seen
        /\ \A r \in Sessions \ {s} : req'[r] = req[r] /\ want'[r] = want[r]
    BY <1>8, AdvanceKeeps
  <2>2. CheckoutTypeOK' /\ ResumedIsThere' /\ AnswersAreOwn'
    BY <1>1, <1>8 DEF CheckoutTypeOK, ResumedIsThere, AnswersAreOwn
  <2>3. PICK q : q = req'[s]
    OBVIOUS
  <2>4. /\ q \in CheckoutRequest /\ q.op = "sell" /\ q.resumed = h
        /\ q.token = req[s].token
    BY <2>1, <2>3, <1>1, <1>2 DEF CheckoutRequest, Stages
  <2>5. Parked(h) /\ parked[h].token = req[s].token
    BY <1>4, <1>5, <1>8 DEF Parked
  <2>6. SoundCheckout(s)'
    BY <2>1, <2>3, <2>4, <2>5, <1>1, <1>4 DEF SoundCheckout, Parked
  <2> QED BY <2>1, <2>2, <2>6, <1>1, CheckoutGoesOn
<1>9. CASE /\ End(s)
           /\ \/ own # {} /\ Tell(s, Sold(s, CHOOSE x \in own : TRUE))
              \/ Tell(s, None)
  <2>1. TabsKept
    <3>1. CASE own # {} /\ Tell(s, Sold(s, CHOOSE x \in own : TRUE))
      <4>1. PICK x : x = (CHOOSE y \in own : TRUE)
        OBVIOUS
      <4>2. x \in SoldUnder(req[s].token) /\ OwnSale(s, x) /\ Tell(s, Sold(s, x))
        BY <3>1, <4>1, <1>6
      <4> QED BY <4>2, <1>1, ReplayKeeps DEF Replay
    <3>2. CASE Tell(s, None)
      BY <3>2, <1>1, TellKeeps DEF CheckoutRequest
    <3> QED BY <3>1, <3>2, <1>9
  <2> QED BY <2>1, <1>1, <1>9, CheckoutEnds DEF CheckoutTypeOK, OneSalePerToken, NumbersDiffer
<1> QED BY <1>7, <1>8, <1>9

LEMMA RecheckKeeps ==
    ASSUME CheckoutInv, NEW s \in Sessions, Recheck(s)
    PROVE  CheckoutInv' /\ HeldStep
<1> USE DEF CheckoutInv
<1>1. /\ Ready(s) /\ req[s] # None /\ req[s].op = "sell"
      /\ UNCHANGED <<sales, prefix, renames, sequence, posts>>
      /\ SoundCheckout(s) /\ req[s] \in CheckoutRequest
  BY DEF Recheck, Ready, SoundCheckout
<1>2. CASE SoldUnder(req[s].token) = {}
  <2>0. Advance(s, "number", <<Business>>) /\ UNCHANGED <<till, parked>>
    BY <1>2 DEF Recheck
  <2>1. /\ WebInv' /\ req'[s] = [req[s] EXCEPT !.op = "number"] /\ want'[s] = <<Business>>
        /\ held' = held /\ seen' = seen
        /\ \A r \in Sessions \ {s} : req'[r] = req[r] /\ want'[r] = want[r]
    BY <2>0, AdvanceKeeps
  <2>2. CheckoutTypeOK' /\ ResumedIsThere' /\ AnswersAreOwn'
    BY <1>1, <2>0 DEF CheckoutTypeOK, ResumedIsThere, AnswersAreOwn
  <2>3. PICK q : q = req'[s]
    OBVIOUS
  <2>4. /\ q \in CheckoutRequest /\ q.op = "number" /\ q.resumed = req[s].resumed
        /\ q.token = req[s].token
    BY <2>1, <2>3, <1>1 DEF CheckoutRequest, Stages
  <2>5. SoundCheckout(s)'
    BY <2>0, <2>1, <2>3, <2>4, <1>1 DEF SoundCheckout, Parked
  <2> QED BY <2>0, <2>1, <2>2, <2>5, <1>1, CheckoutGoesOn
<1>3. CASE SoldUnder(req[s].token) # {}
  BY <1>1, <1>3, FoundAgainKeeps DEF Recheck
<1> QED BY <1>2, <1>3

\* The number that next_invoice_number gives is free among all sales.
LEMMA NextNumberIsFree ==
    ASSUME CheckoutTypeOK, NEW b \in Branches
    PROVE  /\ Base(b) \in NumberBase /\ Counter(b) \in Branches \cup {None}
           /\ NextNumber(b) \in Nat \ {0}
           /\ \A x \in sales : x.number # << Base(b), NextNumber(b) >>
<1>1. Counter(b) \in Branches \cup {None}
  BY DEF Counter
<1>2. Base(b) \in NumberBase
  <2>1. \A S : \A x \in S : << x >> \in Seq(S)
    OBVIOUS
  <2>2. \A S : \A x, y \in S : << x, y >> \in Seq(S)
    OBVIOUS
  <2>3. prefix[b] # None => prefix[b] \in InvoicePrefixes \cup Branches \cup {"INV"}
    BY DEF CheckoutTypeOK
  <2>4. PICK S : S = InvoicePrefixes \cup Branches \cup {"INV"}
    OBVIOUS
  <2>5. "INV" \in S /\ b \in S
    BY <2>4
  <2> QED BY <2>1, <2>2, <2>3, <2>4, <2>5 DEF Base, NumberBase
<1>3. PICK base : base = Base(b)
  OBVIOUS
<1>4. PICK next \in Nat : next = sequence[Counter(b)] + 1 /\ next > 0
  BY <1>1 DEF CheckoutTypeOK
<1>5. PICK S : S = {y \in sales : y.number[1] = base}
  OBVIOUS
<1>6. PICK used : used = {x.number[2] : x \in S}
  OBVIOUS
<1>7. used \subseteq Nat
  BY <1>5, <1>6 DEF CheckoutTypeOK, Sale
<1>8. IsFiniteSet(used)
  <2>1. IsFiniteSet(S)
    BY <1>5, FS_Subset DEF CheckoutTypeOK
  <2>2. PICK f : f = [x \in S |-> x.number[2]]
    OBVIOUS
  <2>3. f \in Surjection(S, used)
    BY <2>2, <1>6 DEF Surjection
  <2> QED BY <2>1, <2>3, FS_Surjection
<1>9. NextNumber(b) = IF next \in used THEN Max(used \cup {next}) + 1 ELSE next
  BY <1>3, <1>4, <1>5, <1>6 DEF NextNumber, NumbersUnder
<1>10. NextNumber(b) \in Nat \ {0} /\ NextNumber(b) \notin used
  <2>1. CASE next \in used
    <3>1. /\ IsFiniteSet(used \cup {next}) /\ used \cup {next} # {}
          /\ used \cup {next} \subseteq Int
      BY <1>7, <1>8, FS_AddElement
    <3>2. PICK m : m = Max(used \cup {next})
      OBVIOUS
    <3>3. m \in used \cup {next} /\ \A y \in used \cup {next} : y <= m
      BY <3>1, <3>2, FiniteHasMax
    <3>4. m \in Nat
      BY <3>3, <1>7
    <3>5. m + 1 \notin used
      BY <3>3, <3>4
    <3> QED BY <3>2, <3>4, <3>5, <2>1, <1>9
  <2>2. CASE next \notin used
    BY <2>2, <1>4, <1>9
  <2> QED BY <2>1, <2>2
<1>11. ASSUME NEW x \in sales, x.number = << base, NextNumber(b) >> PROVE FALSE
  <2>1. x.number[1] = base /\ x.number[2] = NextNumber(b)
    BY <1>11
  <2> QED BY <2>1, <1>5, <1>6, <1>10
<1> QED BY <1>1, <1>2, <1>3, <1>10, <1>11

LEMMA NumberSaleKeeps ==
    ASSUME CheckoutInv, NEW s \in Sessions, NumberSale(s)
    PROVE  CheckoutInv' /\ HeldStep
<1> USE DEF CheckoutInv
<1>1. /\ req[s] # None /\ req[s].op = "number" /\ want[s] = <<>>
      /\ SoldUnder(req[s].token) = {}
      /\ UNCHANGED <<want, held, seen, checkoutVars>>
      /\ SoundCheckout(s) /\ req[s] \in CheckoutRequest
  BY DEF NumberSale, Ready, SoundCheckout
<1>2. PICK b \in Branches : b = BranchOfTill(s)
  BY <1>1, CheckoutConstants DEF BranchOfTill, CheckoutRequest
<1>3. PICK n, m, c : n = Base(b) /\ m = NextNumber(b) /\ c = Counter(b)
  OBVIOUS
<1>4. /\ n \in NumberBase /\ m \in Nat \ {0} /\ c \in Branches \cup {None}
      /\ \A x \in sales : x.number # << n, m >>
  BY <1>3, NextNumberIsFree
<1>5. req' = [req EXCEPT ![s].op = "insert", ![s].number = << n, m, c >>]
  BY <1>2, <1>3 DEF NumberSale
<1>6. /\ WebInv' /\ req'[s] = [req[s] EXCEPT !.op = "insert", !.number = << n, m, c >>]
      /\ \A r \in Sessions \ {s} : req'[r] = req[r]
  BY <1>1, <1>5 DEF WebInv, Exclusive
<1>7. PICK q : q = req'[s]
  OBVIOUS
<1>8. << n, m, c >> \in GivenNumber
  BY <1>4 DEF GivenNumber
<1>9. /\ q \in CheckoutRequest /\ q.op = "insert" /\ q.resumed = req[s].resumed
      /\ q.token = req[s].token /\ q.number = << n, m, c >>
  BY <1>1, <1>6, <1>7, <1>8 DEF CheckoutRequest, Stages
<1>10. q.number[1] = n /\ q.number[2] = m
  BY <1>9
<1>11. SoundCheckout(s)'
  BY <1>1, <1>4, <1>7, <1>8, <1>9, <1>10 DEF SoundCheckout, Parked, SoldUnder, checkoutVars
<1>12. CheckoutTypeOK' /\ ResumedIsThere' /\ AnswersAreOwn'
  BY <1>1 DEF checkoutVars, CheckoutTypeOK, ResumedIsThere, AnswersAreOwn
<1> QED BY <1>1, <1>6, <1>11, <1>12, CheckoutGoesOn DEF checkoutVars

LEMMA CommitSaleKeeps ==
    ASSUME CheckoutInv, NEW s \in Sessions, CommitSale(s)
    PROVE  CheckoutInv' /\ HeldStep
<1> USE DEF CheckoutInv
<1>1. /\ req[s] # None /\ req[s].op = "insert" /\ want[s] = <<>> /\ End(s)
      /\ parked' = Without(req[s].resumed) /\ UNCHANGED <<prefix, renames, posts>>
      /\ SoundCheckout(s) /\ req[s] \in CheckoutRequest
  BY DEF CommitSale, Ready, SoundCheckout
<1>2. PICK n : n = NewSaleOf(s)
  OBVIOUS
<1>3. /\ sales' = sales \cup {n} /\ Tell(s, Sold(s, n))
      /\ sequence' = [sequence EXCEPT ![req[s].number[3]] = req[s].number[2]]
  BY <1>2 DEF CommitSale
<1>4. PICK h \in HeldIds \cup {None} : h = req[s].resumed
  BY <1>1 DEF CheckoutRequest
<1>5. PICK i, j, k : /\ i \in NumberBase /\ j \in Nat \ {0} /\ k \in Branches \cup {None}
                     /\ req[s].number = << i, j, k >>
  BY <1>1 DEF SoundCheckout, GivenNumber
<1>6. req[s].number[1] = i /\ req[s].number[2] = j /\ req[s].number[3] = k
  BY <1>5
<1>7. /\ Cashier(s) \in {CashierOf[t] : t \in Tills} /\ BranchOfTill(s) \in Branches
      /\ req[s].till \in Tills /\ req[s].cart \in Carts /\ req[s].token \in Token
  BY <1>1, CheckoutConstants DEF CheckoutRequest, Cashier, BranchOfTill
<1>8. n \in Sale
  <2>1. << i, j >> \in NumberBase \X (Nat \ {0})
    BY <1>5
  <2> QED BY <2>1, <1>2, <1>6, <1>7 DEF NewSaleOf, Sale, NumberBase
<1>9. /\ n.token = req[s].token /\ n.number = << i, j >> /\ n.cart = req[s].cart
      /\ n.cashier = Cashier(s) /\ n.branch = BranchOfTill(s)
  BY <1>2, <1>6 DEF NewSaleOf
<1>10. /\ \A x \in sales : x.token # n.token
       /\ \A x \in sales : x.number # n.number
  BY <1>1, <1>6, <1>9 DEF SoundCheckout, SoldUnder
<1>11. OneSalePerToken' /\ NumbersDiffer'
  BY <1>3, <1>10 DEF OneSalePerToken, NumbersDiffer
<1>12. sales' \in SUBSET Sale /\ IsFiniteSet(sales')
  BY <1>3, <1>8, FS_AddElement DEF CheckoutTypeOK
<1>13. sequence' \in [Branches \cup {None} -> Nat]
  BY <1>3, <1>5, <1>6 DEF CheckoutTypeOK
<1>14. TabsKept
  <2>1. OwnAnswer(req[s].till, Sold(s, n), sales')
    BY <1>3, <1>7, <1>8, <1>9 DEF OwnAnswer, Sold, Cashier, BranchOfTill
  <2> QED BY <2>1, <1>3, <1>7, TellKeeps
<1>15. /\ parked' \in [HeldIds -> HeldSale \cup {None, Gone}]
       /\ \A y \in HeldIds :
            \/ parked'[y] = parked[y]
            \/ /\ parked'[y] = Gone
               /\ \A r \in Sessions \ {s} : y \notin held[r]
               /\ Parked(y) => \E z \in sales' : z.token = parked[y].token
  <2>1. h # None => h \in held[s] /\ parked[h].token = req[s].token
    BY <1>1, <1>4 DEF SoundCheckout
  <2>2. n \in sales'
    BY <1>3
  <2>3. h # None => \A r \in Sessions \ {s} : h \notin held[r]
    BY <2>1 DEF WebInv, Exclusive
  <2> QED BY <2>1, <2>2, <2>3, <1>1, <1>4, <1>9, WithoutCart
<1>16. Business \in held[s]
  BY <1>1 DEF SoundCheckout
<1> QED BY <1>1, <1>11, <1>12, <1>13, <1>14, <1>15, <1>16, CheckoutEnds

LEMMA RenameKeeps ==
    ASSUME CheckoutInv, NEW b \in Branches, RenamePrefix(b)
    PROVE  CheckoutInv' /\ HeldStep
<1> USE DEF CheckoutInv
<1>1. /\ prefix' \in [Branches -> InvoicePrefixes]
      /\ UNCHANGED <<webVars, sales, parked, sequence, till, posts>>
  BY DEF RenamePrefix, CheckoutTypeOK
<1>2. /\ want' = want /\ held' = held /\ req' = req /\ seen' = seen
  BY <1>1 DEF webVars
<1>3. CheckoutTypeOK' /\ WebInv' /\ ResumedIsThere' /\ OneSalePerToken' /\ NumbersDiffer' /\ AnswersAreOwn'
  BY <1>1, <1>2 DEF CheckoutTypeOK, WebInv, Exclusive, ResumedIsThere, OneSalePerToken, NumbersDiffer, AnswersAreOwn
<1>4. \A s \in Sessions : req'[s] # None => SoundCheckout(s)'
  BY <1>1, <1>2 DEF SoundCheckout, Parked, SoldUnder
<1>5. HeldStep
  BY <1>1 DEF HeldStep, Parked
<1> QED BY <1>3, <1>4, <1>5

LEMMA CheckoutStepKeeps ==
    ASSUME CheckoutInv, [CheckoutNext]_allCheckoutVars
    PROVE  CheckoutInv' /\ HeldStep
<1>1. CASE CheckoutNext
  BY <1>1, TabSteps, PostKeeps, RenameKeeps, FindSaleKeeps, CheckoutLocks, CheckHeldKeeps,
     RecheckKeeps, NumberSaleKeeps, TokenCollisionKeeps, CommitSaleKeeps, RefuseSaleKeeps
     DEF CheckoutNext, CheckoutStep
<1>2. CASE UNCHANGED allCheckoutVars
  <2> USE <1>2 DEF allCheckoutVars, webVars, checkoutVars
  <2>1. CheckoutTypeOK' /\ WebInv' /\ ResumedIsThere' /\ OneSalePerToken' /\ NumbersDiffer'
        /\ AnswersAreOwn'
    BY DEF CheckoutInv, CheckoutTypeOK, WebInv, Exclusive, ResumedIsThere, OneSalePerToken,
           NumbersDiffer, AnswersAreOwn
  <2>2. \A s \in Sessions : req'[s] # None => SoundCheckout(s)'
    BY DEF CheckoutInv, SoundCheckout, Parked, SoldUnder
  <2>3. HeldStep
    BY DEF HeldStep, Parked
  <2> QED BY <2>1, <2>2, <2>3 DEF CheckoutInv
<1> QED BY <1>1, <1>2

LEMMA CheckoutStarts ==
    CheckoutInit => CheckoutInv
<1> SUFFICES ASSUME CheckoutInit PROVE CheckoutInv
  OBVIOUS
<1> USE DEF CheckoutInit
<1>1. WebInv
  BY WebInitInv
<1>2. CheckoutTypeOK
  <2>1. AnyCart \in Carts
    BY CheckoutConstants DEF AnyCart
  <2>2. \A t \in Tills : << t, 1 >> \in Token
    BY CheckoutConstants DEF Token
  <2>3. \A t \in Tills : [cart |-> AnyCart, token |-> <<t, 1>>, drawn |-> 1,
                          resumed |-> None, waits |-> None, told |-> None] \in Till
    <3>1. 1 \in 1 .. MaxToken
      BY CheckoutConstants
    <3> QED BY <2>1, <2>2, <3>1 DEF Till
  <2> QED BY <2>3, CheckoutConstants, FS_EmptySet DEF CheckoutTypeOK
<1>3. \A s \in Sessions : req[s] = None
  BY DEF WebInit
<1> QED BY <1>1, <1>2, <1>3 DEF CheckoutInv, ResumedIsThere, OneSalePerToken, NumbersDiffer,
                                AnswersAreOwn

\* What every state of the checkout satisfies.
THEOREM CheckoutInvariant ==
    CheckoutSpec => []CheckoutInv
<1>1. CheckoutInv /\ [CheckoutNext]_allCheckoutVars => CheckoutInv'
  BY CheckoutStepKeeps
<1> QED BY CheckoutStarts, <1>1, PTL DEF CheckoutSpec

LEMMA InsertsAreFree ==
    CheckoutInv => OneSalePerToken /\ NumbersAreFree /\ AnswersAreOwn
BY DEF CheckoutInv, NumbersAreFree, NumbersDiffer, SoundCheckout

\* A cart is sold once, under a number that is free, each till is answered with
\* a sale of its own, and a parked cart leaves with the sale of its token.
THEOREM CheckoutsAreSafe ==
    CheckoutSpec => CheckoutIsSafe
<1>1. CheckoutInv /\ [CheckoutNext]_allCheckoutVars => [HeldStep]_allCheckoutVars
  BY CheckoutStepKeeps
<1>2. CheckoutSpec => [][HeldStep]_allCheckoutVars
  BY <1>1, CheckoutInvariant, PTL DEF CheckoutSpec
<1>3. CheckoutSpec => HeldLeavesWithSale
  BY <1>2, PTL DEF HeldLeavesWithSale, HeldStep
<1>4. CheckoutSpec => [](OneSalePerToken /\ NumbersAreFree /\ AnswersAreOwn)
  BY CheckoutInvariant, InsertsAreFree, PTL
<1> QED BY <1>3, <1>4 DEF CheckoutIsSafe
=============================================================================
