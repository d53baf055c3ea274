----------------------------- MODULE SalesLedger -----------------------------
(***************************************************************************)
(* What a sale, its customer and its goods owe each other: complete_sale,  *)
(* add_sale_payment, void_sale and process_return of apps/sales/services.py*)
(* and record_customer_payment of apps/customers/services.py, run by       *)
(* several sessions over the row locks they take.                          *)
(*                                                                         *)
(* Amounts are whole numbers of the money unit (0.001).  A sale has one    *)
(* line.  What a request reads of a row is the row as it was when it was   *)
(* locked; what it updates with F() is added to the row as it is then.     *)
(* Checkout tokens and invoice numbers are in Checkout, stock movements in *)
(* StockLedger, cash drawers in CashDrawer.                                *)
(***************************************************************************)
EXTENDS RowLocks, Integers, FiniteSetsExt

CONSTANTS
    Sales,          \* identities of sales
    Customers,      \* named customers of one branch
    NoRow,          \* an empty place
    Carts,          \* what may be bought: quantity and total of the line
    Amounts,        \* bound: amounts that are paid later or collected
    Refunds,        \* bound: refund methods that are chosen
    Opening,        \* accounts as earlier sales have left them
    Limit,          \* credit limit of each customer; 0 is no limit
    Approvers       \* sessions whose user may exceed it (credit.approve)

Cart == [qty : Nat \ {0}, total : Nat \ {0}]

ASSUME SalesConstants ==
    /\ Sales \cap Customers = {}
    /\ Lockable = Sales \cup Customers \cup {"business", "branch"}
    /\ {"business", "branch"} \cap (Sales \cup Customers) = {}
    /\ NoRow \notin Sales \cup Customers
    /\ Carts \subseteq Cart
    /\ Amounts \subseteq Nat \ {0}
    /\ Refunds \subseteq {"money", "store", "account"}
    /\ Opening \in [Customers -> [owed : Nat, store : Nat]]
    /\ Limit \in [Customers -> Nat]
    /\ Approvers \subseteq Sessions

VARIABLES
    sale,           \* Sale with its line, payments and returns, or NoRow
    account,        \* per customer: balance (owed) and store credit
    collected,      \* per customer: the sum of the collections on account
    req,            \* per session: the request it executes, or NoRow
    read            \* per session: the rows it locked, as it read them

salesVars == <<sale, account, collected, req, read>>
vars == <<want, held, sale, account, collected, req, read>>

Statuses == {"completed", "partial", "credit", "voided", "part_returned", "returned"}

\* credit, store, later and applied are history: how the sale was paid for at
\* the counter and afterwards, and how much of its refunds lowered the balance.
\* restored is what went back to stock.
Sale == [customer : Customers, qty : Nat \ {0}, total : Nat, paid : Nat, status : Statuses,
         returned : Nat, money : Nat, toStore : Nat, toAccount : Nat, restored : Nat,
         credit : Nat, store : Nat, later : Nat, applied : Nat]

Account == [owed : Int, store : Int]

Methods == {"money", "store", "account"}
SellRequest == [op : {"sell"}, sale : Sales, customer : Customers, cart : Carts,
                credit : Nat, store : Nat]
PayRequest == [op : {"pay"}, sale : Sales, amount : Nat]
VoidRequest == [op : {"void"}, sale : Sales]
ReturnRequest == [op : {"return"}, sale : Sales, qty : Nat, method : Methods,
                  restock : BOOLEAN]
CollectRequest == [op : {"collect"}, customer : Customers, amount : Nat]
Request == SellRequest \cup PayRequest \cup VoidRequest \cup ReturnRequest
           \cup CollectRequest

\* An empty place is neither a sale nor a request.
ASSUME NoRowIsEmpty == NoRow \notin Sale \cup Request

Unread == [sale |-> NoRow, account |-> NoRow]

Init ==
    /\ InitLocks
    /\ sale = [x \in Sales |-> NoRow]
    /\ account = Opening
    /\ collected = [c \in Customers |-> 0]
    /\ req = [s \in Sessions |-> NoRow]
    /\ read = [s \in Sessions |-> Unread]

-----------------------------------------------------------------------------
(* Requests and their locks                                                *)

\* select_related makes the write of a sale lock its business and branch, too,
\* and for voids and returns its customer; add_sale_payment reaches the
\* customer with its UPDATE.  complete_sale locks the business when it numbers
\* the invoice; a collection's receipt refers to the branch.
LocksOf(q) ==
    CASE q.op = "sell" -> << "branch", q.customer, "business" >>
      [] q.op = "collect" -> << "business", q.customer, "branch" >>
      [] OTHER -> << q.sale, "business", "branch", sale[q.sale].customer >>

Start(s, q) ==
    /\ req[s] = NoRow
    /\ req' = [req EXCEPT ![s] = q]
    /\ Ask(s, LocksOf(q))
    /\ UNCHANGED <<sale, account, collected, read>>

\* The cashier splits the total into money, credit and store credit.
StartSell(s) == \E x \in Sales, c \in Customers, k \in Carts :
    /\ sale[x] = NoRow
    /\ \A r \in Sessions : req[r] # NoRow => ~ (req[r].op = "sell" /\ req[r].sale = x)
    /\ \E credit \in 0 .. k.total : \E store \in 0 .. (k.total - credit) :
          Start(s, [op |-> "sell", sale |-> x, customer |-> c, cart |-> k,
                    credit |-> credit, store |-> store])

StartPay(s) == \E x \in Sales, a \in Amounts :
    /\ sale[x] # NoRow
    /\ Start(s, [op |-> "pay", sale |-> x, amount |-> a])

StartVoid(s) == \E x \in Sales :
    /\ sale[x] # NoRow
    /\ Start(s, [op |-> "void", sale |-> x])

StartReturn(s) == \E x \in Sales, m \in Refunds, restock \in BOOLEAN :
    /\ sale[x] # NoRow
    /\ \E n \in 1 .. sale[x].qty :
          Start(s, [op |-> "return", sale |-> x, qty |-> n, method |-> m,
                    restock |-> restock])

StartCollect(s) == \E c \in Customers, a \in Amounts :
    Start(s, [op |-> "collect", customer |-> c, amount |-> a])

Lock(s) ==
    /\ Take(s)
    /\ LET row == Head(want[s])
       IN  read' = [read EXCEPT ![s] =
                      [sale |-> IF row \in Sales THEN sale[row] ELSE @.sale,
                       account |-> IF row \in Customers THEN account[row] ELSE @.account]]
    /\ UNCHANGED <<sale, account, collected, req>>

-----------------------------------------------------------------------------
(* What a request decides from what it read                                *)

\* Sale.balance: net_total - net_amount_paid, where a refund in money or store
\* credit counts on both sides.
TotalUnpaid(x) == x.total
Balance(x) == (x.total - (x.money + x.toStore + x.toAccount)) - (x.paid - (x.money + x.toStore))

\* money(): ROUND_HALF_UP of a quotient of naturals.
RoundHalfUp(n, d) == (2 * n + d) \div (2 * d)
RefundOfTheRest(x, n) == RoundHalfUp(x.total, x.qty - x.returned) * n
Refund(x, n) == RoundHalfUp(x.total, x.qty) * n

CanSell(s, q, a) ==
    /\ q.credit > 0 => \/ Limit[q.customer] = 0
                       \/ a.owed + q.credit <= Limit[q.customer]
                       \/ s \in Approvers
    /\ q.store <= a.store

CanPay(q, x) ==
    /\ x.status # "voided"
    /\ q.amount <= Balance(x)

VoidAfterReturn(x) == x.status # "voided"
CanVoid(x) == x.status # "voided" /\ x.returned = 0

CanReturn(q, x) ==
    /\ x.status # "voided"
    /\ q.qty <= x.qty - x.returned
    /\ Refund(x, q.qty) > 0

CanCollect(q, a) == q.amount <= a.owed

Accepted(s) == LET q == req[s]
               IN  CASE q.op = "sell" -> CanSell(s, q, read[s].account)
                     [] q.op = "pay" -> CanPay(q, read[s].sale)
                     [] q.op = "void" -> CanVoid(read[s].sale)
                     [] q.op = "return" -> CanReturn(q, read[s].sale)
                     [] q.op = "collect" -> CanCollect(q, read[s].account)

-----------------------------------------------------------------------------
(* What it writes                                                          *)

Least(a, b) == IF a <= b THEN a ELSE b
Positive(n) == IF n > 0 THEN n ELSE 0

\* UPDATE ... SET balance = balance + delta, and the same for store credit.
Shift(c, owed, store) == [account EXCEPT ![c].owed = @ + owed, ![c].store = @ + store]

SoldStatus(q) == IF q.credit = 0 THEN "completed"
                 ELSE IF q.credit >= q.cart.total THEN "credit" ELSE "partial"

Sell(s) == LET q == req[s] IN
    /\ q.op = "sell"
    /\ sale' = [sale EXCEPT ![q.sale] =
                  [customer |-> q.customer, qty |-> q.cart.qty, total |-> q.cart.total,
                   paid |-> q.cart.total - q.credit, status |-> SoldStatus(q),
                   returned |-> 0, money |-> 0, toStore |-> 0, toAccount |-> 0,
                   restored |-> 0, credit |-> q.credit, store |-> q.store, later |-> 0,
                   applied |-> 0]]
    /\ account' = Shift(q.customer, q.credit, - q.store)
    /\ UNCHANGED collected

Pay(s) == LET q == req[s]
              x == read[s].sale
          IN
    /\ q.op = "pay"
    /\ sale' = [sale EXCEPT ![q.sale] =
                  [x EXCEPT !.paid = @ + q.amount, !.later = @ + q.amount,
                            !.status = IF @ \notin {"credit", "partial"} THEN @
                                       ELSE IF Balance(x) <= q.amount THEN "completed"
                                       ELSE "partial"]]
    /\ account' = Shift(x.customer, - q.amount, 0)
    /\ UNCHANGED collected

\* What is still unpaid comes off the balance, store credit is given back.
CreditAtSale(x) == x.credit
CreditPaid(x) == x.total - x.paid

Void(s) == LET q == req[s]
               x == read[s].sale
           IN
    /\ q.op = "void"
    /\ sale' = [sale EXCEPT ![q.sale] =
                  [x EXCEPT !.status = "voided", !.restored = @ + x.qty]]
    /\ account' = Shift(x.customer, - Positive(CreditPaid(x)), x.store)
    /\ UNCHANGED collected

\* A refund to the account lowers the balance as far as it goes; the rest
\* becomes store credit.
Applied(owed, refund) == Least(owed, refund)

Return(s) == LET q == req[s]
                 x == read[s].sale
                 refund == Refund(x, q.qty)
                 applied == IF q.method = "account"
                            THEN Applied(account[x.customer].owed, refund) ELSE 0
             IN
    /\ q.op = "return"
    /\ sale' = [sale EXCEPT ![q.sale] =
                  [x EXCEPT !.returned = @ + q.qty,
                            !.restored = IF q.restock THEN @ + q.qty ELSE @,
                            !.money = IF q.method = "money" THEN @ + refund ELSE @,
                            !.toStore = IF q.method = "store" THEN @ + refund ELSE @,
                            !.toAccount = IF q.method = "account" THEN @ + refund ELSE @,
                            !.applied = @ + Positive(applied),
                            !.status = IF x.returned + q.qty >= x.qty THEN "returned"
                                       ELSE "part_returned"]]
    /\ account' = Shift(x.customer, - Positive(applied),
                        CASE q.method = "money" -> 0
                          [] q.method = "store" -> refund
                          [] q.method = "account" -> Positive(refund - applied))
    /\ UNCHANGED collected

\* The customer row is written back with the balance it was read with.
Collect(s) == LET q == req[s] IN
    /\ q.op = "collect"
    /\ account' = [account EXCEPT ![q.customer].owed = read[s].account.owed - q.amount]
    /\ collected' = [collected EXCEPT ![q.customer] = @ + q.amount]
    /\ UNCHANGED sale

-----------------------------------------------------------------------------
Done(s) ==
    /\ req' = [req EXCEPT ![s] = NoRow]
    /\ read' = [read EXCEPT ![s] = Unread]
    /\ Release(s)

Ready(s) == req[s] # NoRow /\ want[s] = <<>>

Commit(s) ==
    /\ Ready(s)
    /\ Accepted(s)
    /\ Sell(s) \/ Pay(s) \/ Void(s) \/ Return(s) \/ Collect(s)
    /\ Done(s)

Abort(s) ==
    /\ req[s] # NoRow
    /\ Done(s)
    /\ UNCHANGED <<sale, account, collected>>

\* The request raises SaleError or ValidationError.
Refuse(s) == Ready(s) /\ ~ Accepted(s) /\ Abort(s)

DeadlockVictim(s) == Deadlocked(s) /\ Abort(s)

\* The worker or its connection dies before COMMIT.
Crash(s) == Abort(s)

StartRequest(s) ==
    StartSell(s) \/ StartPay(s) \/ StartVoid(s) \/ StartReturn(s) \/ StartCollect(s)

Next == \E s \in Sessions :
    StartRequest(s) \/ Lock(s) \/ Commit(s) \/ Refuse(s) \/ DeadlockVictim(s) \/ Crash(s)

Spec == Init /\ [][Next]_vars

\* A waiting transaction gets the lock in its turn (PostgreSQL queues them), a
\* request that can go on does, and the deadlock check runs.
Fairness == \A s \in Sessions :
    /\ SF_vars(Lock(s))
    /\ WF_vars(Commit(s) \/ Refuse(s))
    /\ WF_vars(DeadlockVictim(s))

FairSpec == Spec /\ Fairness

-----------------------------------------------------------------------------
(* Properties                                                              *)

TypeOK ==
    /\ LocksTypeOK
    /\ sale \in [Sales -> Sale \cup {NoRow}]
    /\ account \in [Customers -> Account]
    /\ collected \in [Customers -> Nat]
    /\ req \in [Sessions -> Request \cup {NoRow}]
    /\ read \in [Sessions -> [sale : Sale \cup {NoRow}, account : Account \cup {NoRow}]]

Existing == {x \in Sales : sale[x] # NoRow}
SalesOf(c) == {x \in Existing : sale[x].customer = c}

\* Goods come back once.  A void and a return, or two returns, that run at the
\* same time never put more into stock than was sold, and a voided sale has no
\* returns (sales/services.py, void_sale and process_return).
GoodsBackOnce == \A x \in Existing :
    /\ sale[x].restored <= sale[x].qty
    /\ sale[x].returned <= sale[x].qty
    /\ sale[x].status = "voided" => sale[x].returned = 0

\* However many payments arrive at once, a sale never takes more than its total
\* (add_sale_payment: "Payment exceeds the outstanding balance").
NeverOverpaid == \A x \in Existing : sale[x].paid <= sale[x].total

\* Store credit is money: it is never spent twice, at two tills or by a sale
\* that races a void or a return (complete_sale: "Customer does not have enough
\* store credit").
StoreCreditNotOverdrawn == \A c \in Customers : account[c].store >= 0

\* Concurrent requests keep an account between its two bounds: what fits once is
\* not spent or owed twice, and what takes a balance beyond the credit limit is a
\* sale by an approver (complete_sale, credit validation).
AccountsInBounds ==
    [][ /\ StoreCreditNotOverdrawn'
        /\ \A c \in Customers :
              Limit[c] > 0 /\ account'[c].owed > account[c].owed
                  => \/ account'[c].owed <= Limit[c]
                     \/ \E s \in Approvers : req[s] # NoRow /\ req'[s] = NoRow]_vars

\* What a sale contributes to its customer's balance.
Owing(x) == IF sale[x].status = "voided" THEN 0
            ELSE sale[x].credit - sale[x].later - sale[x].applied

\* No update of the balance is lost and a void takes back exactly what the sale
\* still added: the balance is what the sales, payments, returns and collections
\* that exist add up to (apply_balance_change beside the absolute write of
\* record_customer_payment).
BalanceAddsUp == \A c \in Customers :
    account[c].owed = Opening[c].owed + MapThenSumSet(Owing, SalesOf(c)) - collected[c]

\* Every request comes to an end, although requests take the business, the
\* branch and the customer in different orders.
RequestsEnd == \A s \in Sessions : req[s] # NoRow ~> req[s] = NoRow

\* The unpaid portion of a sale sits on the customer's balance: a customer never
\* owes a negative amount (add_sale_payment's docstring; Customer.balance).
OwedNotNegative == \A c \in Customers : account[c].owed >= 0

\* The closing balance of the account statement, _statement_entries: what each
\* sale left unpaid in real money, minus collections and account refunds.
Unpaid(x) == IF sale[x].status = "voided" THEN 0
             ELSE sale[x].total - (sale[x].paid - sale[x].store) - sale[x].toAccount
Statement(c) == Opening[c].owed + MapThenSumSet(Unpaid, SalesOf(c)) - collected[c]

\* The customer's statement ends with the customer's balance.  False: it counts store
\* credit that was tendered as unpaid.
StatementMatchesBalance == \A c \in Customers : Statement(c) = account[c].owed

\* Returns are refunded in proportion: whatever a line was returned in, the
\* refunds are off by at most half a money unit for each unit returned, the
\* rounding of the refund per unit (process_return, "Refund proportionally").
RefundsProportional == \A x \in Existing :
    LET refunds == sale[x].money + sale[x].toStore + sale[x].toAccount
        share == sale[x].total * sale[x].returned
        slack == sale[x].qty * sale[x].returned
    IN  /\ 2 * (sale[x].qty * refunds - share) <= slack
        /\ 2 * (share - sale[x].qty * refunds) <= slack
=============================================================================
