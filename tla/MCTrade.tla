------------------------------ MODULE MCTrade ------------------------------
(***************************************************************************)
(* The instances of Purchases, Checkout, ExpenseFlow and CashDrawer for    *)
(* TLC.  They share only the machinery of requests, so that one behaviour  *)
(* plays in one part of the shop, which the initial state picks.           *)
(***************************************************************************)
EXTENDS Purchases, Checkout, ExpenseFlow, CashDrawer, TLC

CONSTANTS t1, t2, p1, tab1, tab2, b1, b2, h1, e1, f1, m1,
          reg1, reg2, shift1, shift2, sale1, cost1, ann, front, back

VARIABLE part

MCOrders == {[lines |-> << [qty |-> 2, cost |-> 1] >>, charges |-> 1]}

MCCarts == {[goods |-> g, customer |-> g] : g \in {1, 2}}
MCCashier == tab1 :> "ann" @@ tab2 :> "ann"
MCBranch == tab1 :> b1 @@ tab2 :> b2
MCOpening == b1 :> "A" @@ b2 :> None

MCFixedOrder == << f1 >>

MCLockable == {Business, Supplier, p1, b1, b2, h1, e1, f1, << f1, m1 >>}

Symmetric == Permutations({t1, t2}) \cup Permutations(Registers)
             \cup Permutations(Shifts) \cup Permutations(Sites)

MCVars == <<part, webVars, purchaseVars, checkoutVars, expenseVars, vars>>

MCInit ==
    /\ part \in {"purchases", "numbers", "parked", "entered", "fixed", "drawer"}
    /\ PurchasesInit /\ CheckoutInit /\ ExpensesInit /\ Init

Selling2 == CheckoutNext /\ UNCHANGED <<purchaseVars, expenseVars>>
Spending2 == ExpensesNext /\ UNCHANGED <<purchaseVars, checkoutVars>>
Trading2 ==
    \/ part = "purchases" /\ PurchasesNext /\ UNCHANGED <<checkoutVars, expenseVars>>
    \/ part = "numbers" /\ Selling2 /\ UNCHANGED parked
    \/ part = "parked" /\ Selling2 /\ UNCHANGED renames
    \/ part = "entered" /\ Spending2 /\ UNCHANGED template
    \/ part = "fixed" /\ Spending2 /\ expense'[e1] = None

\* Renamed prefixes are tried without parked carts, expenses entered by hand
\* without generated ones, and the other way round.
MCNext ==
    /\ UNCHANGED part
    /\ \/ Trading2 /\ UNCHANGED vars
       \/ /\ part = "drawer" /\ Next
          /\ UNCHANGED <<webVars, purchaseVars, checkoutVars, expenseVars>>

MCSpec == MCInit /\ [][MCNext]_MCVars

-----------------------------------------------------------------------------
\* Registers that move and cash that flows are looked at one at a time.
Unmoved == \E b \in Sites :
    /\ \A r \in Registers : register[r].branch = b
    /\ \A s \in Opened : shift[s].branch = b
    /\ \A u \in Requests : task[u] # NoRow => task[u].op # "edit"
NoCash == /\ \A x \in Sales : sale[x] = "none"
          /\ \A e \in Expenses : cashExpense[e] = NoRow
          /\ \A s \in Shifts : cash[s].other = 0
SoldOrSpent == (\A x \in Sales : sale[x] = "none") \/ (\A e \in Expenses : cashExpense[e] = NoRow)
OneAtATime == (Unmoved /\ SoldOrSpent) \/ NoCash
=============================================================================
